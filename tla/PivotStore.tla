----------------------------- MODULE PivotStore -----------------------------
(***************************************************************************)
(* The pivot store of waves/store.py and the pivots of core/types.py: an   *)
(* append-only list of confirmed pivots, plus at most one provisional      *)
(* pivot.  A reader gets the list only through as_of(now), which cuts it   *)
(* by confirmation time with a binary search.                              *)
(*                                                                         *)
(* Two operations raise ValueError on a bad argument.  A raise is modelled *)
(* by its guard (AppendRefused) being true: the caller decides what the    *)
(* exception leaves behind.                                                *)
(***************************************************************************)
EXTENDS Integers, Sequences

CONSTANT NoPivot      \* Python's None, where a pivot is expected

VARIABLES confirmed,  \* PivotStore._confirmed; _conf_ts is its confirmed_ts column
          provisional \* PivotStore._provisional

(* None in an optional integer field: indices and timestamps are natural. *)
None == -1

PivotKind == {"LOW", "HIGH"}

Opposite(kind) == IF kind = "HIGH" THEN "LOW" ELSE "HIGH"

PivotType == [idx : Nat, ts : Nat, price : Int, kind : PivotKind, thr : Nat,
              confirmed_idx : Nat \cup {None}, confirmed_ts : Nat \cup {None}]

ASSUME NoPivotAssumption == NoPivot \notin PivotType

(* A pivot as it is built: located, not yet confirmed. *)
Pivot(idx, ts, price, kind, thr) ==
  [idx |-> idx, ts |-> ts, price |-> price, kind |-> kind, thr |-> thr,
   confirmed_idx |-> None, confirmed_ts |-> None]

(* Mutant: the confirmation is dated where the pivot is drawn. *)
ConfirmedAtExtreme(p, idx, ts) ==
  [idx |-> p.idx, ts |-> p.ts, price |-> p.price, kind |-> p.kind, thr |-> p.thr,
   confirmed_idx |-> idx, confirmed_ts |-> p.ts]

(* The confirmed version of a pivot: a new value, its location untouched. *)
ConfirmedAt(p, idx, ts) ==
  [idx |-> p.idx, ts |-> p.ts, price |-> p.price, kind |-> p.kind, thr |-> p.thr,
   confirmed_idx |-> idx, confirmed_ts |-> ts]

IsConfirmed(p) == p.confirmed_idx # None

StoreInit == confirmed = << >> /\ provisional = NoPivot

(* append_confirmed raises: not confirmed, confirmed out of order, or out of
   positional order. *)
AppendRefused(p) ==
  \/ ~IsConfirmed(p)
  \/ /\ confirmed # << >>
     /\ LET last == confirmed[Len(confirmed)]
        IN  p.confirmed_ts < last.confirmed_ts \/ p.idx <= last.idx

append_confirmed(p) == confirmed' = Append(confirmed, p)

set_provisional(p) == provisional' = p

(* Mutant: bisect_left, so a pivot is not known on the bar that confirms it. *)
CutsLeft(history, now) ==
  {k \in 0..Len(history) :
     /\ \A j \in 1..k : history[j].confirmed_ts < now
     /\ \A j \in (k + 1)..Len(history) : history[j].confirmed_ts >= now}

(* Where `now' falls in a history sorted by confirmation time: the pivots up
   to the cut were known at now, the ones after it were not. *)
Cuts(history, now) ==
  {k \in 0..Len(history) :
     /\ \A j \in 1..k : history[j].confirmed_ts <= now
     /\ \A j \in (k + 1)..Len(history) : history[j].confirmed_ts > now}

(* bisect_right finds the only cut of a sorted history. *)
NAsOf(history, now) == CHOOSE k \in Cuts(history, now) : TRUE

AsOf(history, now) == SubSeq(history, 1, NAsOf(history, now))

(* Mutant: the provisional pivot is given out whatever the instant asked for. *)
ProvisionalAlways(prov, now) == prov

(* The provisional pivot, if its extreme had already happened at now. *)
ProvisionalAsOf(prov, now) ==
  IF prov = NoPivot THEN NoPivot ELSE IF prov.ts > now THEN NoPivot ELSE prov
=============================================================================
