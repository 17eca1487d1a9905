-------------------------------- MODULE Ring --------------------------------
(***************************************************************************)
(* core/ring.py: the circular buffer of closed bars of one timeframe.  The *)
(* slots start out as zeros; n counts every bar ever written, so the write *)
(* cursor is n % Capacity.  A bar is its opening minute, the minutes it    *)
(* was made of (which determine its prices) and its gap flag.              *)
(***************************************************************************)
EXTENDS Integers, Sequences

CONSTANT Capacity

ASSUME CapacityAssumption == Capacity \in Nat /\ Capacity >= 2

None == -1

Bar(ts, src, gap) == [ts |-> ts, src |-> src, gap |-> gap]

EmptyRing == [slots |-> [i \in 0..(Capacity - 1) |-> Bar(0, {}, FALSE)], n |-> 0]

Size(r) == IF r.n < Capacity THEN r.n ELSE Capacity

LastTs(r) == IF r.n = 0 THEN None ELSE r.slots[(r.n - 1) % Capacity].ts

(* At least one bar is missing before b, in a ring whose bars are `step'
   minutes apart. *)
Discontinuous(r, b, step) == r.n > 0 /\ b.ts - LastTs(r) # step

(* append(), for a bar later than the last one: its callers in engine/live.py
   test that first, so its ValueErrors are not modelled. *)
(* Mutant: the gap is left for window() to find. *)
AppendedUnmarked(r, b, step) ==
  [slots |-> [r.slots EXCEPT ![r.n % Capacity] = b], n |-> r.n + 1]

Appended(r, b, step) ==
  [slots |-> [r.slots EXCEPT ![r.n % Capacity] =
                [b EXCEPT !.gap = @ \/ Discontinuous(r, b, step)]],
   n |-> r.n + 1]

(* The last k bars, oldest first. *)
Take(r, k) ==
  LET size == IF k < Size(r) THEN k ELSE Size(r)
  IN  [j \in 1..size |-> r.slots[(r.n - size + j - 1) % Capacity]]

(* window(): the real steps override what was noted when writing. *)
Window(r, k, step) ==
  LET w == Take(r, k)
  IN  [j \in DOMAIN w |->
         [w[j] EXCEPT !.gap = @ \/ (j > 1 /\ w[j].ts - w[j - 1].ts # step)]]
=============================================================================
