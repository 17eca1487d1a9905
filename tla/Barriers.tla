------------------------------ MODULE Barriers ------------------------------
(***************************************************************************)
(* The triple barrier (labeling/barriers.py).  A trade is [entry, stop,    *)
(* target, s], with s = 1 for a long and -1 for a short; a bar is [high,   *)
(* low, close].  Gains are price differences, R times the risk; the        *)
(* excursions are left out.                                                *)
(***************************************************************************)
EXTENDS Integers, Sequences, FiniteSetsExt

Distance(x, y) == IF x < y THEN y - x ELSE x - y

HitsTarget(t, b) == IF t.s = 1 THEN b.high >= t.target ELSE b.low <= t.target
HitsStop(t, b) == IF t.s = 1 THEN b.low <= t.stop ELSE b.high >= t.stop

(* The first of the first n bars that touches a barrier. *)
Touches(t, path, n) == {i \in 1..n : HitsTarget(t, path[i]) \/ HitsStop(t, path[i])}

Touched(t, b) ==
  IF HitsTarget(t, b) /\ HitsStop(t, b) THEN "both"
  ELSE IF HitsTarget(t, b) THEN "tp" ELSE "sl"

(* _break_tie: which came first inside a bar, if its own bars can tell. *)
BreakTie(t, inside) ==
  LET hits == Touches(t, inside, Len(inside))
  IN  IF hits = {} THEN "both" ELSE Touched(t, inside[Min(hits)])

(* Mutant: what nothing can tell was a profit. *)
UndecidedIsProfit(first) == IF first = "both" THEN "tp" ELSE first

(* What nothing can tell was a loss. *)
Undecided(first) == IF first = "both" THEN "sl" ELSE first

(* resolve_triple_barrier: over the bars after the entry, `inside' the bars
   each of them is made of, or << >>. *)
Resolve(t, path, inside, maxBars) ==
  LET n == Min({Len(path), maxBars})
      hits == Touches(t, path, n)
      i == Min(hits)
      first == IF Touched(t, path[i]) # "both" THEN Touched(t, path[i])
               ELSE BreakTie(t, inside[i])
      barrier == Undecided(first)
  IN  IF hits = {}
      THEN [barrier |-> "vertical", bars |-> n, ambiguous |-> FALSE,
            gain |-> IF n = 0 THEN 0 ELSE t.s * (path[n].close - t.entry)]
      ELSE [barrier |-> barrier, bars |-> i, ambiguous |-> first = "both",
            gain |-> IF barrier = "tp" THEN Distance(t.target, t.entry) ELSE -Distance(t.entry, t.stop)]

=============================================================================
