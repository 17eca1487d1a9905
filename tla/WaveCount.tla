------------------------------ MODULE WaveCount ------------------------------
(***************************************************************************)
(* The counts: Elliott's rules (waves/rules.py) and the matcher that looks *)
(* for impulses among the confirmed pivots (waves/matcher.py).  A pivot is *)
(* [kind, price], prices in integers.  A hypothesis holds its vertices P0, *)
(* P1, ... as points[1], points[2], ..., s = 1 for a rising impulse and -1 *)
(* for a falling one, and where in the sequence its last vertex stands.    *)
(*                                                                         *)
(* The guidelines are scored with a tent where the code has a gaussian:    *)
(* both fall with the distance from the ideal ratio.                       *)
(***************************************************************************)
EXTENDS Integers, Sequences, FiniteSets

CONSTANTS MaxFromEdge, \* max_from_edge: 3
          TopN         \* top_n: 4

ASSUME MatcherAssumption == MaxFromEdge \in Nat /\ TopN \in Nat

Size(x) == IF x < 0 THEN -x ELSE x
Larger(a, b) == IF a >= b THEN a ELSE b
Smaller(a, b) == IF a <= b THEN a ELSE b

-----------------------------------------------------------------------------
(***************************************************************************)
(* check_impulse.  A rule about a wave that is not there yet holds.        *)
(***************************************************************************)
(* Wave 2 never retraces all of wave 1. *)
R1(h) == h.s * h.points[3] > h.s * h.points[1]

(* Wave 3 goes beyond the end of wave 1. *)
R2b(h) == Len(h.points) >= 4 => h.s * h.points[4] > h.s * h.points[2]

(* Wave 4 does not enter the territory of wave 1. *)
R3(h) == Len(h.points) >= 5 => h.s * h.points[5] > h.s * h.points[2]

(* Wave 3 is never the shortest. *)
R2(h) ==
  Len(h.points) = 6 =>
    LET wave(n) == Size(h.points[n + 1] - h.points[n])
    IN  ~(wave(3) < wave(1) /\ wave(3) < wave(5))

Valid(h) == R1(h) /\ R2b(h) /\ R3(h) /\ R2(h)

(* The price at which the structure is false. *)
Invalidation(h) == IF Len(h.points) = 3 THEN h.points[1] ELSE h.points[2]

(* The entry a state offers: none inside wave 3, nor in the code for "abc". *)
Archetype(h) ==
  CASE Len(h.points) = 3 -> "w2"
    [] Len(h.points) = 4 -> "none"
    [] Len(h.points) = 5 -> "w4"
    [] OTHER -> "abc"

-----------------------------------------------------------------------------
(***************************************************************************)
(* match_impulses, score_guidelines.                                       *)
(***************************************************************************)
(* The last k of the first `end' pivots.  The first one gives the direction. *)
Reading(pivots, k, end) ==
  [points |-> [j \in 1..k |-> pivots[end - k + j].price],
   s |-> IF pivots[end - k + 1].kind = "LOW" THEN 1 ELSE -1,
   end |-> end]

(* Consecutive pivots, ending near the edge. *)
Readings(pivots) ==
  LET n == Len(pivots)
  IN  {Reading(pivots, c[1], c[2]) : c \in {d \in (3..6) \X (1..n) :
                                              d[1] <= d[2] /\ n - MaxFromEdge <= d[2]}}

Counts(pivots) == {h \in Readings(pivots) : Valid(h)}

(* Ratios in thousandths, closeness out of a thousand. *)
Ratio(h, n) ==
  LET wave == Size(h.points[n + 1] - h.points[n])
      before == Size(h.points[n] - h.points[n - 1])
  IN  IF before = 0 THEN 0 ELSE (1000 * wave) \div before
Near(x, mu, width) == Larger(0, 1000 - (1000 * Size(x - mu)) \div width)

Score(h) ==
  LET n == Len(h.points)
      w2 == Near(Ratio(h, 2), 618, 540)
      ext == (1000 * Size(h.points[4] - h.points[3])) \div Larger(1, Size(h.points[2] - h.points[1]))
      w3 == Larger(Near(ext, 1618, 1350), Near(ext, 2618, 1650))
      w4 == Near(Ratio(h, 4), 382, 450)
      alternation == Smaller(1000, ((10 * Size(Ratio(h, 2) - Ratio(h, 4))) \div 3))
  IN  CASE n = 3 -> 10 * w2
        [] n = 4 -> 5 * w2 + 5 * w3
        [] OTHER -> 3 * w2 + 3 * w3 + 2 * w4 + 2 * alternation

(* By score, then the more complete, then the one nearer the edge. *)
Better(g, h) ==
  LET a == Score(g)
      b == Score(h)
  IN  \/ a > b
      \/ a = b /\ Len(g.points) > Len(h.points)
      \/ a = b /\ Len(g.points) = Len(h.points) /\ g.end > h.end

match_impulses(pivots) ==
  LET counts == Counts(pivots)
  IN  {h \in counts : Cardinality({g \in counts : Better(g, h)}) < TopN}

=============================================================================
