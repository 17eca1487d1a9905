------------------------------ MODULE WavePlan ------------------------------
(***************************************************************************)
(* build_plan (waves/projection.py): the entry zone, the stop and the      *)
(* target of a hypothesis at a price, and the reasons to refuse it.  What  *)
(* is computed is in ten thousandths of the unit of prices.                *)
(***************************************************************************)
EXTENDS WaveCount

CONSTANT Tick \* tick_size, in ten thousandths

ASSUME TickAssumption == Tick \in Nat \ {0}

Fine(x) == 10000 * x

(* A retracement of the leg from a to b. *)
Retraced(a, b, ratio) == Fine(b) - (b - a) * ratio

Entered(h) == Archetype(h) \in {"w2", "w4"}

(* RETRACEMENTS and _fib_zone. *)
FibZone(h) ==
  LET P == h.points
      x == IF Archetype(h) = "w2" THEN Retraced(P[1], P[2], 5000) ELSE Retraced(P[3], P[4], 3820)
      y == IF Archetype(h) = "w2" THEN Retraced(P[1], P[2], 7860) ELSE Retraced(P[3], P[4], 5000)
  IN  [lo |-> Smaller(x, y), hi |-> Larger(x, y)]

(* The zone of wave 4 is cut where wave 1 ends. *)
Zone(h) ==
  LET z == FibZone(h)
  IN  IF Archetype(h) = "w2" THEN z
      ELSE IF h.s = 1 THEN [z EXCEPT !.lo = Larger(z.lo, 10005 * h.points[2])]
      ELSE [z EXCEPT !.hi = Smaller(z.hi, 9995 * h.points[2])]

(* targets[1], the one that is quoted and booked. *)
Target(h) ==
  LET P == h.points
  IN  IF Archetype(h) = "w2" THEN Fine(P[3]) + 16180 * (P[2] - P[1])
      ELSE Fine(P[5]) + 6180 * (P[4] - P[1])

Buffer(price, atr) == Larger(Larger(2500 * atr, 2 * Tick), 10 * price)

(* Mutant: the cushion is always taken below. *)
StopBelow(h, price, atr) == Fine(Invalidation(h)) - Buffer(price, atr)

(* The invalidation and a cushion. *)
Stop(h, price, atr) == Fine(Invalidation(h)) - h.s * Buffer(price, atr)
Risk(h, price, atr) == h.s * (Fine(price) - Stop(h, price, atr))

(* No refusal: the state offers an entry, its zone is not empty, the price
   is not past the stop, the market has a range, the stop is clear of it,
   and the fees, 7.5 bps a side, are at most a fifth of the risk. *)
Viable(h, price, atr) ==
  /\ Entered(h)
  /\ Zone(h).lo < Zone(h).hi
  /\ Risk(h, price, atr) > 0
  /\ atr > 0
  /\ 4 * Risk(h, price, atr) >= 3 * Fine(atr)
  /\ 15 * Fine(price) <= 2000 * Risk(h, price, atr)

InZone(h, price) == Zone(h).lo <= Fine(price) /\ Fine(price) <= Zone(h).hi

=============================================================================
