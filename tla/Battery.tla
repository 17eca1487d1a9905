------------------------------ MODULE Battery ------------------------------
(***************************************************************************)
(* validation/battery.py and the two helpers it shares with evaluate.py    *)
(* and reality_check.py.  A run is given the closes and the times of the   *)
(* bars and the position held from each close to the next.  Prices are     *)
(* logarithms, so a return is a difference and a yield a sum; the annual   *)
(* growth a yield amounts to is a parameter, Rate.  The random filters are *)
(* external: whether the strategy beat 95% of them is given.               *)
(***************************************************************************)
EXTENDS Integers, Sequences, FiniteSetsExt

CONSTANTS
    Rate(_, _),     \* the annual growth of a yield made over so many bars
    Cost,           \* cost_bps, per unit of turnover
    Segments,       \* folds of the walk-forward
    Horizon,        \* horizon_bars
    MinSignals,     \* 20: bars with a position for the base rate to be judged
    MinUnseen,     \* 100: bars out of sample for the walk-forward to be judged
    MinEpisodes     \* 30: independent episodes asked for

ASSUME BatteryAssumption ==
    /\ Cost \in Nat
    /\ Segments \in Nat \ {0, 1}
    /\ Horizon \in Nat \ {0}
    /\ {MinSignals, MinUnseen, MinEpisodes} \subseteq Nat

Magnitude(x) == IF x < 0 THEN -x ELSE x
SumOver(Term(_), S) == MapThenSumSet(Term, S)

(* The returns of the closes c, and the yield of holding w over the bars I *)
(* of them.                                                                *)
Returns(c) == [i \in 1..(Len(c) - 1) |-> c[i + 1] - c[i]]
Market(r, I) == SumOver(LAMBDA i : r[i], I)
Yield(r, w, I) ==
    SumOver(LAMBDA i : r[i] * w[i]
                - Cost * Magnitude(w[i] - (IF \E j \in I : j < i THEN w[Max({j \in I : j < i})] ELSE 0)), I)

(* 1. The same positions one bar late.                                     *)
Delayed(w) == [i \in DOMAIN w |-> IF i = 1 THEN 0 ELSE w[i - 1]]

(* A ratio of at least a half, as the quotient of two excesses says it:    *)
(* when the reference is negative, the worse the better.                   *)
KeepsHalf(exc, kept) == IF exc > 0 THEN 2 * kept >= exc ELSE 2 * kept <= exc

(* What a yield and the market's differ in, as annual growth.              *)
Excess(yield, r, I) == Rate(yield, Cardinality(I)) - Rate(Market(r, I), Cardinality(I))

DelayTest(r, w) ==
    LET exc == Excess(Yield(r, w, DOMAIN r), r, DOMAIN r)
        late == Excess(Yield(r, Delayed(w), DOMAIN r), r, DOMAIN r)
    IN  IF exc = 0 \/ KeepsHalf(exc, late) THEN "pass" ELSE "fail"

(* 2. The mean forward return of the bars held against that of all bars.   *)
BaseRateTest(r, w) ==
    LET fwd(i) == SumOver(LAMBDA j : r[j], (i + 1)..(i + Horizon))
        known == {i \in DOMAIN r : i + Horizon \in DOMAIN r}
        held == {i \in known : w[i] # 0}
    IN  IF Cardinality(held) < MinSignals THEN "inconclusive"
        ELSE IF Cardinality(known) * SumOver(LAMBDA i : w[i] * fwd(i), held)
                > Cardinality(held) * SumOver(fwd, known) THEN "pass" ELSE "fail"

(* 4. The walk-forward: every segment but the first, less a horizon at its *)
(* start.  Positions count from 1.                                         *)
SegmentStart(k, n) == k * (n \div Segments)
Segment(k, n) ==
    {i \in 1..n : /\ i > SegmentStart(k, n) + Horizon
                  /\ i <= Min({SegmentStart(k + 1, n), n})}
OutOfSample(n) == UNION {Segment(k, n) : k \in 1..(Segments - 1)}

OutOfSampleTest(r, w) ==
    LET oos == OutOfSample(Len(r))
        exc == Excess(Yield(r, w, DOMAIN r), r, DOMAIN r)
        kept == Excess(Yield(r, w, oos), r, oos)
    IN  IF Cardinality(oos) <= MinUnseen \/ exc <= 0 THEN "inconclusive"
        ELSE IF KeepsHalf(exc, kept) THEN "pass" ELSE "fail"

(* Mutant: every observation moves the window, counted or not. *)
EffectiveNSliding(at, held, window) ==
    Cardinality({i \in held : \A j \in held : j < i => at[i] - at[j] >= window})

(* 5. effective_n: a scan that counts a bar of `held' when it is a window  *)
(* away from the last one it counted.  Bar i opens at at[i].               *)
EffectiveN(at, held, window) ==
    LET N == Max({0} \cup held)
        scan[i \in 0..N] ==
            IF i = 0 THEN [n |-> 0, last |-> 0]
            ELSE IF i \in held /\ (scan[i - 1].n = 0 \/ at[i] - at[scan[i - 1].last] >= window)
                 THEN [n |-> scan[i - 1].n + 1, last |-> i]
                 ELSE scan[i - 1]
    IN  scan[N].n

(* Mutant: the horizon the battery was given. *)
MeanDurationGiven(w) == Horizon

(* How many bars a position lasts on average, halves rounded to even.      *)
Held(w) == {i \in DOMAIN w : w[i] # 0}
Flips(w) == {i \in DOMAIN w : w[i] # (IF i = 1 THEN 0 ELSE w[i - 1])}
MeanDuration(w) ==
    LET runs == Max({1, Cardinality(Flips(w))})
        bars == Cardinality(Held(w))
        half == 2 * (bars % runs)
        up == half > runs \/ (half = runs /\ (bars \div runs) % 2 = 1)
    IN  Max({Horizon, bars \div runs + (IF up THEN 1 ELSE 0)})
Episodes(at, bar, w) == EffectiveN(at, Held(w), MeanDuration(w) * bar)

(* The verdict on bars of length `bar'.  A failed delay test settles it.   *)
Verdict(c, at, bar, pos, beatsRandom) ==
    LET r == Returns(c)
        w == [i \in DOMAIN r |-> pos[i]]
        failures == Cardinality({t \in 1..4 :
            \/ t = 1 /\ BaseRateTest(r, w) = "fail"
            \/ t = 2 /\ ~beatsRandom
            \/ t = 3 /\ OutOfSampleTest(r, w) = "fail"
            \/ t = 4 /\ Episodes(at, bar, w) < MinEpisodes})
    IN  IF DelayTest(r, w) = "fail" THEN "lookahead"
        ELSE IF failures >= 2 THEN "fails"
        ELSE IF failures = 1 THEN "doubtful" ELSE "survives"

=============================================================================
