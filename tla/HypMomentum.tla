---------------------------- MODULE HypMomentum ----------------------------
(***************************************************************************)
(* hypotheses/momentum.py: twelve momentum rules.  _base refuses a history *)
(* shorter than the longest look back of the rule.  The comment names the  *)
(* columns of a bar.                                                       *)
(***************************************************************************)
EXTENDS HypSeries

(* close: the return from twelve months ago to one month ago *)
Tsmom12m1(s) ==
    LET recent(i) == Lag(s, 1, 30, i)
        old(i) == Lag(s, 1, 360, i)
    IN  Warm(420, IfLong(s, 391, Mark(s, 1, LAMBDA i : Gt(recent(i), old(i)),
                                            LAMBDA i : Lt(recent(i), old(i)))))

(* ROC 30, ROC 90, ROC 180 *)
TsmomConsensus(s) ==
    Warm(240, IfLong(s, 181, Mark(s, 1, LAMBDA i : \A k \in 1..3 : Gt(s[i][k], 0),
                                        LAMBDA i : \A k \in 1..3 : Lt(s[i][k], 0))))

(* ROC 10 *)
RocShort(s) == Warm(200, IfLong(s, 11, Sign(s, 1, Always)))

(* ROC 20 per candle, ROC 10 per candle *)
RocTermStructure(s) ==
    Warm(200, IfLong(s, 21, Mark(s, 1, LAMBDA i : Gt(s[i][1], 0) /\ Gt(s[i][2], s[i][1]),
                                       LAMBDA i : Lt(s[i][1], 0) /\ Lt(s[i][2], s[i][1]))))

(* Awesome Oscillator: SMA 5 less SMA 34 of the median price *)
AoSign(s) == Warm(200, IfLong(s, 35, Sign(s, 1, Always)))

(* The first extreme of column 1 among the bars i-100 .. i-10, 0 when the  *)
(* window is not complete.                                                 *)
PriorExtreme(s, v, i) ==
    LET window == (i - Span(100))..(i - Span(10))
    IN  IF i <= Span(100) \/ Shorter(s, 101) THEN 0
        ELSE Min({j \in window : \A k \in window : ~Beyond(v, s[k][1], s[j][1])})

(* close, AO: a new extreme that the oscillator confirms.                  *)
AoConfirms(s) ==
    LET top(i) == PriorExtreme(s, 1, i)
        low(i) == PriorExtreme(s, -1, i)
    IN  Warm(200, IfLong(s, 135, Mark(s, 1,
            LAMBDA i : top(i) > 0 /\ Gt(s[i][1], s[top(i)][1])
                       /\ Gt(s[i][2], s[top(i)][2]) /\ Gt(s[i][2], 0),
            LAMBDA i : low(i) > 0 /\ Lt(s[i][1], s[low(i)][1])
                       /\ Lt(s[i][2], s[low(i)][2]) /\ Lt(s[i][2], 0))))

(* close, AO: a new extreme it does not confirm, both peaks on one side.   *)
AoDivergence(s) ==
    LET top(i) == PriorExtreme(s, 1, i)
        low(i) == PriorExtreme(s, -1, i)
    IN  Warm(200, IfLong(s, 135, Mark(s, -1,
            LAMBDA i : top(i) > 0 /\ Gt(s[i][1], s[top(i)][1]) /\ Lt(s[i][2], s[top(i)][2])
                       /\ Gt(s[i][2], 0) /\ Gt(s[top(i)][2], 0),
            LAMBDA i : low(i) > 0 /\ Lt(s[i][1], s[low(i)][1]) /\ Gt(s[i][2], s[low(i)][2])
                       /\ Lt(s[i][2], 0) /\ Lt(s[low(i)][2], 0))))

(* slope of a 20-bar regression on the log price: its sign, when it has    *)
(* grown in that sense since the window before                             *)
LinregAcceleration(s) ==
    LET before(i) == Lag(s, 1, 20, i)
    IN  Warm(200, IfLong(s, 42, Mark(s, 1,
            LAMBDA i : Gt(s[i][1], 0) /\ Gt(s[i][1], before(i)),
            LAMBDA i : Lt(s[i][1], 0) /\ Lt(s[i][1], before(i)))))

(* rises among the last 20 bars against 14 (0), falls likewise *)
SignPersistence(s) ==
    Warm(200, IfLong(s, 22, Mark(s, 1, LAMBDA i : Ge(s[i][1], 0), LAMBDA i : Ge(s[i][2], 0))))

(* the net move over 10 bars, the efficiency ratio against 0.30, which is  *)
(* undefined where the path is null                                        *)
ErFiltered(s) == Warm(200, IfLong(s, 12, Sign(s, 1, LAMBDA i : Ge(s[i][2], 0))))

(* close, KAMA *)
KamaCross(s) == Warm(200, IfLong(s, 42, Versus(s, 1, Always)))

(* ROC 20, SMA 5 of the volume, SMA 20 of the volume *)
MomentumWithVolume(s) ==
    Warm(200, IfLong(s, 42, Sign(s, 1, LAMBDA i : Positive(s[i][3]) /\ Gt(s[i][2], s[i][3]))))

MomentumNames == {"tsmom_12_1", "tsmom_consensus", "roc10", "roc_term_structure", "ao_sign",
                  "ao_confirms", "ao_divergence", "linreg_acceleration", "sign_persistence",
                  "er_filtered", "kama_cross", "momentum_with_volume"}

MomentumSignals(h, s) ==
    CASE h = "tsmom_12_1" -> Tsmom12m1(s)
      [] h = "tsmom_consensus" -> TsmomConsensus(s)
      [] h = "roc10" -> RocShort(s)
      [] h = "roc_term_structure" -> RocTermStructure(s)
      [] h = "ao_sign" -> AoSign(s)
      [] h = "ao_confirms" -> AoConfirms(s)
      [] h = "ao_divergence" -> AoDivergence(s)
      [] h = "linreg_acceleration" -> LinregAcceleration(s)
      [] h = "sign_persistence" -> SignPersistence(s)
      [] h = "er_filtered" -> ErFiltered(s)
      [] h = "kama_cross" -> KamaCross(s)
      [] h = "momentum_with_volume" -> MomentumWithVolume(s)

=============================================================================
