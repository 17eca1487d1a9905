---------------------------- MODULE HypReversion ----------------------------
(***************************************************************************)
(* hypotheses/mean_reversion.py: twelve fades.  The comment names the      *)
(* columns of a bar.                                                       *)
(***************************************************************************)
EXTENDS HypSeries

(* close, upper, lower Bollinger band *)
BbFade(s) == Warm(200, Outside(s, Always))

(* close, upper, lower, middle band: in when the close comes back inside,  *)
(* out at the middle; the exit is judged first and the bar may enter again.*)
BbReentry(s) ==
    LET ok(i) == /\ i > 1
                 /\ \A k \in 2..4 : Defined(s[i][k])
                 /\ \A k \in 2..3 : Defined(s[i - 1][k])
        Exits(p, i) == (p = 1 /\ Ge(s[i][1], s[i][4])) \/ (p = -1 /\ Le(s[i][1], s[i][4]))
        Entry(i) == IF Lt(s[i - 1][1], s[i - 1][3]) /\ Ge(s[i][1], s[i][3]) THEN 1
                    ELSE IF Gt(s[i - 1][1], s[i - 1][2]) /\ Le(s[i][1], s[i][2]) THEN -1 ELSE 0
        pos[i \in 0..Len(s)] ==
            IF i = 0 \/ ~ok(i) THEN 0
            ELSE IF pos[i - 1] = 0 \/ Exits(pos[i - 1], i) THEN Entry(i) ELSE pos[i - 1]
    IN  Warm(200, [i \in DOMAIN s |-> pos[i]])

(* close, upper, lower, ADX against 20 *)
BbRangeAdx(s) == Warm(200, Outside(s, LAMBDA i : Lt(s[i][4], 0)))

(* close, EMA 20 plus and less two ATRs *)
KeltnerFade(s) == Warm(200, Outside(s, Always))

(* RSI 14 against 30 and 70 *)
RsiFixed(s) == Warm(200, Extremes(s))

(* RSI on a ladder 20 < 40 < 60 < 80 (-2, -1, 1, 2), close, SMA 200: the   *)
(* bands depend on the regime.                                             *)
RsiCardwell(s) ==
    LET bull(i) == Gt(s[i][2], s[i][3])
        bear(i) == Le(s[i][2], s[i][3])
    IN  Warm(260, Mark(s, 1,
            LAMBDA i : (bull(i) /\ Lt(s[i][1], -1)) \/ (bear(i) /\ Lt(s[i][1], -2)),
            LAMBDA i : (bull(i) /\ Gt(s[i][1], 2)) \/ (bear(i) /\ Gt(s[i][1], 1))))

(* Williams %R against -80 and -20 *)
WillrFade(s) == Warm(200, Extremes(s))

(* CCI 20 against -100 and 100 *)
CciFade(s) == Warm(200, Extremes(s))

(* close, EMA 200 plus and less three ATRs *)
StretchEma200(s) == Warm(420, Outside(s, Always))

(* close, upper, lower, volume against twice its mean *)
BbVolumeClimax(s) == Warm(200, Outside(s, LAMBDA i : Gt(s[i][4], 0)))

(* low, high, 20-bar low, 20-bar high (both read one bar back), where the  *)
(* close lies in the candle: its top third 1, its bottom third -1, and NaN *)
(* when the candle has no range                                            *)
SweepRejection(s) ==
    LET lo(i) == Lag(s, 3, 1, i)
        hi(i) == Lag(s, 4, 1, i)
        ok(i) == Defined(lo(i)) /\ Defined(hi(i))
    IN  Warm(200, Mark(s, 1, LAMBDA i : ok(i) /\ Lt(s[i][1], lo(i)) /\ Gt(s[i][5], 0),
                             LAMBDA i : ok(i) /\ Gt(s[i][2], hi(i)) /\ Lt(s[i][5], 0)))

(* close: three falls are bought, three rises are sold *)
Streak3(s) ==
    LET c(k, i) == IF i > k THEN s[i - k][1] ELSE NaN
    IN  Warm(200, Mark(s, 1, LAMBDA i : \A k \in 0..2 : Lt(c(k, i), c(k + 1, i)),
                             LAMBDA i : \A k \in 0..2 : Gt(c(k, i), c(k + 1, i))))

ReversionNames == {"bb_fade", "bb_reentry", "bb_range_adx", "keltner_fade", "rsi_fixed",
                   "rsi_cardwell", "willr_fade", "cci_fade", "stretch_ema200",
                   "bb_volume_climax", "sweep_rejection", "streak3"}

ReversionSignals(h, s) ==
    CASE h = "bb_fade" -> BbFade(s)
      [] h = "bb_reentry" -> BbReentry(s)
      [] h = "bb_range_adx" -> BbRangeAdx(s)
      [] h = "keltner_fade" -> KeltnerFade(s)
      [] h = "rsi_fixed" -> RsiFixed(s)
      [] h = "rsi_cardwell" -> RsiCardwell(s)
      [] h = "willr_fade" -> WillrFade(s)
      [] h = "cci_fade" -> CciFade(s)
      [] h = "stretch_ema200" -> StretchEma200(s)
      [] h = "bb_volume_climax" -> BbVolumeClimax(s)
      [] h = "sweep_rejection" -> SweepRejection(s)
      [] h = "streak3" -> Streak3(s)

=============================================================================
