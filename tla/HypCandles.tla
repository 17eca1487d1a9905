----------------------------- MODULE HypCandles -----------------------------
(***************************************************************************)
(* hypotheses/candles.py: thirteen candle patterns.  All refuse a history  *)
(* below _MIN_BARS = 320, although their warm-up is 200 bars (300 for one).*)
(* A TA-Lib pattern is a reading above zero, below zero or zero.  The      *)
(* comment names the columns of a bar.                                     *)
(***************************************************************************)
EXTENDS HypSeries

MinBars == 320
Pattern(s, sig) == Warm(200, IfLong(s, MinBars, sig))

(* CDLENGULFING *)
EngulfingRaw(s) == Pattern(s, Sign(s, 1, Always))

(* CDLENGULFING, close, EMA 200: only with the trend *)
EngulfingTrend(s) ==
    Warm(300, IfLong(s, MinBars, Mark(s, 1,
        LAMBDA i : Gt(s[i][1], 0) /\ Gt(s[i][2], s[i][3]),
        LAMBDA i : Lt(s[i][1], 0) /\ Lt(s[i][2], s[i][3]))))

(* CDLHAMMER, RSI 14 against 30 (-1): bought only *)
HammerOversold(s) ==
    Pattern(s, Mark(s, 1, LAMBDA i : Gt(s[i][1], 0) /\ Lt(s[i][2], -1), LAMBDA i : FALSE))

(* CDLSHOOTINGSTAR, RSI 14 against 70 (1): sold only *)
ShootingStarOverbought(s) ==
    Pattern(s, Mark(s, -1, LAMBDA i : Lt(s[i][1], 0) /\ Gt(s[i][2], 1), LAMBDA i : FALSE))

(* A share against its two thresholds, 1 and -1, either of which counts;   *)
(* undefined when the range is null.                                       *)
Share(s) == Mark(s, 1, LAMBDA i : Ge(s[i][1], 1), LAMBDA i : Le(s[i][1], -1))
CloseInRange(s) == Pattern(s, Share(s))

(* CDLCLOSINGMARUBOZU *)
MarubozuContinuation(s) == Pattern(s, Sign(s, 1, Always))

(* +DI, -DI, CDLDOJI, ADX against 25: the thrust is faded *)
DojiAfterThrust(s) ==
    Pattern(s, Versus(s, -1, LAMBDA i : Defined(s[i][3]) /\ s[i][3] # 0 /\ Gt(s[i][4], 0)))

(* open, high, low, close: a wick of twice the body and six tenths of the  *)
(* range; when both are, the upper one decides                             *)
OutsizedWick(s) ==
    LET body(i) == IF s[i][4] > s[i][1] THEN s[i][4] - s[i][1] ELSE s[i][1] - s[i][4]
        range(i) == s[i][2] - s[i][3]
        lower(i) == Min({s[i][1], s[i][4]}) - s[i][3]
        upper(i) == s[i][2] - Max({s[i][1], s[i][4]})
        long(wick, i) == /\ \A k \in 1..4 : Defined(s[i][k])
                         /\ range(i) > 0 /\ wick >= 2 * body(i) /\ 10 * wick >= 6 * range(i)
    IN  Pattern(s, Mark(s, 1, LAMBDA i : long(lower(i), i), LAMBDA i : long(upper(i), i)))

(* close, open, true range, twice the ATR, read one bar back: the shock    *)
(* goes on for three bars                                                  *)
RangeExpansion(s) ==
    LET shock(i) == Positive(Lag(s, 4, 1, i)) /\ Ge(s[i][3], Lag(s, 4, 1, i))
    IN  Pattern(s, HoldFor(Versus(s, 1, shock), 3))

(* close, high, low: the mother candle of an inside bar is broken *)
InsideBarBreak(s) ==
    LET inside(i) == Le(Lag(s, 2, 1, i), Lag(s, 2, 2, i)) /\ Ge(Lag(s, 3, 1, i), Lag(s, 3, 2, i))
    IN  Pattern(s, Mark(s, 1, LAMBDA i : inside(i) /\ Gt(s[i][1], Lag(s, 2, 2, i)),
                              LAMBDA i : inside(i) /\ Lt(s[i][1], Lag(s, 3, 2, i))))

(* high, low: a gap between two candles is faded; a rise decides last *)
RangeGap(s) ==
    LET ok(i) == \A k \in 1..2 : Defined(s[i][k]) /\ Defined(Lag(s, k, 1, i))
    IN  Pattern(s, Mark(s, -1, LAMBDA i : ok(i) /\ Gt(s[i][2], Lag(s, 1, 1, i)),
                               LAMBDA i : ok(i) /\ Lt(s[i][1], Lag(s, 2, 1, i))))

(* CDL3WHITESOLDIERS, CDL3BLACKCROWS, for three bars *)
ThreeDirectionalBars(s) ==
    LET ok(i) == Defined(s[i][1]) /\ Defined(s[i][2])
    IN  Pattern(s, HoldFor(Mark(s, 1, LAMBDA i : ok(i) /\ s[i][1] > 0,
                                      LAMBDA i : ok(i) /\ s[i][2] < 0), 3))

(* the bodies of twenty candles over their ranges, against 0.30 *)
BodyFlow20(s) == Pattern(s, Share(s))

CandleNames == {"engulfing_raw", "engulfing_trend", "hammer_oversold",
                "shooting_star_overbought", "close_in_range", "marubozu_continuation",
                "doji_after_thrust", "outsized_wick", "range_expansion", "inside_bar_break",
                "range_gap", "three_directional_bars", "body_flow_20"}

CandleSignals(h, s) ==
    CASE h = "engulfing_raw" -> EngulfingRaw(s)
      [] h = "engulfing_trend" -> EngulfingTrend(s)
      [] h = "hammer_oversold" -> HammerOversold(s)
      [] h = "shooting_star_overbought" -> ShootingStarOverbought(s)
      [] h = "close_in_range" -> CloseInRange(s)
      [] h = "marubozu_continuation" -> MarubozuContinuation(s)
      [] h = "doji_after_thrust" -> DojiAfterThrust(s)
      [] h = "outsized_wick" -> OutsizedWick(s)
      [] h = "range_expansion" -> RangeExpansion(s)
      [] h = "inside_bar_break" -> InsideBarBreak(s)
      [] h = "range_gap" -> RangeGap(s)
      [] h = "three_directional_bars" -> ThreeDirectionalBars(s)
      [] h = "body_flow_20" -> BodyFlow20(s)

=============================================================================
