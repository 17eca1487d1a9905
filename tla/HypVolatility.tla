--------------------------- MODULE HypVolatility ---------------------------
(***************************************************************************)
(* hypotheses/volatility.py: fourteen rules about compression and          *)
(* expansion of the range.  The comment names the columns of a bar.        *)
(***************************************************************************)
EXTENDS HypSeries

(* A percentile rank against a fraction of the window, num / den.          *)
RankBelow(s, k, bars, i, num, den) ==
    LET r == Rank(s, k, bars, i) IN Defined(r) /\ r * den < num * (Span(bars) - 1)
RankAbove(s, k, bars, i, num, den) ==
    LET r == Rank(s, k, bars, i) IN Defined(r) /\ r * den > num * (Span(bars) - 1)

(* close, middle band, squeeze: 1 while the Bollinger bands are inside the *)
(* Keltner channel.  Enters on the release, leaves on a new squeeze or on  *)
(* the wrong side of the middle.                                           *)
SqueezeRelease(s) ==
    LET squeezed(i) == i > 0 /\ s[i][3] = 1
        release(i) == i > 1 /\ squeezed(i - 1) /\ ~squeezed(i) /\ Defined(s[i][3])
        Exit(p, i) == \/ squeezed(i)
                      \/ Defined(s[i][3]) /\ (IF p = 1 THEN Lt(s[i][1], s[i][2])
                                                       ELSE Gt(s[i][1], s[i][2]))
    IN  Warm(200, HoldUntil(Versus(s, 1, release), Exit))

(* close, EMA 55, Rogers-Satchell volatility in the lowest fifth of a year *)
RsLowCarry(s) == Warm(300, Versus(s, 1, LAMBDA i : RankBelow(s, 3, 252, i, 1, 5)))

(* close, EMA 55, Bollinger width in the lowest fifth of a year *)
BbwLowCarry(s) == Warm(300, Versus(s, 1, LAMBDA i : RankBelow(s, 3, 252, i, 1, 5)))

(* close, volatility in the highest tenth: the move of three bars is faded *)
(* by one hypothesis and followed by its complement.                       *)
RsHigh(s, v) ==
    LET hot(i) == RankAbove(s, 2, 252, i, 9, 10)
        then(i) == Lag(s, 1, 3, i)
    IN  Mark(s, v, LAMBDA i : hot(i) /\ Gt(s[i][1], then(i)),
                   LAMBDA i : hot(i) /\ Lt(s[i][1], then(i)))
RsHighFade(s) == Warm(300, RsHigh(s, -1))
RsHighCarry(s) == Warm(300, RsHigh(s, 1))

(* close, high, low, the bar is the narrowest of seven (1): the close      *)
(* beyond the extremes of such a bar the bar after it                      *)
Nr7Breakout(s) ==
    Warm(200, Mark(s, 1, LAMBDA i : Lag(s, 4, 1, i) = 1 /\ Gt(s[i][1], Lag(s, 2, 1, i)),
                         LAMBDA i : Lag(s, 4, 1, i) = 1 /\ Lt(s[i][1], Lag(s, 3, 1, i))))

(* close, high, low: beyond the extremes of an inside bar *)
InsideBarBreakout(s) ==
    LET inside(i) == Lt(Lag(s, 2, 1, i), Lag(s, 2, 2, i)) /\ Gt(Lag(s, 3, 1, i), Lag(s, 3, 2, i))
    IN  Warm(200, Mark(s, 1, LAMBDA i : inside(i) /\ Gt(s[i][1], Lag(s, 2, 1, i)),
                             LAMBDA i : inside(i) /\ Lt(s[i][1], Lag(s, 3, 1, i))))

(* close, open, true range, twice the ATR, ATR: a wide bar after a quiet   *)
(* half of a hundred bars                                                  *)
WideRangeThrust(s) ==
    LET thrust(i) == /\ Gt(s[i][3], Lag(s, 4, 1, i))
                     /\ i > 1 /\ RankBelow(s, 5, 100, i - 1, 1, 2)
    IN  Warm(200, Versus(s, 1, thrust))

(* close, upper, lower Keltner line, their EMA: out on the wrong side of   *)
(* the EMA, and an entry of the same bar wins                              *)
KeltnerBreakout(s) ==
    LET entry == Mark(s, 1, LAMBDA i : Gt(s[i][1], s[i][2]), LAMBDA i : Lt(s[i][1], s[i][3]))
        Exit(p, i) == IF p = 1 THEN Lt(s[i][1], s[i][4]) ELSE Gt(s[i][1], s[i][4])
    IN  Warm(200, HoldUntil(entry, Exit))

(* close, short stop, long stop: a close beyond one of them takes that     *)
(* side; between them, or beyond both in a wide range, nothing is new and  *)
(* the side is held.  The control differs only in how the stops are drawn. *)
Chandelier(s) ==
    HoldUntil(Events(s, LAMBDA i : Gt(s[i][1], s[i][2]), LAMBDA i : Lt(s[i][1], s[i][3])),
              LAMBDA p, i : FALSE)
ChandelierTrail(s) == Warm(200, Chandelier(s))
ChandelierFixed(s) == Warm(200, Chandelier(s))

(* EMA 21, EMA 55, NATR below or above its median of a year *)
NatrLow(s) == Warm(300, Versus(s, 1, LAMBDA i : RankBelow(s, 3, 252, i, 1, 2)))
NatrHigh(s) ==
    Warm(300, Versus(s, 1, LAMBDA i : Defined(Rank(s, 3, 252, i)) /\ ~RankBelow(s, 3, 252, i, 1, 2)))

(* close, EMA 55 *)
Ema55Side(s) == Warm(300, Versus(s, 1, Always))

VolatilityNames == {"squeeze_release", "rs_low_carry", "bbw_low_carry", "rs_high_fade",
                    "rs_high_carry", "nr7_breakout", "inside_bar_breakout", "wide_range_thrust",
                    "keltner_breakout", "chandelier_trail", "natr_low", "natr_high",
                    "ema55_side", "chandelier_fixed"}

VolatilitySignals(h, s) ==
    CASE h = "squeeze_release" -> SqueezeRelease(s)
      [] h = "rs_low_carry" -> RsLowCarry(s)
      [] h = "bbw_low_carry" -> BbwLowCarry(s)
      [] h = "rs_high_fade" -> RsHighFade(s)
      [] h = "rs_high_carry" -> RsHighCarry(s)
      [] h = "nr7_breakout" -> Nr7Breakout(s)
      [] h = "inside_bar_breakout" -> InsideBarBreakout(s)
      [] h = "wide_range_thrust" -> WideRangeThrust(s)
      [] h = "keltner_breakout" -> KeltnerBreakout(s)
      [] h = "chandelier_trail" -> ChandelierTrail(s)
      [] h = "natr_low" -> NatrLow(s)
      [] h = "natr_high" -> NatrHigh(s)
      [] h = "ema55_side" -> Ema55Side(s)
      [] h = "chandelier_fixed" -> ChandelierFixed(s)

=============================================================================
