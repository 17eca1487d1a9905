------------------------------ MODULE HypTrend ------------------------------
(***************************************************************************)
(* hypotheses/trend.py: twelve trend followers.  Each definition is one    *)
(* hypothesis as it is registered: its function under its min_warmup.  The *)
(* comment names the columns of a bar in order.                            *)
(***************************************************************************)
EXTENDS HypSeries

(* fast EMA 21, slow EMA 55 *)
EmaCross(s) == Warm(250, Versus(s, 1, Always))

(* EMA 21, EMA 55, EMA 200 *)
EmaStack(s) ==
    Warm(600, Mark(s, 1, LAMBDA i : Gt(s[i][1], s[i][2]) /\ Gt(s[i][2], s[i][3]),
                         LAMBDA i : Lt(s[i][1], s[i][2]) /\ Lt(s[i][2], s[i][3])))

(* close, EMA 200 *)
Ema200Filter(s) == Warm(600, Versus(s, 1, Always))

(* MACD line, its signal *)
Macd(s) == Warm(250, Versus(s, 1, Always))

(* +DI, -DI, ADX above 25 *)
AdxDmi(s) == Warm(250, Versus(s, 1, LAMBDA i : Ge(s[i][3], 0)))

(* close, and the 55- and 20-bar channels: high 55, low 55, high 20,       *)
(* low 20, each read one bar back so that the bar itself is not in it.  A  *)
(* bar with an undefined channel closes the position; an exit below the    *)
(* 20-bar low is a reversal when it is below the 55-bar low too.           *)
DonchianTurtle(s) ==
    LET c(i) == s[i][1]
        ch(k, i) == Lag(s, k, 1, i)
        ok(i) == Defined(c(i)) /\ \A k \in 2..5 : Defined(ch(k, i))
        pos[i \in 0..Len(s)] ==
            IF i = 0 \/ ~ok(i) THEN 0
            ELSE CASE pos[i - 1] = 0 -> IF Gt(c(i), ch(2, i)) THEN 1
                                        ELSE IF Lt(c(i), ch(3, i)) THEN -1 ELSE 0
                   [] pos[i - 1] = 1 -> IF ~Lt(c(i), ch(5, i)) THEN 1
                                        ELSE IF Lt(c(i), ch(3, i)) THEN -1 ELSE 0
                   [] OTHER          -> IF ~Gt(c(i), ch(4, i)) THEN -1
                                        ELSE IF Gt(c(i), ch(2, i)) THEN 1 ELSE 0
    IN  Warm(250, [i \in DOMAIN s |-> pos[i]])

(* close, upper band, lower band.  The ratchet: a band only tightens, and  *)
(* is released by a close beyond it; the first defined bar only seeds it,  *)
(* and an undefined bar is flat but keeps the position.                    *)
Supertrend(s) ==
    LET Bands(st, i) ==
            [up |-> IF s[i][2] < st.up \/ Gt(s[i - 1][1], st.up) THEN s[i][2] ELSE st.up,
             lo |-> IF s[i][3] > st.lo \/ Lt(s[i - 1][1], st.lo) THEN s[i][3] ELSE st.lo]
        st[i \in 0..Len(s)] ==
            IF i <= 1 THEN [up |-> NaN, lo |-> NaN, pos |-> 0, out |-> 0]
            ELSE IF \E k \in 1..3 : ~Defined(s[i][k]) THEN [st[i - 1] EXCEPT !.out = 0]
            ELSE IF ~Defined(st[i - 1].up)
                 THEN [st[i - 1] EXCEPT !.up = s[i][2], !.lo = s[i][3], !.out = 0]
            ELSE LET b == Bands(st[i - 1], i)
                     p == IF s[i][1] > b.up THEN 1
                          ELSE IF s[i][1] < b.lo THEN -1 ELSE st[i - 1].pos
                 IN  [up |-> b.up, lo |-> b.lo, pos |-> p, out |-> p]
    IN  Warm(250, [i \in DOMAIN s |-> st[i].out])

(* close, parabolic SAR *)
Psar(s) == Warm(250, Versus(s, 1, Always))

(* the window's drift in ATRs (above 1 reads 2, below -1 reads -2), ATR *)
LinregSlope(s) ==
    Warm(250, Mark(s, 1, LAMBDA i : Gt(s[i][2], 0) /\ Gt(s[i][1], 1),
                         LAMBDA i : Gt(s[i][2], 0) /\ Lt(s[i][1], -1)))

(* close, tenkan, kijun, span A, span B: the cloud is drawn 26 bars ahead, *)
(* so today's cloud is 26 bars old.                                        *)
Ichimoku(s) ==
    LET a(i) == Lag(s, 4, 26, i)
        b(i) == Lag(s, 5, 26, i)
    IN  Warm(250, Mark(s, 1,
            LAMBDA i : Gt(s[i][1], a(i)) /\ Gt(s[i][1], b(i)) /\ Gt(s[i][2], s[i][3]),
            LAMBDA i : Lt(s[i][1], a(i)) /\ Lt(s[i][1], b(i)) /\ Lt(s[i][2], s[i][3])))

(* Aroon up against 70 (1) and 30 (-1), Aroon down likewise *)
Aroon(s) ==
    Warm(250, Mark(s, 1, LAMBDA i : Gt(s[i][1], 1) /\ Lt(s[i][2], -1),
                         LAMBDA i : Gt(s[i][2], 1) /\ Lt(s[i][1], -1)))

(* close; a year ago is 365 daily bars ago *)
Tsmom365(s) ==
    LET then(i) == Lag(s, 1, 365, i)
    IN  Warm(420, Mark(s, 1, LAMBDA i : Gt(s[i][1], then(i)), LAMBDA i : Lt(s[i][1], then(i))))

TrendNames == {"ema_cross", "ema_stack", "ema200_filter", "macd", "adx_dmi", "donchian_turtle",
               "supertrend", "psar", "linreg_slope", "ichimoku", "aroon", "tsmom_365d"}

TrendSignals(h, s) ==
    CASE h = "ema_cross" -> EmaCross(s)
      [] h = "ema_stack" -> EmaStack(s)
      [] h = "ema200_filter" -> Ema200Filter(s)
      [] h = "macd" -> Macd(s)
      [] h = "adx_dmi" -> AdxDmi(s)
      [] h = "donchian_turtle" -> DonchianTurtle(s)
      [] h = "supertrend" -> Supertrend(s)
      [] h = "psar" -> Psar(s)
      [] h = "linreg_slope" -> LinregSlope(s)
      [] h = "ichimoku" -> Ichimoku(s)
      [] h = "aroon" -> Aroon(s)
      [] h = "tsmom_365d" -> Tsmom365(s)

=============================================================================
