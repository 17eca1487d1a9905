---------------------------- MODULE HypStructure ----------------------------
(***************************************************************************)
(* hypotheses/structure.py: twelve rules about previous highs and lows.    *)
(* All refuse a history below _MIN_BARS = 200, which is their warm-up too. *)
(* Channels are the 20-bar extremes TA-Lib gives, its own candle included, *)
(* read one bar back; the comment names the columns of a bar.              *)
(***************************************************************************)
EXTENDS HypSeries

Rule(s, sig) == Warm(200, IfLong(s, 200, sig))

Plus(x, y) == IF Defined(x) /\ Defined(y) THEN x + y ELSE NaN
Above(s, c, i) == Gt(s[i][1], Lag(s, c, 1, i))
Below(s, c, i) == Lt(s[i][1], Lag(s, c, 1, i))

(* _pivots: the candle whose high (or low) bar i confirms as a fractal,    *)
(* FractalK bars back and an extreme of the window that ends at i; 0 when  *)
(* nothing is confirmed at i.                                              *)
Fractal(s, c, v, i) ==
    LET top == i - FractalK
    IN  IF /\ ~Shorter(s, 6) /\ i > 2 * FractalK
           /\ \A j \in (i - 2 * FractalK)..i : Defined(s[j][c]) /\ ~Beyond(v, s[j][c], s[top][c])
        THEN top ELSE 0

(* _pivot_levels: the last confirmed level at bar i, and the one before it.*)
Level(s, c, v, i) ==
    LET q == LastWhere(LAMBDA j : Fractal(s, c, v, j) > 0, i)
    IN  IF q = 0 THEN NaN ELSE s[Fractal(s, c, v, q)][c]
LevelBefore(s, c, v, i) ==
    LET q == LastWhere(LAMBDA j : /\ j > 1 /\ Fractal(s, c, v, j) > 0
                                  /\ Defined(Level(s, c, v, j - 1)), i)
    IN  IF q = 0 THEN NaN ELSE Level(s, c, v, q - 1)

(* close, high, low: higher highs and higher lows, or lower ones *)
Rising(s, i) == /\ Gt(Level(s, 2, 1, i), LevelBefore(s, 2, 1, i))
                /\ Gt(Level(s, 3, -1, i), LevelBefore(s, 3, -1, i))
Falling(s, i) == /\ Lt(Level(s, 2, 1, i), LevelBefore(s, 2, 1, i))
                 /\ Lt(Level(s, 3, -1, i), LevelBefore(s, 3, -1, i))

(* Mutant: the high is placed on its own candle, before it is confirmed. *)
OverPivotEarly(s, i) ==
    LET q == LastWhere(LAMBDA j : /\ j > FractalK /\ j + FractalK <= Len(s)
                                  /\ \A m \in (j - FractalK)..(j + FractalK) : ~Gt(s[m][2], s[j][2]), i)
    IN  q > 0 /\ Gt(s[i][1], s[q][2])
OverPivot(s, i) == Gt(s[i][1], Level(s, 2, 1, i))
UnderPivot(s, i) == Lt(s[i][1], Level(s, 3, -1, i))

(* close, high and low of the 20-bar channel *)
DonchianBreak20(s) ==
    Rule(s, HoldOn(Events(s, LAMBDA i : Above(s, 2, i), LAMBDA i : Below(s, 3, i))))

(* close, high 55, low 55, high 20, low 20: an exit stays flat on its bar  *)
Donchian55Exit20(s) ==
    LET pos[i \in 0..Len(s)] ==
            IF i = 0 THEN 0
            ELSE CASE pos[i - 1] = 0 -> IF Above(s, 2, i) THEN 1 ELSE IF Below(s, 3, i) THEN -1 ELSE 0
                   [] pos[i - 1] = 1 -> IF Below(s, 5, i) THEN 0 ELSE 1
                   [] OTHER          -> IF Above(s, 4, i) THEN 0 ELSE -1
    IN  Rule(s, [i \in DOMAIN s |-> pos[i]])

(* close, high, low, as for every rule about pivots *)
BosSwing(s) ==
    Rule(s, HoldOn(Events(s, LAMBDA i : OverPivot(s, i), LAMBDA i : UnderPivot(s, i))))
Choch(s) ==
    Rule(s, HoldOn(Events(s, LAMBDA i : Falling(s, i) /\ OverPivot(s, i),
                             LAMBDA i : Rising(s, i) /\ UnderPivot(s, i))))
SwingTrendState(s) ==
    Rule(s, Mark(s, 1, LAMBDA i : Rising(s, i), LAMBDA i : Falling(s, i)))

(* close, channel high and low, high, low: pierced, and closed back inside *)
SweepReversal20(s) ==
    Rule(s, HoldFor(Events(s,
        LAMBDA i : Lt(s[i][5], Lag(s, 3, 1, i)) /\ Above(s, 3, i),
        LAMBDA i : Gt(s[i][4], Lag(s, 2, 1, i)) /\ Below(s, 2, i)), 10))

(* The retest of one side: a break of channel column ch arms its level for *)
(* ten bars; a touch by column touch and a close beyond it is the event.   *)
Retests(s, ch, touch, v) ==
    LET idle == [lvl |-> NaN, ttl |-> 0, touched |-> FALSE, event |-> FALSE]
        st[i \in 0..Len(s)] ==
            IF i = 0 THEN idle
            ELSE LET old == st[i - 1]
                     lvl == Lag(s, ch, 1, i)
                     touched == old.touched \/ Within(v, s[i][touch], old.lvl)
                     event == touched /\ Beyond(v, s[i][1], old.lvl)
                 IN  IF Beyond(v, s[i][1], lvl)
                     THEN [idle EXCEPT !.lvl = lvl, !.ttl = Span(10)]
                     ELSE IF old.ttl = 0 THEN [old EXCEPT !.event = FALSE]
                     ELSE [lvl |-> old.lvl, ttl |-> IF event THEN 0 ELSE old.ttl - 1,
                           touched |-> touched, event |-> event]
    IN  [i \in DOMAIN s |-> st[i].event]

(* close, channel high and low, high, low *)
RetestHold(s) ==
    LET up == Retests(s, 2, 5, 1)
        dn == Retests(s, 3, 4, -1)
    IN  Rule(s, HoldFor(Events(s, LAMBDA i : up[i], LAMBDA i : dn[i]), 10))

(* close, channel high and low: the break of a channel as narrow as any of *)
(* the last sixty                                                          *)
CompressionBreak(s) ==
    LET hasWidth(i) == Defined(Lag(s, 2, 1, i)) /\ Defined(Lag(s, 3, 1, i))
        width(i) == Lag(s, 2, 1, i) - Lag(s, 3, 1, i)
        narrow(i) == /\ hasWidth(i) /\ i >= Span(60)
                     /\ \A j \in (i - Span(60) + 1)..i : hasWidth(j) => width(i) <= width(j)
    IN  Rule(s, HoldOn(Events(s, LAMBDA i : narrow(i) /\ Above(s, 2, i),
                                 LAMBDA i : narrow(i) /\ Below(s, 3, i))))

(* close, channel high and low, volume, its SMA 20 *)
VolumeConfirmedBreak(s) ==
    LET strong(i) == Gt(s[i][4], s[i][5])
    IN  Rule(s, HoldOn(Events(s, LAMBDA i : strong(i) /\ Above(s, 2, i),
                                 LAMBDA i : strong(i) /\ Below(s, 3, i))))

(* close, channel high and low, half the ATR, the same negated *)
AtrBufferedBreak(s) ==
    Rule(s, HoldOn(Events(s, LAMBDA i : Gt(s[i][1], Plus(Lag(s, 2, 1, i), s[i][4])),
                             LAMBDA i : Lt(s[i][1], Plus(Lag(s, 3, 1, i), s[i][5])))))

(* The touch of a pivot is faded: the bar on which the close goes beyond   *)
(* it.  The control drops the condition on the structure.                  *)
Fresh(bars) == {i \in bars : i - 1 \notin bars}
SwingFade(s, allowed) ==
    LET under == Fresh({i \in DOMAIN s : UnderPivot(s, i)})
        over == Fresh({i \in DOMAIN s : OverPivot(s, i)})
    IN  HoldFor(Events(s, LAMBDA i : i \in allowed \cap under, LAMBDA i : i \in allowed \cap over), 10)
RangeFadeSwing(s) ==
    Rule(s, SwingFade(s, {i \in DOMAIN s : ~Rising(s, i) /\ ~Falling(s, i)}))
SwingFadeUnfiltered(s) == Rule(s, SwingFade(s, DOMAIN s))

StructureNames == {"donchian_break_20", "donchian_55_exit_20", "bos_swing", "choch",
                   "swing_trend_state", "sweep_reversal_20", "retest_hold", "compression_break",
                   "volume_confirmed_break", "atr_buffered_break", "range_fade_swing",
                   "swing_fade_unfiltered"}

StructureSignals(h, s) ==
    CASE h = "donchian_break_20" -> DonchianBreak20(s)
      [] h = "donchian_55_exit_20" -> Donchian55Exit20(s)
      [] h = "bos_swing" -> BosSwing(s)
      [] h = "choch" -> Choch(s)
      [] h = "swing_trend_state" -> SwingTrendState(s)
      [] h = "sweep_reversal_20" -> SweepReversal20(s)
      [] h = "retest_hold" -> RetestHold(s)
      [] h = "compression_break" -> CompressionBreak(s)
      [] h = "volume_confirmed_break" -> VolumeConfirmedBreak(s)
      [] h = "atr_buffered_break" -> AtrBufferedBreak(s)
      [] h = "range_fade_swing" -> RangeFadeSwing(s)
      [] h = "swing_fade_unfiltered" -> SwingFadeUnfiltered(s)

=============================================================================
