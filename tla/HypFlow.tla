------------------------------ MODULE HypFlow ------------------------------
(***************************************************************************)
(* hypotheses/flow.py: fourteen rules about volume.  Each refuses a short  *)
(* history.  The comment names the columns of a bar.                       *)
(***************************************************************************)
EXTENDS HypSeries, Functions

(* Where a value stands in the window that ends with it: 1 its high, -1    *)
(* its low, 2 both (a flat window), 0 inside.                              *)
AtHigh(x) == x \in {1, 2}
AtLow(x) == x \in {-1, 2}

(* _session_vwap: the first bar of the UTC day bar i is in, and the sums   *)
(* from it of volume, price times volume and price squared times volume    *)
(* (typical price in column 2, volume in column 3).  Cross-multiplied by   *)
(* the volume, so that the comparisons stay in the integers.               *)
Day(s, i) == s[i][6] \div 24
DayStart(s, i) == LastWhere(LAMBDA j : j = 1 \/ Day(s, j) # Day(s, j - 1), i)
Volume(s, i) == s[i][3] - Least
SessionVwap(s, i) ==
    LET today == DayStart(s, i)..i
    IN  IF \E j \in today : ~Defined(s[j][2]) \/ ~Defined(s[j][3])
        THEN [vol |-> 0, pv |-> 0, pv2 |-> 0]
        ELSE [vol |-> SumFunction([j \in today |-> Volume(s, j)]),
              pv  |-> SumFunction([j \in today |-> s[j][2] * Volume(s, j)]),
              pv2 |-> SumFunction([j \in today |-> s[j][2] * s[j][2] * Volume(s, j)])]

(* OBV, its EMA 21 *)
ObvEma(s) == Warm(200, IfLong(s, 60, Versus(s, 1, Always)))

(* close and OBV in their 20-bar windows: a price extreme OBV does not     *)
(* share, held five bars                                                   *)
ObvDivergence(s) ==
    LET ok(i) == Defined(s[i][1]) /\ Defined(s[i][2])
    IN  Warm(200, IfLong(s, 60, HoldFor(Mark(s, -1,
            LAMBDA i : ok(i) /\ AtHigh(s[i][1]) /\ ~AtHigh(s[i][2]),
            LAMBDA i : ok(i) /\ AtLow(s[i][1]) /\ ~AtLow(s[i][2])), 5)))

(* the other diagonal: OBV makes the extreme and price has not yet *)
ObvLeads(s) ==
    LET ok(i) == Defined(s[i][1]) /\ Defined(s[i][2])
    IN  Warm(200, IfLong(s, 60, HoldFor(Mark(s, 1,
            LAMBDA i : ok(i) /\ AtHigh(s[i][2]) /\ ~AtHigh(s[i][1]),
            LAMBDA i : ok(i) /\ AtLow(s[i][2]) /\ ~AtLow(s[i][1])), 5)))

(* money flow index against 20 and 80 *)
Mfi(s) == Warm(200, IfLong(s, 40, Extremes(s)))

(* close, typical price, volume: the side of the session's VWAP *)
VwapSide(s) ==
    LET w(i) == SessionVwap(s, i)
        c(i) == s[i][1]
    IN  Warm(200, IfLong(s, 10, Mark(s, 1,
            LAMBDA i : Defined(c(i)) /\ w(i).vol > 0 /\ c(i) * w(i).vol > w(i).pv,
            LAMBDA i : Defined(c(i)) /\ w(i).vol > 0 /\ c(i) * w(i).vol < w(i).pv)))

(* the same columns: more than two deviations away, once the session has   *)
(* twelve candles, is faded                                                *)
VwapBand(s) ==
    LET w(i) == SessionVwap(s, i)
        far(i) == s[i][1] * w(i).vol - w(i).pv
        var(i) == w(i).pv2 * w(i).vol - w(i).pv * w(i).pv
        ok(i) == /\ Defined(s[i][1]) /\ w(i).vol > 0
                 /\ var(i) > 0 /\ i - DayStart(s, i) + 1 >= Span(12)
                 /\ far(i) * far(i) > 4 * var(i)
    IN  Warm(200, IfLong(s, 40, Mark(s, -1, LAMBDA i : ok(i) /\ far(i) > 0,
                                            LAMBDA i : ok(i) /\ far(i) < 0)))

(* volume against twice its mean, true range against ATR, close location   *)
(* against its half (1) and minus its half (-1): effort with result        *)
VolumeThrust(s) ==
    LET strong(i) == Gt(s[i][1], 0) /\ Gt(s[i][2], 0)
    IN  Warm(200, IfLong(s, 60, HoldFor(Mark(s, 1,
            LAMBDA i : strong(i) /\ Gt(s[i][3], 1), LAMBDA i : strong(i) /\ Lt(s[i][3], -1)), 5)))

(* close in its 20-bar window, z-score of the volume against three *)
VolumeClimax(s) ==
    LET extreme(i) == Defined(s[i][1]) /\ Gt(s[i][2], 0)
    IN  Warm(200, IfLong(s, 140, HoldFor(Mark(s, -1,
            LAMBDA i : extreme(i) /\ AtHigh(s[i][1]), LAMBDA i : extreme(i) /\ AtLow(s[i][1])), 5)))

(* Chaikin oscillator *)
Chaikin(s) == Warm(200, IfLong(s, 40, Sign(s, 1, Always)))

(* ROC 20, SMA 20 of the volume, SMA 100 of the volume *)
TrendWithParticipation(s) ==
    Warm(200, IfLong(s, 140, Sign(s, 1, LAMBDA i : Gt(s[i][2], s[i][3]))))

(* ROC 5, SMA 5 of the volume, SMA 20 of the volume: a dry move is faded *)
MoveWithoutVolume(s) ==
    Warm(200, IfLong(s, 40, Sign(s, -1, LAMBDA i : Positive(s[i][3]) /\ Lt(s[i][2], s[i][3]))))

(* the columns of VolumeThrust: effort without result *)
Absorption(s) ==
    LET absorbing(i) == Gt(s[i][1], 0) /\ Lt(s[i][2], 0)
    IN  Warm(200, IfLong(s, 60, HoldFor(Mark(s, 1,
            LAMBDA i : absorbing(i) /\ Gt(s[i][3], 0), LAMBDA i : absorbing(i) /\ Lt(s[i][3], 0)), 5)))

(* negative volume index, its EMA 255: long only *)
NviFosback(s) ==
    Warm(600, IfLong(s, 400, Mark(s, 1, LAMBDA i : Gt(s[i][1], s[i][2]), LAMBDA i : FALSE)))

(* ROC 20 with no filter: the control of the two participation rules *)
Roc20Unfiltered(s) == Warm(200, IfLong(s, 40, Sign(s, 1, Always)))

FlowNames == {"obv_ema21", "obv_divergence", "obv_leads", "mfi14", "vwap_side", "vwap_band",
              "volume_thrust", "volume_climax", "chaikin", "trend_with_participation",
              "move_without_volume", "absorption", "nvi_fosback", "roc20_unfiltered"}

FlowSignals(h, s) ==
    CASE h = "obv_ema21" -> ObvEma(s)
      [] h = "obv_divergence" -> ObvDivergence(s)
      [] h = "obv_leads" -> ObvLeads(s)
      [] h = "mfi14" -> Mfi(s)
      [] h = "vwap_side" -> VwapSide(s)
      [] h = "vwap_band" -> VwapBand(s)
      [] h = "volume_thrust" -> VolumeThrust(s)
      [] h = "volume_climax" -> VolumeClimax(s)
      [] h = "chaikin" -> Chaikin(s)
      [] h = "trend_with_participation" -> TrendWithParticipation(s)
      [] h = "move_without_volume" -> MoveWithoutVolume(s)
      [] h = "absorption" -> Absorption(s)
      [] h = "nvi_fosback" -> NviFosback(s)
      [] h = "roc20_unfiltered" -> Roc20Unfiltered(s)

=============================================================================
