------------------------------ MODULE MCAssay ------------------------------
(***************************************************************************)
(* A few readings of each kind: candles for the rules about pivots, nothing*)
(* but the clock for the calendar, prices with and without a row of the    *)
(* file, and for all the others rows that put the columns on either side   *)
(* of each other and of their thresholds.                                  *)
(***************************************************************************)
EXTENDS Assay

Pivotal == {"bos_swing", "choch", "swing_trend_state", "range_fade_swing", "swing_fade_unfiltered"}
Priced == {"overlap_day_trend", "cme_gap_monday", "pre_funding_fade"}
Ohlc == {"outsized_wick", "sweep_reversal_20"}
Calendar == SeasonalityNames \ Priced

Undefined == <<NaN, NaN, NaN, NaN, NaN>>

MCRows(name) ==
    CASE name \in Calendar -> {<<0, 0, 0, 0, 0>>}
      [] name \in Priced -> {<<2, 0, 1, 0, 0>>, <<-2, 0, 1, 0, 0>>}
      [] name \in Pivotal ->
           {<<1, 2, 0, 0, 0>>, <<-1, 0, -2, 0, 0>>, <<3, 3, 1, 0, 0>>, <<-3, -1, -3, 0, 0>>}
      [] name \in Ohlc ->
           {<<0, 3, 0, 0, 0>>, <<2, 2, -2, 2, -3>>, <<0, 3, -1, 1, -2>>, <<-1, -1, 2, 3, 0>>}
      [] name = "file" ->
           {<<p, NaN, NaN, 0, 0>> : p \in {0, 2}} \cup {<<p, v, NaN, 0, 0>> : p \in {0, 2}, v \in {0, 1}}
           \cup {<<0, -1, 1, 0, 0>>, <<0, NaN, 1, 0, 0>>}
      [] OTHER -> {Undefined, <<2, 1, -2, 1, 1>>, <<-2, 1, 2, -2, -1>>, <<1, 2, 3, 1, 2>>,
                   <<3, -2, 1, -1, 3>>, <<-1, -2, -2, 1, -2>>, <<1, -1, -2, 0, 1>>,
                   <<-3, 2, -1, 1, 0>>, <<-2, -1, 0, -1, 0>>}

(* Crossings both ways, one rule with every other operator, and a rule     *)
(* that looks a bar ahead, which the editor refuses.                       *)
Fast == <<"series", 2>>
Slow == <<"series", 3>>
Close == <<"series", 1>>
MCRuleBook ==
    [n \in {"cross", "mixed", "ahead"} |->
        CASE n = "cross" -> [long |-> <<Fast, Slow, <<"crosses_above", 1, 2>> >>,
                             short |-> <<Slow, Fast, <<"crosses_above", 1, 2>> >>]
          [] n = "mixed" -> [long |-> <<Close, Close, <<"shift", 2, 1>>, <<"gt", 1, 3>>,
                                        Fast, <<"number", 1>>, <<"ne", 5, 6>>, <<"not", 7>>,
                                        <<"and", 4, 8>> >>,
                             short |-> <<Slow, Close, <<"minus", 1, 2>>, <<"number", 2>>,
                                         <<"gt", 3, 4>>, Fast, Fast, <<"ne", 6, 7>>, <<"or", 5, 8>> >>]
          [] n = "ahead" -> [long |-> <<Close, <<"shift", 1, -1>>, Close, <<"gt", 2, 3>> >>,
                             short |-> << >>]]

MCTicks(name) ==
    CASE name \in Calendar -> {1, 7, 24, 200 * 24}
      [] name \in Priced -> {1, 13, 24, 38}
      [] name \in {"vwap_side", "vwap_band"} -> {1, 24}
      [] name = "file" -> {1, 3}
      [] OTHER -> {1}

MCEarly == <<0, 0, 0, 0, 0>>

(* Increasing and convex, as the exponential of the yield a bar is.        *)
MCRate(yield, n) == LET g == 100 + (12 * yield) \div n IN g * g * g

(* Friday 29 March 2024 19:00 UTC.                                         *)
MCStarts == {19811 * 24 + 19}

MCLive(name) ==
    IF name \in Calendar \cup Pivotal \cup {"file"} THEN 4
    ELSE IF name \in Priced THEN 3 ELSE 2

=============================================================================
