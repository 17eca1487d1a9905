------------------------------ MODULE Library ------------------------------
(***************************************************************************)
(* Every strategy the assay can be asked about: the registry of hypotheses *)
(* (hypotheses/__init__.py, base.py) and what the user brings.             *)
(***************************************************************************)
EXTENDS HypTrend, HypMomentum, HypReversion, HypVolatility, HypFlow, HypStructure,
        HypCandles, HypSeasonality, UserStrategy

CONSTANTS
    RuleBook    \* the user's rules: a record of two for each name

(* What the parser makes of a rule: operands come before what they are in. *)
Operands(x) ==
    CASE x[1] \in {"series", "number"} -> {}
      [] x[1] \in {"shift", "not"} -> {x[2]}
      [] x[1] \in {"minus", "gt", "ne", "crosses_above", "and", "or"} -> {x[2], x[3]}
Parsed(e) ==
    /\ Len(e) \in Nat /\ DOMAIN e = 1..Len(e)
    /\ \A n \in DOMAIN e :
          /\ e[n][1] \in {"series", "number", "shift", "not",
                          "minus", "gt", "ne", "crosses_above", "and", "or"}
          /\ Operands(e[n]) \subseteq 1..(n - 1)
          /\ e[n][1] = "shift" => e[n][3] \in Int

Registry == TrendNames \cup MomentumNames \cup ReversionNames \cup VolatilityNames
            \cup FlowNames \cup StructureNames \cup CandleNames \cup SeasonalityNames
Strategies == Registry \cup DOMAIN RuleBook \cup {"file"}

(* The user's rules parse, and have names of their own.                    *)
ASSUME RulesAssumption ==
    /\ \A name \in DOMAIN RuleBook : Parsed(RuleBook[name].long) /\ Parsed(RuleBook[name].short)
    /\ DOMAIN RuleBook \cap (Registry \cup {"file"}) = {}

Signals(h, s) ==
    CASE h \in TrendNames -> TrendSignals(h, s)
      [] h \in MomentumNames -> MomentumSignals(h, s)
      [] h \in ReversionNames -> ReversionSignals(h, s)
      [] h \in VolatilityNames -> VolatilitySignals(h, s)
      [] h \in FlowNames -> FlowSignals(h, s)
      [] h \in StructureNames -> StructureSignals(h, s)
      [] h \in CandleNames -> CandleSignals(h, s)
      [] h \in SeasonalityNames -> SeasonalitySignals(h, s)
      [] h \in DOMAIN RuleBook -> RuleSignals(s, RuleBook[h])
      [] h = "file" -> AlignToBars(s)

(* min_warmup: 200 bars unless registered otherwise, none for the user's.  *)
WarmUp(name) ==
    CASE name \in {"ema_stack", "ema200_filter", "nvi_fosback"} -> 600
      [] name \in {"tsmom_365d", "tsmom_12_1", "stretch_ema200"} -> 420
      [] name \in {"engulfing_trend", "ema55_side"}
         \cup {"rs_low_carry", "bbw_low_carry", "rs_high_fade", "rs_high_carry",
               "natr_low", "natr_high"} -> 300
      [] name = "rsi_cardwell" -> 260
      [] name = "tsmom_consensus" -> 240
      [] name \in TrendNames -> 250
      [] name \notin Registry -> 0
      [] OTHER -> 200

=============================================================================
