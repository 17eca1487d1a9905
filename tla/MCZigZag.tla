------------------------------ MODULE MCZigZag ------------------------------
(***************************************************************************)
(* The detector on three price levels and two thresholds.  In wick mode the *)
(* close is read by nothing but the threshold, so it stays at the low.     *)
(***************************************************************************)
EXTENDS ZigZag

CONSTANT Levels \* price levels

MCCandles == {c \in [high : Levels, low : Levels, close : Levels, thr : {1, 2}] :
                c.low <= c.high /\ c.close = c.low}

=============================================================================
