----------------------------- MODULE Timeframes -----------------------------
(***************************************************************************)
(* core/timeframes.py: a timeframe is its length in minutes, on the UTC    *)
(* grid.                                                                   *)
(***************************************************************************)
EXTENDS Integers, FiniteSets

(* int(MIN_SOURCE_COVERAGE * expected_source_bars), 0.9 rounded down. *)
MinSources(tf) == (9 * tf) \div 10

Thin(src, tf) == Cardinality(src) < MinSources(tf)

FloorOf(m, tf) == m - (m % tf)

(* The minutes of the bar that opens at `open'. *)
Period(open, tf) == open..(open + tf - 1)

(* resample_from_1m over a set of minutes, grouped by their floor. *)
Resampled(minutes, tf) ==
  {[ts |-> open, src |-> minutes \cap Period(open, tf),
    gap |-> Thin(minutes \cap Period(open, tf), tf)] :
      open \in {FloorOf(m, tf) : m \in minutes}}
=============================================================================
