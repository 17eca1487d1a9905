----------------------------- MODULE MCRecorders -----------------------------
(***************************************************************************)
(* Two of the series.  The overlap of consecutive polls and the pause of   *)
(* an open circuit keep their proportion, one hour each in the code, and   *)
(* are six minutes here.                                                   *)
(***************************************************************************)
EXTENDS Recorders

SeriesValue == <<"funding", "open_interest">>
PointValue == <<480, 2>>
LimitValue == <<10, 3>>
DelaysValue == {0, 1}
=============================================================================
