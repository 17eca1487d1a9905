------------------------------ MODULE MCEngine ------------------------------
(***************************************************************************)
(* Bars of two and of four minutes over a tape of nine.                    *)
(***************************************************************************)
EXTENDS LiveEngine
=============================================================================
