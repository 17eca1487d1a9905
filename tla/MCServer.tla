------------------------------ MODULE MCServer ------------------------------
(***************************************************************************)
(* Two browsers, one of which may stop reading, one month to warm up.       *)
(***************************************************************************)
EXTENDS ServerLife
=============================================================================
