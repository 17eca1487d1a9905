--------------------------- MODULE MCRateLimiter ----------------------------
(***************************************************************************)
(* Three callers behind two addresses, two permits, short windows.         *)
(***************************************************************************)
EXTENDS RateLimiter, TLC

CONSTANTS c1, c2, c3, home, office

MCIpOf == (c1 :> home) @@ (c2 :> home) @@ (c3 :> office)
=============================================================================
