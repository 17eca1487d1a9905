------------------------------- MODULE MCFeed -------------------------------
(***************************************************************************)
(* Four minutes, flushes of two bars, a handful of failures.               *)
(***************************************************************************)
EXTENDS FeedPipeline
=============================================================================
