---------------------------- MODULE MCShutdown ----------------------------
(***************************************************************************)
(* Shutdown with two requests, one of them a probe, queues of one and one  *)
(* feed sync.                                                              *)
(***************************************************************************)
EXTENDS Shutdown
===========================================================================
