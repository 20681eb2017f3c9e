---------------------------- MODULE MCDocSession ----------------------------
(***************************************************************************)
(* DocSession with two connections.  Each configuration says at which      *)
(* awaits other handlers run.                                              *)
(***************************************************************************)
EXTENDS DocSession

CONSTANTS ann, bob
=============================================================================
