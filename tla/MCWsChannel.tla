---------------------------- MODULE MCWsChannel ----------------------------
(***************************************************************************)
(* WsChannel on small instances.  The bounds are in the configurations.    *)
(***************************************************************************)
EXTENDS WsChannel
=============================================================================
