---------------------------- MODULE MCDirectSave ----------------------------
(***************************************************************************)
(* DirectSave with two pages.  The bounds are in the configuration.        *)
(***************************************************************************)
EXTENDS DirectSave

CONSTANTS p1, p2
=============================================================================
