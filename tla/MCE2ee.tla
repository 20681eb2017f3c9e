------------------------------- MODULE MCE2ee -------------------------------
(***************************************************************************)
(* E2ee with two browsers.  The bounds are in the configurations.          *)
(***************************************************************************)
EXTENDS E2ee

CONSTANTS ann, bob
=============================================================================
