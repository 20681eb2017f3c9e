------------------------------ MODULE MCCollab ------------------------------
(***************************************************************************)
(* Collab with a few browsers.  The bounds are in the configurations.      *)
(***************************************************************************)
EXTENDS Collab

CONSTANTS ann, bob
=============================================================================
