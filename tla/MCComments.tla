----------------------------- MODULE MCComments -----------------------------
(* Instance of Comments for TLC.                                           *)
EXTENDS Comments

CONSTANTS ann, bob
=============================================================================
