---------------------------- MODULE OrderedFeed ----------------------------
(***************************************************************************)
(* What the message numbering promises to the code above it: the server    *)
(* says things, and the client hears them once each, in that order.  After *)
(* a reset nothing is promised until the document has been fetched again.  *)
(***************************************************************************)
EXTENDS Naturals, Sequences

VARIABLES said, heard, reset

feedVars == <<said, heard, reset>>

FeedInit == said = <<>> /\ heard = <<>> /\ reset = FALSE

Say ==
    /\ ~reset /\ ~reset'
    /\ Len(said') > Len(said)
    /\ SubSeq(said', 1, Len(said)) = said
    /\ UNCHANGED heard

Hear ==
    /\ ~reset /\ ~reset'
    /\ Len(heard) < Len(said)
    /\ heard' = Append(heard, said[Len(heard) + 1])
    /\ UNCHANGED said

Reset == reset'

FeedNext == Say \/ Hear \/ Reset

FeedSpec == FeedInit /\ [][FeedNext]_feedVars
=============================================================================
