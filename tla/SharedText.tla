----------------------------- MODULE SharedText -----------------------------
(***************************************************************************)
(* What collaborative editing promises: there is one text, it only grows,  *)
(* and each reader has a beginning of it that only grows.                  *)
(***************************************************************************)
EXTENDS Naturals, Sequences

CONSTANT Reader

VARIABLES
    shared,     \* the text
    following,  \* the readers that have not lost track of it
    read        \* the beginning that each of them has

sharedVars == <<shared, following, read>>

SharedInit == /\ shared = <<>>
              /\ following = Reader
              /\ read = [r \in Reader |-> <<>>]

Extends(long, short) == /\ Len(short) <= Len(long)
                        /\ SubSeq(long, 1, Len(short)) = short

Write == /\ Extends(shared', shared)
         /\ UNCHANGED <<following, read>>

Read(r) == /\ UNCHANGED <<shared, following>>
           /\ Extends(read'[r], read[r])
           /\ Extends(shared, read'[r])
           /\ read' = [read EXCEPT ![r] = read'[r]]

\* Nothing is promised to r any more, and what r does changes no other reader.
LoseTrack(r) == /\ following' = following \ {r}
                /\ read' = [q \in following' |-> read[q]]
                /\ UNCHANGED shared

SharedNext == Write \/ \E r \in following : Read(r) \/ LoseTrack(r)

SharedSpec == SharedInit /\ [][SharedNext]_sharedVars
=============================================================================
