------------------------- MODULE DocSession_proofs -------------------------
(***************************************************************************)
(* Theorems about the sessions on the server, for any number of            *)
(* connections, diffs and sessions, with either backend and whichever      *)
(* awaits let other handlers run: first what always holds, then what holds *)
(* until one of the four races.                                            *)
(***************************************************************************)
EXTENDS DocSession, SequenceTheorems, TLAPS

\* Whoever is past subscribing has a session, and whoever has applied a diff
\* still holds it.
Placed == \A c \in Conn : /\ phase[c] \notin {"out", "reading"} => mine[c] # 0
                          /\ phase[c] = "applied" => job[c].diff # 0

\* A save is of a session at least as new as the one of its handler.
Saving == \A c \in Conn : phase[c] \in {"queued", "saved"} =>
                            /\ job[c].sess \in 1 .. Len(sessions)
                            /\ mine[c] <= job[c].sess

\* The registered session is the newest one, and it has not been taken away.
Newest == registry # 0 => /\ registry = Len(sessions)
                          /\ ~sessions[registry].gone

\* Its participants are there.
Present == registry # 0 =>
              \A c \in sessions[registry].people :
                  mine[c] = registry /\ phase[c] \notin {"out", "reading"}

\* c is on its way to the clean-up.
Leaving(c) == \/ phase[c] = "cleanup"
              \/ /\ phase[c] \in {"queued", "saved"}
                 /\ job[c].then = "cleanup"
                 /\ job[c].sess = registry

\* It has participants, or one is listed that has ended, or somebody is about to
\* take it away.
Held == registry # 0 => \/ sessions[registry].people # {}
                        \/ sessions[registry].ghost
                        \/ \E c \in Conn : Leaving(c)

IInv == TypeOK /\ Placed /\ Saving /\ Newest /\ Present /\ Held

-----------------------------------------------------------------------------
(* Types of the parts.                                                     *)

\* diffs[-n:] of a text is a text.
LEMMA LastOfType ==
    ASSUME NEW s \in Text, NEW n \in Nat
    PROVE  LastOf(s, n) \in Text
<1> DEFINE first == IF Len(s) > n THEN Len(s) - n + 1 ELSE 1
<1>1. s \in Seq(DiffId) /\ Len(s) \in Nat /\ first \in Int /\ first >= 1
  BY DEF Text
<1>2. \A i \in first .. Len(s) : s[i] \in DiffId
  BY <1>1, ElementOfSeq
<1>3. SubSeq(s, first, Len(s)) \in Seq(DiffId)
  BY <1>1, <1>2, SubSeqProperties
<1> QED
  BY <1>3 DEF LastOf, Text

\* A document object without diffs, and the job of nobody, have their types.
LEMMA EmptyType == EmptyDoc \in DocRecord /\ NoJob \in Job
<1>1. <<>> \in Text
  BY DEF Text
<1> QED
  BY <1>1 DEF EmptyDoc, DocRecord, NoJob, Job

\* Changing one session leaves a list of sessions as long as before.
LEMMA OneSession ==
    ASSUME NEW ss \in Seq(Session), NEW s \in 1 .. Len(ss), NEW x \in Session
    PROVE  /\ [ss EXCEPT ![s] = x] \in Seq(Session)
           /\ Len([ss EXCEPT ![s] = x]) = Len(ss)
           /\ \A i \in 1 .. Len(ss) : [ss EXCEPT ![s] = x][i] = IF i = s THEN x ELSE ss[i]
BY ExceptSeq

\* A save sends c to the database with a job for the registered session, and
\* changes no participants.
LEMMA SaveBeginStep ==
    ASSUME TypeOK, NEW c \in Conn, NEW then \in {"in", "cleanup"},
           NEW ss \in Seq(Session), registry \in 1 .. Len(ss),
           SaveBegin(c, then, ss)
    PROVE  /\ sessions' \in Seq(Session) /\ Len(sessions') = Len(ss)
           /\ \A s \in 1 .. Len(ss) : /\ sessions'[s].people = ss[s].people
                                      /\ sessions'[s].ghost = ss[s].ghost
                                      /\ sessions'[s].gone = ss[s].gone
           /\ job' \in [Conn -> Job]
           /\ \A d \in Conn \ {c} : job'[d] = job[d]
           /\ job'[c].sess = registry
           /\ job'[c].then = then
           /\ job'[c].diff = job[c].diff
           /\ phase' = [phase EXCEPT ![c] = "queued"]
           /\ writes' \in Seq(Conn) /\ raced' \in BOOLEAN
<1> DEFINE s == registry
           content == IF ss[s].updates THEN ss[s].node ELSE ss[s].doc.content
           j == [sess |-> s, string |-> Rust /\ ss[s].updates,
                 version |-> ss[s].doc.version, content |-> content,
                 diffs |-> ss[s].doc.diffs, then |-> then, diff |-> job[c].diff]
           doc == [ss[s].doc EXCEPT !.content = content]
           x == [ss[s] EXCEPT !.doc = doc]
<1>1. ss[s] \in Session /\ job[c] \in Job /\ s \in Nat
  BY ElementOfSeq DEF TypeOK
<1>2. ss[s].doc \in DocRecord /\ content \in Text
  BY <1>1 DEF Session, DocRecord
<1>3. j \in Job
  BY <1>1, <1>2, RustAssumption DEF Job, DocRecord, Session
<1>4. doc \in DocRecord
  BY <1>2 DEF DocRecord
<1>5. x \in Session /\ x.people = ss[s].people
      /\ x.ghost = ss[s].ghost /\ x.gone = ss[s].gone
  BY <1>1, <1>4 DEF Session
<1>6. /\ job' = [job EXCEPT ![c] = j]
      /\ sessions' = IF Rust THEN ss ELSE [ss EXCEPT ![s] = x]
      /\ writes' = Append(writes, c)
      /\ phase' = [phase EXCEPT ![c] = "queued"]
      /\ raced' = (raced \/ SavesOldText(ss[s]))
  BY DEF SaveBegin, Become
<1> HIDE DEF j, x, doc, content
<1>7. /\ sessions' \in Seq(Session) /\ Len(sessions') = Len(ss)
      /\ \A i \in 1 .. Len(ss) : /\ sessions'[i].people = ss[i].people
                                 /\ sessions'[i].ghost = ss[i].ghost
                                 /\ sessions'[i].gone = ss[i].gone
  BY <1>5, <1>6, OneSession
<1>8. j.sess = registry /\ j.then = then /\ j.diff = job[c].diff
  BY DEF j
<1>9. raced' \in BOOLEAN
  BY <1>6 DEF TypeOK
<1> QED
  BY <1>3, <1>6, <1>7, <1>8, <1>9 DEF TypeOK

-----------------------------------------------------------------------------
(* The invariant.                                                          *)

\* At the start there is no session and nobody is there.
LEMMA InitInv == Init => IInv
<1> SUFFICES ASSUME Init PROVE IInv
  OBVIOUS
<1>1. TypeOK
  <2>0. /\ raced \in BOOLEAN /\ phase \in [Conn -> Phases]
        /\ writes = <<>> /\ accepted = <<>> /\ sessions = <<>> /\ registry = 0
    BY DEF Init, Phases
  <2>1. /\ writes \in Seq(Conn) /\ accepted \in Seq(DiffKinds)
        /\ sessions \in Seq(Session) /\ registry \in 0 .. Len(sessions)
    BY <2>0, EmptySeq
  <2>2. /\ db \in DocRecord /\ copy \in [Conn -> DocRecord]
        /\ job \in [Conn -> Job] /\ mine \in [Conn -> 0 .. Len(sessions)]
    BY EmptyType, EmptySeq DEF Init
  <2>3. /\ \A c \in Conn : job[c].diff <= Len(accepted)
        /\ confirmed \subseteq 1 .. Len(accepted)
    BY EmptySeq DEF Init, NoJob
  <2> QED
    BY <2>0, <2>1, <2>2, <2>3 DEF TypeOK
<1> QED
  BY <1>1 DEF Init, IInv, Placed, Saving, Newest, Present, Held

\* Reading the row changes nothing but the phase of the reader.
LEMMA SubscribeReadInv ==
    ASSUME IInv, NEW c \in Conn, SubscribeRead(c)
    PROVE  IInv'
<1>1. /\ phase[c] = "out"
      /\ phase' = [phase EXCEPT ![c] = "reading"]
      /\ copy' = [copy EXCEPT ![c] = db]
      /\ UNCHANGED <<db, sessions, registry, mine, job, writes, accepted, confirmed,
                     raced>>
  BY DEF SubscribeRead, Become
<1>2. TypeOK'
  BY <1>1 DEF IInv, TypeOK, Phases, Awaits
<1>3. Placed' /\ Saving' /\ Newest' /\ Present'
  BY <1>1 DEF IInv, TypeOK, Placed, Saving, Newest, Present
<1>4. Held'
  BY <1>1 DEF IInv, TypeOK, Held, Leaving
<1> QED
  BY <1>2, <1>3, <1>4 DEF IInv

\* Whoever joins is a participant of the registered session.
LEMMA SubscribeJoinInv ==
    ASSUME IInv, NEW c \in Conn, SubscribeJoin(c)
    PROVE  IInv'
<1> DEFINE x == [sessions[registry] EXCEPT !.people = @ \cup {c}]
<1>1. /\ phase[c] = "reading" /\ registry # 0
      /\ mine' = [mine EXCEPT ![c] = registry]
      /\ sessions' = [sessions EXCEPT ![registry] = x]
      /\ phase' = [phase EXCEPT ![c] = "in"]
      /\ UNCHANGED <<db, registry, copy, job, writes, accepted, confirmed, raced>>
  BY DEF SubscribeJoin, HasSession, Become
<1>2. /\ registry \in 1 .. Len(sessions) /\ registry = Len(sessions)
      /\ sessions[registry] \in Session
  BY <1>1, ElementOfSeq DEF IInv, TypeOK, Newest
<1>3. /\ x \in Session /\ x.people = sessions[registry].people \cup {c}
      /\ x.ghost = sessions[registry].ghost /\ x.gone = sessions[registry].gone
  BY <1>2 DEF Session
<1> HIDE DEF x
<1>4. /\ sessions' \in Seq(Session) /\ Len(sessions') = Len(sessions)
      /\ sessions'[registry] = x
  BY <1>1, <1>2, <1>3, OneSession DEF IInv, TypeOK
<1>5. TypeOK'
  BY <1>1, <1>2, <1>4 DEF IInv, TypeOK, Phases
<1>6. Placed' /\ Saving'
  BY <1>1, <1>4 DEF IInv, TypeOK, Placed, Saving
<1>7. Newest' /\ Present'
  BY <1>1, <1>2, <1>3, <1>4 DEF IInv, TypeOK, Newest, Present
<1>8. Held'
  BY <1>1, <1>3, <1>4 DEF Held
<1> QED
  BY <1>5, <1>6, <1>7, <1>8 DEF IInv

\* A new session is the newest one, with one participant.
LEMMA SubscribeOpenInv ==
    ASSUME IInv, NEW c \in Conn, SubscribeOpen(c)
    PROVE  IInv'
<1> DEFINE x == [doc |-> copy[c], node |-> copy[c].content, updates |-> FALSE,
                 lastSaved |-> copy[c].version, people |-> {c},
                 ghost |-> FALSE, gone |-> FALSE]
           n == Len(sessions) + 1
<1>1. /\ phase[c] = "reading"
      /\ sessions' = Append(sessions, x)
      /\ registry' = Len(sessions')
      /\ mine' = [mine EXCEPT ![c] = registry']
      /\ phase' = [phase EXCEPT ![c] = "in"]
      /\ raced' \in BOOLEAN
      /\ UNCHANGED <<db, copy, job, writes, accepted, confirmed>>
  BY DEF SubscribeOpen, Become, IInv, TypeOK
<1>2. x \in Session /\ x.people = {c} /\ x.gone = FALSE
  BY DEF IInv, TypeOK, Session, DocRecord
<1> HIDE DEF x
<1>3. /\ sessions' \in Seq(Session) /\ Len(sessions') = n /\ sessions'[n] = x
      /\ registry' = n /\ Len(sessions) \in Nat
  BY <1>1, <1>2, AppendProperties DEF IInv, TypeOK
<1>4. TypeOK'
  BY <1>1, <1>3 DEF IInv, TypeOK, Phases
<1>5. Placed' /\ Saving'
  BY <1>1, <1>3 DEF IInv, TypeOK, Placed, Saving
<1>6. Newest' /\ Present'
  BY <1>1, <1>2, <1>3 DEF IInv, TypeOK, Newest, Present
<1>7. Held'
  BY <1>2, <1>3 DEF Held
<1> QED
  BY <1>4, <1>5, <1>6, <1>7 DEF IInv

\* The write changes the row only.
LEMMA SaveWriteInv ==
    ASSUME IInv, NEW c \in Conn, SaveWrite(c)
    PROVE  IInv'
<1> DEFINE doc == sessions[job[c].sess].doc
           later == doc.version - job[c].version
           first == IF later > 0 /\ later <= Len(doc.diffs)
                    THEN <<doc.diffs[Len(doc.diffs) - later + 1]>> ELSE <<>>
           row == [version |-> job[c].version, content |-> job[c].content,
                   notes |-> doc.notes, diffs |-> job[c].diffs \o first]
<1>1. /\ phase[c] = "queued" /\ writes # <<>>
      /\ db' = IF job[c].string THEN row ELSE doc
      /\ writes' = Tail(writes)
      /\ phase' = [phase EXCEPT ![c] = "saved"]
      /\ UNCHANGED <<sessions, registry, copy, mine, job, accepted, confirmed, raced>>
  BY DEF SaveWrite, Turn, Become
<1>2. doc \in DocRecord /\ job[c] \in Job
  <2>1. job[c].sess \in 1 .. Len(sessions) /\ sessions \in Seq(Session)
    BY <1>1 DEF IInv, TypeOK, Saving
  <2>2. sessions[job[c].sess] \in Session
    BY <2>1, ElementOfSeq
  <2> QED
    BY <2>2 DEF Session, IInv, TypeOK
<1>3. first \in Seq(DiffId)
  <2>1. doc.diffs \in Seq(DiffId) /\ doc.version \in Nat /\ job[c].version \in Nat
    BY <1>2 DEF DocRecord, Job, Text
  <2>2. CASE later > 0 /\ later <= Len(doc.diffs)
    <3>0. Len(doc.diffs) \in Nat /\ later \in Int
      BY <2>1, LenProperties
    <3> HIDE DEF later, doc
    <3>1. Len(doc.diffs) - later + 1 \in 1 .. Len(doc.diffs)
      BY <2>2, <3>0
    <3>2. doc.diffs[Len(doc.diffs) - later + 1] \in DiffId
      BY <2>1, <3>1, ElementOfSeq
    <3> QED
      BY <2>2, <3>2
  <2>3. CASE ~(later > 0 /\ later <= Len(doc.diffs))
    BY <2>3
  <2> QED
    BY <2>2, <2>3
<1> HIDE DEF first, doc
<1>4. row \in DocRecord
  <2>1. job[c].diffs \o first \in Seq(DiffId)
    BY <1>2, <1>3, ConcatProperties DEF Job, Text
  <2> QED
    BY <1>2, <2>1 DEF DocRecord, Job, Text
<1> HIDE DEF row
<1>5. TypeOK'
  BY <1>1, <1>2, <1>4 DEF IInv, TypeOK, Phases, Awaits
<1>6. Placed' /\ Saving' /\ Newest' /\ Present'
  BY <1>1 DEF IInv, TypeOK, Placed, Saving, Newest, Present
<1>7. Held'
  BY <1>1 DEF IInv, TypeOK, Held, Leaving
<1> QED
  BY <1>5, <1>6, <1>7 DEF IInv

\* A write fails only for a session that is not registered any more, so its
\* handler held nothing.
LEMMA SaveFailInv ==
    ASSUME IInv, NEW c \in Conn, SaveFail(c)
    PROVE  IInv'
<1>1. /\ phase[c] = "queued" /\ writes # <<>>
      /\ sessions[job[c].sess].gone
      /\ writes' = Tail(writes)
      /\ phase' = [phase EXCEPT ![c] = "out"]
      /\ job' = [job EXCEPT ![c] = NoJob]
      /\ UNCHANGED <<db, sessions, registry, copy, mine, accepted, confirmed, raced>>
  BY DEF SaveFail, Turn, CannotWrite, Become
<1>2. /\ job[c].sess \in 1 .. Len(sessions) /\ mine[c] <= job[c].sess
      /\ Len(sessions) \in Nat /\ mine[c] \in Nat
  BY <1>1 DEF IInv, TypeOK, Saving
<1>3. registry # 0 => /\ job[c].sess # registry
                      /\ registry = Len(sessions)
                      /\ mine[c] # registry
  BY <1>1, <1>2 DEF IInv, Newest
<1>4. TypeOK'
  BY <1>1, EmptyType DEF IInv, TypeOK, Phases, NoJob
<1>5. Placed' /\ Saving' /\ Newest' /\ Present'
  BY <1>1, <1>3 DEF IInv, TypeOK, Placed, Saving, Newest, Present
<1>6. Held'
  BY <1>1, <1>3 DEF IInv, TypeOK, Held, Leaving
<1> QED
  BY <1>4, <1>5, <1>6 DEF IInv

\* What a handler that ends confirms is an accepted diff.
LEMMA ConfirmType ==
    ASSUME TypeOK, NEW c \in Conn, Confirm(c)
    PROVE  /\ job' \in [Conn -> Job]
           /\ job' = [job EXCEPT ![c] = NoJob]
           /\ \A d \in Conn : job'[d].diff <= Len(accepted)
           /\ confirmed' \subseteq 1 .. Len(accepted)
<1>1. job[c] \in Job /\ job[c].diff <= Len(accepted) /\ Len(accepted) \in Nat
  BY DEF TypeOK
<1>2. job[c].diff \in Nat
  BY <1>1 DEF Job
<1>3. /\ job' = [job EXCEPT ![c] = NoJob]
      /\ confirmed' = confirmed \cup ({job[c].diff} \ {0})
  BY DEF Confirm
<1>4. NoJob \in Job /\ NoJob.diff = 0
  BY EmptyType DEF NoJob
<1>5. job' \in [Conn -> Job] /\ \A d \in Conn : job'[d].diff <= Len(accepted)
  BY <1>1, <1>3, <1>4 DEF TypeOK
<1>6. confirmed' \subseteq 1 .. Len(accepted)
  <2>1. confirmed \subseteq 1 .. Len(accepted)
    BY DEF TypeOK
  <2>2. {job[c].diff} \ {0} \subseteq 1 .. Len(accepted)
    BY <1>1, <1>2
  <2> QED
    BY <1>3, <2>1, <2>2
<1> QED
  BY <1>3, <1>5, <1>6

\* After the write the handler goes back, or on to the clean-up.
LEMMA SaveEndInv ==
    ASSUME IInv, NEW c \in Conn, SaveEnd(c)
    PROVE  IInv'
<1> DEFINE s == job[c].sess
           x == [sessions[s] EXCEPT !.lastSaved = sessions[s].doc.version,
                                    !.updates = FALSE]
<1>1. /\ phase[c] = "saved"
      /\ sessions' = MarkSaved(s)
      /\ phase' = [phase EXCEPT ![c] = job[c].then]
      /\ Confirm(c)
      /\ UNCHANGED <<db, registry, copy, mine, writes, accepted, raced>>
  BY DEF SaveEnd, Become
<1>2. s \in 1 .. Len(sessions) /\ job[c].then \in {"in", "cleanup"}
  BY <1>1 DEF IInv, TypeOK, Saving, Job
<1>3. sessions[s] \in Session
  BY <1>2, ElementOfSeq DEF IInv, TypeOK
<1>4. /\ x \in Session /\ x.people = sessions[s].people
      /\ x.ghost = sessions[s].ghost /\ x.gone = sessions[s].gone
      /\ sessions' = [sessions EXCEPT ![s] = x]
  BY <1>1, <1>3 DEF Session, DocRecord, MarkSaved
<1> HIDE DEF x
<1>5. /\ sessions' \in Seq(Session) /\ Len(sessions') = Len(sessions)
      /\ \A i \in 1 .. Len(sessions) : /\ sessions'[i].people = sessions[i].people
                                       /\ sessions'[i].ghost = sessions[i].ghost
                                       /\ sessions'[i].gone = sessions[i].gone
  BY <1>2, <1>4, OneSession DEF IInv, TypeOK
<1>6. /\ job' \in [Conn -> Job]
      /\ job' = [job EXCEPT ![c] = NoJob]
      /\ \A d \in Conn : job'[d].diff <= Len(accepted)
      /\ confirmed' \subseteq 1 .. Len(accepted)
  BY <1>1, ConfirmType DEF IInv
<1>7. TypeOK'
  BY <1>1, <1>2, <1>5, <1>6 DEF IInv, TypeOK, Phases, Awaits
<1>8. Placed' /\ Saving'
  BY <1>1, <1>2, <1>5, <1>6 DEF IInv, TypeOK, Placed, Saving
<1>a. registry # 0 => registry \in 1 .. Len(sessions)
  BY DEF IInv, TypeOK
<1>9. Newest' /\ Present'
  <2>1. /\ registry' = registry /\ mine' = mine
        /\ phase[c] = "saved" /\ phase \in [Conn -> Phases]
        /\ phase' = [phase EXCEPT ![c] = job[c].then]
    BY <1>1 DEF IInv, TypeOK
  <2>2. Newest'
    BY <1>5, <1>a, <2>1 DEF IInv, Newest
  <2>3. Present'
    BY <1>2, <1>5, <1>a, <2>1 DEF IInv, Present
  <2> QED
    BY <2>2, <2>3
<1>10. Held'
  <2>1. SUFFICES ASSUME registry # 0
                 PROVE  \/ sessions'[registry].people # {}
                        \/ sessions'[registry].ghost
                        \/ \E d \in Conn : Leaving(d)'
    BY <1>1 DEF Held
  <2>2. CASE sessions[registry].people # {} \/ sessions[registry].ghost
    BY <1>5, <1>a, <2>1, <2>2
  <2>3. ASSUME NEW d \in Conn, Leaving(d) PROVE \E e \in Conn : Leaving(e)'
    BY <1>1, <1>6, <2>3 DEF IInv, TypeOK, Leaving
  <2> QED
    BY <2>1, <2>2, <2>3 DEF IInv, Held
<1> QED
  BY <1>7, <1>8, <1>9, <1>10 DEF IInv

\* A save that starts for c, with the participants and sessions of ss.
LEMMA SavingInv ==
    ASSUME IInv, NEW c \in Conn, NEW then \in {"in", "cleanup"},
           NEW ss \in Seq(Session), Len(ss) = Len(sessions), registry # 0,
           phase[c] \notin {"out", "reading"},
           \A s \in 1 .. Len(ss) : ss[s].gone = sessions[s].gone,
           ss[registry].ghost = sessions[registry].ghost,
           \A d \in ss[registry].people : d \in sessions[registry].people,
           ss[registry].people = {} /\ ~ss[registry].ghost =>
               then = "cleanup" \/ \E d \in Conn \ {c} : Leaving(d),
           phase[c] \in {"queued", "saved", "cleanup"} => FALSE,
           SaveBegin(c, then, ss),
           UNCHANGED <<db, registry, copy, mine, accepted>>,
           confirmed' = confirmed
    PROVE  IInv'
<1>1. registry \in 1 .. Len(ss) /\ registry = Len(sessions) /\ mine[c] <= registry
  BY DEF IInv, TypeOK, Newest
<1>2. /\ sessions' \in Seq(Session) /\ Len(sessions') = Len(ss)
      /\ \A s \in 1 .. Len(ss) : /\ sessions'[s].people = ss[s].people
                                 /\ sessions'[s].ghost = ss[s].ghost
                                 /\ sessions'[s].gone = ss[s].gone
      /\ job' \in [Conn -> Job]
      /\ \A d \in Conn \ {c} : job'[d] = job[d]
      /\ job'[c].sess = registry /\ job'[c].then = then
      /\ job'[c].diff = job[c].diff
      /\ phase' = [phase EXCEPT ![c] = "queued"]
      /\ writes' \in Seq(Conn) /\ raced' \in BOOLEAN
  BY <1>1, SaveBeginStep DEF IInv
<1>3. TypeOK'
  BY <1>2 DEF IInv, TypeOK, Phases, Awaits
<1>4. Placed' /\ Saving'
  BY <1>1, <1>2 DEF IInv, TypeOK, Placed, Saving
<1>5. Newest' /\ Present'
  BY <1>1, <1>2 DEF IInv, TypeOK, Newest, Present
<1>6. Held'
  BY <1>1, <1>2 DEF IInv, TypeOK, Held, Leaving
<1> QED
  BY <1>3, <1>4, <1>5, <1>6 DEF IInv

\* unfixable() starts a save.
LEMMA UnfixableInv ==
    ASSUME IInv, NEW c \in Conn, Unfixable(c)
    PROVE  IInv'
<1>1. /\ phase[c] = "in" /\ registry # 0
      /\ SaveBegin(c, "in", sessions)
      /\ UNCHANGED <<db, registry, copy, mine, accepted, confirmed>>
  BY DEF Unfixable
<1>2. sessions \in Seq(Session)
  BY DEF IInv, TypeOK
<1>3. sessions[registry].people = {} /\ ~sessions[registry].ghost =>
          \E d \in Conn \ {c} : Leaving(d)
  BY <1>1 DEF IInv, Held, Leaving
<1> QED
  BY <1>1, <1>2, <1>3, SavingInv

\* Reading the rights changes nothing but the phase.
LEMMA DiffCheckInv ==
    ASSUME IInv, NEW c \in Conn, DiffCheck(c)
    PROVE  IInv'
<1>1. /\ phase[c] = "in"
      /\ phase' = [phase EXCEPT ![c] = "checked"]
      /\ UNCHANGED <<db, sessions, registry, copy, mine, job, writes, accepted,
                     confirmed, raced>>
  BY DEF DiffCheck, Become
<1>2. TypeOK'
  BY <1>1 DEF IInv, TypeOK, Phases, Awaits
<1>3. Placed' /\ Saving' /\ Newest' /\ Present'
  BY <1>1 DEF IInv, TypeOK, Placed, Saving, Newest, Present
<1>4. Held'
  BY <1>1 DEF IInv, TypeOK, Held, Leaving
<1> QED
  BY <1>2, <1>3, <1>4 DEF IInv

\* A handler moves on within its session, whose participants stay.
LEMMA MovesInv ==
    ASSUME IInv, TypeOK', NEW c \in Conn,
           phase[c] \in {"in", "checked", "applied"},
           NEW p \in {"in", "checked", "applied"},
           phase' = [phase EXCEPT ![c] = p],
           Len(sessions') = Len(sessions),
           \A s \in 1 .. Len(sessions) : /\ sessions'[s].people = sessions[s].people
                                         /\ sessions'[s].ghost = sessions[s].ghost
                                         /\ sessions'[s].gone = sessions[s].gone,
           \A d \in Conn \ {c} : job'[d] = job[d],
           p = "applied" => job'[c].diff # 0,
           UNCHANGED <<registry, mine>>
    PROVE  IInv'
<1>1. phase \in [Conn -> Phases]
  BY DEF IInv, TypeOK
<1>2. registry # 0 => registry \in 1 .. Len(sessions)
  BY DEF IInv, TypeOK
<1>3. Placed' /\ Saving'
  BY <1>1 DEF IInv, Placed, Saving
<1>4. Newest' /\ Present'
  BY <1>1, <1>2 DEF IInv, Newest, Present
<1>5. Held'
  BY <1>1, <1>2 DEF IInv, Held, Leaving
<1> QED
  BY <1>3, <1>4, <1>5 DEF IInv

\* A diff changes the document and the node of its session.
LEMMA DiffApplyInv ==
    ASSUME IInv, NEW c \in Conn, NEW kind \in Kinds, DiffApply(c, kind)
    PROVE  IInv'
<1> DEFINE n == Len(accepted) + 1
           doc == sessions[mine[c]].doc
           newDoc == [doc EXCEPT !.version = @ + 1,
                                 !.diffs = LastOf(Append(@, n), History),
                                 !.notes = @ \cup {i \in {n} : kind = "notes"}]
           x == IF kind = "steps"
                THEN [sessions[mine[c]] EXCEPT !.doc = newDoc,
                                               !.node = Append(@, n),
                                               !.updates = TRUE]
                ELSE [sessions[mine[c]] EXCEPT !.doc = newDoc]
<1>1. /\ phase[c] = "checked"
      /\ sessions' = [sessions EXCEPT ![mine[c]] = x]
      /\ accepted' = Append(accepted, kind)
      /\ job' = [job EXCEPT ![c].diff = n]
      /\ phase' = [phase EXCEPT ![c] = "applied"]
      /\ raced' \in BOOLEAN
      /\ UNCHANGED <<db, registry, copy, mine, writes, confirmed>>
  BY DEF DiffApply, Become, IInv, TypeOK
<1>2. /\ mine[c] \in 1 .. Len(sessions) /\ sessions \in Seq(Session)
      /\ accepted \in Seq(DiffKinds) /\ kind \in DiffKinds
  <2>1. /\ mine \in [Conn -> 0 .. Len(sessions)] /\ sessions \in Seq(Session)
        /\ accepted \in Seq(DiffKinds)
    BY DEF IInv, TypeOK
  <2>2. mine[c] # 0
    BY <1>1 DEF IInv, Placed
  <2>3. kind \in DiffKinds
    BY KindsAssumption
  <2> QED
    BY <2>1, <2>2, <2>3
<1>3. Len(accepted) \in Nat /\ n \in DiffId /\ n \in Nat
  BY <1>2, LenProperties DEF DiffId
<1>4. sessions[mine[c]] \in Session /\ doc \in DocRecord
  <2>1. sessions[mine[c]] \in Session
    BY <1>2, ElementOfSeq
  <2> QED
    BY <2>1 DEF Session
<1>5. newDoc \in DocRecord
  <2>1. doc.diffs \in Seq(DiffId) /\ doc.version \in Nat /\ doc.notes \subseteq DiffId
    BY <1>4 DEF DocRecord, Text
  <2>2. Append(doc.diffs, n) \in Text
    BY <1>3, <2>1, AppendProperties DEF Text
  <2>3. LastOf(Append(doc.diffs, n), History) \in Text
    BY <2>2, LastOfType, NumberAssumption
  <2>4. doc.notes \cup {i \in {n} : kind = "notes"} \in SUBSET DiffId
    BY <1>3, <2>1
  <2>5. doc.version + 1 \in Nat
    BY <2>1
  <2> QED
    BY <1>4, <2>3, <2>4, <2>5 DEF DocRecord
<1>6. /\ x \in Session /\ x.people = sessions[mine[c]].people
      /\ x.ghost = sessions[mine[c]].ghost /\ x.gone = sessions[mine[c]].gone
  <2>1. Append(sessions[mine[c]].node, n) \in Text
    BY <1>3, <1>4, AppendProperties DEF Session, Text
  <2> QED
    BY <1>4, <1>5, <2>1 DEF Session
<1> HIDE DEF x
<1>7. /\ sessions' \in Seq(Session) /\ Len(sessions') = Len(sessions)
      /\ \A s \in 1 .. Len(sessions) : /\ sessions'[s].people = sessions[s].people
                                       /\ sessions'[s].ghost = sessions[s].ghost
                                       /\ sessions'[s].gone = sessions[s].gone
  BY <1>1, <1>2, <1>6, OneSession
<1>8. /\ job' \in [Conn -> Job] /\ \A d \in Conn \ {c} : job'[d] = job[d]
      /\ job'[c].diff = n
  <2>1. job[c] \in Job /\ job \in [Conn -> Job]
    BY DEF IInv, TypeOK
  <2>2. [job[c] EXCEPT !.diff = n] \in Job /\ [job[c] EXCEPT !.diff = n].diff = n
    BY <1>3, <2>1 DEF Job
  <2> QED
    BY <1>1, <2>1, <2>2
<1>9. accepted' \in Seq(DiffKinds) /\ Len(accepted') = n
  BY <1>1, <1>2, AppendProperties
<1>10. TypeOK'
  <2>1. \A d \in Conn : job'[d].diff <= Len(accepted')
    <3>1. \A d \in Conn \ {c} : job[d].diff \in Nat /\ job[d].diff <= Len(accepted)
      BY DEF IInv, TypeOK, Job
    <3> QED
      BY <1>3, <1>8, <1>9, <3>1
  <2>2. confirmed' \subseteq 1 .. Len(accepted')
    BY <1>1, <1>3, <1>9 DEF IInv, TypeOK
  <2> QED
    BY <1>1, <1>7, <1>8, <1>9, <2>1, <2>2 DEF IInv, TypeOK, Phases, Awaits
<1>11. /\ job'[c].diff # 0 /\ UNCHANGED <<registry, mine>>
       /\ phase[c] \in {"in", "checked", "applied"}
  BY <1>1, <1>3, <1>8 DEF DiffId
<1>12. phase' = [phase EXCEPT ![c] = "applied"]
  BY <1>1
<1> HIDE DEF n, newDoc, doc
<1> QED
  BY <1>7, <1>8, <1>10, <1>11, <1>12, MovesInv

\* The session of the diff is gone: nothing of it is left to hold.
LEMMA DiffFailInv ==
    ASSUME IInv, NEW c \in Conn, NEW kind \in Kinds, DiffFail(c, kind)
    PROVE  IInv'
<1>1. /\ phase[c] = "checked" /\ sessions[mine[c]].gone
      /\ UNCHANGED <<db, registry, copy, mine, accepted, confirmed>>
  BY DEF DiffFail
<1>2. sessions \in Seq(Session) /\ phase \in [Conn -> Phases]
  BY DEF IInv, TypeOK
<1>3. CASE SaveBegin(c, "in", sessions) /\ registry # 0
  <2>1. sessions[registry].people = {} /\ ~sessions[registry].ghost =>
            \E d \in Conn \ {c} : Leaving(d)
    BY <1>1, <1>3 DEF IInv, Held, Leaving
  <2> QED
    BY <1>1, <1>2, <1>3, <2>1, SavingInv
<1>4. CASE Become(c, "in") /\ UNCHANGED <<sessions, job, writes, raced>>
  <2>1. TypeOK'
    BY <1>1, <1>2, <1>4 DEF IInv, TypeOK, Become, Phases
  <2>2. phase' = [phase EXCEPT ![c] = "in"]
    BY <1>4 DEF Become
  <2>3. /\ Len(sessions') = Len(sessions) /\ registry' = registry /\ mine' = mine
        /\ \A s \in 1 .. Len(sessions) : /\ sessions'[s].people = sessions[s].people
                                         /\ sessions'[s].ghost = sessions[s].ghost
                                         /\ sessions'[s].gone = sessions[s].gone
        /\ \A d \in Conn \ {c} : job'[d] = job[d]
    BY <1>1, <1>4
  <2> QED
    BY <1>1, <2>1, <2>2, <2>3, MovesInv
<1>5. CASE Become(c, "out") /\ UNCHANGED <<sessions, job, writes, raced>>
  <2>1. /\ phase' = [phase EXCEPT ![c] = "out"]
        /\ registry # 0 => mine[c] # registry
    BY <1>1, <1>5 DEF IInv, Newest, Become
  <2>2. TypeOK'
    BY <1>1, <1>2, <1>5, <2>1 DEF IInv, TypeOK, Phases
  <2>3. Placed' /\ Saving' /\ Newest' /\ Present'
    BY <1>1, <1>2, <1>5, <2>1 DEF IInv, Placed, Saving, Newest, Present
  <2>4. Held'
    BY <1>1, <1>2, <1>5, <2>1 DEF IInv, Held, Leaving
  <2> QED
    BY <2>2, <2>3, <2>4 DEF IInv
<1> QED
  BY <1>3, <1>4, <1>5 DEF DiffFail, NeedsSave

\* The end of handle_diff() adds notes, and confirms or saves.
LEMMA DiffDoneInv ==
    ASSUME IInv, NEW c \in Conn, DiffDone(c)
    PROVE  IInv'
<1> DEFINE notes == {n \in {job[c].diff} : Titled(c)}
           m == mine[c]
           doc == [sessions[m].doc EXCEPT !.notes = @ \cup notes]
           x == [sessions[m] EXCEPT !.doc = doc]
           noted == [sessions EXCEPT ![m] = x]
<1>1. /\ phase[c] = "applied"
      /\ \/ /\ NeedsSave(registry) /\ SaveBegin(c, "in", noted)
            /\ UNCHANGED confirmed
         \/ /\ Become(c, "in") /\ sessions' = noted /\ Confirm(c)
            /\ UNCHANGED writes /\ raced' \in BOOLEAN
      /\ UNCHANGED <<db, registry, copy, mine, accepted>>
  BY DEF DiffDone, IInv, TypeOK
<1>2. /\ sessions \in Seq(Session) /\ phase \in [Conn -> Phases]
      /\ m \in 1 .. Len(sessions) /\ job[c] \in Job /\ job[c].diff # 0
  <2>1. /\ sessions \in Seq(Session) /\ phase \in [Conn -> Phases]
        /\ m \in 0 .. Len(sessions) /\ job[c] \in Job
    BY DEF IInv, TypeOK
  <2>2. m # 0 /\ job[c].diff # 0
    BY <1>1 DEF IInv, Placed
  <2> QED
    BY <2>1, <2>2
<1>3. notes \subseteq DiffId
  BY <1>2 DEF Job, DiffId
<1>4. sessions[m] \in Session
  BY <1>2, ElementOfSeq
<1> HIDE DEF notes
<1>5. doc \in DocRecord
  <2>1. sessions[m].doc \in DocRecord
    BY <1>4 DEF Session
  <2>2. sessions[m].doc.notes \cup notes \in SUBSET DiffId
    BY <1>3, <2>1 DEF DocRecord
  <2> QED
    BY <2>1, <2>2 DEF DocRecord
<1>6. /\ x \in Session /\ x.people = sessions[m].people
      /\ x.ghost = sessions[m].ghost /\ x.gone = sessions[m].gone
  BY <1>4, <1>5 DEF Session
<1> HIDE DEF x
<1>7. /\ noted \in Seq(Session) /\ Len(noted) = Len(sessions)
      /\ \A s \in 1 .. Len(sessions) : /\ noted[s].people = sessions[s].people
                                       /\ noted[s].ghost = sessions[s].ghost
                                       /\ noted[s].gone = sessions[s].gone
  BY <1>2, <1>6, OneSession
<1> HIDE DEF noted
<1>8. CASE /\ NeedsSave(registry) /\ SaveBegin(c, "in", noted)
           /\ UNCHANGED confirmed
  <2>1. registry # 0 /\ registry \in 1 .. Len(sessions)
    BY <1>8 DEF NeedsSave, IInv, TypeOK
  <2>2. /\ noted[registry].people = sessions[registry].people
        /\ noted[registry].ghost = sessions[registry].ghost
    BY <1>7, <2>1
  <2>3. noted[registry].people = {} /\ ~noted[registry].ghost =>
            \E d \in Conn \ {c} : Leaving(d)
    BY <1>1, <2>1, <2>2 DEF IInv, Held, Leaving
  <2> QED
    BY <1>1, <1>7, <1>8, <2>1, <2>2, <2>3, SavingInv
<1>9. CASE /\ Become(c, "in") /\ sessions' = noted /\ Confirm(c)
           /\ UNCHANGED writes /\ raced' \in BOOLEAN
  <2>1. /\ job' \in [Conn -> Job]
        /\ job' = [job EXCEPT ![c] = NoJob]
        /\ \A d \in Conn : job'[d].diff <= Len(accepted)
        /\ confirmed' \subseteq 1 .. Len(accepted)
    BY <1>9, ConfirmType DEF IInv
  <2>2. phase' = [phase EXCEPT ![c] = "in"]
    BY <1>9 DEF Become
  <2>3. TypeOK'
    BY <1>1, <1>2, <1>7, <1>9, <2>1, <2>2 DEF IInv, TypeOK, Phases
  <2>4. \A d \in Conn \ {c} : job'[d] = job[d]
    BY <2>1 DEF IInv, TypeOK
  <2> QED
    BY <1>1, <1>7, <1>9, <2>2, <2>3, <2>4, MovesInv
<1> QED
  BY <1>1, <1>8, <1>9

\* Whoever raises an exception is not a participant any more, but its session
\* has a ghost.
LEMMA DiffRaiseInv ==
    ASSUME IInv, NEW c \in Conn, DiffRaise(c)
    PROVE  IInv'
<1> DEFINE m == mine[c]
           x == [sessions[m] EXCEPT !.people = @ \ {c}, !.ghost = TRUE]
<1>1. /\ phase[c] = "applied"
      /\ sessions' = [sessions EXCEPT ![m] = x]
      /\ phase' = [phase EXCEPT ![c] = "out"]
      /\ job' = [job EXCEPT ![c] = NoJob]
      /\ UNCHANGED <<db, registry, copy, mine, writes, accepted, confirmed, raced>>
  BY DEF DiffRaise, LeaveGhost, Become
<1>2. /\ sessions \in Seq(Session) /\ phase \in [Conn -> Phases]
      /\ m \in 1 .. Len(sessions)
  <2>1. /\ sessions \in Seq(Session) /\ phase \in [Conn -> Phases]
        /\ m \in 0 .. Len(sessions)
    BY DEF IInv, TypeOK
  <2>2. m # 0
    BY <1>1 DEF IInv, Placed
  <2> QED
    BY <2>1, <2>2
<1>3. sessions[m] \in Session
  BY <1>2, ElementOfSeq
<1>4. /\ x \in Session /\ x.people = sessions[m].people \ {c}
      /\ x.ghost /\ x.gone = sessions[m].gone
  BY <1>3 DEF Session
<1> HIDE DEF x
<1>5. /\ sessions' \in Seq(Session) /\ Len(sessions') = Len(sessions)
      /\ sessions'[m] = x
      /\ \A s \in 1 .. Len(sessions) : s # m => sessions'[s] = sessions[s]
  BY <1>1, <1>2, <1>4, OneSession
<1>6. registry # 0 => registry \in 1 .. Len(sessions)
  BY DEF IInv, TypeOK
<1>7. TypeOK'
  BY <1>1, <1>2, <1>5, EmptyType DEF IInv, TypeOK, Phases, NoJob
<1>8. Placed' /\ Saving'
  BY <1>1, <1>2, <1>5 DEF IInv, TypeOK, Placed, Saving
<1>9. Newest' /\ Present'
  <2>1. registry # 0 => sessions'[registry].gone = sessions[registry].gone
    BY <1>4, <1>5, <1>6
  <2>2. registry # 0 => /\ sessions'[registry].people \subseteq sessions[registry].people
                        /\ c \notin sessions'[registry].people
    BY <1>4, <1>5, <1>6 DEF IInv, Present
  <2> QED
    BY <1>1, <1>2, <1>5, <2>1, <2>2 DEF IInv, Newest, Present
<1>10. Held'
  <2>1. registry # 0 => \/ sessions'[registry].ghost
                        \/ sessions'[registry] = sessions[registry]
    BY <1>4, <1>5, <1>6
  <2> QED
    BY <1>1, <1>2, <2>1 DEF IInv, TypeOK, Held, Leaving
<1> QED
  BY <1>7, <1>8, <1>9, <1>10 DEF IInv

\* Whoever leaves last is on the way to the clean-up.
LEMMA DisconnectInv ==
    ASSUME IInv, NEW c \in Conn, Disconnect(c)
    PROVE  IInv'
<1> DEFINE m == mine[c]
           x == [sessions[m] EXCEPT !.people = @ \ {c}]
           left == [sessions EXCEPT ![m] = x]
<1>1. /\ phase[c] = "in"
      /\ \/ registry = 0 /\ Become(c, "out") /\ UNCHANGED <<sessions, job, writes, raced>>
         \/ /\ left[m].people # {} \/ left[m].ghost
            /\ Become(c, "out") /\ sessions' = left
            /\ UNCHANGED <<job, writes, raced>>
         \/ NeedsSave(registry) /\ SaveBegin(c, "cleanup", left)
         \/ /\ Become(c, "cleanup") /\ sessions' = left
            /\ UNCHANGED <<job, writes, raced>>
      /\ UNCHANGED <<db, registry, copy, mine, accepted, confirmed>>
  BY DEF Disconnect, NobodyLeft
<1>2. /\ sessions \in Seq(Session) /\ phase \in [Conn -> Phases]
      /\ m \in 1 .. Len(sessions)
  <2>1. /\ sessions \in Seq(Session) /\ phase \in [Conn -> Phases]
        /\ m \in 0 .. Len(sessions)
    BY DEF IInv, TypeOK
  <2>2. m # 0
    BY <1>1 DEF IInv, Placed
  <2> QED
    BY <2>1, <2>2
<1>3. sessions[m] \in Session
  BY <1>2, ElementOfSeq
<1>4. /\ x \in Session /\ x.people = sessions[m].people \ {c}
      /\ x.ghost = sessions[m].ghost /\ x.gone = sessions[m].gone
  BY <1>3 DEF Session
<1> HIDE DEF x
<1>5. /\ left \in Seq(Session) /\ Len(left) = Len(sessions) /\ left[m] = x
      /\ \A s \in 1 .. Len(sessions) : /\ s # m => left[s] = sessions[s]
                                       /\ left[s].ghost = sessions[s].ghost
                                       /\ left[s].gone = sessions[s].gone
                                       /\ left[s].people \subseteq sessions[s].people
  BY <1>2, <1>4, OneSession
<1> HIDE DEF left
<1>6. registry # 0 => /\ registry \in 1 .. Len(sessions)
                      /\ c \notin left[registry].people
  <2>1. registry # 0 => registry \in 1 .. Len(sessions)
    BY DEF IInv, TypeOK
  <2>2. registry # 0 /\ registry # m => c \notin sessions[registry].people
    BY DEF IInv, Present
  <2> QED
    BY <1>4, <1>5, <2>1, <2>2
<1>7. CASE registry = 0 /\ Become(c, "out") /\ UNCHANGED <<sessions, job, writes, raced>>
  <2>1. phase' = [phase EXCEPT ![c] = "out"] /\ registry' = 0
    BY <1>1, <1>7 DEF Become
  <2>2. TypeOK'
    BY <1>1, <1>2, <1>7, <2>1 DEF IInv, TypeOK, Phases
  <2>3. Placed' /\ Saving'
    BY <1>1, <1>2, <1>7, <2>1 DEF IInv, Placed, Saving
  <2> QED
    BY <2>1, <2>2, <2>3 DEF IInv, Newest, Present, Held
<1>8. CASE /\ left[m].people # {} \/ left[m].ghost
           /\ Become(c, "out") /\ sessions' = left
           /\ UNCHANGED <<job, writes, raced>>
  <2>1. phase' = [phase EXCEPT ![c] = "out"]
    BY <1>8 DEF Become
  <2>2. TypeOK'
    BY <1>1, <1>2, <1>5, <1>8, <2>1 DEF IInv, TypeOK, Phases
  <2>3. Placed' /\ Saving'
    BY <1>1, <1>2, <1>5, <1>8, <2>1 DEF IInv, Placed, Saving
  <2>4. Newest' /\ Present'
    BY <1>1, <1>2, <1>5, <1>6, <1>8, <2>1 DEF IInv, Newest, Present
  <2>5. Held'
    <3>1. registry # 0 /\ registry # m => left[registry] = sessions[registry]
      BY <1>5, <1>6
    <3> QED
      BY <1>1, <1>2, <1>8, <2>1, <3>1 DEF IInv, Held, Leaving
  <2> QED
    BY <2>2, <2>3, <2>4, <2>5 DEF IInv
<1>9. CASE NeedsSave(registry) /\ SaveBegin(c, "cleanup", left)
  <2>1. registry # 0
    BY <1>9 DEF NeedsSave
  <2>2. /\ \A d \in left[registry].people : d \in sessions[registry].people
        /\ left[registry].ghost = sessions[registry].ghost
    BY <1>5, <1>6, <2>1
  <2> QED
    BY <1>1, <1>5, <1>9, <2>1, <2>2, SavingInv
<1>10. CASE /\ Become(c, "cleanup") /\ sessions' = left
            /\ UNCHANGED <<job, writes, raced>>
  <2>1. phase' = [phase EXCEPT ![c] = "cleanup"]
    BY <1>10 DEF Become
  <2>2. TypeOK'
    BY <1>1, <1>2, <1>5, <1>10, <2>1 DEF IInv, TypeOK, Phases
  <2>3. Placed' /\ Saving'
    BY <1>1, <1>2, <1>5, <1>10, <2>1 DEF IInv, Placed, Saving
  <2>4. Newest' /\ Present'
    BY <1>1, <1>2, <1>5, <1>6, <1>10, <2>1 DEF IInv, Newest, Present
  <2>5. Held'
    BY <1>2, <2>1 DEF Held, Leaving
  <2> QED
    BY <2>2, <2>3, <2>4, <2>5 DEF IInv
<1> QED
  BY <1>1, <1>7, <1>8, <1>9, <1>10

\* After the clean-up nothing is registered.
LEMMA CleanupInv ==
    ASSUME IInv, NEW c \in Conn, Cleanup(c)
    PROVE  IInv'
<1> DEFINE x == [sessions[registry] EXCEPT !.gone = TRUE]
<1>1. /\ phase[c] = "cleanup" /\ registry' = 0
      /\ sessions' = IF registry = 0 THEN sessions
                     ELSE [sessions EXCEPT ![registry] = x]
      /\ phase' = [phase EXCEPT ![c] = "out"]
      /\ UNCHANGED <<db, copy, mine, job, writes, accepted, confirmed, raced>>
  BY DEF Cleanup, Become
<1>2. sessions' \in Seq(Session) /\ Len(sessions') = Len(sessions)
  <2>1. CASE registry # 0
    <3>1. registry \in 1 .. Len(sessions) /\ sessions \in Seq(Session)
      BY <2>1 DEF IInv, TypeOK
    <3>2. sessions[registry] \in Session
      BY <3>1, ElementOfSeq
    <3>3. x \in Session
      BY <3>2 DEF Session
    <3> QED
      BY <1>1, <2>1, <3>1, <3>3, OneSession
  <2> QED
    BY <1>1, <2>1 DEF IInv, TypeOK
<1>3. TypeOK'
  BY <1>1, <1>2 DEF IInv, TypeOK, Phases
<1>4. Placed' /\ Saving'
  BY <1>1, <1>2 DEF IInv, TypeOK, Placed, Saving
<1> QED
  BY <1>1, <1>3, <1>4 DEF IInv, Newest, Present, Held

\* After the shutdown nothing is registered and nobody is there.
LEMMA ShutdownInv ==
    ASSUME IInv, Shutdown
    PROVE  IInv'
<1> DEFINE s == sessions[registry]
           row == [s.doc EXCEPT !.content = IF s.updates THEN s.node ELSE @]
           x(i) == [sessions[i] EXCEPT !.people = {}, !.gone = TRUE]
<1>1. /\ db' = IF NeedsSave(registry) THEN row ELSE db
      /\ registry' = 0
      /\ sessions' = [i \in DOMAIN sessions |-> x(i)]
      /\ phase' = [c \in Conn |-> "out"]
      /\ job' = [c \in Conn |-> NoJob]
      /\ raced' \in BOOLEAN
      /\ UNCHANGED <<copy, mine, writes, accepted, confirmed>>
  BY DEF Shutdown, SavedNow, IInv, TypeOK
<1>2. /\ sessions \in Seq(Session) /\ Len(sessions) \in Nat
      /\ DOMAIN sessions = 1 .. Len(sessions)
  BY LenProperties DEF IInv, TypeOK
<1>3. \A i \in 1 .. Len(sessions) : sessions[i] \in Session /\ x(i) \in Session
  <2> TAKE i \in 1 .. Len(sessions)
  <2>1. sessions[i] \in Session
    BY <1>2, ElementOfSeq
  <2> QED
    BY <2>1 DEF Session
<1>4. db' \in DocRecord
  <2>1. CASE NeedsSave(registry)
    <3>1. registry \in 1 .. Len(sessions)
      BY <2>1 DEF NeedsSave, IInv, TypeOK
    <3>2. s \in Session
      BY <1>3, <3>1
    <3>3. row \in DocRecord
      BY <3>2 DEF Session, DocRecord
    <3> QED
      BY <1>1, <2>1, <3>3
  <2>2. CASE ~NeedsSave(registry)
    BY <1>1, <2>2 DEF IInv, TypeOK
  <2> QED
    BY <2>1, <2>2
<1> HIDE DEF x, row
<1>5. sessions' \in Seq(Session) /\ Len(sessions') = Len(sessions)
  BY <1>1, <1>2, <1>3
<1>6. TypeOK'
  <2>1. \A c \in Conn : job'[c] \in Job /\ job'[c].diff <= Len(accepted)
    <3>1. NoJob \in Job /\ NoJob.diff = 0 /\ Len(accepted) \in Nat
      BY EmptyType DEF NoJob, IInv, TypeOK
    <3> QED
      BY <1>1, <3>1
  <2>2. job' \in [Conn -> Job]
    BY <1>1, <2>1
  <2> QED
    BY <1>1, <1>4, <1>5, <2>1, <2>2 DEF IInv, TypeOK, Phases
<1>7. Placed' /\ Saving'
  BY <1>1 DEF Placed, Saving
<1> QED
  BY <1>1, <1>6, <1>7 DEF IInv, Newest, Present, Held

\* Every step keeps the invariant.
LEMMA Step == IInv /\ [Next]_vars => IInv'
<1> SUFFICES ASSUME IInv, [Next]_vars PROVE IInv'
  OBVIOUS
<1>1. ASSUME NEW c \in Conn, SubscribeRead(c) \/ Unfixable(c) \/ DiffCheck(c) \/ Disconnect(c)
      PROVE  IInv'
  BY <1>1, SubscribeReadInv, UnfixableInv, DiffCheckInv, DisconnectInv
<1>2. ASSUME NEW c \in Conn, Continue(c)
      PROVE  IInv'
  <2>1. CASE SubscribeJoin(c) \/ SubscribeOpen(c)
    BY <2>1, SubscribeJoinInv, SubscribeOpenInv
  <2>2. CASE \E kind \in Kinds : DiffApply(c, kind) \/ DiffFail(c, kind)
    BY <2>2, DiffApplyInv, DiffFailInv
  <2>3. CASE DiffDone(c) \/ DiffRaise(c)
    BY <2>3, DiffDoneInv, DiffRaiseInv
  <2>4. CASE SaveWrite(c) \/ SaveFail(c) \/ SaveEnd(c)
    BY <2>4, SaveWriteInv, SaveFailInv, SaveEndInv
  <2>5. CASE Cleanup(c)
    BY <2>5, CleanupInv
  <2> QED
    BY <1>2, <2>1, <2>2, <2>3, <2>4, <2>5 DEF Continue
<1>3. CASE Shutdown
  BY <1>3, ShutdownInv
<1>4. CASE UNCHANGED vars
  BY <1>4 DEF vars, IInv, TypeOK, Placed, Saving, Newest, Present, Held, Leaving
<1> QED
  BY <1>1, <1>2, <1>3, <1>4 DEF Next

\* In every reachable state the invariant holds.
LEMMA Invariance == Spec => []IInv
<1>1. Init => IInv
  BY InitInv
<1>2. IInv /\ [Next]_vars => IInv'
  BY Step
<1> QED
  BY <1>1, <1>2, PTL DEF Spec

\* All variables keep their types; no handler holds, and nobody was told of, a
\* diff that was not accepted (handle_diff(), save_document_async()).
THEOREM TypeCorrect == Spec => []TypeOK
<1>1. IInv => TypeOK
  BY DEF IInv
<1> QED
  BY <1>1, Invariance, PTL

\* However opening, saving, failing and closing overlap, no session outlives its
\* participants, unless a handler of one of them raised an exception: when all
\* are out, a session that is still registered lists one that has ended
\* (disconnect(), handle_diff()).
THEOREM NothingLeftOver == Spec => []NoLeftover
<1>1. IInv => NoLeftover
  <2> SUFFICES ASSUME IInv, \A c \in Conn : phase[c] = "out", registry # 0
               PROVE  sessions[registry].ghost
    BY DEF NoLeftover
  <2>1. registry \in 1 .. Len(sessions) /\ sessions \in Seq(Session)
    BY DEF IInv, TypeOK
  <2>2. sessions[registry].people \subseteq Conn
    <3>1. sessions[registry] \in Session
      BY <2>1, ElementOfSeq
    <3> QED
      BY <3>1 DEF Session
  <2>3. sessions[registry].people = {}
    BY <2>2 DEF IInv, Present
  <2> QED
    BY <2>3 DEF IInv, Held, Leaving
<1> QED
  BY <1>1, Invariance, PTL

-----------------------------------------------------------------------------
(* That one document keeps one copy in memory and a true row in the        *)
(* database, and loses nothing it confirmed, for any number of             *)
(* connections, diffs and sessions, with either backend and every overlap  *)
(* of handlers, until one of the four races of DocSession happens.         *)

here == sessions[registry]

\* c stays a participant, or takes the session away.
Saver(c) == phase[c] \in {"queued", "saved"}
Stays(c) == \/ phase[c] \in {"in", "checked", "applied"}
            \/ Saver(c) /\ job[c].then = "in"
Takes(c) == \/ phase[c] = "cleanup"
            \/ Saver(c) /\ job[c].then = "cleanup"

\* What a save holds is what the session has: no diff comes in between.
Holds(c) ==
    /\ job[c].sess = registry
    /\ job[c].version = Len(accepted)
    /\ IF job[c].string
       THEN Rust /\ job[c].content = here.node /\ job[c].diffs = here.doc.diffs
       ELSE here.doc.content = here.node
    /\ (job[c].diff # 0 /\ accepted[job[c].diff] # "steps") =>
           job[c].diff \in here.doc.notes

\* What each connection relies on when it goes on.
Fits(c) ==
    /\ phase[c] \notin {"out", "reading"} => registry # 0 /\ mine[c] = registry
    /\ Stays(c) => c \in here.people
    /\ Takes(c) => here.people = {} /\ ~here.ghost
    /\ Saver(c) => Holds(c)
    /\ phase[c] \in {"saved", "cleanup"} => db.version = Len(accepted)
    /\ phase[c] = "saved" => db.content = here.node
    /\ phase[c] # "applied" /\ ~Saver(c) => job[c].diff = 0
AllFit == \A c \in Conn : Fits(c)

\* Only one takes the session away.
OneTaker == \A c, d \in Conn : Takes(c) /\ Takes(d) => c = d

\* The stored diffs are the last ones up to the version v.
IsHistoryOf(diffs, v) ==
    /\ Len(diffs) <= History
    /\ Len(diffs) \in {v, History}
    /\ \A i \in 1 .. Len(diffs) : diffs[i] = v - Len(diffs) + i

\* The copy in memory has all that was accepted; the text that waits to be
\* saved differs from the row only while `updates` says so.
Memory ==
    registry # 0 =>
        /\ here.doc.version = Len(accepted)
        /\ IsTextOf(here.node, Len(accepted))
        /\ HasNotesOf(here.doc.notes, Len(accepted))
        /\ IsHistoryOf(here.doc.diffs, Len(accepted))
        /\ ~here.updates => /\ db.content = here.node
                            /\ ~Rust => here.doc.content = here.node

\* What was recorded as saved was, but for a save whose end is yet to come.
Marked == registry # 0 => \/ here.lastSaved = db.version
                          \/ \E c \in Conn : phase[c] = "saved"

\* Without a copy in memory the row has everything.
Closed == registry = 0 => db.version = Len(accepted)

\* Confirmed notes are in the copy in memory or, without one, in the row.
NotedIn(notes) == \A n \in confirmed : accepted[n] # "steps" => n \in notes
Noted == NotedIn(IF registry # 0 THEN here.doc.notes ELSE db.notes)

\* A row of the current version has the notes of the copy, but for a write that
\* is yet to come.
RowNotes ==
    (registry # 0 /\ db.version = Len(accepted)) =>
        \/ here.doc.notes \subseteq db.notes
        \/ \E c \in Conn : phase[c] = "queued"

Copies == Memory /\ RowIsAState /\ Marked /\ Closed /\ Noted /\ RowNotes

KInv == AllFit /\ OneTaker /\ Copies

-----------------------------------------------------------------------------
(* Texts, notes and stored diffs, whatever sequence of diffs was accepted.  *)

\* IsTextOf, HasNotesOf and RowIsAState of given sequences.
TextOf(acc, s, v) ==
    /\ \A i, j \in 1 .. Len(s) : i < j => s[i] < s[j]
    /\ \A i \in 1 .. Len(s) : s[i] <= v /\ acc[s[i]] = "steps"
    /\ \A n \in 1 .. v : acc[n] = "steps" => \E i \in 1 .. Len(s) : s[i] = n

NotesOf(acc, notes, v) == \A n \in 1 .. v : acc[n] = "notes" => n \in notes

StateOf(acc, row) ==
    /\ row.version <= Len(acc)
    /\ TextOf(acc, row.content, row.version)
    /\ NotesOf(acc, row.notes, row.version)
    /\ IsHistoryOf(row.diffs, row.version)

\* They say of the accepted diffs what the properties say.
LEMMA Sames ==
    /\ TypeOK => (RowIsAState <=> StateOf(accepted, db))
    /\ \A s, v : IsTextOf(s, v) <=> TextOf(accepted, s, v)
    /\ \A notes, v : HasNotesOf(notes, v) <=> NotesOf(accepted, notes, v)
<1>1. /\ \A s, v : IsTextOf(s, v) <=> TextOf(accepted, s, v)
      /\ \A notes, v : HasNotesOf(notes, v) <=> NotesOf(accepted, notes, v)
  BY DEF IsTextOf, TextOf, HasNotesOf, NotesOf
<1>2. TypeOK => DOMAIN db.diffs = 1 .. Len(db.diffs)
  BY DEF TypeOK, DocRecord, Text
<1> QED
  BY <1>1, <1>2 DEF RowIsAState, StateOf, IsHistoryOf

\* A diff accepted later changes no text and no notes of earlier versions.
LEMMA Older ==
    ASSUME NEW acc \in Seq(DiffKinds), NEW kind \in DiffKinds,
           NEW row \in DocRecord, StateOf(acc, row)
    PROVE  StateOf(Append(acc, kind), row)
<1> DEFINE v == row.version
           t == row.content
           b == Append(acc, kind)
<1>1. /\ v \in Nat /\ Len(acc) \in Nat /\ v <= Len(acc)
      /\ TextOf(acc, t, v) /\ NotesOf(acc, row.notes, v) /\ IsHistoryOf(row.diffs, v)
  BY DEF StateOf, DocRecord
<1>2. /\ t \in Seq(DiffId) /\ Len(t) \in Nat
      /\ \A i \in 1 .. Len(t) : t[i] \in DiffId
  BY ElementOfSeq DEF DocRecord, Text
<1>3. b \in Seq(DiffKinds) /\ Len(b) = Len(acc) + 1 /\ \A n \in 1 .. Len(acc) : b[n] = acc[n]
  BY AppendProperties
<1> HIDE DEF v, t, b
<1>4. \A i \in 1 .. Len(t) : t[i] \in 1 .. Len(acc)
  BY <1>1, <1>2 DEF TextOf, DiffId
<1>5. TextOf(b, t, v)
  <2>1. \A i, j \in 1 .. Len(t) : i < j => t[i] < t[j]
    BY <1>1 DEF TextOf
  <2>2. \A i \in 1 .. Len(t) : t[i] <= v /\ b[t[i]] = "steps"
    BY <1>1, <1>3, <1>4 DEF TextOf
  <2>3. \A n \in 1 .. v : b[n] = "steps" => \E i \in 1 .. Len(t) : t[i] = n
    BY <1>1, <1>3 DEF TextOf
  <2> QED
    BY <2>1, <2>2, <2>3 DEF TextOf
<1>6. NotesOf(b, row.notes, v)
  BY <1>1, <1>3 DEF NotesOf
<1>7. v <= Len(b)
  BY <1>1, <1>3
<1> QED
  BY <1>1, <1>5, <1>6, <1>7 DEF StateOf, v, t, b

\* Applying the next diff makes the text of the next version.
LEMMA NextText ==
    ASSUME NEW acc \in Seq(DiffKinds), NEW kind \in DiffKinds,
           NEW s \in Text, TextOf(acc, s, Len(acc))
    PROVE  TextOf(Append(acc, kind),
                  IF kind = "steps" THEN Append(s, Len(acc) + 1) ELSE s,
                  Len(acc) + 1)
<1> DEFINE v == Len(acc)
           b == Append(acc, kind)
           t == Append(s, v + 1)
<1>1. v \in Nat
  OBVIOUS
<1>2. /\ s \in Seq(DiffId) /\ Len(s) \in Nat
      /\ \A i \in 1 .. Len(s) : s[i] \in DiffId
  BY ElementOfSeq DEF Text
<1>3. Len(b) = v + 1 /\ b[v + 1] = kind /\ \A n \in 1 .. v : b[n] = acc[n]
  BY AppendProperties
<1>4. Len(t) = Len(s) + 1 /\ t[Len(s) + 1] = v + 1 /\ \A i \in 1 .. Len(s) : t[i] = s[i]
  BY <1>1, <1>2, AppendProperties DEF DiffId
<1>5. /\ \A i, j \in 1 .. Len(s) : i < j => s[i] < s[j]
      /\ \A i \in 1 .. Len(s) : s[i] <= v /\ acc[s[i]] = "steps"
      /\ \A n \in 1 .. v : acc[n] = "steps" => \E i \in 1 .. Len(s) : s[i] = n
  BY DEF TextOf
<1> HIDE DEF v, b, t
<1>6. \A i \in 1 .. Len(s) : s[i] \in Nat /\ s[i] \in 1 .. v /\ s[i] <= v + 1 /\ s[i] < v + 1
  BY <1>1, <1>2, <1>5 DEF DiffId
<1>7. CASE kind = "steps"
  <2>1. \A i, j \in 1 .. Len(t) : i < j => t[i] < t[j]
    <3> SUFFICES ASSUME NEW i \in 1 .. Len(t), NEW j \in 1 .. Len(t), i < j
                 PROVE  t[i] < t[j]
      OBVIOUS
    <3>1. i \in 1 .. Len(s)
      BY <1>2, <1>4
    <3>2. CASE j \in 1 .. Len(s)
      BY <1>4, <1>5, <3>1, <3>2
    <3>3. CASE j = Len(s) + 1
      BY <1>4, <1>6, <3>1, <3>3
    <3> QED
      BY <1>2, <1>4, <3>2, <3>3
  <2>2. \A i \in 1 .. Len(t) : t[i] <= v + 1 /\ b[t[i]] = "steps"
    <3> TAKE i \in 1 .. Len(t)
    <3>1. CASE i \in 1 .. Len(s)
      BY <1>3, <1>4, <1>5, <1>6, <3>1
    <3>2. CASE i = Len(s) + 1
      BY <1>1, <1>3, <1>4, <1>7, <3>2
    <3> QED
      BY <1>2, <1>4, <3>1, <3>2
  <2>3. \A n \in 1 .. v + 1 : b[n] = "steps" => \E i \in 1 .. Len(t) : t[i] = n
    <3> SUFFICES ASSUME NEW n \in 1 .. v + 1, b[n] = "steps"
                 PROVE  \E i \in 1 .. Len(t) : t[i] = n
      OBVIOUS
    <3>1. CASE n \in 1 .. v
      <4>1. PICK i \in 1 .. Len(s) : s[i] = n
        BY <1>3, <1>5, <3>1
      <4> QED
        BY <1>2, <1>4, <4>1
    <3>2. CASE n = v + 1
      BY <1>2, <1>4, <3>2
    <3> QED
      BY <1>1, <3>1, <3>2
  <2> QED
    BY <1>7, <2>1, <2>2, <2>3 DEF TextOf, v, b, t
<1>8. CASE kind # "steps"
  <2>1. \A i \in 1 .. Len(s) : s[i] <= v + 1 /\ b[s[i]] = "steps"
    BY <1>3, <1>5, <1>6
  <2>2. \A n \in 1 .. v + 1 : b[n] = "steps" => \E i \in 1 .. Len(s) : s[i] = n
    BY <1>1, <1>3, <1>5, <1>8
  <2> QED
    BY <1>5, <1>8, <2>1, <2>2 DEF TextOf, v, b
<1> QED
  BY <1>7, <1>8

\* The stored diffs with the next one are the last ones up to it.
LEMMA NextHistory ==
    ASSUME NEW s \in Text, NEW v \in Nat, IsHistoryOf(s, v)
    PROVE  IsHistoryOf(LastOf(Append(s, v + 1), History), v + 1)
<1> DEFINE t == Append(s, v + 1)
           r == LastOf(t, History)
<1>1. /\ s \in Seq(DiffId) /\ Len(s) \in Nat /\ History \in Nat \ {0}
      /\ Len(s) <= History /\ (Len(s) = v \/ Len(s) = History)
      /\ \A i \in 1 .. Len(s) : s[i] = v - Len(s) + i
  BY NumberAssumption DEF Text, IsHistoryOf
<1>2. /\ t \in Seq(DiffId) /\ Len(t) = Len(s) + 1 /\ t[Len(s) + 1] = v + 1
      /\ \A i \in 1 .. Len(s) : t[i] = s[i]
  BY <1>1, AppendProperties DEF DiffId
<1> HIDE DEF t
<1>3. \A i \in 1 .. Len(t) : t[i] = v + 1 - Len(t) + i
  <2> TAKE i \in 1 .. Len(t)
  <2>1. CASE i \in 1 .. Len(s)
    BY <1>1, <1>2, <2>1
  <2>2. CASE i = Len(s) + 1
    BY <1>1, <1>2, <2>2
  <2> QED
    BY <1>1, <1>2, <2>1, <2>2
<1>4. Len(r) <= History /\ (Len(r) = v + 1 \/ Len(r) = History)
      /\ \A i \in 1 .. Len(r) : r[i] = v + 1 - Len(r) + i
  <2>1. CASE Len(t) > History
    <3>1. Len(t) = History + 1
      BY <1>1, <1>2, <2>1
    <3>2. r = SubSeq(t, 2, Len(t))
      BY <1>1, <2>1, <3>1 DEF LastOf
    <3>3. \A i \in 2 .. Len(t) : t[i] \in DiffId
      BY <1>1, <1>2, ElementOfSeq
    <3> HIDE DEF r
    <3>4. Len(r) = History /\ \A i \in 1 .. History : r[i] = t[i + 1]
      BY <1>1, <1>2, <3>1, <3>2, <3>3, SubSeqProperties
    <3>5. \A i \in 1 .. Len(r) : r[i] = v + 1 - Len(r) + i
      <4> TAKE i \in 1 .. Len(r)
      <4>1. i + 1 \in 1 .. Len(t) /\ r[i] = t[i + 1]
        BY <1>1, <3>1, <3>4
      <4>2. t[i + 1] = v + 1 - Len(t) + (i + 1)
        BY <1>3, <4>1
      <4> QED
        BY <1>1, <3>1, <3>4, <4>1, <4>2
    <3> QED
      BY <1>1, <3>4, <3>5
  <2>2. CASE Len(t) <= History
    <3>0. ~(Len(t) > History)
      BY <1>1, <1>2, <2>2
    <3>1. r = SubSeq(t, 1, Len(t))
      BY <3>0, Zenon DEF LastOf
    <3>2. \A i \in 1 .. Len(t) : t[i] \in DiffId
      BY <1>1, <1>2, ElementOfSeq
    <3> HIDE DEF r
    <3>3. Len(r) = Len(t) /\ \A i \in 1 .. Len(t) : r[i] = t[i]
      BY <1>1, <1>2, <3>1, <3>2, SubSeqProperties
    <3> QED
      BY <1>1, <1>2, <1>3, <2>2, <3>3
  <2> QED
    BY <1>1, <1>2, <2>1, <2>2
<1> QED
  BY <1>4 DEF IsHistoryOf, t

-----------------------------------------------------------------------------
(* Whose write is queued is in the queue.                                   *)

Lined == \A c \in Conn : phase[c] = "queued" =>
                            \E i \in 1 .. Len(writes) : writes[i] = c

LEMMA QueueStep == IInv /\ Lined /\ [Next]_vars => Lined'
<1> SUFFICES ASSUME IInv, Lined, [Next]_vars PROVE Lined'
  OBVIOUS
<1>1. phase \in [Conn -> Phases] /\ writes \in Seq(Conn) /\ Len(writes) \in Nat
  BY DEF IInv, TypeOK
<1>2. ASSUME writes' = writes,
             \A d \in Conn : phase'[d] = "queued" => phase[d] = "queued"
      PROVE  Lined'
  BY <1>2 DEF Lined
<1>3. ASSUME NEW c \in Conn, writes' = Append(writes, c),
             phase' = [phase EXCEPT ![c] = "queued"]
      PROVE  Lined'
  <2>1. /\ Len(writes') = Len(writes) + 1 /\ writes'[Len(writes) + 1] = c
        /\ \A i \in 1 .. Len(writes) : writes'[i] = writes[i]
    BY <1>1, <1>3, AppendProperties
  <2>2. ASSUME NEW d \in Conn, phase'[d] = "queued"
        PROVE  \E i \in 1 .. Len(writes') : writes'[i] = d
    <3>1. CASE d = c
      BY <1>1, <2>1, <3>1
    <3>2. CASE d # c
      <4>1. PICK i \in 1 .. Len(writes) : writes[i] = d
        BY <1>1, <1>3, <2>2, <3>2 DEF Lined
      <4> QED
        BY <1>1, <2>1, <4>1
    <3> QED
      BY <3>1, <3>2
  <2> QED
    BY <2>2 DEF Lined
<1>4. ASSUME NEW c \in Conn, Turn(c), writes' = Tail(writes), NEW p \in {"saved", "out"},
             phase' = [phase EXCEPT ![c] = p]
      PROVE  Lined'
  <2>1. writes # <<>> /\ Head(writes) = c
    BY <1>4 DEF Turn
  <2>2. /\ Len(writes') = Len(writes) - 1
        /\ \A i \in 1 .. Len(writes') : writes'[i] = writes[i + 1]
        /\ writes[1] = c /\ Len(writes) >= 1
    BY <1>1, <1>4, <2>1, HeadTailProperties, EmptySeq
  <2>3. ASSUME NEW d \in Conn, phase'[d] = "queued"
        PROVE  \E i \in 1 .. Len(writes') : writes'[i] = d
    <3>1. d # c /\ phase[d] = "queued"
      BY <1>1, <1>4, <2>3
    <3>2. PICK i \in 1 .. Len(writes) : writes[i] = d
      BY <3>1 DEF Lined
    <3>3. i # 1
      BY <2>2, <3>1, <3>2
    <3>4. i - 1 \in 1 .. Len(writes') /\ writes'[i - 1] = writes[i]
      BY <1>1, <2>2, <3>2, <3>3
    <3> QED
      BY <3>2, <3>4
  <2> QED
    BY <2>3 DEF Lined
<1>5. ASSUME NEW c \in Conn, Continue(c) PROVE Lined'
  <2>1. CASE SubscribeJoin(c) \/ SubscribeOpen(c)
    BY <1>1, <1>2, <2>1 DEF SubscribeJoin, SubscribeOpen, Become
  <2>2. ASSUME NEW kind \in Kinds, DiffApply(c, kind) PROVE Lined'
    BY <1>1, <1>2, <2>2 DEF DiffApply, Become
  <2>3. ASSUME NEW kind \in Kinds, DiffFail(c, kind) PROVE Lined'
    BY <1>1, <1>2, <1>3, <2>3 DEF DiffFail, SaveBegin, Become
  <2>4. CASE DiffDone(c)
    BY <1>1, <1>2, <1>3, <2>4 DEF DiffDone, SaveBegin, Become
  <2>5. CASE DiffRaise(c)
    BY <1>1, <1>2, <2>5 DEF DiffRaise, Become
  <2>6. CASE SaveWrite(c) \/ SaveFail(c)
    BY <1>4, <2>6 DEF SaveWrite, SaveFail, Become
  <2>7. CASE SaveEnd(c)
    <3>1. job[c].then \in {"in", "cleanup"} /\ writes' = writes
          /\ phase' = [phase EXCEPT ![c] = job[c].then]
      BY <2>7 DEF SaveEnd, Become, IInv, TypeOK, Job
    <3> QED
      BY <1>1, <1>2, <3>1
  <2>8. CASE Cleanup(c)
    BY <1>1, <1>2, <2>8 DEF Cleanup, Become
  <2> QED
    BY <1>5, <2>1, <2>2, <2>3, <2>4, <2>5, <2>6, <2>7, <2>8 DEF Continue
<1>6. ASSUME NEW c \in Conn, SubscribeRead(c) \/ DiffCheck(c) PROVE Lined'
  BY <1>1, <1>2, <1>6 DEF SubscribeRead, DiffCheck, Become
<1>7. ASSUME NEW c \in Conn, Unfixable(c) PROVE Lined'
  BY <1>3, <1>7 DEF Unfixable, SaveBegin, Become
<1>8. ASSUME NEW c \in Conn, Disconnect(c) PROVE Lined'
  BY <1>1, <1>2, <1>3, <1>8 DEF Disconnect, SaveBegin, Become
<1>9. CASE Shutdown
  BY <1>2, <1>9 DEF Shutdown
<1>10. CASE UNCHANGED vars
  BY <1>2, <1>10 DEF vars
<1> QED
  BY <1>5, <1>6, <1>7, <1>8, <1>9, <1>10 DEF Next

-----------------------------------------------------------------------------
(* What a step of one connection leaves to the others.                      *)

\* The registered session is a session of the list, and not taken away.
LEMMA Registered ==
    ASSUME IInv, registry # 0
    PROVE  /\ registry \in 1 .. Len(sessions) /\ here \in Session /\ ~here.gone
           /\ here.doc \in DocRecord
<1>1. registry \in 1 .. Len(sessions) /\ sessions \in Seq(Session)
  BY DEF IInv, TypeOK
<1>2. here \in Session
  BY <1>1, ElementOfSeq DEF here
<1> QED
  BY <1>1, <1>2 DEF IInv, Newest, Session, here

\* The text in memory and what a save needs of it stay as they are.
SameText ==
    /\ registry' = registry /\ accepted' = accepted
    /\ registry # 0 =>
        /\ here'.doc.version = here.doc.version
        /\ here'.doc.diffs = here.doc.diffs
        /\ here.doc.notes \subseteq here'.doc.notes
        /\ here'.node = here.node
        /\ here'.doc.content \in {here.doc.content, here.node}

\* The others keep what they rely on: their places in the session, and a row
\* that is as it was or has just been written.
LEMMA OthersKeep ==
    ASSUME IInv, AllFit, OneTaker, NEW c \in Conn, SameText,
           \A d \in Conn \ {c} : /\ phase'[d] = phase[d] /\ mine'[d] = mine[d]
                                 /\ job'[d] = job[d],
           registry # 0 => here.people \ {c} \subseteq here'.people,
           (\E d \in Conn \ {c} : Takes(d)) =>
               here'.people = {} /\ ~here'.ghost /\ ~Takes(c)',
           \/ db' = db
           \/ db'.version = Len(accepted) /\ db'.content = here.node
    PROVE  OneTaker' /\ \A d \in Conn \ {c} : Fits(d)'
<1>1. \A d \in Conn \ {c} : (Takes(d)' <=> Takes(d)) /\ (Stays(d)' <=> Stays(d))
                            /\ (Saver(d)' <=> Saver(d))
  BY DEF Takes, Stays, Saver
<1>2. OneTaker'
  BY <1>1 DEF OneTaker
<1>3. ASSUME NEW d \in Conn \ {c} PROVE Fits(d)'
  <2>1. Fits(d) /\ phase'[d] = phase[d] /\ mine'[d] = mine[d] /\ job'[d] = job[d]
    BY DEF AllFit
  <2>2. phase'[d] \notin {"out", "reading"} => registry' # 0 /\ mine'[d] = registry'
    BY <2>1 DEF Fits, SameText
  <2>3. Stays(d)' => d \in here'.people
    <3>1. Stays(d) => registry # 0 /\ d \in here.people
      BY <2>1 DEF Fits, Stays, Saver
    <3> QED
      BY <1>1, <3>1
  <2>4. Takes(d)' => here'.people = {} /\ ~here'.ghost
    BY <1>1
  <2>5. Saver(d)' => Holds(d)'
    <3>1. Saver(d) => registry # 0 /\ Holds(d)
      BY <2>1 DEF Fits, Saver
    <3>2. registry # 0 /\ Holds(d) => Holds(d)'
      BY <2>1 DEF Holds, SameText
    <3> QED
      BY <1>1, <3>1, <3>2
  <2>6. phase'[d] \in {"saved", "cleanup"} => db'.version = Len(accepted')
    BY <2>1 DEF Fits, SameText
  <2>7. phase'[d] = "saved" => db'.content = here'.node
    BY <2>1 DEF Fits, SameText
  <2>8. phase'[d] # "applied" /\ ~Saver(d)' => job'[d].diff = 0
    BY <1>1, <2>1 DEF Fits
  <2> QED
    BY <2>2, <2>3, <2>4, <2>5, <2>6, <2>7, <2>8 DEF Fits
<1> QED
  BY <1>2, <1>3

\* Nobody takes away a session that c stays in.
LEMMA StayersTakeNot ==
    ASSUME AllFit, NEW c \in Conn, Stays(c)
    PROVE  /\ registry # 0 /\ mine[c] = registry /\ c \in here.people
           /\ \A d \in Conn : ~Takes(d)
<1>1. c \in here.people /\ registry # 0 /\ mine[c] = registry
  BY DEF AllFit, Fits, Stays, Saver
<1>2. \A d \in Conn : Takes(d) => here.people = {}
  BY DEF AllFit, Fits
<1> QED
  BY <1>1, <1>2

\* The copy in memory and the row stay as they are; notes may come as long as a
\* write of them is queued or due.
LEMMA CopyKept ==
    ASSUME Copies, SameText, db' = db,
           \/ confirmed' = confirmed
           \/ registry # 0 /\ NotedIn(here.doc.notes)',
           registry # 0 => /\ here'.updates = here.updates
                           /\ here'.lastSaved = here.lastSaved,
           \A d \in Conn : phase[d] = "saved" => phase'[d] = "saved",
           registry # 0 => \/ /\ here'.doc.notes = here.doc.notes
                              /\ \A d \in Conn : phase[d] = "queued" => phase'[d] = "queued"
                           \/ \E d \in Conn : phase'[d] = "queued"
                           \/ db.version # Len(accepted)
    PROVE  Copies'
<1>1. RowIsAState' /\ Closed'
  BY DEF Copies, SameText, RowIsAState, Closed, IsTextOf, HasNotesOf
<1>2. Memory'
  <2> SUFFICES ASSUME registry' # 0
               PROVE  /\ here'.doc.version = Len(accepted)'
                      /\ IsTextOf(here.node, Len(accepted))'
                      /\ HasNotesOf(here.doc.notes, Len(accepted))'
                      /\ IsHistoryOf(here.doc.diffs, Len(accepted))'
                      /\ ~here'.updates => /\ db'.content = here'.node
                                           /\ ~Rust => here'.doc.content = here'.node
    BY DEF Memory
  <2>1. /\ here'.doc.version = here.doc.version /\ here'.doc.diffs = here.doc.diffs
        /\ here.doc.notes \subseteq here'.doc.notes
        /\ here'.node = here.node /\ here'.updates = here.updates
        /\ here'.doc.content \in {here.doc.content, here.node}
        /\ registry # 0 /\ db' = db /\ accepted' = accepted
    BY DEF SameText
  <2>2. IsTextOf(here.node, Len(accepted))'
    BY <2>1 DEF Copies, Memory, IsTextOf
  <2>3. HasNotesOf(here.doc.notes, Len(accepted))'
    BY <2>1 DEF Copies, Memory, HasNotesOf
  <2>4. IsHistoryOf(here.doc.diffs, Len(accepted))'
    BY <2>1 DEF Copies, Memory, IsHistoryOf
  <2> QED
    BY <2>1, <2>2, <2>3, <2>4 DEF Copies, Memory
<1>3. Marked'
  BY DEF Copies, SameText, Marked
<1>4. Noted'
  BY DEF Copies, SameText, Noted, NotedIn
<1>5. RowNotes'
  BY DEF Copies, SameText, RowNotes
<1> QED
  BY <1>1, <1>2, <1>3, <1>4, <1>5 DEF Copies

\* The invariant after a step of c: what c relies on, and the copy.
LEMMA Assemble ==
    ASSUME NEW c \in Conn, OneTaker', \A d \in Conn \ {c} : Fits(d)', Fits(c)', Copies'
    PROVE  KInv'
BY DEF KInv, AllFit

\* A save takes along the text of now: with the python backend it is put into the
\* document, with the rust backend the save holds it, or has an up-to-date one.
LEMMA SaveBeginKeeps ==
    ASSUME IInv, KInv, ~raced', NEW c \in Conn, NEW then \in {"in", "cleanup"},
           NEW ss \in Seq(Session), Len(ss) = Len(sessions), Stays(c),
           /\ ss[registry].doc.version = here.doc.version
           /\ ss[registry].doc.diffs = here.doc.diffs
           /\ here.doc.notes \subseteq ss[registry].doc.notes
           /\ ss[registry].doc.content = here.doc.content
           /\ ss[registry].node = here.node
           /\ ss[registry].updates = here.updates
           /\ ss[registry].lastSaved = here.lastSaved
           /\ here.people \ {c} \subseteq ss[registry].people,
           phase[c] # "saved",
           (job[c].diff # 0 /\ accepted[job[c].diff] # "steps") =>
               job[c].diff \in ss[registry].doc.notes,
           then = "in" => c \in ss[registry].people,
           then = "cleanup" => ss[registry].people = {} /\ ~ss[registry].ghost,
           SaveBegin(c, then, ss),
           UNCHANGED <<db, registry, mine, accepted, confirmed>>
    PROVE  KInv'
<1> DEFINE content == IF ss[registry].updates THEN ss[registry].node
                                              ELSE ss[registry].doc.content
           doc == [ss[registry].doc EXCEPT !.content = content]
           x == [ss[registry] EXCEPT !.doc = doc]
           j == [sess |-> registry, string |-> Rust /\ ss[registry].updates,
                 version |-> ss[registry].doc.version, content |-> content,
                 diffs |-> ss[registry].doc.diffs, then |-> then, diff |-> job[c].diff]
<1>0. registry # 0 /\ mine[c] = registry /\ \A d \in Conn : ~Takes(d)
  BY StayersTakeNot DEF KInv
<1>1. registry \in 1 .. Len(ss) /\ here \in Session /\ here.doc \in DocRecord
  BY <1>0, Registered
<1>2. ss[registry] \in Session
  BY <1>1, ElementOfSeq
<1>3. ss[registry].doc \in DocRecord
  BY <1>2 DEF Session
<1>4. /\ sessions' = IF Rust THEN ss ELSE [ss EXCEPT ![registry] = x]
      /\ phase' = [phase EXCEPT ![c] = "queued"]
      /\ job' = [job EXCEPT ![c] = j]
      /\ ~SavesOldText(ss[registry])
  <2>1. sessions' = IF Rust THEN ss ELSE [ss EXCEPT ![registry].doc.content = content]
    BY DEF SaveBegin
  <2>2. raced' = (raced \/ SavesOldText(ss[registry]))
    BY DEF SaveBegin
  <2>3. phase' = [phase EXCEPT ![c] = "queued"] /\ job' = [job EXCEPT ![c] = j]
    BY DEF SaveBegin, Become
  <2> QED
    BY <2>1, <2>2, <2>3
<1>5. /\ ~Rust => content = here.node
      /\ Rust /\ ~ss[registry].updates => ss[registry].doc.content = here.node
      /\ ss[registry].updates => content = here.node
  BY <1>0, <1>4 DEF KInv, Copies, Memory, SavesOldText
<1>6. /\ doc.content = content
      /\ doc.version = ss[registry].doc.version
      /\ doc.diffs = ss[registry].doc.diffs
      /\ doc.notes = ss[registry].doc.notes
  BY <1>3 DEF DocRecord
<1>7. /\ j.sess = registry /\ j.string = (Rust /\ ss[registry].updates)
      /\ j.version = ss[registry].doc.version /\ j.content = content
      /\ j.diffs = ss[registry].doc.diffs /\ j.then = then /\ j.diff = job[c].diff
  OBVIOUS
<1> HIDE DEF content, doc, j
<1>8. /\ x.doc = doc /\ x.node = ss[registry].node /\ x.updates = ss[registry].updates
      /\ x.lastSaved = ss[registry].lastSaved /\ x.people = ss[registry].people
      /\ x.ghost = ss[registry].ghost
  BY <1>2 DEF Session
<1> HIDE DEF x
<1>9. here' = IF Rust THEN ss[registry] ELSE x
  BY <1>1, <1>4 DEF here
<1>10. /\ phase'[c] = "queued" /\ \A d \in Conn \ {c} : phase'[d] = phase[d]
       /\ job'[c] = j /\ \A d \in Conn \ {c} : job'[d] = job[d] /\ mine'[d] = mine[d]
  BY <1>4 DEF IInv, TypeOK
<1>11. /\ here'.doc.version = here.doc.version /\ here'.doc.diffs = here.doc.diffs
       /\ here'.doc.notes = ss[registry].doc.notes
       /\ here'.node = here.node /\ here'.updates = here.updates
       /\ here'.lastSaved = here.lastSaved
       /\ here'.people = ss[registry].people /\ here'.ghost = ss[registry].ghost
  BY <1>6, <1>8, <1>9
<1>12. /\ here'.doc.content \in {here.doc.content, here.node}
       /\ ~j.string => here'.doc.content = here.node
  BY <1>5, <1>6, <1>7, <1>8, <1>9
<1>13. SameText
  BY <1>11, <1>12 DEF SameText
<1>14. Copies'
  <2>1. \A d \in Conn : phase[d] = "saved" => phase'[d] = "saved"
    BY <1>10
  <2> QED
    BY <1>10, <1>11, <1>13, <2>1, CopyKept DEF KInv
<1>15. OneTaker' /\ \A d \in Conn \ {c} : Fits(d)'
  BY <1>0, <1>10, <1>11, <1>13, OthersKeep DEF KInv
<1>16. Fits(c)'
  <2>1. here.doc.version = Len(accepted)
    BY <1>0 DEF KInv, Copies, Memory
  <2>2. Holds(c)'
    BY <1>5, <1>7, <1>10, <1>11, <1>12, <2>1 DEF Holds
  <2> QED
    BY <1>0, <1>7, <1>10, <1>11, <2>2 DEF Fits, Stays, Takes, Saver
<1> QED
  BY <1>14, <1>15, <1>16, Assemble

-----------------------------------------------------------------------------
(* The steps.                                                               *)

\* A step of c that changes nothing but its own place.
LEMMA OnlyMoves ==
    ASSUME IInv, KInv, NEW c \in Conn,
           UNCHANGED <<db, sessions, registry, mine, job, accepted, confirmed>>,
           \A d \in Conn \ {c} : phase'[d] = phase[d],
           phase[c] \notin {"saved", "queued"}, ~Takes(c)', Fits(c)'
    PROVE  KInv'
<1>1. SameText /\ here' = here
  BY DEF SameText, here
<1>2. Copies'
  BY <1>1, CopyKept DEF KInv
<1>3. \A d \in Conn : Takes(d) => here.people = {} /\ ~here.ghost /\ registry # 0
  BY DEF KInv, AllFit, Fits, Takes, Saver
<1>4. OneTaker' /\ \A d \in Conn \ {c} : Fits(d)'
  BY <1>1, <1>3, OthersKeep DEF KInv
<1> QED
  BY <1>2, <1>4, Assemble

\* Reading the row.
LEMMA SubscribeReadKeeps ==
    ASSUME IInv, KInv, NEW c \in Conn, SubscribeRead(c)
    PROVE  KInv'
<1>1. /\ phase[c] = "out" /\ phase'[c] = "reading"
      /\ \A d \in Conn \ {c} : phase'[d] = phase[d]
      /\ UNCHANGED <<db, sessions, registry, mine, job, accepted, confirmed>>
  BY DEF SubscribeRead, Become, IInv, TypeOK
<1>2. job[c].diff = 0
  BY <1>1 DEF KInv, AllFit, Fits, Saver
<1>3. Fits(c)' /\ ~Takes(c)'
  BY <1>1, <1>2 DEF Fits, Stays, Takes, Saver
<1> QED
  BY <1>1, <1>3, OnlyMoves

\* Reading the rights again.
LEMMA DiffCheckKeeps ==
    ASSUME IInv, KInv, NEW c \in Conn, DiffCheck(c)
    PROVE  KInv'
<1>1. /\ phase[c] = "in" /\ phase'[c] = "checked"
      /\ \A d \in Conn \ {c} : phase'[d] = phase[d]
      /\ UNCHANGED <<db, sessions, registry, mine, job, accepted, confirmed>>
  BY DEF DiffCheck, Become, IInv, TypeOK
<1>2. job[c].diff = 0 /\ registry # 0 /\ mine[c] = registry /\ c \in here.people
  BY <1>1 DEF KInv, AllFit, Fits, Saver, Stays
<1>3. Fits(c)' /\ ~Takes(c)'
  BY <1>1, <1>2 DEF Fits, Stays, Takes, Saver, here
<1> QED
  BY <1>1, <1>3, OnlyMoves

\* A session changes in what is not its text.
LEMMA SessionStep ==
    ASSUME IInv, KInv, NEW c \in Conn, registry # 0, NEW x \in Session,
           sessions' = [sessions EXCEPT ![registry] = x], registry' = registry,
           UNCHANGED <<db, accepted, confirmed>>,
           x.doc = here.doc, x.node = here.node, x.updates = here.updates,
           x.lastSaved = here.lastSaved, here.people \ {c} \subseteq x.people,
           \A d \in Conn \ {c} : /\ phase'[d] = phase[d] /\ mine'[d] = mine[d]
                                 /\ job'[d] = job[d],
           phase[c] \notin {"saved", "queued"},
           \A d \in Conn \ {c} : ~Takes(d),
           here' = x => Fits(c)'
    PROVE  KInv'
<1>1. here' = x
  BY Registered DEF here, IInv, TypeOK
<1>2. SameText
  BY <1>1 DEF SameText
<1>3. Copies'
  BY <1>1, <1>2, CopyKept DEF KInv
<1>4. OneTaker' /\ \A d \in Conn \ {c} : Fits(d)'
  BY <1>1, <1>2, OthersKeep DEF KInv
<1> QED
  BY <1>1, <1>3, <1>4, Assemble

\* Joining adds a participant to the copy in memory, which nobody takes away.
LEMMA SubscribeJoinKeeps ==
    ASSUME IInv, KInv, NEW c \in Conn, SubscribeJoin(c)
    PROVE  KInv'
<1> DEFINE x == [here EXCEPT !.people = @ \cup {c}]
<1>1. /\ phase[c] = "reading" /\ registry # 0
      /\ here.people # {} \/ here.ghost
      /\ mine' = [mine EXCEPT ![c] = registry]
      /\ sessions' = [sessions EXCEPT ![registry] = x]
      /\ phase' = [phase EXCEPT ![c] = "in"]
      /\ UNCHANGED <<db, registry, copy, job, writes, accepted, confirmed>>
  BY DEF SubscribeJoin, HasSession, Become, here
<1>2. here \in Session
  BY <1>1, Registered
<1>3. /\ x.people = here.people \cup {c} /\ x.doc = here.doc /\ x.node = here.node
      /\ x.updates = here.updates /\ x.lastSaved = here.lastSaved
      /\ x \in Session
  BY <1>2 DEF Session
<1> HIDE DEF x
<1>4. /\ phase'[c] = "in" /\ mine'[c] = registry
      /\ \A d \in Conn \ {c} : phase'[d] = phase[d] /\ mine'[d] = mine[d]
  BY <1>1 DEF IInv, TypeOK
<1>5. \A d \in Conn : ~Takes(d)
  BY <1>1 DEF KInv, AllFit, Fits
<1>6. job[c].diff = 0
  BY <1>1 DEF KInv, AllFit, Fits, Saver
<1>7. here' = x => Fits(c)'
  BY <1>1, <1>3, <1>4, <1>6 DEF Fits, Stays, Takes, Saver
<1> QED
  BY <1>1, <1>3, <1>4, <1>5, <1>7, SessionStep

\* A session that is opened in time is made of the row, which then has
\* everything, and there is no other.
LEMMA SubscribeOpenKeeps ==
    ASSUME IInv, KInv, ~raced', NEW c \in Conn, SubscribeOpen(c)
    PROVE  KInv'
<1> DEFINE x == [doc |-> copy[c], node |-> copy[c].content, updates |-> FALSE,
                 lastSaved |-> copy[c].version, people |-> {c}, ghost |-> FALSE,
                 gone |-> FALSE]
           n == Len(sessions) + 1
<1>1. /\ phase[c] = "reading" /\ ~HasSession /\ ~OpensLate(c)
      /\ sessions' = Append(sessions, x)
      /\ registry' = Len(sessions')
      /\ mine' = [mine EXCEPT ![c] = registry']
      /\ phase' = [phase EXCEPT ![c] = "in"]
      /\ UNCHANGED <<db, copy, job, writes, accepted, confirmed>>
  BY DEF SubscribeOpen, Become
<1>2. /\ copy[c] = db
      /\ \A d \in Conn : phase[d] \notin {"queued", "saved", "cleanup"}
  BY <1>1 DEF OpensLate, SaveUnderWay
<1>3. registry = 0
  <2> SUFFICES ASSUME registry # 0 PROVE FALSE
    OBVIOUS
  <2>1. here.people = {} /\ ~here.ghost
    BY <1>1 DEF HasSession, here
  <2>2. \E d \in Conn : Leaving(d)
    BY <2>1 DEF IInv, Held, here
  <2> QED
    BY <1>2, <2>2 DEF Leaving
<1>4. db.version = Len(accepted) /\ db \in DocRecord
  BY <1>3 DEF KInv, Copies, Closed, IInv, TypeOK
<1>5. /\ x.doc = db /\ x.node = db.content /\ x.updates = FALSE
      /\ x.lastSaved = db.version /\ x.people = {c} /\ x \in Session
  BY <1>2, <1>4 DEF Session, DocRecord
<1> HIDE DEF x
<1>6. sessions'[n] = x /\ registry' = n /\ n # 0
  BY <1>1, <1>5, AppendProperties DEF IInv, TypeOK
<1>7. here' = x
  BY <1>6 DEF here
<1>8. /\ phase'[c] = "in" /\ mine'[c] = n
      /\ \A d \in Conn \ {c} : phase'[d] = phase[d] /\ mine'[d] = mine[d]
  BY <1>1, <1>6 DEF IInv, TypeOK
<1>9. \A d \in Conn \ {c} : phase[d] \in {"out", "reading"}
  BY <1>3 DEF KInv, AllFit, Fits
<1>10. RowIsAState' /\ Closed'
  BY <1>1, <1>4, <1>6 DEF KInv, Copies, RowIsAState, Closed, IsTextOf, HasNotesOf
<1>11. Memory'
  <2>1. /\ here'.doc = db /\ here'.node = db.content /\ here'.updates = FALSE
        /\ accepted' = accepted /\ db' = db /\ Len(accepted) = db.version
    BY <1>1, <1>4, <1>5, <1>7
  <2>2. StateOf(accepted, db)
    BY Sames DEF KInv, Copies, IInv
  <2>3. /\ IsTextOf(here.node, Len(accepted))'
        /\ HasNotesOf(here.doc.notes, Len(accepted))'
        /\ IsHistoryOf(here.doc.diffs, Len(accepted))'
    BY <2>1, <2>2 DEF StateOf, IsTextOf, TextOf, HasNotesOf, NotesOf, IsHistoryOf
  <2> QED
    BY <2>1, <2>3 DEF Memory
<1>12. Marked' /\ Noted' /\ RowNotes'
  BY <1>1, <1>3, <1>5, <1>6, <1>7 DEF KInv, Copies, Marked, Noted, NotedIn, RowNotes
<1>13. \A d \in Conn : job[d].diff = 0
  BY <1>1, <1>9 DEF KInv, AllFit, Fits, Saver
<1>14. OneTaker' /\ \A d \in Conn \ {c} : Fits(d)'
  BY <1>1, <1>8, <1>9, <1>13 DEF OneTaker, Fits, Stays, Takes, Saver
<1>15. Fits(c)'
  BY <1>1, <1>5, <1>6, <1>7, <1>8, <1>13 DEF Fits, Stays, Takes, Saver
<1> QED
  BY <1>10, <1>11, <1>12, <1>14, <1>15, Assemble DEF Copies

\* The write puts the copy in memory into the row.
LEMMA SaveWriteKeeps ==
    ASSUME IInv, KInv, NEW c \in Conn, SaveWrite(c)
    PROVE  KInv'
<1> DEFINE doc == sessions[job[c].sess].doc
           later == doc.version - job[c].version
           first == IF later > 0 /\ later <= Len(doc.diffs)
                    THEN <<doc.diffs[Len(doc.diffs) - later + 1]>> ELSE <<>>
           row == [version |-> job[c].version, content |-> job[c].content,
                   notes |-> doc.notes, diffs |-> job[c].diffs \o first]
<1>1. /\ phase[c] = "queued"
      /\ db' = IF job[c].string THEN row ELSE doc
      /\ phase'[c] = "saved" /\ \A d \in Conn \ {c} : phase'[d] = phase[d]
      /\ UNCHANGED <<sessions, registry, copy, mine, job, accepted, confirmed>>
  BY DEF SaveWrite, Turn, Become, IInv, TypeOK
<1>2. /\ registry # 0 /\ mine[c] = registry /\ Saver(c) /\ Holds(c) /\ Fits(c)
  BY <1>1 DEF KInv, AllFit, Fits, Saver
<1>3. /\ here.doc \in DocRecord /\ Len(accepted) \in Nat /\ job[c] \in Job
  BY <1>2, Registered DEF IInv, TypeOK
<1>4. /\ here.doc.version = Len(accepted)
      /\ IsTextOf(here.node, Len(accepted)) /\ HasNotesOf(here.doc.notes, Len(accepted))
      /\ IsHistoryOf(here.doc.diffs, Len(accepted))
  BY <1>2 DEF KInv, Copies, Memory
<1>5. doc = here.doc
  BY <1>2 DEF Holds, here
<1>6. first = <<>>
  <2>1. later = 0
    BY <1>2, <1>3, <1>4, <1>5 DEF Holds
  <2> HIDE DEF later, doc
  <2> QED
    BY <2>1
<1> HIDE DEF doc, first
<1>7. /\ db'.version = Len(accepted) /\ db'.content = here.node
      /\ db'.notes = here.doc.notes /\ db'.diffs = here.doc.diffs
  <2>1. CASE job[c].string
    <3>1. /\ job[c].version = Len(accepted) /\ job[c].content = here.node
          /\ job[c].diffs = here.doc.diffs
      BY <1>2, <2>1 DEF Holds
    <3>2. here.doc.diffs \in Seq(DiffId)
      BY <1>3 DEF DocRecord, Text
    <3>3. job[c].diffs \o first = here.doc.diffs
      BY <1>6, <3>1, <3>2, ConcatEmptySeq
    <3> QED
      BY <1>1, <1>5, <2>1, <3>1, <3>3
  <2>2. CASE ~job[c].string
    BY <1>1, <1>2, <1>4, <1>5, <2>2 DEF Holds
  <2> QED
    BY <2>1, <2>2
<1> HIDE DEF row
<1>8. here' = here /\ registry' = registry /\ accepted' = accepted
  BY <1>1 DEF here
<1>9. RowIsAState'
  <2>1. DOMAIN here.doc.diffs = 1 .. Len(here.doc.diffs)
    BY <1>3 DEF DocRecord, Text
  <2>2. IsTextOf(db.content, db.version)'
    BY <1>4, <1>7, <1>8 DEF IsTextOf
  <2>3. HasNotesOf(db.notes, db.version)'
    BY <1>4, <1>7, <1>8 DEF HasNotesOf
  <2>4. /\ db'.version <= Len(accepted') /\ Len(db'.diffs) <= History
        /\ Len(db'.diffs) \in {db'.version, History}
        /\ \A i \in DOMAIN db'.diffs : db'.diffs[i] = db'.version - Len(db'.diffs) + i
    <3> DEFINE d == here.doc.diffs
               v == Len(accepted)
    <3>1. /\ Len(d) <= History /\ Len(d) \in {v, History} /\ DOMAIN d = 1 .. Len(d)
          /\ \A i \in 1 .. Len(d) : d[i] = v - Len(d) + i
      BY <1>4, <2>1 DEF IsHistoryOf
    <3>2. v <= v /\ db'.version = v /\ db'.diffs = d /\ Len(accepted') = v
      BY <1>3, <1>7, <1>8
    <3> HIDE DEF d, v
    <3> QED
      BY <3>1, <3>2
  <2> QED
    BY <2>2, <2>3, <2>4 DEF RowIsAState
<1>10. Memory'
  <2>1. /\ IsTextOf(here.node, Len(accepted))'
        /\ HasNotesOf(here.doc.notes, Len(accepted))'
        /\ IsHistoryOf(here.doc.diffs, Len(accepted))'
    BY <1>4, <1>8 DEF IsTextOf, HasNotesOf, IsHistoryOf
  <2>2. ~here.updates /\ ~Rust => here.doc.content = here.node
    BY <1>2 DEF KInv, Copies, Memory
  <2> QED
    BY <1>4, <1>7, <1>8, <2>1, <2>2 DEF Memory
<1>11. Marked' /\ Closed' /\ Noted' /\ RowNotes'
  BY <1>1, <1>2, <1>7, <1>8 DEF KInv, Copies, Marked, Closed, Noted, NotedIn, RowNotes
<1>12. OneTaker' /\ \A d \in Conn \ {c} : Fits(d)'
  <2>1. SameText
    BY <1>8 DEF SameText
  <2>2. (\E d \in Conn \ {c} : Takes(d)) =>
            here'.people = {} /\ ~here'.ghost /\ ~Takes(c)'
    <3>1. \A d \in Conn : Takes(d) => here.people = {} /\ ~here.ghost
      BY DEF KInv, AllFit, Fits
    <3>2. Takes(c)' => Takes(c)
      BY <1>1 DEF Takes, Saver
    <3> QED
      BY <1>8, <3>1, <3>2 DEF KInv, OneTaker
  <2> QED
    BY <1>1, <1>7, <1>8, <2>1, <2>2, OthersKeep DEF KInv
<1>13. Fits(c)'
  <2>1. (Stays(c)' => Stays(c)) /\ (Takes(c)' => Takes(c)) /\ Saver(c)'
    BY <1>1 DEF Stays, Takes, Saver
  <2>2. Holds(c)'
    BY <1>1, <1>2, <1>8 DEF Holds
  <2> QED
    BY <1>1, <1>2, <1>7, <1>8, <2>1, <2>2 DEF Fits
<1> QED
  BY <1>9, <1>10, <1>11, <1>12, <1>13, Assemble DEF Copies

\* No write fails: the session is there until the one who saves it is done.
LEMMA SaveFailNever ==
    ASSUME IInv, KInv, NEW c \in Conn
    PROVE  ~SaveFail(c)
<1> SUFFICES ASSUME SaveFail(c) PROVE FALSE
  OBVIOUS
<1>1. phase[c] = "queued" /\ sessions[job[c].sess].gone
  BY DEF SaveFail, Turn, CannotWrite
<1>2. registry # 0 /\ job[c].sess = registry
  BY <1>1 DEF KInv, AllFit, Fits, Saver, Holds
<1> QED
  BY <1>1, <1>2, Registered DEF here

\* What is recorded as saved is what was written.
LEMMA SaveEndKeeps ==
    ASSUME IInv, KInv, NEW c \in Conn, SaveEnd(c)
    PROVE  KInv'
<1> DEFINE x == [here EXCEPT !.lastSaved = here.doc.version, !.updates = FALSE]
<1>1. /\ phase[c] = "saved" /\ sessions' = MarkSaved(job[c].sess)
      /\ phase'[c] = job[c].then /\ \A d \in Conn \ {c} : phase'[d] = phase[d]
      /\ job' = [job EXCEPT ![c] = NoJob]
      /\ confirmed' = confirmed \cup ({job[c].diff} \ {0})
      /\ UNCHANGED <<db, registry, copy, mine, writes, accepted>>
  BY DEF SaveEnd, Become, Confirm, IInv, TypeOK
<1>2. /\ registry # 0 /\ mine[c] = registry /\ Saver(c) /\ Holds(c)
      /\ Stays(c) => c \in here.people
      /\ Takes(c) => here.people = {} /\ ~here.ghost
      /\ db.version = Len(accepted) /\ db.content = here.node
  BY <1>1 DEF KInv, AllFit, Fits, Saver
<1>3. /\ registry \in 1 .. Len(sessions) /\ here \in Session
      /\ here.doc.version = Len(accepted) /\ job[c].then \in {"in", "cleanup"}
  BY <1>2, Registered DEF KInv, Copies, Memory, IInv, TypeOK, Job
<1>4. /\ x.people = here.people /\ x.ghost = here.ghost
      /\ x.doc = here.doc /\ x.node = here.node
      /\ x.updates = FALSE /\ x.lastSaved = here.doc.version
      /\ x \in Session
  BY <1>3 DEF Session, DocRecord
<1>5. sessions' = [sessions EXCEPT ![registry] = x]
  BY <1>1, <1>2, <1>3 DEF MarkSaved, Session, Holds, here
<1> HIDE DEF x
<1>6. here' = x
  BY <1>1, <1>3, <1>5 DEF IInv, TypeOK, here
<1>7. job'[c].diff = 0 /\ \A d \in Conn \ {c} : job'[d] = job[d]
  BY <1>1 DEF NoJob, IInv, TypeOK
<1>8. SameText
  BY <1>1, <1>4, <1>6 DEF SameText
<1>9. RowIsAState' /\ Closed'
  BY <1>1, <1>2 DEF KInv, Copies, RowIsAState, Closed, IsTextOf, HasNotesOf
<1>10. Memory'
  <2>1. /\ here'.node = here.node /\ here'.doc = here.doc /\ accepted' = accepted
    BY <1>1, <1>4, <1>6
  <2>2. /\ IsTextOf(here.node, Len(accepted))'
        /\ HasNotesOf(here.doc.notes, Len(accepted))'
        /\ IsHistoryOf(here.doc.diffs, Len(accepted))'
    BY <1>2, <2>1 DEF KInv, Copies, Memory, IsTextOf, HasNotesOf, IsHistoryOf
  <2>3. ~Rust => here.doc.content = here.node
    BY <1>2 DEF Holds
  <2> QED
    BY <1>1, <1>2, <1>3, <2>1, <2>2, <2>3 DEF Memory
<1>11. Marked' /\ RowNotes'
  BY <1>1, <1>2, <1>3, <1>4, <1>6 DEF KInv, Copies, Marked, RowNotes
<1>12. Noted'
  BY <1>1, <1>2, <1>4, <1>6 DEF KInv, Copies, Noted, NotedIn, Holds
<1>13. (Stays(c)' => Stays(c)) /\ (Takes(c)' => Takes(c)) /\ ~Saver(c)'
  BY <1>1, <1>3 DEF Stays, Takes, Saver
<1>14. OneTaker' /\ \A d \in Conn \ {c} : Fits(d)'
  <2>1. (\E d \in Conn \ {c} : Takes(d)) =>
            here'.people = {} /\ ~here'.ghost /\ ~Takes(c)'
    <3>1. \A d \in Conn : Takes(d) => here.people = {} /\ ~here.ghost
      BY DEF KInv, AllFit, Fits
    <3> QED
      BY <1>4, <1>6, <1>13, <3>1 DEF KInv, OneTaker
  <2> QED
    BY <1>1, <1>4, <1>6, <1>7, <1>8, <2>1, OthersKeep DEF KInv
<1>15. Fits(c)'
  BY <1>1, <1>2, <1>3, <1>4, <1>6, <1>7, <1>13 DEF Fits
<1> QED
  BY <1>9, <1>10, <1>11, <1>12, <1>14, <1>15, Assemble DEF Copies

\* Before a client is told to fetch the document it is saved.
LEMMA UnfixableKeeps ==
    ASSUME IInv, KInv, ~raced', NEW c \in Conn, Unfixable(c)
    PROVE  KInv'
<1>1. /\ phase[c] = "in" /\ registry # 0 /\ SaveBegin(c, "in", sessions)
      /\ UNCHANGED <<db, registry, copy, mine, accepted, confirmed>>
  BY DEF Unfixable
<1>2. Stays(c) /\ c \in here.people /\ job[c].diff = 0
  BY <1>1 DEF KInv, AllFit, Fits, Stays, Saver
<1>3. sessions \in Seq(Session)
  BY DEF IInv, TypeOK
<1> QED
  BY <1>1, <1>2, <1>3, SaveBeginKeeps DEF here

\* Applying a diff keeps the copy complete, when no save is under way.
LEMMA DiffApplyKeeps ==
    ASSUME IInv, KInv, ~raced', NEW c \in Conn, NEW kind \in Kinds, DiffApply(c, kind)
    PROVE  KInv'
<1> DEFINE n == Len(accepted) + 1
           newDoc == [here.doc EXCEPT
                        !.version = @ + 1,
                        !.diffs = LastOf(Append(@, n), History),
                        !.notes = @ \cup {i \in {n} : kind = "notes"}]
           y == [here EXCEPT !.doc = newDoc, !.node = Append(@, n), !.updates = TRUE]
           z == [here EXCEPT !.doc = newDoc]
           x == IF kind = "steps" THEN y ELSE z
<1>1. phase[c] = "checked" /\ \A d \in Conn : ~Saver(d)
  BY DEF DiffApply, SaveUnderWay, Saver
<1>2. /\ registry # 0 /\ mine[c] = registry /\ c \in here.people
      /\ \A d \in Conn : ~Takes(d)
  BY <1>1, StayersTakeNot DEF KInv, Stays
<1>3. /\ registry \in 1 .. Len(sessions) /\ here \in Session /\ here.doc \in DocRecord
      /\ Len(accepted) \in Nat /\ accepted \in Seq(DiffKinds) /\ kind \in DiffKinds
  BY <1>2, Registered, KindsAssumption DEF IInv, TypeOK
<1>4. /\ sessions' = [sessions EXCEPT ![registry] = x]
      /\ accepted' = Append(accepted, kind)
      /\ phase'[c] = "applied" /\ \A d \in Conn \ {c} : phase'[d] = phase[d]
      /\ \A d \in Conn \ {c} : job'[d] = job[d]
      /\ UNCHANGED <<db, registry, copy, mine, writes, confirmed>>
  <2>1. sessions' = IF kind = "steps"
                    THEN [sessions EXCEPT ![registry].doc = newDoc,
                                          ![registry].node = Append(@, n),
                                          ![registry].updates = TRUE]
                    ELSE [sessions EXCEPT ![registry].doc = newDoc]
    BY <1>2 DEF DiffApply, here
  <2> HIDE DEF newDoc
  <2>2. sessions' = [sessions EXCEPT ![registry] = x]
    BY <1>3, <2>1 DEF here, IInv, TypeOK, Session
  <2>3. phase'[c] = "applied" /\ \A d \in Conn \ {c} : phase'[d] = phase[d]
    BY DEF DiffApply, Become, IInv, TypeOK
  <2>4. /\ accepted' = Append(accepted, kind)
        /\ job' = [job EXCEPT ![c].diff = n]
        /\ UNCHANGED <<db, registry, copy, mine, writes, confirmed>>
    BY DEF DiffApply
  <2>5. \A d \in Conn \ {c} : job'[d] = job[d]
    BY <2>4 DEF IInv, TypeOK
  <2> QED
    BY <2>2, <2>3, <2>4, <2>5
<1>5. /\ newDoc.version = here.doc.version + 1
      /\ newDoc.diffs = LastOf(Append(here.doc.diffs, n), History)
      /\ newDoc.notes = here.doc.notes \cup {i \in {n} : kind = "notes"}
      /\ newDoc.content = here.doc.content
  BY <1>3 DEF DocRecord
<1> HIDE DEF newDoc
<1>6. /\ x.doc = newDoc /\ x.people = here.people /\ x.lastSaved = here.lastSaved
      /\ x.node = IF kind = "steps" THEN Append(here.node, n) ELSE here.node
      /\ x.updates = IF kind = "steps" THEN TRUE ELSE here.updates
  BY <1>3 DEF Session
<1> HIDE DEF x
<1>7. here' = x
  BY <1>3, <1>4 DEF IInv, TypeOK, here
<1>8. Len(accepted') = n /\ \A i \in 1 .. Len(accepted) : accepted'[i] = accepted[i]
  BY <1>3, <1>4, AppendProperties
<1>9. RowIsAState' /\ Closed'
  <2>1. StateOf(accepted, db) /\ db \in DocRecord
    BY Sames DEF KInv, Copies, IInv, TypeOK
  <2>2. StateOf(accepted', db)
    BY <1>3, <1>4, <2>1, Older
  <2>3. DOMAIN db.diffs = 1 .. Len(db.diffs)
    BY <2>1 DEF DocRecord, Text
  <2>4. TextOf(accepted', db.content, db.version) /\ NotesOf(accepted', db.notes, db.version)
    BY <2>2 DEF StateOf
  <2>5. IsTextOf(db.content, db.version)' /\ HasNotesOf(db.notes, db.version)'
    BY <1>4, <2>4 DEF IsTextOf, TextOf, HasNotesOf, NotesOf
  <2>6. RowIsAState'
    BY <1>4, <2>2, <2>3, <2>5 DEF RowIsAState, StateOf, IsHistoryOf
  <2> QED
    BY <1>2, <1>4, <2>6 DEF Closed
<1>10. Memory'
  <2>1. /\ here.doc.version = Len(accepted)
        /\ TextOf(accepted, here.node, Len(accepted))
        /\ NotesOf(accepted, here.doc.notes, Len(accepted))
        /\ IsHistoryOf(here.doc.diffs, Len(accepted))
        /\ ~here.updates => /\ db.content = here.node
                            /\ ~Rust => here.doc.content = here.node
    BY <1>2, Sames DEF KInv, Copies, Memory
  <2>2. here.node \in Text /\ here.doc.diffs \in Text
    BY <1>3 DEF Session, DocRecord
  <2>3. TextOf(accepted', x.node, n)
    BY <1>3, <1>4, <1>6, <2>1, <2>2, NextText
  <2>4. IsTextOf(here.node, Len(accepted))'
    BY <1>7, <1>8, <2>3 DEF IsTextOf, TextOf
  <2>5. HasNotesOf(here.doc.notes, Len(accepted))'
    <3>1. ASSUME NEW i \in 1 .. n, accepted'[i] = "notes" PROVE i \in x.doc.notes
      <4>1. CASE i = n
        BY <1>3, <1>4, <1>5, <1>6, <3>1, <4>1
      <4>2. CASE i \in 1 .. Len(accepted)
        BY <1>5, <1>6, <1>8, <2>1, <3>1, <4>2 DEF NotesOf
      <4> QED
        BY <1>3, <4>1, <4>2
    <3> QED
      BY <1>7, <1>8, <3>1 DEF HasNotesOf
  <2>6. IsHistoryOf(x.doc.diffs, n)
    BY <1>3, <1>5, <1>6, <2>1, <2>2, NextHistory
  <2>7. IsHistoryOf(here.doc.diffs, Len(accepted))'
    BY <1>7, <1>8, <2>6 DEF IsHistoryOf
  <2>8. here'.doc.version = Len(accepted')
    BY <1>5, <1>6, <1>7, <1>8, <2>1
  <2>9. ~here'.updates => /\ db'.content = here'.node
                          /\ ~Rust => here'.doc.content = here'.node
    BY <1>4, <1>5, <1>6, <1>7, <2>1
  <2> QED
    BY <2>4, <2>5, <2>7, <2>8, <2>9 DEF Memory
<1>11. Marked' /\ RowNotes'
  <2>1. here.lastSaved = db.version
    BY <1>1, <1>2 DEF KInv, Copies, Marked, Saver
  <2>2. db.version <= Len(accepted) /\ db.version \in Nat
    BY DEF KInv, Copies, RowIsAState, IInv, TypeOK, DocRecord
  <2>3. db'.version # Len(accepted')
    BY <1>3, <1>4, <1>8, <2>2
  <2> QED
    BY <1>4, <1>6, <1>7, <2>1, <2>3 DEF Marked, RowNotes
<1>12. Noted'
  <2>1. \A i \in confirmed : accepted'[i] = accepted[i]
    BY <1>8 DEF IInv, TypeOK
  <2>2. here.doc.notes \subseteq here'.doc.notes
    BY <1>5, <1>6, <1>7
  <2> QED
    BY <1>2, <1>4, <2>1, <2>2 DEF KInv, Copies, Noted, NotedIn
<1>13. OneTaker' /\ \A d \in Conn \ {c} : Fits(d)'
  <2>1. \A d \in Conn : ~Takes(d)'
    BY <1>1, <1>2, <1>4 DEF Takes, Saver
  <2>2. ASSUME NEW d \in Conn \ {c} PROVE Fits(d)'
    <3>1. Fits(d) /\ phase'[d] = phase[d] /\ mine'[d] = mine[d] /\ job'[d] = job[d]
          /\ ~Saver(d) /\ ~Saver(d)' /\ phase[d] # "cleanup"
      BY <1>1, <1>2, <1>4 DEF KInv, AllFit, Saver, Takes
    <3>2. here'.people = here.people /\ registry' = registry
      BY <1>4, <1>6, <1>7
    <3> QED
      BY <2>1, <3>1, <3>2 DEF Fits, Stays, Saver
  <2> QED
    BY <2>1, <2>2 DEF OneTaker
<1>14. Fits(c)'
  BY <1>2, <1>4, <1>6, <1>7 DEF Fits, Stays, Takes, Saver
<1> QED
  BY <1>9, <1>10, <1>11, <1>12, <1>13, <1>14, Assemble DEF Copies

\* No diff finds its session gone.
LEMMA DiffFailNever ==
    ASSUME IInv, KInv, NEW c \in Conn, NEW kind \in Kinds
    PROVE  ~DiffFail(c, kind)
<1> SUFFICES ASSUME DiffFail(c, kind) PROVE FALSE
  OBVIOUS
<1>1. phase[c] = "checked" /\ sessions[mine[c]].gone
  BY DEF DiffFail
<1>2. registry # 0 /\ mine[c] = registry
  BY <1>1 DEF KInv, AllFit, Fits
<1> QED
  BY <1>1, <1>2, Registered DEF here

\* The rest of a diff adds the notes that it holds, and saves or not.
LEMMA DiffDoneKeeps ==
    ASSUME IInv, KInv, ~raced', NEW c \in Conn, DiffDone(c)
    PROVE  KInv'
<1> DEFINE notes == {n \in {job[c].diff} : Titled(c)}
           doc == [here.doc EXCEPT !.notes = @ \cup notes]
           x == [here EXCEPT !.doc = doc]
           noted == [sessions EXCEPT ![registry] = x]
<1>1. phase[c] = "applied" /\ Stays(c) /\ ~Broken(c)
  BY DEF DiffDone, Stays
<1>2. /\ registry # 0 /\ mine[c] = registry /\ c \in here.people
      /\ \A d \in Conn : ~Takes(d)
  BY <1>1, StayersTakeNot DEF KInv
<1>3. /\ registry \in 1 .. Len(sessions) /\ here \in Session /\ here.doc \in DocRecord
      /\ job[c].diff \in Nat /\ job[c].diff # 0 /\ job[c].diff \in 1 .. Len(accepted)
      /\ accepted[job[c].diff] \in DiffKinds
  <2>1. job[c] \in Job /\ job[c].diff # 0 /\ job[c].diff <= Len(accepted)
        /\ accepted \in Seq(DiffKinds)
    BY <1>1 DEF IInv, TypeOK, Placed
  <2>2. job[c].diff \in 1 .. Len(accepted)
    BY <2>1 DEF Job
  <2> QED
    BY <1>2, <2>1, <2>2, Registered, ElementOfSeq DEF Job
<1>4. /\ \/ SaveBegin(c, "in", noted) /\ UNCHANGED confirmed
         \/ /\ Become(c, "in") /\ sessions' = noted /\ Confirm(c)
            /\ ~(Titled(c) /\ NotesLate(registry))
      /\ UNCHANGED <<db, registry, copy, mine, accepted>>
  BY <1>2 DEF DiffDone, here
<1>5. /\ notes \subseteq DiffId
      /\ Titled(c) => job[c].diff \in notes
      /\ ~Titled(c) => notes = {}
  BY <1>3 DEF DiffId
<1> HIDE DEF notes
<1>6. /\ doc \in DocRecord /\ doc.version = here.doc.version
      /\ doc.diffs = here.doc.diffs /\ doc.notes = here.doc.notes \cup notes
      /\ doc.content = here.doc.content
  <2>1. here.doc.notes \cup notes \in SUBSET DiffId
    BY <1>3, <1>5 DEF DocRecord
  <2> QED
    BY <1>3, <2>1 DEF DocRecord
<1> HIDE DEF doc
<1>7. /\ x \in Session /\ x.doc = doc /\ x.node = here.node /\ x.updates = here.updates
      /\ x.lastSaved = here.lastSaved /\ x.people = here.people /\ x.ghost = here.ghost
  BY <1>3, <1>6 DEF Session
<1> HIDE DEF x
<1>8. noted \in Seq(Session) /\ Len(noted) = Len(sessions) /\ noted[registry] = x
  BY <1>3, <1>7, OneSession DEF IInv, TypeOK
<1> HIDE DEF noted
<1>9. accepted[job[c].diff] # "steps" => job[c].diff \in x.doc.notes
  <2>1. CASE accepted[job[c].diff] = "notes"
    BY <1>2, <1>3, <1>6, <1>7, <2>1 DEF KInv, Copies, Memory, HasNotesOf
  <2>2. CASE accepted[job[c].diff] = "titled"
    BY <1>5, <1>6, <1>7, <2>2 DEF Titled
  <2> QED
    BY <1>1, <1>3, <2>1, <2>2 DEF Broken, DiffKinds
<1>10. CASE SaveBegin(c, "in", noted) /\ UNCHANGED confirmed
  BY <1>1, <1>2, <1>4, <1>6, <1>7, <1>8, <1>9, <1>10, SaveBeginKeeps
<1>11. CASE /\ Become(c, "in") /\ sessions' = noted /\ Confirm(c)
            /\ ~(Titled(c) /\ NotesLate(registry))
  <2>1. /\ phase'[c] = "in" /\ \A d \in Conn \ {c} : phase'[d] = phase[d]
        /\ job'[c].diff = 0 /\ \A d \in Conn \ {c} : job'[d] = job[d]
        /\ confirmed' = confirmed \cup ({job[c].diff} \ {0})
    BY <1>11 DEF Become, Confirm, NoJob, IInv, TypeOK
  <2>2. here' = x
    BY <1>4, <1>8, <1>11 DEF here
  <2>3. SameText
    BY <1>4, <1>6, <1>7, <2>2 DEF SameText
  <2>4. NotedIn(here.doc.notes)'
    BY <1>2, <1>4, <1>6, <1>7, <1>9, <2>1, <2>2 DEF KInv, Copies, Noted, NotedIn
  <2>5. here'.doc.notes = here.doc.notes \/ db.version # Len(accepted)
    <3>1. CASE Titled(c)
      <4>1. /\ \A d \in Conn : phase[d] # "saved"
            /\ here.lastSaved # here.doc.version
        BY <1>11, <3>1 DEF NotesLate, SaveUnderWay, here
      <4> QED
        BY <1>2, <4>1 DEF KInv, Copies, Marked, Memory
    <3>2. CASE ~Titled(c)
      BY <1>5, <1>6, <1>7, <2>2, <3>2
    <3> QED
      BY <3>1, <3>2
  <2>6. Copies'
    <3>1. \A d \in Conn : /\ phase[d] = "saved" => phase'[d] = "saved"
                          /\ phase[d] = "queued" => phase'[d] = "queued"
      BY <1>1, <2>1
    <3>2. here'.updates = here.updates /\ here'.lastSaved = here.lastSaved
      BY <1>7, <2>2
    <3> QED
      BY <1>2, <1>4, <2>3, <2>4, <2>5, <3>1, <3>2, CopyKept DEF KInv
  <2>7. OneTaker' /\ \A d \in Conn \ {c} : Fits(d)'
    BY <1>2, <1>4, <1>7, <2>1, <2>2, <2>3, OthersKeep DEF KInv
  <2>8. Fits(c)'
    BY <1>2, <1>4, <1>7, <2>1, <2>2 DEF Fits, Stays, Takes, Saver
  <2> QED
    BY <2>6, <2>7, <2>8, Assemble
<1> QED
  BY <1>4, <1>10, <1>11

\* A handler that raises leaves its participant behind, and the text alone.
LEMMA DiffRaiseKeeps ==
    ASSUME IInv, KInv, NEW c \in Conn, DiffRaise(c)
    PROVE  KInv'
<1> DEFINE x == LeaveGhost(here, c)
<1>1. phase[c] = "applied" /\ Stays(c)
  BY DEF DiffRaise, Stays
<1>2. /\ registry # 0 /\ mine[c] = registry /\ \A d \in Conn : ~Takes(d)
  BY <1>1, StayersTakeNot DEF KInv
<1>3. here \in Session
  BY <1>2, Registered
<1>4. /\ sessions' = [sessions EXCEPT ![registry] = x]
      /\ phase'[c] = "out" /\ \A d \in Conn \ {c} : phase'[d] = phase[d]
      /\ job'[c].diff = 0 /\ \A d \in Conn \ {c} : job'[d] = job[d]
      /\ UNCHANGED <<db, registry, copy, mine, writes, accepted, confirmed>>
  BY <1>2 DEF DiffRaise, Become, NoJob, here, IInv, TypeOK
<1>5. /\ x \in Session /\ x.people = here.people \ {c} /\ x.doc = here.doc
      /\ x.node = here.node /\ x.updates = here.updates /\ x.lastSaved = here.lastSaved
  BY <1>3 DEF LeaveGhost, Session
<1> HIDE DEF x
<1>6. Fits(c)'
  BY <1>4 DEF Fits, Stays, Takes, Saver
<1> QED
  BY <1>1, <1>2, <1>4, <1>5, <1>6, SessionStep

\* Whoever leaves takes the session along only as the last one, and only when
\* the row has everything or is about to.
LEMMA DisconnectKeeps ==
    ASSUME IInv, KInv, ~raced', NEW c \in Conn, Disconnect(c)
    PROVE  KInv'
<1> DEFINE x == [here EXCEPT !.people = @ \ {c}]
           left == [sessions EXCEPT ![registry] = x]
<1>1. phase[c] = "in" /\ Stays(c)
  BY DEF Disconnect, Stays
<1>2. /\ registry # 0 /\ mine[c] = registry /\ \A d \in Conn : ~Takes(d)
      /\ job[c].diff = 0
  BY <1>1, StayersTakeNot DEF KInv, AllFit, Fits, Saver
<1>3. registry \in 1 .. Len(sessions) /\ here \in Session
  BY <1>2, Registered
<1>4. /\ \/ /\ x.people # {} \/ x.ghost
            /\ Become(c, "out") /\ sessions' = left /\ job' = job
         \/ /\ x.people = {} /\ ~x.ghost
            /\ NeedsSave(registry) /\ SaveBegin(c, "cleanup", left)
         \/ /\ x.people = {} /\ ~x.ghost /\ ~NeedsSave(registry)
            /\ Become(c, "cleanup") /\ sessions' = left /\ job' = job
      /\ UNCHANGED <<db, registry, copy, mine, accepted, confirmed>>
  <2>1. left[registry] = x
    BY <1>3 DEF IInv, TypeOK
  <2> HIDE DEF x
  <2> QED
    BY <1>2, <2>1 DEF Disconnect, NobodyLeft, here, x
<1>5. /\ x \in Session /\ x.doc = here.doc /\ x.node = here.node
      /\ x.updates = here.updates /\ x.ghost = here.ghost
      /\ x.lastSaved = here.lastSaved /\ x.people = here.people \ {c}
  BY <1>3 DEF Session
<1> HIDE DEF x
<1>6. left \in Seq(Session) /\ Len(left) = Len(sessions) /\ left[registry] = x
  BY <1>3, <1>5, OneSession DEF IInv, TypeOK
<1>7. CASE /\ x.people = {} /\ ~x.ghost
           /\ NeedsSave(registry) /\ SaveBegin(c, "cleanup", left)
  <2> HIDE DEF left
  <2> QED
    BY <1>1, <1>2, <1>4, <1>5, <1>6, <1>7, SaveBeginKeeps
<1>8. ASSUME NEW p \in {"out", "cleanup"}, Become(c, p), sessions' = left, job' = job,
             p = "cleanup" => x.people = {} /\ ~x.ghost /\ ~NeedsSave(registry)
      PROVE  KInv'
  <2>1. phase'[c] = p /\ \A d \in Conn \ {c} : phase'[d] = phase[d]
    BY <1>8 DEF Become, IInv, TypeOK
  <2>2. here' = x => Fits(c)'
    <3>1. CASE p = "out"
      BY <1>2, <1>8, <2>1, <3>1 DEF Fits, Stays, Takes, Saver
    <3>2. CASE p = "cleanup"
      <4>1. db.version = Len(accepted)
        <5>1. here.lastSaved = Len(accepted)
          BY <1>2, <1>8, <3>2 DEF NeedsSave, here, KInv, Copies, Memory
        <5> QED
          BY <1>2, <5>1 DEF KInv, Copies, Marked, AllFit, Fits
      <4> QED
        BY <1>2, <1>4, <1>8, <2>1, <3>2, <4>1 DEF Fits, Stays, Takes, Saver
    <3> QED
      BY <3>1, <3>2
  <2>3. here.people \ {c} \subseteq x.people
    BY <1>5
  <2> QED
    BY <1>1, <1>2, <1>4, <1>5, <1>8, <2>1, <2>2, <2>3, SessionStep
<1> QED
  BY <1>4, <1>7, <1>8

\* When the session is taken away the row has everything, and nobody is left.
LEMMA CleanupKeeps ==
    ASSUME IInv, KInv, NEW c \in Conn, Cleanup(c)
    PROVE  KInv'
<1>1. phase[c] = "cleanup"
  BY DEF Cleanup
<1>2. /\ registry # 0 /\ here.people = {} /\ db.version = Len(accepted)
      /\ Takes(c) /\ job[c].diff = 0
  BY <1>1 DEF KInv, AllFit, Fits, Takes, Saver
<1>3. /\ registry' = 0
      /\ phase'[c] = "out" /\ \A d \in Conn \ {c} : phase'[d] = phase[d]
      /\ UNCHANGED <<db, copy, mine, job, writes, accepted, confirmed>>
  BY <1>2 DEF Cleanup, Become, IInv, TypeOK
<1>4. \A d \in Conn \ {c} : /\ phase[d] \in {"out", "reading"} /\ ~Saver(d)
                            /\ job[d].diff = 0
  <2> TAKE d \in Conn \ {c}
  <2>1. ~Takes(d) /\ ~Stays(d)
    BY <1>2 DEF KInv, OneTaker, AllFit, Fits
  <2>2. phase[d] \in Phases /\ job[d].then \in {"in", "cleanup"}
    BY DEF IInv, TypeOK, Job
  <2>3. phase[d] \in {"out", "reading"}
    BY <2>1, <2>2 DEF Takes, Stays, Saver, Phases, Awaits
  <2> QED
    BY <2>3 DEF Saver, KInv, AllFit, Fits
<1>5. \A d \in Conn : phase'[d] \in {"out", "reading"} /\ job'[d].diff = 0
  BY <1>2, <1>3, <1>4
<1>6. OneTaker' /\ AllFit'
  BY <1>5 DEF OneTaker, AllFit, Fits, Stays, Takes, Saver
<1>7. RowIsAState'
  BY <1>3 DEF KInv, Copies, RowIsAState, IsTextOf, HasNotesOf
<1>8. Memory' /\ Marked' /\ Closed' /\ RowNotes'
  BY <1>2, <1>3 DEF Memory, Marked, Closed, RowNotes
<1>9. Noted'
  <2>1. here.doc.notes \subseteq db.notes
    BY <1>1, <1>2, <1>4 DEF KInv, Copies, RowNotes
  <2> QED
    BY <1>2, <1>3, <2>1 DEF KInv, Copies, Noted, NotedIn
<1> QED
  BY <1>6, <1>7, <1>8, <1>9 DEF KInv, Copies

\* So it does after the shutdown: every write that was queued has been made.
LEMMA ShutdownKeeps ==
    ASSUME IInv, Lined, KInv, ~raced', Shutdown
    PROVE  KInv'
<1>1. \A d \in Conn : phase[d] # "queued"
  <2>1. writes = <<>>
    BY DEF Shutdown
  <2> QED
    BY <2>1 DEF Lined
<1>2. /\ registry' = 0 /\ db' = SavedNow(registry)
      /\ \A d \in Conn : phase'[d] = "out" /\ job'[d].diff = 0
      /\ NeedsSave(registry) => ~SavesOldText(here)
      /\ UNCHANGED <<copy, mine, writes, accepted, confirmed>>
  BY DEF Shutdown, NoJob, here
<1>3. OneTaker' /\ AllFit' /\ Memory' /\ Marked' /\ RowNotes'
  BY <1>2 DEF OneTaker, AllFit, Fits, Stays, Takes, Saver, Memory, Marked, RowNotes
<1>4. CASE NeedsSave(registry)
  <2>1. registry # 0 /\ here.doc \in DocRecord
    BY <1>4, Registered DEF NeedsSave
  <2>2. /\ here.doc.version = Len(accepted)
        /\ IsTextOf(here.node, Len(accepted))
        /\ HasNotesOf(here.doc.notes, Len(accepted))
        /\ IsHistoryOf(here.doc.diffs, Len(accepted))
        /\ ~here.updates => here.doc.content = here.node
    BY <1>2, <1>4, <2>1 DEF KInv, Copies, Memory, SavesOldText
  <2>3. db' = [here.doc EXCEPT !.content = here.node]
    BY <1>2, <1>4, <2>1, <2>2 DEF SavedNow, here, DocRecord
  <2>4. /\ db'.version = Len(accepted) /\ db'.content = here.node
        /\ db'.notes = here.doc.notes /\ db'.diffs = here.doc.diffs
        /\ accepted' = accepted
    BY <1>2, <2>1, <2>2, <2>3 DEF DocRecord
  <2>5. IsTextOf(db.content, db.version)'
    BY <2>2, <2>4 DEF IsTextOf
  <2>6. HasNotesOf(db.notes, db.version)'
    BY <2>2, <2>4 DEF HasNotesOf
  <2>7. /\ db'.version <= Len(accepted') /\ Len(db'.diffs) <= History
        /\ Len(db'.diffs) \in {db'.version, History}
        /\ \A i \in DOMAIN db'.diffs : db'.diffs[i] = db'.version - Len(db'.diffs) + i
    <3> DEFINE d == here.doc.diffs
               v == Len(accepted)
    <3>1. DOMAIN d = 1 .. Len(d) /\ v \in Nat
      BY <2>1 DEF DocRecord, Text, IInv, TypeOK
    <3>2. /\ Len(d) <= History /\ Len(d) \in {v, History}
          /\ \A i \in 1 .. Len(d) : d[i] = v - Len(d) + i
      BY <2>2 DEF IsHistoryOf
    <3>3. v <= v /\ db'.version = v /\ db'.diffs = d /\ Len(accepted') = v
      BY <2>4, <3>1
    <3> HIDE DEF d, v
    <3> QED
      BY <3>1, <3>2, <3>3
  <2>8. RowIsAState'
    BY <2>5, <2>6, <2>7 DEF RowIsAState
  <2>9. Closed' /\ Noted'
    BY <1>2, <2>1, <2>4 DEF KInv, Copies, Closed, Noted, NotedIn
  <2> QED
    BY <1>3, <2>8, <2>9 DEF KInv, Copies
<1>5. CASE ~NeedsSave(registry)
  <2>1. db' = db
    BY <1>2, <1>5 DEF SavedNow
  <2>2. db.version = Len(accepted)
    <3>1. CASE registry = 0
      BY <3>1 DEF KInv, Copies, Closed
    <3>2. CASE registry # 0
      <4>1. here.lastSaved = Len(accepted)
        BY <1>5, <3>2 DEF NeedsSave, here, KInv, Copies, Memory
      <4> QED
        BY <3>2, <4>1 DEF KInv, Copies, Marked, AllFit, Fits
    <3> QED
      BY <3>1, <3>2
  <2>3. RowIsAState' /\ Closed'
    BY <1>2, <2>1, <2>2 DEF KInv, Copies, RowIsAState, Closed, IsTextOf, HasNotesOf
  <2>4. Noted'
    BY <1>1, <1>2, <2>1, <2>2 DEF KInv, Copies, Noted, NotedIn, RowNotes
  <2> QED
    BY <1>3, <2>3, <2>4 DEF KInv, Copies
<1> QED
  BY <1>4, <1>5

\* At the start the row is empty and nothing is in memory.
LEMMA InitKeeps == Init => KInv /\ Lined
<1> SUFFICES ASSUME Init PROVE KInv /\ Lined
  OBVIOUS
<1>1. AllFit /\ OneTaker /\ Lined
  BY DEF Init, AllFit, OneTaker, Fits, Stays, Takes, Saver, NoJob, Lined
<1>2. RowIsAState
  BY NumberAssumption DEF Init, RowIsAState, IsTextOf, HasNotesOf, EmptyDoc
<1>3. Memory /\ Marked /\ Closed /\ Noted /\ RowNotes
  BY DEF Init, Memory, Marked, Closed, Noted, NotedIn, RowNotes, EmptyDoc
<1> QED
  BY <1>1, <1>2, <1>3 DEF KInv, Copies

\* A race that has happened has happened.
LEMMA RacedStays == [Next]_vars /\ raced => raced'
<1> SUFFICES ASSUME [Next]_vars, raced PROVE raced'
  OBVIOUS
<1>1. ASSUME NEW c \in Conn, Continue(c) PROVE raced'
  <2>1. CASE SubscribeJoin(c) \/ SubscribeOpen(c) \/ SaveWrite(c) \/ SaveFail(c) \/ SaveEnd(c)
    BY <2>1 DEF SubscribeJoin, SubscribeOpen, SaveWrite, SaveFail, SaveEnd
  <2>2. CASE \E kind \in Kinds : DiffApply(c, kind) \/ DiffFail(c, kind)
    BY <2>2 DEF DiffApply, DiffFail, SaveBegin
  <2>3. CASE DiffDone(c) \/ DiffRaise(c) \/ Cleanup(c)
    BY <2>3 DEF DiffDone, DiffRaise, Cleanup, SaveBegin
  <2> QED
    BY <1>1, <2>1, <2>2, <2>3 DEF Continue
<1>2. ASSUME NEW c \in Conn, SubscribeRead(c) \/ DiffCheck(c) PROVE raced'
  BY <1>2 DEF SubscribeRead, DiffCheck
<1>3. ASSUME NEW c \in Conn, Unfixable(c) \/ Disconnect(c) PROVE raced'
  BY <1>3 DEF Unfixable, Disconnect, SaveBegin
<1>4. CASE Shutdown \/ UNCHANGED vars
  BY <1>4 DEF Shutdown, vars
<1> QED
  BY <1>1, <1>2, <1>3, <1>4 DEF Next

\* Every step that is no race keeps it.
LEMMA StepKeeps == IInv /\ Lined /\ (~raced => KInv) /\ [Next]_vars => (~raced => KInv)'
<1> SUFFICES ASSUME IInv, Lined, ~raced => KInv, [Next]_vars, ~raced' PROVE KInv'
  OBVIOUS
<1>0. KInv
  BY RacedStays
<1>1. ASSUME NEW c \in Conn, SubscribeRead(c) \/ Unfixable(c) \/ DiffCheck(c) \/ Disconnect(c)
      PROVE  KInv'
  BY <1>0, <1>1, SubscribeReadKeeps, UnfixableKeeps, DiffCheckKeeps, DisconnectKeeps
<1>2. ASSUME NEW c \in Conn, Continue(c)
      PROVE  KInv'
  <2>1. CASE SubscribeJoin(c) \/ SubscribeOpen(c)
    BY <1>0, <2>1, SubscribeJoinKeeps, SubscribeOpenKeeps
  <2>2. CASE \E kind \in Kinds : DiffApply(c, kind) \/ DiffFail(c, kind)
    BY <1>0, <2>2, DiffApplyKeeps, DiffFailNever
  <2>3. CASE DiffDone(c) \/ DiffRaise(c)
    BY <1>0, <2>3, DiffDoneKeeps, DiffRaiseKeeps
  <2>4. CASE SaveWrite(c) \/ SaveFail(c) \/ SaveEnd(c)
    BY <1>0, <2>4, SaveWriteKeeps, SaveFailNever, SaveEndKeeps
  <2>5. CASE Cleanup(c)
    BY <1>0, <2>5, CleanupKeeps
  <2> QED
    BY <1>2, <2>1, <2>2, <2>3, <2>4, <2>5 DEF Continue
<1>3. CASE Shutdown
  BY <1>0, <1>3, ShutdownKeeps
<1>4. CASE UNCHANGED vars
  <2>1. AllFit' /\ OneTaker'
    BY <1>0, <1>4 DEF vars, KInv, AllFit, OneTaker, Fits, Stays, Takes, Saver, Holds, here
  <2>2. Memory'
    BY <1>0, <1>4 DEF vars, KInv, Copies, Memory, here, IsTextOf, HasNotesOf, IsHistoryOf
  <2>3. RowIsAState'
    BY <1>0, <1>4 DEF vars, KInv, Copies, RowIsAState, IsTextOf, HasNotesOf
  <2>4. Marked' /\ Closed' /\ Noted' /\ RowNotes'
    BY <1>0, <1>4 DEF vars, KInv, Copies, Marked, Closed, Noted, NotedIn, RowNotes, here
  <2> QED
    BY <2>1, <2>2, <2>3, <2>4 DEF KInv, Copies
<1> QED
  BY <1>1, <1>2, <1>3, <1>4 DEF Next

\* In every reachable state both invariants hold, the second one until a race.
LEMMA Keeps == Spec => [](IInv /\ Lined /\ (~raced => KInv))
<1>1. Init => IInv /\ Lined /\ (~raced => KInv)
  BY InitInv, InitKeeps
<1>2. IInv /\ Lined /\ (~raced => KInv) /\ [Next]_vars => (IInv /\ Lined /\ (~raced => KInv))'
  BY Step, QueueStep, StepKeeps
<1> QED
  BY <1>1, <1>2, PTL DEF Spec

-----------------------------------------------------------------------------
(* What holds until a race.                                                *)

\* A participant's session is the registered one and lists it (disconnect(),
\* handle_message()).
LEMMA ParticipantsKeepSession == KInv => SessionStays
BY DEF KInv, AllFit, Fits, Stays, SessionStays, here

\* There is one copy in memory, and it is made of every diff ever accepted
\* (subscribe(), handle_diff(), disconnect()).
LEMMA CopyIsComplete == KInv => OneCopy
BY DEF KInv, Copies, Memory, OneCopy, here

\* What is recorded as saved is in the row (the comparison of doc.version and
\* last_saved_version in save_document_async()).
LEMMA RecordedIsSaved == KInv => SavedIsInDb
BY DEF KInv, Copies, Memory, Marked, SavedIsInDb, Quiet, here

\* Once everybody has left, or the server was shut down, the row has every diff
\* that was confirmed (handle_diff(), disconnect(), save_all_docs()).
LEMMA NothingLost == IInv /\ KInv => NoLostEdit
<1> SUFFICES ASSUME IInv, KInv, registry = 0, NEW n \in confirmed
             PROVE  IF accepted[n] = "steps" THEN n \in Range(db.content)
                                             ELSE n \in db.notes
  BY DEF NoLostEdit
<1>1. /\ n \in 1 .. Len(accepted) /\ db.version = Len(accepted)
      /\ IsTextOf(db.content, db.version)
  BY DEF IInv, TypeOK, KInv, Copies, Closed, RowIsAState
<1>2. CASE accepted[n] = "steps"
  <2>1. PICK i \in 1 .. Len(db.content) : db.content[i] = n
    BY <1>1, <1>2 DEF IsTextOf
  <2>2. i \in DOMAIN db.content
    BY <2>1 DEF IInv, TypeOK, DocRecord, Text
  <2> QED
    BY <1>2, <2>1, <2>2 DEF Range
<1>3. CASE accepted[n] # "steps"
  BY <1>3 DEF KInv, Copies, Noted, NotedIn
<1> QED
  BY <1>2, <1>3

\* With either backend, with every overlap of handlers that the event loop
\* allows and with handlers that raise, for any number of connections, sessions
\* and diffs and any cut of the history: until a session is made from a row read
\* too early, a diff is accepted during a save, notes are added too late for it,
\* or the rust backend saves text that it has not kept up to date, there is one
\* copy in memory and it is complete, its participants stay in it, the row is a
\* state of the document and what counts as saved is in it, and a document that
\* is closed or shut down has every confirmed diff (subscribe(), handle_diff(),
\* save_document_async(), disconnect(), save_all_docs()).
THEOREM SoundUntilRaced == Spec => []SoundUnlessRaced
<1>1. IInv /\ KInv => /\ SessionStays /\ OneCopy /\ SavedIsInDb
                      /\ RowIsAState /\ NoLostEdit
  BY ParticipantsKeepSession, CopyIsComplete, RecordedIsSaved, NothingLost DEF KInv, Copies
<1>2. IInv /\ Lined /\ (~raced => KInv) => SoundUnlessRaced
  BY <1>1 DEF SoundUnlessRaced
<1> QED
  BY <1>2, Keeps, PTL
=============================================================================
