-------------------------- MODULE DirectSave_proofs --------------------------
(***************************************************************************)
(* That a save overwrites nothing, and that what counts as saved is saved, *)
(* for any number of pages, edits and lost answers, until a save is made   *)
(* between the query and the save of another (crossed).                    *)
(***************************************************************************)
EXTENDS DirectSave, TLAPS

\* The variables have their types.
Types ==
    /\ row \in [v : Nat, text : SUBSET Edit]
    /\ state \in [Page -> {"shut", "open", "closed"}]
    /\ text \in [Page -> SUBSET Edit]
    /\ ver \in [Page -> Nat]
    /\ dirty \in [Page -> BOOLEAN]
    /\ job \in [Page -> [Kind -> Job]]
    /\ late \in [Page -> SUBSET Edit]
    /\ crossed \in BOOLEAN
    /\ typed \in Nat /\ lost \in Nat /\ stays \in Nat

\* No page takes itself to be ahead of the row, and who has the version of the
\* row has its text.
Behind == \A p \in Page : ver[p] <= row.v
Carries == \A p \in Page : ver[p] = row.v => row.text \subseteq text[p]

\* The version of a request is not ahead of the row, and is the row's while the
\* request is between the comparison and the save.
Ordered(p, k) ==
    /\ job[p][k].st = "sent" => job[p][k].v <= row.v
    /\ job[p][k].st = "checked" => job[p][k].v = row.v
    /\ job[p][k].st = "saved" => job[p][k].v < row.v

\* A request with the version of the row has its text; the page of an accepted
\* save that is the row's will have the version, and has the text.
JobCarries(p, k) ==
    /\ job[p][k].st \in {"sent", "checked"} /\ job[p][k].v = row.v
          => row.text \subseteq job[p][k].text
    /\ job[p][k].st = "saved" /\ job[p][k].v + 1 = row.v => row.text \subseteq text[p]

\* A request is of the text of its page, an accepted one is in the row.
Backed(p, k) ==
    /\ job[p][k].st \in {"sent", "checked", "saved"} => job[p][k].text \subseteq text[p]
    /\ job[p][k].st = "saved" => job[p][k].text \subseteq row.text
    /\ state[p] = "shut" => job[p][k].st = "none"

JobOK(p, k) == Ordered(p, k) /\ JobCarries(p, k) /\ Backed(p, k)
Jobs == \A p \in Page, k \in Kind : JobOK(p, k)

\* Where a page that counts as saved, or was left, has its text.
InRow(p) == text[p] \subseteq row.text \cup late[p]
InJob(p, k) == /\ job[p][k].st # "none"
               /\ job[p][k].st = "failed" \/ text[p] \subseteq job[p][k].text \cup late[p]
Acked ==
    \A p \in Page :
        /\ state[p] = "open" /\ ~dirty[p] => InRow(p)
        /\ state[p] = "closed" => InRow(p) \/ \E k \in Kind : InJob(p, k)

IInv == Types /\ Behind /\ Carries /\ Jobs /\ Acked

LEMMA JobTyped == ASSUME Types, NEW p \in Page, NEW k \in Kind PROVE job[p][k] \in Job
BY DEF Types

LEMMA Initially == Init => IInv
<1>1. \A k \in Kind : NoJob \in Job
  BY DEF NoJob, Job, Status
<1>2. ASSUME Init PROVE Types
  <2>1. job \in [Page -> [Kind -> Job]]
    BY <1>1, <1>2 DEF Init
  <2>2. crossed \in BOOLEAN
    BY <1>2 DEF Init
  <2>3. row \in [v : Nat, text : SUBSET Edit]
    BY <1>2 DEF Init
  <2>4. state \in [Page -> {"shut", "open", "closed"}] /\ dirty \in [Page -> BOOLEAN]
    BY <1>2 DEF Init
  <2>5. text \in [Page -> SUBSET Edit] /\ late \in [Page -> SUBSET Edit] /\ ver \in [Page -> Nat]
    BY <1>2 DEF Init
  <2> QED
    BY <1>2, <2>1, <2>2, <2>3, <2>4, <2>5 DEF Init, Types
<1>3. Init => Behind /\ Carries /\ Acked
  BY DEF Init, Behind, Carries, Acked
<1>4. Init => Jobs
  BY DEF Init, Jobs, JobOK, Ordered, JobCarries, Backed, NoJob
<1> QED
  BY <1>2, <1>3, <1>4 DEF IInv

\* A request that does not change stays as it should be while the row is the
\* same and its page loses no text.
LEMMA SameJob ==
    ASSUME NEW q \in Page, NEW l \in Kind, JobOK(q, l), job'[q][l] = job[q][l],
           row' = row, text[q] \subseteq text'[q], state'[q] = "shut" => state[q] = "shut"
    PROVE  JobOK(q, l)'
BY DEF JobOK, Ordered, JobCarries, Backed

\* What one request does to all of them.
LEMMA OneJob ==
    ASSUME IInv, NEW p \in Page, NEW k \in Kind, JobOK(p, k)',
           \A q \in Page, l \in Kind : (q # p \/ l # k) => job'[q][l] = job[q][l],
           row' = row, text' = text,
           \A q \in Page : state'[q] = "shut" => state[q] = "shut"
    PROVE  Jobs'
<1>1. ASSUME NEW q \in Page, NEW l \in Kind, q # p \/ l # k PROVE JobOK(q, l)'
  <2>1. JobOK(q, l) /\ job'[q][l] = job[q][l]
    BY <1>1 DEF IInv, Jobs
  <2> QED
    BY <2>1, SameJob
<1> QED
  BY <1>1 DEF Jobs

LEMMA OpenStep == ASSUME IInv, NEW p \in Page, Open(p) PROVE IInv'
<1>1. /\ Types' /\ Behind' /\ Carries'
  BY DEF IInv, Types, Behind, Carries, Open
<1>2. ASSUME NEW q \in Page, NEW l \in Kind PROVE JobOK(q, l)'
  <2>1. JobOK(q, l) /\ job' = job /\ row' = row
    BY DEF IInv, Jobs, Open
  <2>2. CASE q = p
    <3>1. job'[p][l].st = "none" /\ state'[p] = "open"
      BY <2>1, <2>2 DEF JobOK, Backed, Open, IInv, Types
    <3> QED
      BY <2>2, <3>1 DEF JobOK, Ordered, JobCarries, Backed
  <2>3. CASE q # p
    BY <2>1, <2>3, SameJob DEF Open, IInv, Types
  <2> QED
    BY <2>2, <2>3
<1>3. Acked'
  BY DEF IInv, Types, Acked, InRow, InJob, Open
<1> QED
  BY <1>1, <1>2, <1>3 DEF IInv, Jobs

LEMMA TypeStep == ASSUME IInv, NEW p \in Page, Type(p) PROVE IInv'
<1>1. typed + 1 \in Edit /\ typed' \in Nat
  BY BoundAssumption DEF IInv, Types, Type, Edit
<1>2. UNCHANGED <<row, state, ver, job, late, crossed, lost, stays>> /\ state[p] = "open"
  BY DEF Type
<1>3. Types' /\ Behind'
  BY <1>1, <1>2 DEF IInv, Types, Behind, Type, MarkChanged
<1>4. \A q \in Page : text[q] \subseteq text'[q]
  BY DEF IInv, Types, Type
<1>5. Carries'
  BY <1>2, <1>4 DEF IInv, Carries
<1>6. Jobs'
  BY <1>2, <1>4, SameJob DEF IInv, Jobs
<1>7. dirty'[p] /\ \A q \in Page : q # p => text'[q] = text[q] /\ dirty'[q] = dirty[q]
  BY DEF IInv, Types, Type, MarkChanged
<1>8. Acked'
  BY <1>2, <1>7 DEF IInv, Acked, InRow, InJob
<1> QED
  BY <1>3, <1>5, <1>6, <1>8 DEF IInv

\* The start of a save leaves all other requests as they are, and the page has
\* its text in it.
LEMMA PostStep ==
    ASSUME IInv, NEW p \in Page, NEW k \in Kind, Post(p, k), state[p] = "open",
           UNCHANGED <<row, text, ver, dirty, late, crossed, typed, lost>>, stays' \in Nat,
           state' \in {state, [state EXCEPT ![p] = "closed"]}
    PROVE  IInv'
<1>1. /\ job' \in [Page -> [Kind -> Job]]
      /\ job'[p][k] = [st |-> "sent", v |-> ver[p], text |-> text[p]]
      /\ \A q \in Page, l \in Kind : (q # p \/ l # k) => job'[q][l] = job[q][l]
  BY DEF IInv, Types, Post, Job, Status
<1>2. \A q \in Page : q # p => state'[q] = state[q]
  BY DEF IInv, Types
<1>3. state'[p] \in {"open", "closed"} /\ (state'[p] = "open" => state' = state)
  BY DEF IInv, Types
<1>4. Types' /\ Behind' /\ Carries'
  BY <1>1 DEF IInv, Types, Behind, Carries
<1>5. JobOK(p, k)'
  BY <1>1, <1>3 DEF IInv, Types, Behind, Carries, JobOK, Ordered, JobCarries, Backed
<1>6. Jobs'
  BY <1>1, <1>2, <1>3, <1>5, OneJob
<1>7. Acked'
  <2>1. InJob(p, k)'
    BY <1>1 DEF InJob
  <2>2. ASSUME NEW q \in Page, q # p, NEW l \in Kind, InJob(q, l) PROVE InJob(q, l)'
    BY <1>1, <2>2 DEF InJob
  <2>3. \A q \in Page : InRow(q) => InRow(q)'
    BY DEF InRow
  <2> QED
    BY <1>2, <1>3, <2>1, <2>2, <2>3 DEF IInv, Acked
<1> QED
  BY <1>4, <1>6, <1>7 DEF IInv

LEMMA SaveTickStep == ASSUME IInv, NEW p \in Page, SaveTick(p) PROVE IInv'
BY PostStep DEF SaveTick, Kind, pageVars, IInv, Types

LEMMA UnloadStep == ASSUME IInv, NEW p \in Page, Unload(p) PROVE IInv'
<1>1. stays' \in Nat
  BY DEF Unload, IInv, Types
<1> QED
  BY <1>1, PostStep DEF Unload, Kind, pageVars

\* To leave a page changes no request but the one it may start.
LEMMA LeaveStep ==
    ASSUME IInv, NEW p \in Page, state[p] = "open", state' = [state EXCEPT ![p] = "closed"],
           UNCHANGED <<row, text, ver, dirty, job, crossed, typed, lost, stays>>,
           late' \in [Page -> SUBSET Edit], \A q \in Page : q # p => late'[q] = late[q],
           InRow(p)' \/ \E k \in Kind : InJob(p, k)'
    PROVE  IInv'
<1>1. state'[p] = "closed" /\ \A q \in Page : q # p => state'[q] = state[q]
  BY DEF IInv, Types
<1>2. Types'
  BY DEF IInv, Types
<1>3. Behind' /\ Carries'
  BY DEF IInv, Behind, Carries
<1>4. Jobs'
  BY <1>1, SameJob DEF IInv, Jobs
<1>5. Acked'
  BY <1>1 DEF IInv, Acked, InRow, InJob
<1> QED
  BY <1>2, <1>3, <1>4, <1>5 DEF IInv

LEMMA HideStep == ASSUME IInv, NEW p \in Page, Hide(p) PROVE IInv'
<1>1. CASE Post(p, "hide")
  BY <1>1, PostStep DEF Hide, Kind, IInv, Types
<1>2. CASE ~dirty[p] /\ UNCHANGED job
  <2>1. InRow(p)' /\ UNCHANGED late
    BY <1>2 DEF IInv, Acked, InRow, Hide
  <2> QED
    BY <1>2, <2>1, LeaveStep DEF Hide, IInv, Types
<1> QED
  BY <1>1, <1>2 DEF Hide

LEMMA CloseStep == ASSUME IInv, NEW p \in Page, Close(p) PROVE IInv'
<1>1. CASE Post(p, "save") /\ UNCHANGED late
  BY <1>1, PostStep DEF Close, Kind, IInv, Types
<1>2. CASE Saving(p) /\ UNCHANGED job
               /\ late' = [late EXCEPT ![p] = @ \cup (text[p] \ job[p]["save"].text)]
  <2>1. "save" \in Kind
    BY DEF Kind
  <2>2. InJob(p, "save")'
    BY <1>2, <2>1 DEF IInv, Types, InJob, Saving, Close
  <2>3. late' \in [Page -> SUBSET Edit] /\ \A q \in Page : q # p => late'[q] = late[q]
    BY <1>2 DEF IInv, Types
  <2> QED
    BY <1>2, <2>1, <2>2, <2>3, LeaveStep DEF Close
<1> QED
  BY <1>1, <1>2 DEF Close

LEMMA AnswerStep == ASSUME IInv, NEW p \in Page, NEW k \in Kind, Answer(p, k) PROVE IInv'
<1>1. /\ job' \in [Page -> [Kind -> Job]]
      /\ job'[p][k].st = "none"
      /\ \A q \in Page, l \in Kind : (q # p \/ l # k) => job'[q][l] = job[q][l]
  BY DEF IInv, Types, Answer, NoJob, Job, Status
<1>2. state[p] = "open" /\ UNCHANGED <<row, state, text, crossed, typed, lost, stays>>
  BY DEF Answer
<1>3. JobOK(p, k)'
  BY <1>1, <1>2 DEF JobOK, Ordered, JobCarries, Backed
<1>4. Jobs'
  BY <1>1, <1>2, <1>3, OneJob
<1>5. JobOK(p, k) /\ job[p][k] \in Job
  BY JobTyped DEF IInv, Jobs
<1>6. CASE job[p][k].st = "saved"
  <2>1. /\ ver' = [ver EXCEPT ![p] = job[p][k].v + 1]
        /\ dirty' = [dirty EXCEPT ![p] = FALSE]
        /\ late' = [late EXCEPT ![p] = @ \cup (text[p] \ job[p][k].text)]
    BY <1>6 DEF Answer, Succeeds
  <2>2. job[p][k].v + 1 \in Nat /\ job[p][k].v + 1 <= row.v
    BY <1>5, <1>6 DEF JobOK, Ordered, Job, IInv, Types
  <2>3. Types' /\ Behind'
    BY <1>1, <1>2, <2>1, <2>2 DEF IInv, Types, Behind
  <2>4. Carries'
    BY <1>2, <1>5, <1>6, <2>1, <2>2 DEF IInv, Types, Carries, JobOK, JobCarries
  <2>5. InRow(p)'
    BY <1>2, <1>5, <1>6, <2>1 DEF IInv, Types, JobOK, Backed, InRow
  <2>6. \A q \in Page : q # p => late'[q] = late[q] /\ dirty'[q] = dirty[q]
    BY <2>1 DEF IInv, Types
  <2>7. Acked'
    BY <1>1, <1>2, <2>5, <2>6 DEF IInv, Acked, InRow, InJob
  <2> QED
    BY <1>4, <2>3, <2>4, <2>7 DEF IInv
<1>7. CASE job[p][k].st = "failed"
  <2>1. UNCHANGED <<ver, dirty, late>>
    BY <1>7 DEF Answer, Succeeds
  <2>2. Types' /\ Behind' /\ Carries'
    BY <1>1, <1>2, <2>1 DEF IInv, Types, Behind, Carries
  <2>3. Acked'
    BY <1>1, <1>2, <2>1 DEF IInv, Acked, InRow, InJob
  <2> QED
    BY <1>4, <2>2, <2>3 DEF IInv
<1> QED
  BY <1>6, <1>7 DEF Answer

\* What fails is no request any more.
LEMMA FailStep ==
    ASSUME IInv, NEW p \in Page, NEW k \in Kind, Fail(p, k), job[p][k].st # "none",
           UNCHANGED <<row, pageVars, crossed, typed, stays>>, lost' \in Nat
    PROVE  IInv'
<1>1. /\ job' \in [Page -> [Kind -> Job]]
      /\ job'[p][k].st = "failed"
      /\ \A q \in Page, l \in Kind : (q # p \/ l # k) => job'[q][l] = job[q][l]
  BY DEF IInv, Types, Fail, NoJob, Job, Status
<1>2. UNCHANGED <<row, state, text, ver, dirty, late, crossed, typed, stays>>
  BY DEF pageVars
<1>3. Types' /\ Behind' /\ Carries'
  BY <1>1, <1>2 DEF IInv, Types, Behind, Carries
<1>4. JobOK(p, k)'
  BY <1>1, <1>2 DEF IInv, Jobs, JobOK, Ordered, JobCarries, Backed
<1>5. Jobs'
  BY <1>1, <1>2, <1>4, OneJob
<1>6. Acked'
  BY <1>1, <1>2 DEF IInv, Acked, InRow, InJob
<1> QED
  BY <1>3, <1>5, <1>6 DEF IInv

LEMMA LoseStep == ASSUME IInv, NEW p \in Page, NEW k \in Kind, Lose(p, k) PROVE IInv'
<1>1. lost' \in Nat /\ Fail(p, k) /\ job[p][k].st # "none"
  BY DEF IInv, Types, Lose
<1> QED
  BY <1>1, FailStep DEF Lose

\* The other fields of a request stay when it gets on.
LEMMA ReachFacts ==
    ASSUME IInv, NEW p \in Page, NEW k \in Kind, NEW st \in Status, Reach(p, k, st)
    PROVE  /\ job' \in [Page -> [Kind -> Job]]
           /\ job'[p][k].st = st
           /\ job'[p][k].v = job[p][k].v /\ job'[p][k].text = job[p][k].text
           /\ \A q \in Page, l \in Kind : (q # p \/ l # k) => job'[q][l] = job[q][l]
<1>1. job[p][k] \in Job
  BY DEF IInv, Types
<1>2. [job[p][k] EXCEPT !.st = st] \in Job
  BY <1>1 DEF Job
<1>3. job' = [job EXCEPT ![p] = [job[p] EXCEPT ![k] = [job[p][k] EXCEPT !.st = st]]]
  BY DEF Reach
<1>4. job'[p][k] = [job[p][k] EXCEPT !.st = st]
  BY <1>3 DEF IInv, Types
<1>5. job' \in [Page -> [Kind -> Job]]
  BY <1>2, <1>3 DEF IInv, Types
<1>6. \A q \in Page, l \in Kind : (q # p \/ l # k) => job'[q][l] = job[q][l]
  BY <1>3 DEF IInv, Types
<1> QED
  BY <1>1, <1>4, <1>5, <1>6 DEF Job

LEMMA ServerCheckStep ==
    ASSUME IInv, NEW p \in Page, NEW k \in Kind, ServerCheck(p, k)
    PROVE  IInv'
<1>1. CASE Matches(job[p][k].v) /\ Reach(p, k, "checked")
  <2>1. /\ job' \in [Page -> [Kind -> Job]]
        /\ job'[p][k].st = "checked"
        /\ job'[p][k].v = job[p][k].v /\ job'[p][k].text = job[p][k].text
        /\ \A q \in Page, l \in Kind : (q # p \/ l # k) => job'[q][l] = job[q][l]
    BY <1>1, ReachFacts DEF Status
  <2>2. /\ job[p][k].st = "sent" /\ job[p][k].v = row.v
        /\ UNCHANGED <<row, state, text, ver, dirty, late, crossed, typed, lost, stays>>
    BY <1>1 DEF ServerCheck, Matches, pageVars
  <2>3. Types' /\ Behind' /\ Carries'
    BY <2>1, <2>2 DEF IInv, Types, Behind, Carries
  <2>4. JobOK(p, k)'
    BY <2>1, <2>2 DEF IInv, Jobs, JobOK, Ordered, JobCarries, Backed
  <2>5. Jobs'
    BY <2>1, <2>2, <2>4, OneJob
  <2>6. ASSUME NEW q \in Page, NEW l \in Kind, InJob(q, l) PROVE InJob(q, l)'
    BY <2>1, <2>2, <2>6 DEF InJob
  <2>7. Acked'
    BY <2>2, <2>6 DEF IInv, Acked, InRow
  <2> QED
    BY <2>3, <2>5, <2>7 DEF IInv
<1>2. CASE Fail(p, k)
  <2>1. lost' \in Nat /\ job[p][k].st # "none"
    BY DEF IInv, Types, ServerCheck
  <2> QED
    BY <1>2, <2>1, FailStep DEF ServerCheck
<1> QED
  BY <1>1, <1>2 DEF ServerCheck

\* The save is of the text of a request that has the version of the row.
LEMMA SaveGrows ==
    ASSUME IInv, NEW p \in Page, NEW k \in Kind, ServerSave(p, k)
    PROVE  /\ row' \in [v : Nat, text : SUBSET Edit]
           /\ row'.v = row.v + 1 /\ row'.text = job[p][k].text /\ Grows
<1>1. JobOK(p, k) /\ job[p][k] \in Job /\ job[p][k].st = "checked"
  BY JobTyped DEF IInv, Jobs, ServerSave
<1>2. job[p][k].v = row.v /\ row.text \subseteq job[p][k].text
  BY <1>1 DEF JobOK, Ordered, JobCarries
<1>3. row' = [v |-> row.v + 1, text |-> job[p][k].text]
  BY <1>2 DEF ServerSave, SavedRow
<1> QED
  BY <1>1, <1>2, <1>3 DEF IInv, Types, Grows, Job

LEMMA ServerSaveStep ==
    ASSUME IInv, NEW p \in Page, NEW k \in Kind, ServerSave(p, k), ~crossed'
    PROVE  IInv'
<1>1. /\ job' \in [Page -> [Kind -> Job]]
      /\ job'[p][k].st = "saved"
      /\ job'[p][k].v = job[p][k].v /\ job'[p][k].text = job[p][k].text
      /\ \A q \in Page, l \in Kind : (q # p \/ l # k) => job'[q][l] = job[q][l]
  BY ReachFacts DEF ServerSave, Status
<1>2. /\ row' \in [v : Nat, text : SUBSET Edit]
      /\ row'.v = row.v + 1 /\ row'.text = job[p][k].text /\ row.text \subseteq row'.text
  BY SaveGrows DEF Grows
<1>3. /\ job[p][k].st = "checked" /\ JobOK(p, k) /\ row.v \in Nat
      /\ UNCHANGED <<state, text, ver, dirty, late, typed, lost, stays>>
  BY DEF IInv, Types, Jobs, ServerSave, pageVars
<1>4. job[p][k].v = row.v /\ job[p][k].text \subseteq text[p]
  BY <1>3 DEF JobOK, Ordered, Backed
<1>5. Types'
  BY <1>1, <1>2, <1>3 DEF IInv, Types, ServerSave
<1>6. Behind' /\ Carries'
  <2>1. \A q \in Page : ver'[q] < row'.v
    BY <1>2, <1>3 DEF IInv, Types, Behind
  <2> QED
    BY <1>5, <2>1 DEF Types, Behind, Carries
<1>7. \A q \in Page, l \in Kind : (q # p \/ l # k) => job[q][l].st # "checked"
  BY DEF ServerSave, Crosses
<1>8. ASSUME NEW q \in Page, NEW l \in Kind PROVE JobOK(q, l)'
  <2>1. CASE q = p /\ l = k
    BY <1>1, <1>2, <1>3, <1>4, <2>1 DEF JobOK, Ordered, JobCarries, Backed
  <2>2. CASE q # p \/ l # k
    <3>1. JobOK(q, l) /\ job'[q][l] = job[q][l] /\ job[q][l] \in Job
      BY <1>1, <2>2, JobTyped DEF IInv, Jobs
    <3>2. job[q][l].st # "checked" /\ job[q][l].v \in Nat
      BY <1>7, <2>2, <3>1 DEF Job
    <3> QED
      BY <1>2, <1>3, <3>1, <3>2 DEF JobOK, Ordered, JobCarries, Backed
  <2> QED
    BY <2>1, <2>2
<1>9. Acked'
  <2>1. ASSUME NEW q \in Page, NEW l \in Kind, InJob(q, l) PROVE InJob(q, l)'
    BY <1>1, <1>3, <2>1 DEF InJob
  <2>2. \A q \in Page : InRow(q) => InRow(q)'
    BY <1>2, <1>3 DEF InRow
  <2> QED
    BY <1>3, <2>1, <2>2 DEF IInv, Acked
<1> QED
  BY <1>5, <1>6, <1>8, <1>9 DEF IInv, Jobs

-----------------------------------------------------------------------------
(* The types hold whether saves have crossed or not.                       *)

\* A request that is made anew or gets on is still a request.
LEMMA JobStays ==
    ASSUME Types, NEW p \in Page, NEW k \in Kind, NEW j \in Job,
           job' = [job EXCEPT ![p] = [job[p] EXCEPT ![k] = j]]
    PROVE  job' \in [Page -> [Kind -> Job]]
BY DEF Types

LEMMA ReachStays ==
    ASSUME Types, NEW p \in Page, NEW k \in Kind, NEW st \in Status, Reach(p, k, st)
    PROVE  job' \in [Page -> [Kind -> Job]]
<1>1. [job[p][k] EXCEPT !.st = st] \in Job
  BY JobTyped DEF Job
<1> QED
  BY <1>1, JobStays DEF Reach

LEMMA FailStays ==
    ASSUME Types, NEW p \in Page, NEW k \in Kind, Fail(p, k)
    PROVE  job' \in [Page -> [Kind -> Job]]
<1>1. [NoJob EXCEPT !.st = "failed"] \in Job
  BY DEF NoJob, Job, Status
<1> QED
  BY <1>1, JobStays DEF Fail

LEMMA PostStays ==
    ASSUME Types, NEW p \in Page, NEW k \in Kind, Post(p, k)
    PROVE  job' \in [Page -> [Kind -> Job]]
<1>1. [st |-> "sent", v |-> ver[p], text |-> text[p]] \in Job
  BY DEF Types, Job, Status
<1> QED
  BY <1>1, JobStays DEF Post

LEMMA PageTypes ==
    ASSUME Types, NEW p \in Page,
           \/ Open(p) \/ Type(p) \/ SaveTick(p) \/ Unload(p) \/ Hide(p) \/ Close(p)
    PROVE  Types'
<1>1. CASE Open(p)
  BY <1>1 DEF Types, Open
<1>2. CASE Type(p)
  <2>1. typed + 1 \in Edit /\ typed' \in Nat
    BY <1>2, BoundAssumption DEF Types, Type, Edit
  <2> QED
    BY <1>2, <2>1 DEF Types, Type, MarkChanged
<1>3. CASE SaveTick(p)
  BY <1>3, PostStays DEF Types, SaveTick, pageVars, Kind
<1>4. CASE Unload(p)
  BY <1>4, PostStays DEF Types, Unload, pageVars, Kind
<1>5. CASE Hide(p)
  <2>1. job' \in [Page -> [Kind -> Job]]
    BY <1>5, PostStays DEF Types, Hide, Kind
  <2> QED
    BY <1>5, <2>1 DEF Types, Hide
<1>6. CASE Close(p)
  <2>1. job' \in [Page -> [Kind -> Job]] /\ late' \in [Page -> SUBSET Edit]
    BY <1>6, PostStays DEF Types, Close, Kind
  <2> QED
    BY <1>6, <2>1 DEF Types, Close
<1> QED
  BY <1>1, <1>2, <1>3, <1>4, <1>5, <1>6

LEMMA RequestTypes ==
    ASSUME Types, NEW p \in Page, NEW k \in Kind, Request(p, k)
    PROVE  Types'
<1>1. job[p][k] \in Job
  BY JobTyped
<1>2. CASE Answer(p, k)
  <2>1. job' \in [Page -> [Kind -> Job]]
    BY <1>2 DEF Types, Answer, NoJob, Job, Status
  <2>2. /\ ver' \in [Page -> Nat] /\ dirty' \in [Page -> BOOLEAN]
        /\ late' \in [Page -> SUBSET Edit]
    <3>1. CASE Succeeds(job[p][k].st)
      <4>1. job[p][k].v + 1 \in Nat /\ text[p] \ job[p][k].text \in SUBSET Edit
        BY <1>1 DEF Types, Job
      <4>2. /\ ver' = [ver EXCEPT ![p] = job[p][k].v + 1]
            /\ dirty' = [dirty EXCEPT ![p] = FALSE]
            /\ late' = [late EXCEPT ![p] = @ \cup (text[p] \ job[p][k].text)]
        BY <1>2, <3>1 DEF Answer
      <4> QED
        BY <4>1, <4>2 DEF Types
    <3>2. CASE ~Succeeds(job[p][k].st)
      BY <1>2, <3>2 DEF Types, Answer
    <3> QED
      BY <3>1, <3>2
  <2> QED
    BY <1>2, <2>1, <2>2 DEF Types, Answer
<1>3. CASE Lose(p, k)
  BY <1>3, FailStays DEF Types, Lose, pageVars
<1>4. CASE ServerCheck(p, k)
  <2>1. job' \in [Page -> [Kind -> Job]]
    BY <1>4, FailStays, ReachStays DEF ServerCheck, Status
  <2> QED
    BY <1>4, <2>1 DEF Types, ServerCheck, pageVars
<1>5. CASE ServerSave(p, k)
  <2>1. job' \in [Page -> [Kind -> Job]]
    BY <1>5, ReachStays DEF ServerSave, Status
  <2>2. row' \in [v : Nat, text : SUBSET Edit]
    BY <1>1, <1>5 DEF ServerSave, SavedRow, Job
  <2>3. crossed' \in BOOLEAN
    BY <1>5 DEF ServerSave
  <2> QED
    BY <1>5, <2>1, <2>2, <2>3 DEF Types, ServerSave, pageVars
<1> QED
  BY <1>2, <1>3, <1>4, <1>5 DEF Request

-----------------------------------------------------------------------------
(* The theorems.                                                           *)

\* Once two saves have crossed, they have.
LEMMA StaysCrossed == ASSUME [Next]_vars, ~crossed' PROVE ~crossed
BY DEF Next, Step, Open, Type, SaveTick, Unload, Hide, Close, Request, Answer, Lose, ServerCheck,
       ServerSave, vars

\* The strengthened invariant: until two saves cross, versions tell who has the
\* text of the row, and every request carries its page's text.
Sound == Types /\ (~crossed => IInv)

LEMMA Inductive == ASSUME Sound, [Next]_vars PROVE Sound'
<1>1. CASE UNCHANGED vars
  <2> USE <1>1 DEF vars, pageVars
  <2>1. Types'
    BY DEF Sound, Types
  <2>2. ASSUME IInv PROVE IInv'
    <3>1. Behind' /\ Carries' /\ Acked'
      BY <2>2 DEF IInv, Behind, Carries, Acked, InRow, InJob
    <3>2. Jobs'
      BY <2>2, SameJob DEF IInv, Jobs
    <3> QED
      BY <2>1, <3>1, <3>2 DEF IInv
  <2> QED
    BY <2>1, <2>2 DEF Sound
<1>2. ASSUME NEW p \in Page, Step(p) PROVE Sound'
  <2>1. Types'
    BY <1>2, PageTypes, RequestTypes DEF Sound, Step
  <2>2. ASSUME ~crossed' PROVE IInv'
    <3>1. IInv
      BY <1>2, <2>2, StaysCrossed DEF Sound, Next
    <3> QED
      BY <1>2, <2>2, <3>1, OpenStep, TypeStep, SaveTickStep, UnloadStep, HideStep, CloseStep,
         AnswerStep, LoseStep, ServerCheckStep, ServerSaveStep DEF Step, Request
  <2> QED
    BY <2>1, <2>2 DEF Sound
<1> QED
  BY <1>1, <1>2 DEF Next

THEOREM Invariant == Spec => []Sound
<1>1. Init => Sound
  BY Initially DEF Sound, IInv
<1>2. Sound /\ [Next]_vars => Sound'
  BY Inductive
<1> QED
  BY <1>1, <1>2, PTL DEF Spec

\* The variables have their types, and until two saves cross no page takes
\* itself to be ahead of the row it is compared with in save_document().
THEOREM TypeCorrect == Spec => []TypeOK
<1>1. Sound => TypeOK
  BY DEF Sound, IInv, Types, Behind, TypeOK
<1> QED
  BY <1>1, Invariant, PTL

\* What is in the row stays in it until two saves cross: the comparison of
\* versions in save_document() lets only those pass that have the text of the
\* row.
THEOREM KeepsText == Spec => NothingOverwritten
<1>1. Sound /\ [Next]_vars => [Grows \/ crossed']_row
  <2>1. ASSUME Sound, NEW p \in Page, Step(p) PROVE [Grows \/ crossed']_row
    <3>1. ASSUME NEW k \in Kind, ServerSave(p, k) PROVE Grows \/ crossed'
      BY <2>1, <3>1, SaveGrows, StaysCrossed DEF Sound, Next
    <3>2. CASE UNCHANGED row
      BY <3>2
    <3> QED
      BY <2>1, <3>1, <3>2 DEF Step, Open, Type, SaveTick, Unload, Hide, Close, Request, Answer,
                              Lose, ServerCheck
  <2>2. ASSUME UNCHANGED vars PROVE [Grows \/ crossed']_row
    BY <2>2 DEF vars
  <2> QED
    BY <2>1, <2>2 DEF Next
<1> QED
  BY <1>1, Invariant, PTL DEF Spec, NothingOverwritten

\* Until two saves cross, a page that counts as saved has its text in the row,
\* however many answers were lost and in whichever order its saves of the
\* interval, of beforeunload and of pagehide were served.
THEOREM SavedIsStored == Spec => []AckedIsStored
<1>1. ASSUME IInv, NEW p \in Page, NEW k \in Kind, InJob(p, k), job[p][k].st \in {"none", "saved"}
      PROVE  InRow(p)
  BY <1>1 DEF IInv, Jobs, JobOK, Backed, InJob, InRow
<1>2. Sound => AckedIsStored
  BY <1>1 DEF Sound, IInv, Acked, InRow, AckedIsStored
<1> QED
  BY <1>2, Invariant, PTL
=============================================================================
