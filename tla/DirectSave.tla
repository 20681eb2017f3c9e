----------------------------- MODULE DirectSave -----------------------------
(***************************************************************************)
(* Saving over REST, without a WebSocket (EDITOR_SAVE_MODE = "direct"):    *)
(* editor/no_collab_save/index.js and save_document() of document/views.py.*)
(*                                                                         *)
(* A page is an editor opened once; to reload is to leave one page and to  *)
(* open another.  postJson() throws on every status that is not 2xx, so    *)
(* an answer 409 ends in the catch of _save(), and                         *)
(* _handleVersionConflict() is never reached.                              *)
(*                                                                         *)
(* Requests are served in parallel, without a lock or a transaction: any   *)
(* number of them may be between the query and the save.                   *)
(***************************************************************************)
EXTENDS Naturals, FiniteSets

CONSTANTS
    Page,       \* editors
    MaxEdits,   \* bound: edits typed
    MaxLost,    \* bound: requests or answers lost
    MaxStays    \* bound: pages that are asked to unload and stay

ASSUME BoundAssumption == {MaxEdits, MaxLost, MaxStays} \subseteq Nat

\* An edit is a number, a text the set of its edits.
Edit == 1 .. MaxEdits

\* _save() is called by the interval and by close(), by beforeunload, and by
\* pagehide.  Only the first is guarded by savePromise.
Kind == {"save", "unload", "hide"}
\* A request is "failed" when it is lost, and when it is answered with 409: for
\* the page both are exceptions.
Status == {"none", "sent", "checked", "saved", "failed"}

VARIABLES
    row,        \* the row in the database, [v, text]
    state,      \* of a page: not opened yet ("shut"), "open", "closed"
    text, ver,  \* the current view and docInfo.version
    dirty,      \* _hasUnsavedChanges()
    job,        \* the requests of a page
    late,       \* history: typed while a save was under way that counted as all
    crossed,    \* history: a save was made between the query and the save of another
    typed, lost, stays \* counters for the bounds

pageVars == <<state, text, ver, dirty, late>>
vars == <<row, pageVars, job, crossed, typed, lost, stays>>

NoJob == [st |-> "none", v |-> 0, text |-> {}]
Job == [st : Status, v : Nat, text : SUBSET Edit]

Init ==
    /\ row = [v |-> 0, text |-> {}]
    /\ state = [p \in Page |-> "shut"]
    /\ text = [p \in Page |-> {}]
    /\ ver = [p \in Page |-> 0]
    /\ dirty = [p \in Page |-> FALSE]
    /\ job = [p \in Page |-> [k \in Kind |-> NoJob]]
    /\ late = [p \in Page |-> {}]
    /\ crossed = FALSE
    /\ typed = 0
    /\ lost = 0
    /\ stays = 0

\* Request k of page p is now at st.
Reach(p, k, st) == job' = [job EXCEPT ![p][k].st = st]
Fail(p, k) == job' = [job EXCEPT ![p][k] = [NoJob EXCEPT !.st = "failed"]]

-----------------------------------------------------------------------------
(* The page.                                                               *)

\* get_doc_data and loadDocument(): `updated` is set, _lastSaveTime is 0.
Open(p) ==
    /\ state[p] = "shut"
    /\ state' = [state EXCEPT ![p] = "open"]
    /\ text' = [text EXCEPT ![p] = row.text]
    /\ ver' = [ver EXCEPT ![p] = row.v]
    /\ dirty' = [dirty EXCEPT ![p] = TRUE]
    /\ UNCHANGED <<row, job, late, crossed, typed, lost, stays>>

\* Fault: a change of the text leaves `updated` as it is.
MarkNothing(p) == UNCHANGED dirty

\* dispatchTransaction() sets docInfo.updated.
MarkChanged(p) == dirty' = [dirty EXCEPT ![p] = TRUE]

Type(p) ==
    /\ state[p] = "open"
    /\ typed < MaxEdits
    /\ typed' = typed + 1
    /\ text' = [text EXCEPT ![p] = @ \cup {typed + 1}]
    /\ MarkChanged(p)
    /\ UNCHANGED <<row, state, ver, job, late, crossed, lost, stays>>

\* The start of _save().  (For an encrypted document the text is read before,
\* and the version after, an await; while it lasts only this page's own saves
\* change the version, and savePromise holds those off.)
Post(p, k) == job' = [job EXCEPT ![p][k] = [st |-> "sent", v |-> ver[p], text |-> text[p]]]

Saving(p) == job[p]["save"].st # "none"

\* The interval of ten seconds.
SaveTick(p) ==
    /\ state[p] = "open"
    /\ ~Saving(p)
    /\ dirty[p]
    /\ Post(p, "save")
    /\ UNCHANGED <<row, pageVars, crossed, typed, lost, stays>>

\* beforeunload: the page may stay.
Unload(p) ==
    /\ state[p] = "open"
    /\ dirty[p]
    /\ job[p]["unload"].st = "none"
    /\ stays < MaxStays
    /\ stays' = stays + 1
    /\ Post(p, "unload")
    /\ UNCHANGED <<row, pageVars, crossed, typed, lost>>

\* pagehide: the page goes.
Hide(p) ==
    /\ state[p] = "open"
    /\ state' = [state EXCEPT ![p] = "closed"]
    /\ IF dirty[p] THEN Post(p, "hide") ELSE UNCHANGED job
    /\ UNCHANGED <<row, text, ver, dirty, late, crossed, typed, lost, stays>>

\* Editor.close(): save() returns the save under way, if there is one.
Close(p) ==
    /\ state[p] = "open"
    /\ state' = [state EXCEPT ![p] = "closed"]
    /\ IF Saving(p)
       THEN /\ late' = [late EXCEPT ![p] = @ \cup (text[p] \ job[p]["save"].text)]
            /\ UNCHANGED job
       ELSE /\ Post(p, "save")
            /\ UNCHANGED late
    /\ UNCHANGED <<row, text, ver, dirty, crossed, typed, lost, stays>>

\* Fault: a refused save counts as saved.
SucceedsAlways(st) == st \in {"saved", "failed"}

\* Does postJson() return, and not throw?
Succeeds(st) == st = "saved"

\* The answer comes to an open page.  `updated` becomes the time of the answer.
Answer(p, k) ==
    /\ state[p] = "open"
    /\ job[p][k].st \in {"saved", "failed"}
    /\ job' = [job EXCEPT ![p][k] = NoJob]
    /\ IF Succeeds(job[p][k].st)
       THEN /\ ver' = [ver EXCEPT ![p] = job[p][k].v + 1]
            /\ dirty' = [dirty EXCEPT ![p] = FALSE]
            /\ late' = [late EXCEPT ![p] = @ \cup (text[p] \ job[p][k].text)]
       ELSE UNCHANGED <<ver, dirty, late>>
    /\ UNCHANGED <<row, state, text, crossed, typed, lost, stays>>

\* The request does not arrive, or the answer does not.
Lose(p, k) ==
    /\ lost < MaxLost
    /\ job[p][k].st \in {"sent", "saved"}
    /\ lost' = lost + 1
    /\ Fail(p, k)
    /\ UNCHANGED <<row, pageVars, crossed, typed, stays>>

-----------------------------------------------------------------------------
(* save_document(): a query, a test, and a save of all fields.             *)

\* Fault: the version is not compared.
MatchesAlways(v) == TRUE

Matches(v) == row.v = v

ServerCheck(p, k) ==
    /\ job[p][k].st = "sent"
    /\ IF Matches(job[p][k].v) THEN Reach(p, k, "checked") ELSE Fail(p, k)
    /\ UNCHANGED <<row, pageVars, crossed, typed, lost, stays>>

\* Fault: the version is not raised.
SavedRowSame(j) == [v |-> j.v, text |-> j.text]

SavedRow(j) == [v |-> j.v + 1, text |-> j.text]

\* Another request is between the query and the save.
Crosses(p, k) == \E q \in Page, l \in Kind : (q # p \/ l # k) /\ job[q][l].st = "checked"

ServerSave(p, k) ==
    /\ job[p][k].st = "checked"
    /\ row' = SavedRow(job[p][k])
    /\ Reach(p, k, "saved")
    /\ crossed' = (crossed \/ Crosses(p, k))
    /\ UNCHANGED <<pageVars, typed, lost, stays>>

-----------------------------------------------------------------------------
Request(p, k) == Answer(p, k) \/ Lose(p, k) \/ ServerCheck(p, k) \/ ServerSave(p, k)
Step(p) ==
    \/ Open(p) \/ Type(p) \/ SaveTick(p) \/ Unload(p) \/ Hide(p) \/ Close(p)
    \/ \E k \in Kind : Request(p, k)

Next == \E p \in Page : Step(p)

\* The interval fires, the server answers, the page hears it.
Fairness ==
    \A p \in Page :
        /\ WF_vars(SaveTick(p))
        /\ \A k \in Kind : WF_vars(ServerCheck(p, k) \/ ServerSave(p, k))
                           /\ WF_vars(Answer(p, k))

Spec == Init /\ [][Next]_vars /\ Fairness

-----------------------------------------------------------------------------
(* Properties.                                                             *)

\* What the variables hold; until two saves cross, no page takes itself to be
\* ahead of the row.
TypeOK ==
    /\ row \in [v : Nat, text : SUBSET Edit]
    /\ state \in [Page -> {"shut", "open", "closed"}]
    /\ text \in [Page -> SUBSET Edit]
    /\ ver \in [Page -> Nat]
    /\ dirty \in [Page -> BOOLEAN]
    /\ job \in [Page -> [Kind -> Job]]
    /\ late \in [Page -> SUBSET Edit]
    /\ crossed \in BOOLEAN
    /\ {typed, lost, stays} \subseteq Nat
    /\ crossed \/ \A p \in Page : ver[p] <= row.v

\* A save takes nothing out of the row that another page has put there, in
\* whatever order pages are opened, save, lose answers and leave, until a save
\* is made between the query and the save of another: who passes the comparison
\* of versions had the text of that version.  Nothing in save_document() keeps
\* saves from crossing, and the later one of two that do may overwrite.
Grows == row.text \subseteq row'.text
NothingOverwritten == [][Grows \/ crossed']_row

\* A page that counts as saved, and a page that was left with all of its saves
\* accepted, has all of its text in the row, short of what was typed while a
\* save was under way; this, too, until two saves cross.
AckedIsStored ==
    ~crossed =>
    \A p \in Page :
        \/ state[p] = "open" /\ ~dirty[p]
        \/ state[p] = "closed" /\ \A k \in Kind : job[p][k].st \in {"none", "saved"}
        => text[p] \subseteq row.text \cup late[p]

\* Somebody else has saved since p was opened or saved, or the answer to a save
\* of its own was lost: no later save of p is accepted.
Outdated(p) == ver[p] # row.v /\ \A k \in Kind : job[p][k].st # "saved"

Stored(p, e) == e \in row.text \/ state[p] = "closed"
Typed(p, e) == state[p] = "open" /\ e \in text[p]

\* What is typed gets into the row if the page stays open and nobody else
\* saves, short of what was typed while a save was under way, and unless two
\* saves cross: the page whose text is overwritten then takes it for saved.
Arrives ==
    \A p \in Page, e \in Edit :
        Typed(p, e) ~> (Stored(p, e) \/ Outdated(p) \/ e \in late[p] \/ crossed)
=============================================================================
