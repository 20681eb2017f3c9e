----------------------------- MODULE DocSession -----------------------------
(***************************************************************************)
(* The life of one document on the server: opening it from the database,   *)
(* applying diffs to the copy in memory, saving, closing it when the last  *)
(* participant leaves, and shutting the server down (document/consumers.py *)
(* and helpers/document_store.py, a document without encryption).          *)
(*                                                                         *)
(* All consumers run in one event loop.  A handler gives way to others     *)
(* only where it waits for the database, so each action is the code from   *)
(* one such await to the next, and phase[c] tells where connection c       *)
(* waits.  Suspends says at which of these awaits other handlers do run:   *)
(* with all of them in the set, every overlap the event loop allows is     *)
(* explored; leaving some out isolates the rest.                           *)
(***************************************************************************)
EXTENDS Integers, Sequences, FiniteSets, Functions

CONSTANTS
    Conn,          \* WebSocket connections
    Suspends,      \* awaits during which other handlers run
    Rust,          \* PROSEMIRROR_BACKEND = "rust" instead of "python"
    Kinds,         \* kinds of diffs sent
    SaveInterval,  \* DOC_SAVE_INTERVAL; 30 in the settings
    History,       \* history_length; 1000 in the code
    MaxDiffs,      \* bound: diffs accepted
    MaxOpens       \* bound: sessions opened

\* A diff has document steps ("steps"), or it only updates the comments or the
\* bibliography, which are kept outside of the document tree ("notes"), or it
\* does so and changes the title, too ("titled"), or it only updates a comment or
\* a reference that has been deleted, which raises a KeyError ("broken").
DiffKinds == {"steps", "notes", "titled", "broken"}

Awaits == {"reading", "checked", "applied", "queued", "saved"}
Phases == Awaits \cup {"out", "in", "cleanup"}

ASSUME SuspendsAssumption == Suspends \subseteq Awaits
ASSUME KindsAssumption == Kinds \subseteq DiffKinds
ASSUME RustAssumption == Rust \in BOOLEAN
ASSUME NumberAssumption == /\ SaveInterval \in Nat \ {0}
                           /\ History \in Nat \ {0}
                           /\ MaxDiffs \in Nat
                           /\ MaxOpens \in Nat

\* Diffs are named by their place in the order of acceptance.
DiffId == Nat \ {0}
Text == Seq(DiffId)

\* A Document object, in the database or in memory: the fields that are saved
\* together.
DocRecord == [version: Nat, content: Text, notes: SUBSET DiffId, diffs: Text]
EmptyDoc == [version |-> 0, content |-> <<>>, notes |-> {}, diffs |-> <<>>]

\* A session.  node is the document tree that the diffs are applied to; people
\* are the participants, and ghost says that one more is listed whose consumer
\* has ended without disconnect(); gone says that disconnect() has taken node
\* and diffs away.
Session == [doc: DocRecord, node: Text, updates: BOOLEAN, lastSaved: Nat,
            people: SUBSET Conn, ghost: BOOLEAN, gone: BOOLEAN]

\* What a handler holds while it waits for the database: save_document_async()
\* its values, handle_diff() the diff that it has not confirmed yet (or 0).
Job == [sess: Nat, string: BOOLEAN, version: Nat, content: Text,
        diffs: Text, then: {"in", "cleanup"}, diff: Nat]
NoJob == [sess |-> 0, string |-> FALSE, version |-> 0,
          content |-> <<>>, diffs |-> <<>>, then |-> "in", diff |-> 0]

VARIABLES
    db,         \* the row of the document
    sessions,   \* every session object made so far
    registry,   \* runtime_sessions[document]: its index, or 0
    phase,      \* what each connection waits for
    copy,       \* doc_db: what subscribe() read
    mine,       \* self.session: index, or 0
    job,        \* the save each connection waits for
    writes,     \* connections whose write is queued, in order
    accepted,   \* the kinds of the diffs accepted so far, in order
    confirmed,  \* the diffs whose senders got a confirm_diff
    raced       \* has one of the four races below happened?

vars == <<db, sessions, registry, phase, copy, mine, job, writes, accepted,
          confirmed, raced>>

\* The event loop is c's to use: no other handler is between two awaits, or at
\* one that does not suspend.
Free(c) == \A d \in Conn \ {c} : phase[d] \in {"out", "in"} \cup Suspends

Become(c, p) == phase' = [phase EXCEPT ![c] = p]

\* Fault: one diff more than asked for.
LastOfMore(s, n) == SubSeq(s, IF Len(s) > n THEN Len(s) - n ELSE 1, Len(s))

\* diffs[-n:]
LastOf(s, n) == SubSeq(s, IF Len(s) > n THEN Len(s) - n + 1 ELSE 1, Len(s))

-----------------------------------------------------------------------------
(* The races.  raced records that one of them has happened.  It guards      *)
(* nothing; what is claimed of texts is claimed until then.                *)

SaveUnderWay == \E d \in Conn : phase[d] \in {"queued", "saved"}

\* 1. A session is made from a row that has changed since it was read, or while
\* the session before it is still being saved or taken away.
OpensLate(c) ==
    copy[c] # db \/ SaveUnderWay \/ \E d \in Conn : phase[d] = "cleanup"

\* 2. A diff is accepted during a save (DiffApply).

\* 3. Notes that waited for the title come during a save or after it.
NotesLate(s) == SaveUnderWay \/ sessions[s].lastSaved = sessions[s].doc.version

\* 4. The rust backend saves doc.content, which it does not keep up to date.
SavesOldText(ss) == Rust /\ ~ss.updates /\ ss.doc.content # ss.node

-----------------------------------------------------------------------------
(* Subscribing.                                                            *)

\* Fault: the first participant does not count.
HasSessionOfMany ==
    registry # 0 /\ (Cardinality(sessions[registry].people) > 1 \/ sessions[registry].ghost)

\* "Serving already opened document": there are participants.
HasSession ==
    registry # 0 /\ (sessions[registry].people # {} \/ sessions[registry].ghost)

\* Bound: nobody reads who could need more than MaxOpens sessions.
MayRead ==
    \/ Len(sessions) + Cardinality({d \in Conn : phase[d] = "reading"}) < MaxOpens
    \/ "reading" \notin Suspends /\ HasSession

\* init_access() has read the document.
SubscribeRead(c) ==
    /\ Free(c)
    /\ phase[c] = "out"
    /\ MayRead
    /\ copy' = [copy EXCEPT ![c] = db]
    /\ Become(c, "reading")
    /\ UNCHANGED <<db, sessions, registry, mine, job, writes, accepted, confirmed,
                   raced>>

\* There is a session with participants: join it.
SubscribeJoin(c) ==
    /\ Free(c)
    /\ phase[c] = "reading"
    /\ HasSession
    /\ mine' = [mine EXCEPT ![c] = registry]
    /\ sessions' = [sessions EXCEPT ![registry].people = @ \cup {c}]
    /\ Become(c, "in")
    /\ UNCHANGED <<db, registry, copy, job, writes, accepted, confirmed, raced>>

\* Otherwise make a session from what was read.
SubscribeOpen(c) ==
    /\ Free(c)
    /\ phase[c] = "reading"
    /\ ~HasSession
    /\ sessions' = Append(sessions,
            [doc |-> copy[c], node |-> copy[c].content, updates |-> FALSE,
             lastSaved |-> copy[c].version, people |-> {c}, ghost |-> FALSE,
             gone |-> FALSE])
    /\ raced' = (raced \/ OpensLate(c))
    /\ registry' = Len(sessions')
    /\ mine' = [mine EXCEPT ![c] = registry']
    /\ Become(c, "in")
    /\ UNCHANGED <<db, copy, job, writes, accepted, confirmed>>

-----------------------------------------------------------------------------
(* Saving: save_document_async() and document_store.save_document_async(). *)

\* Fault: only changed text is saved.
NeedsSaveText(s) == s # 0 /\ sessions[s].updates

\* Is there anything to save?
NeedsSave(s) == s # 0 /\ sessions[s].doc.version # sessions[s].lastSaved

\* From the call to the write.  The python backend turns the node into
\* doc.content here and the write takes all fields from doc; the rust backend
\* fixes the values now and leaves doc.content alone.
SaveBegin(c, then, ss) ==
    LET s == registry
        string == Rust /\ ss[s].updates
        content == IF ss[s].updates THEN ss[s].node ELSE ss[s].doc.content
    IN  /\ job' = [job EXCEPT ![c] =
                    [sess |-> s, string |-> string,
                     version |-> ss[s].doc.version, content |-> content,
                     diffs |-> ss[s].doc.diffs, then |-> then, diff |-> job[c].diff]]
        /\ sessions' = IF Rust THEN ss
                       ELSE [ss EXCEPT ![s].doc.content = content]
        /\ writes' = Append(writes, c)
        /\ Become(c, "queued")
        /\ raced' = (raced \/ SavesOldText(ss[s]))

\* Fault: a write waits for a second one.
TurnBatched(c) == phase[c] = "queued" /\ Len(writes) > 1 /\ Head(writes) = c

\* Database calls run one at a time in one thread.
Turn(c) == phase[c] = "queued" /\ writes # <<>> /\ Head(writes) = c

\* The write takes the fields from doc; the list of diffs is gone when the
\* session was closed in the meantime.
CannotWrite(c) == sessions[job[c].sess].gone /\ ~job[c].string

\* The database executes the write at the head of the queue.
SaveWrite(c) ==
    /\ Free(c)
    /\ Turn(c)
    /\ ~CannotWrite(c)
    /\ LET doc == sessions[job[c].sess].doc
           later == doc.version - job[c].version
           \* The list that was passed gets the next diff before it is replaced.
           first == IF later > 0 /\ later <= Len(doc.diffs)
                    THEN <<doc.diffs[Len(doc.diffs) - later + 1]>> ELSE <<>>
       IN  db' = IF job[c].string
                 THEN [version |-> job[c].version, content |-> job[c].content,
                       notes |-> doc.notes, diffs |-> job[c].diffs \o first]
                 ELSE doc
    /\ writes' = Tail(writes)
    /\ Become(c, "saved")
    /\ UNCHANGED <<sessions, registry, copy, mine, job, accepted, confirmed, raced>>

\* An empty list of diffs violates NOT NULL: the exception ends the connection.
SaveFail(c) ==
    /\ Free(c)
    /\ Turn(c)
    /\ CannotWrite(c)
    /\ writes' = Tail(writes)
    /\ Become(c, "out")
    /\ job' = [job EXCEPT ![c] = NoJob]
    /\ UNCHANGED <<db, sessions, registry, copy, mine, accepted, confirmed, raced>>

\* Fault: whatever was handled is confirmed.
ConfirmAlways(c) ==
    /\ confirmed' = confirmed \cup {job[c].diff}
    /\ job' = [job EXCEPT ![c] = NoJob]

\* The handler is done; a diff that it held is confirmed.
Confirm(c) ==
    /\ confirmed' = confirmed \cup ({job[c].diff} \ {0})
    /\ job' = [job EXCEPT ![c] = NoJob]

\* Fault: the next version counts as saved.
MarkSavedAhead(s) ==
    [sessions EXCEPT ![s].lastSaved = sessions[s].doc.version + 1,
                     ![s].updates = FALSE]

\* What save_document_async() records after the await: the version of now.
MarkSaved(s) ==
    [sessions EXCEPT ![s].lastSaved = sessions[s].doc.version,
                     ![s].updates = FALSE]

SaveEnd(c) ==
    /\ Free(c)
    /\ phase[c] = "saved"
    /\ sessions' = MarkSaved(job[c].sess)
    /\ Become(c, job[c].then)
    /\ Confirm(c)
    /\ UNCHANGED <<db, registry, copy, mine, writes, accepted, raced>>

\* unfixable(): the document is saved before the client is told to fetch it.
Unfixable(c) ==
    /\ Free(c)
    /\ phase[c] = "in"
    /\ registry # 0
    /\ NeedsSave(registry)
    /\ SaveBegin(c, "in", sessions)
    /\ UNCHANGED <<db, registry, copy, mine, accepted, confirmed>>

-----------------------------------------------------------------------------
(* Diffs.                                                                  *)

\* handle_message(): a message for a closed document is dropped; otherwise the
\* access rights are read again.
DiffCheck(c) ==
    /\ Free(c)
    /\ phase[c] = "in"
    /\ Len(accepted) + Cardinality({d \in Conn : phase[d] = "checked"}) < MaxDiffs
    /\ registry # 0
    /\ Become(c, "checked")
    /\ UNCHANGED <<db, sessions, registry, copy, mine, job, writes, accepted, confirmed,
                   raced>>

\* handle_diff() with the right version, up to its database calls for title,
\* comments, bibliography and images.
DiffApply(c, kind) ==
    /\ Free(c)
    /\ phase[c] = "checked"
    /\ ~sessions[mine[c]].gone
    /\ LET n == Len(accepted) + 1
           doc == sessions[mine[c]].doc
           newDoc == [doc EXCEPT
                        !.version = @ + 1,
                        !.diffs = LastOf(Append(@, n), History),
                        !.notes = @ \cup {i \in {n} : kind = "notes"}]
       IN  /\ sessions' =
                IF kind = "steps"
                THEN [sessions EXCEPT ![mine[c]].doc = newDoc,
                                      ![mine[c]].node = Append(@, n),
                                      ![mine[c]].updates = TRUE]
                ELSE [sessions EXCEPT ![mine[c]].doc = newDoc]
           /\ accepted' = Append(accepted, kind)
           /\ job' = [job EXCEPT ![c].diff = n]
    /\ Become(c, "applied")
    /\ raced' = (raced \/ SaveUnderWay)
    /\ UNCHANGED <<db, registry, copy, mine, writes, confirmed>>

\* The session was taken away in the meantime: the steps cannot be applied
\* (unfixable()), or the missing list of diffs raises and ends the connection.
DiffFail(c, kind) ==
    /\ Free(c)
    /\ phase[c] = "checked"
    /\ sessions[mine[c]].gone
    /\ IF kind = "steps" /\ NeedsSave(registry)
       THEN SaveBegin(c, "in", sessions)
       ELSE /\ Become(c, IF kind = "steps" THEN "in" ELSE "out")
            /\ UNCHANGED <<sessions, job, writes, raced>>
    /\ UNCHANGED <<db, registry, copy, mine, accepted, confirmed>>

AtInterval(v) == v % SaveInterval = 0

Broken(c) == accepted[job[c].diff] = "broken"

\* Steps may come with updates that raise.
MayRaise(c) == "broken" \in Kinds /\ accepted[job[c].diff] \in {"broken", "steps"}

Titled(c) == accepted[job[c].diff] = "titled"

\* The rest of handle_diff(): add the notes that wait for the title, save at
\* every SaveInterval-th version, confirm.
DiffDone(c) ==
    /\ Free(c)
    /\ phase[c] = "applied"
    /\ ~Broken(c)
    /\ LET noted == [sessions EXCEPT ![mine[c]].doc.notes = @ \cup
                        {n \in {job[c].diff} : Titled(c)}]
       IN  IF AtInterval(noted[mine[c]].doc.version) /\ NeedsSave(registry)
           THEN SaveBegin(c, "in", noted) /\ UNCHANGED confirmed
           ELSE /\ Become(c, "in")
                /\ sessions' = noted
                /\ Confirm(c)
                /\ raced' = (raced \/ (Titled(c) /\ NotesLate(mine[c])))
                /\ UNCHANGED writes
    /\ UNCHANGED <<db, registry, copy, mine, accepted>>

\* Fault: the exception is taken for the end of the connection.
KeepGhost(s, c) == [s EXCEPT !.people = @ \ {c}]

\* The consumer ends without disconnect(): its entry stays.
LeaveGhost(s, c) == [s EXCEPT !.people = @ \ {c}, !.ghost = TRUE]

\* update_comments() or update_bibliography() raises a KeyError: the version was
\* raised and the diff is in the history, but nobody hears of it.
DiffRaise(c) ==
    /\ Free(c)
    /\ phase[c] = "applied"
    /\ MayRaise(c)
    /\ sessions' = [sessions EXCEPT ![mine[c]] = LeaveGhost(@, c)]
    /\ Become(c, "out")
    /\ job' = [job EXCEPT ![c] = NoJob]
    /\ UNCHANGED <<db, registry, copy, mine, writes, accepted, confirmed, raced>>

-----------------------------------------------------------------------------
(* Closing.                                                                *)

\* Fault: the one who leaves is still counted.
NobodyElse(ss) == Cardinality(ss.people) <= 1 /\ ~ss.ghost

\* Fault: some entry is never removed.
NobodyEver(ss) == FALSE

NobodyLeft(ss) == ss.people = {} /\ ~ss.ghost

\* disconnect() up to its first await.
Disconnect(c) ==
    /\ Free(c)
    /\ phase[c] = "in"
    /\ LET left == [sessions EXCEPT ![mine[c]].people = @ \ {c}]
       IN  IF registry # 0 /\ NobodyLeft(left[mine[c]]) /\ NeedsSave(registry)
           THEN SaveBegin(c, "cleanup", left)
           ELSE /\ Become(c, IF registry # 0 /\ NobodyLeft(left[mine[c]])
                             THEN "cleanup" ELSE "out")
                /\ sessions' = IF registry = 0 THEN sessions ELSE left
                /\ UNCHANGED <<job, writes, raced>>
    /\ UNCHANGED <<db, registry, copy, mine, accepted, confirmed>>

\* disconnect() after the save: whatever session is registered now goes.
Cleanup(c) ==
    /\ Free(c)
    /\ phase[c] = "cleanup"
    /\ IF registry = 0
       THEN UNCHANGED <<sessions, registry>>
       ELSE /\ sessions' = [sessions EXCEPT ![registry].gone = TRUE]
            /\ registry' = 0
    /\ Become(c, "out")
    /\ UNCHANGED <<db, copy, mine, job, writes, accepted, confirmed, raced>>

\* save_document(): the same without awaits, the node becomes doc.content first.
SavedNow(s) ==
    LET ss == sessions[s]
    IN  IF NeedsSave(s)
        THEN [ss.doc EXCEPT !.content = IF ss.updates THEN ss.node ELSE @]
        ELSE db

\* save_all_docs() when the process ends in an orderly way, after the database
\* thread has emptied its queue; everything in memory goes.
Shutdown ==
    /\ \A c \in Conn : phase[c] \in {"out", "in"} \cup Suspends
    /\ registry # 0 \/ \E c \in Conn : phase[c] # "out"
    /\ writes = <<>>
    /\ raced' = (raced \/ (NeedsSave(registry) /\ SavesOldText(sessions[registry])))
    /\ db' = SavedNow(registry)
    /\ registry' = 0
    /\ sessions' = [s \in DOMAIN sessions |->
                        [sessions[s] EXCEPT !.people = {}, !.gone = TRUE]]
    /\ phase' = [c \in Conn |-> "out"]
    /\ job' = [c \in Conn |-> NoJob]
    /\ UNCHANGED <<copy, mine, writes, accepted, confirmed>>

Init ==
    /\ db = EmptyDoc
    /\ sessions = <<>>
    /\ registry = 0
    /\ phase = [c \in Conn |-> "out"]
    /\ copy = [c \in Conn |-> EmptyDoc]
    /\ mine = [c \in Conn |-> 0]
    /\ job = [c \in Conn |-> NoJob]
    /\ writes = <<>>
    /\ accepted = <<>>
    /\ confirmed = {}
    /\ raced = FALSE

\* What goes on by itself once a connection has started it.
Continue(c) ==
    \/ SubscribeJoin(c)
    \/ SubscribeOpen(c)
    \/ \E kind \in Kinds : DiffApply(c, kind) \/ DiffFail(c, kind)
    \/ DiffDone(c)
    \/ DiffRaise(c)
    \/ SaveWrite(c)
    \/ SaveFail(c)
    \/ SaveEnd(c)
    \/ Cleanup(c)

Next ==
    \/ \E c \in Conn : \/ SubscribeRead(c)
                       \/ Unfixable(c)
                       \/ DiffCheck(c)
                       \/ Disconnect(c)
                       \/ Continue(c)
    \/ Shutdown

\* asyncio runs what is ready in the order in which it got ready: a handler
\* whose await is over goes on before what became ready after it.
Fairness == \A c \in Conn : SF_vars(Continue(c))

Spec == Init /\ [][Next]_vars /\ Fairness
-----------------------------------------------------------------------------
(* Properties.                                                             *)

\* The values that the variables take; only accepted diffs are held and
\* confirmed.
TypeOK ==
    /\ db \in DocRecord
    /\ sessions \in Seq(Session)
    /\ registry \in 0 .. Len(sessions)
    /\ phase \in [Conn -> Phases]
    /\ copy \in [Conn -> DocRecord]
    /\ mine \in [Conn -> 0 .. Len(sessions)]
    /\ job \in [Conn -> Job]
    /\ \A c \in Conn : job[c].diff <= Len(accepted)
    /\ writes \in Seq(Conn)
    /\ accepted \in Seq(DiffKinds)
    /\ confirmed \subseteq 1 .. Len(accepted)
    /\ raced \in BOOLEAN

\* The text s is made of the steps among the first v accepted diffs, in order.
IsTextOf(s, v) ==
    /\ \A i, j \in 1 .. Len(s) : i < j => s[i] < s[j]
    /\ \A i \in 1 .. Len(s) : s[i] <= v /\ accepted[s[i]] = "steps"
    /\ \A n \in 1 .. v : accepted[n] = "steps" => \E i \in 1 .. Len(s) : s[i] = n

\* `notes` has those among the first v accepted diffs.
HasNotesOf(notes, v) == \A n \in 1 .. v : accepted[n] = "notes" => n \in notes

Quiet == \A c \in Conn : phase[c] \in {"out", "in"}

\* Once everybody has left, or the server was shut down, the database has
\* every diff whose sender was told that it is accepted (disconnect() and
\* save_all_docs()).
NoLostEdit ==
    (Quiet /\ registry = 0) =>
        \A n \in confirmed : IF accepted[n] = "steps"
                              THEN n \in Range(db.content)
                              ELSE n \in db.notes

\* The row in the database is always a state that the document had: its text
\* is the text of its version, its notes are there, and its diffs are the last
\* ones up to it, so that get_doc_data() can serve the row together with the
\* diffs of later versions.
RowIsAState ==
    /\ db.version <= Len(accepted)
    /\ IsTextOf(db.content, db.version)
    /\ HasNotesOf(db.notes, db.version)
    /\ Len(db.diffs) <= History
    /\ Len(db.diffs) \in {db.version, History}
    /\ \A i \in DOMAIN db.diffs : db.diffs[i] = db.version - Len(db.diffs) + i

\* The session's copy of the document is made of every diff accepted so far:
\* no session starts from an older text, and no two of them go on in parallel.
OneCopy ==
    registry # 0 =>
        /\ sessions[registry].doc.version = Len(accepted)
        /\ IsTextOf(sessions[registry].node, Len(accepted))

\* A participant's session stays in memory while the participant is in it
\* ("complete document cleanup if no participants remain").
SessionStays ==
    \A c \in Conn : phase[c] = "in" => /\ mine[c] = registry
                                       /\ registry # 0
                                       /\ c \in sessions[registry].people

\* A session is closed and taken out of memory when the last one has left it;
\* what can keep it, while nobody is connected, is a participant whose handler
\* raised an exception (disconnect(), handle_diff()).
NoLeftover ==
    ((\A c \in Conn : phase[c] = "out") /\ registry # 0) => sessions[registry].ghost

\* What lastSaved says was saved is in the database, so a save is never skipped
\* that is needed (save_document_async() compares the two).
SavedIsInDb ==
    (Quiet /\ registry # 0) =>
        /\ sessions[registry].lastSaved = db.version
        /\ ~sessions[registry].updates => db.content = sessions[registry].node

\* Until one of the four races happens: participants keep the one session, its
\* copy is complete, what counts as saved is in the row, the row is a state of
\* the document, and a closed document has every confirmed diff - with every
\* overlap of handlers, either backend, and handlers that raise.
SoundUnlessRaced ==
    ~raced => SessionStays /\ OneCopy /\ SavedIsInDb /\ RowIsAState /\ NoLostEdit

\* No handler waits forever: not for the database thread, nor for another
\* handler.
HandlersFinish ==
    \A c \in Conn : (phase[c] \notin {"in", "out"}) ~> (phase[c] \in {"in", "out"})
=============================================================================
