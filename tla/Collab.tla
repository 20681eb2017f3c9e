------------------------------- MODULE Collab -------------------------------
(***************************************************************************)
(* How the copies of a document in several browsers follow the one on the  *)
(* server: diffs with version numbers, the reconciliation of versions,     *)
(* reconnecting, and the REST refetch with a merge (document/consumers.py, *)
(* editor/collab/doc.js, editor/collab/merge, editor/index.js).            *)
(*                                                                         *)
(* The session on the server is taken to stay open (DocSession has its     *)
(* life).  A connection delivers in order, and a client message that       *)
(* crosses one of the server is rejected if it is a diff and has no effect *)
(* otherwise (WsChannel shows this of the message numbering).              *)
(***************************************************************************)
EXTENDS Integers, FiniteSets, SequencesExt

CONSTANTS
    Client,         \* browsers with the document open
    Communicates,   \* those whose rights are in CAN_COMMUNICATE
    History,        \* diffs the server keeps for resending; 1000 in the code
    MaxEdits,       \* bound: edits typed
    MaxDrops,       \* bound: connections lost
    MaxSends,       \* bound: diffs sent by each client
    MaxEarly        \* bound: timers that run out while messages are under way

ASSUME ClientAssumption == Communicates \subseteq Client
ASSUME NumberAssumption == /\ History \in Nat \ {0}
                           /\ MaxEdits \in Nat
                           /\ MaxDrops \in Nat
                           /\ MaxSends \in Nat
                           /\ MaxEarly \in Nat

\* An edit is a number.  A text is the sequence of the edits made to it.
Edit == 1 .. MaxEdits
Diff == [cid: Client, rid: Nat, edits: Seq(Edit)]

VARIABLES
    log,        \* server: all accepted diffs; doc.version is their number
    saved,      \* server: the version of the row in the database
    joined,     \* server: the participants of the session
    said,       \* server: number of messages said on each connection
    link,       \* is the client connected ("on") or not ("off")
    count,      \* ws.connectionCount, as far as 0, 1 or more
    up, down,   \* the messages under way
    seen,       \* client: number of server messages received on this connection
    ver, text,  \* client: docInfo.version and the confirmed text
    pend,       \* client: sendableSteps(): own edits not confirmed yet
    unconf,     \* client: unconfirmedDiffs, [rid, n] with n edits
    rids,       \* client: confirmStepsRequestCounter
    await,      \* client: awaitingDiffResponse
    timer,      \* client: sendNextDiffTimer is running
    older,      \* client: an earlier timer is running that nobody can clear
    checking,   \* client: currentlyCheckingVersion
    waiting,    \* client: waitingForDocument
    resub,      \* client: resubScribed
    fetch,      \* client: the refetch under way, or NoFetch
    typed, drops, early,  \* counters for the bounds
    late,       \* history: the client went on while its refetch was under way
    strayed,    \* history: the clients that used the answer to such a refetch
    unheard     \* history: a connection was lost with the news of acceptance

serverVars == <<log, saved, joined, said>>
wires == <<link, count, up, down, seen>>
copyVars == <<ver, text, pend, unconf, rids>>
flags == <<await, timer, older, checking, waiting, resub, fetch>>
counters == <<typed, drops, early>>
history == <<late, strayed, unheard>>
vars == <<serverVars, wires, copyVars, flags, counters, history>>

NoFetch == [from |-> 0, row |-> -1, open |-> FALSE]

TextAt(v) == FlattenSeq([i \in 1 .. v |-> log[i].edits])

\* Nothing is under way between c and the server.
Silent(c) == up[c] = <<>> /\ down[c] = <<>> /\ ~fetch[c].open

\* c receives, sends or connects.  If a refetch is under way, its answer will
\* be about a state that c is no longer in: the handlers of messages are not
\* serialized (the promise of postJson() is not waited for).
GoesOn(c) ==
    /\ late' = [late EXCEPT ![c] = fetch[c].open]
    /\ UNCHANGED <<strayed, unheard>>

-----------------------------------------------------------------------------
(* What the client does with its flags.                                    *)

\* enableDiffSending() clears the last timer only.
EnableSending(c) ==
    /\ await' = [await EXCEPT ![c] = FALSE]
    /\ timer' = [timer EXCEPT ![c] = FALSE]
    /\ UNCHANGED older

\* Fault: no timer is started.
DisableForGood(c) ==
    /\ await' = [await EXCEPT ![c] = TRUE]
    /\ UNCHANGED <<timer, older>>

\* disableDiffSending() starts a timer without clearing the one before.
DisableSending(c) ==
    /\ await' = [await EXCEPT ![c] = TRUE]
    /\ timer' = [timer EXCEPT ![c] = TRUE]
    /\ older' = [older EXCEPT ![c] = @ \/ timer[c]]

KeepSending == UNCHANGED <<await, timer, older>>

\* c sends m, marked with what it has seen of the server.
Upload(c, m) == up' = [up EXCEPT ![c] = Append(@, [m EXCEPT !.seen = seen'[c]])]

DiffMsg(c, r, es) == [type |-> "diff", v |-> ver[c], rid |-> r, edits |-> es, seen |-> 0]
CheckMsg(c, off) == [type |-> "check_version", v |-> ver[c], offline |-> off, seen |-> 0]
Subscribe(c) == [type |-> "subscribe", v |-> ver[c], again |-> count[c] > 0, seen |-> 0]

\* checkVersion()
CheckVersion(c, offline) ==
    IF checking[c]
    THEN KeepSending /\ UNCHANGED <<checking, up>>
    ELSE /\ DisableSending(c)
         /\ checking' = [checking EXCEPT ![c] = TRUE]
         /\ Upload(c, CheckMsg(c, offline))

-----------------------------------------------------------------------------
(* Typing, sending and timers.                                             *)

\* Fault: the document can be edited before its version is confirmed.
MayTypeAlways(c) == TRUE

\* Until the document is there the editor is covered (activateWait(true)).
MayType(c) == ~waiting[c]

Type(c) ==
    /\ MayType(c)
    /\ typed < MaxEdits
    /\ typed' = typed + 1
    /\ pend' = [pend EXCEPT ![c] = Append(@, typed + 1)]
    /\ UNCHANGED <<serverVars, wires, ver, text, unconf, rids, flags, drops, early,
                   history>>

\* Fault: the answer to the diff before is not awaited.
MaySendAlways(c) == link[c] = "on" /\ ~waiting[c]

MaySend(c) == link[c] = "on" /\ ~await[c] /\ ~waiting[c]

\* sendToCollaborators(): called at every change and whenever `await` ends.
Send(c) ==
    /\ MaySend(c)
    /\ pend[c] # <<>>
    /\ rids[c] < MaxSends
    /\ DisableSending(c)
    /\ rids' = [rids EXCEPT ![c] = @ + 1]
    /\ unconf' = [unconf EXCEPT ![c] = @ \cup {[rid |-> rids[c], n |-> Len(pend[c])]}]
    /\ seen' = seen
    /\ Upload(c, DiffMsg(c, rids[c], pend[c]))
    /\ GoesOn(c)
    /\ UNCHANGED <<serverVars, link, count, down, ver, text, pend,
                   checking, waiting, resub, fetch, counters>>

\* The timer of disableDiffSending(): 8 seconds, so short of MaxEarly times
\* everything under way has arrived before.
SendTimeout(c) ==
    /\ timer[c] \/ older[c]
    /\ Silent(c) \/ early < MaxEarly
    /\ early' = IF Silent(c) THEN early ELSE early + 1
    /\ await' = [await EXCEPT ![c] = FALSE]
    /\ IF older[c] THEN older' = [older EXCEPT ![c] = FALSE] /\ UNCHANGED timer
                   ELSE timer' = [timer EXCEPT ![c] = FALSE] /\ UNCHANGED older
    /\ UNCHANGED <<serverVars, wires, copyVars, checking, waiting, resub, fetch,
                   typed, drops, history>>

\* One second after check_version was sent.
CheckTimeout(c) ==
    /\ checking[c]
    /\ checking' = [checking EXCEPT ![c] = FALSE]
    /\ UNCHANGED <<serverVars, wires, copyVars, await, timer, older, waiting,
                   resub, fetch, counters, history>>

-----------------------------------------------------------------------------
(* The server.                                                             *)

\* Fault: one diff less than is missing.
MissingLess(v) == [i \in 1 .. Len(log) - v - 1 |-> v + 1 + i]

\* The versions that a client at version v has not got.
Missing(v) == [i \in 1 .. Len(log) - v |-> v + i]

DiffsAfter(v) ==
    [i \in DOMAIN Missing(v) |->
        LET n == Missing(v)[i]
        IN  [type |-> "diff", v |-> n - 1, cid |-> log[n].cid, rid |-> log[n].rid,
             edits |-> log[n].edits]]

Plain(type) == [type |-> type]
ConfirmVersion == [type |-> "confirm_version", v |-> Len(log)]
Refetch == <<Plain("refetch_doc")>>

\* Fault: the length of the history is not looked at.
CanCatchUpAlways(v) == v < Len(log)

\* Does doc.diffs hold what a client at version v is missing?
CanCatchUp(v) == v < Len(log) /\ v + Min({Len(log), History}) >= Len(log)

\* check_version() answers with `out`; unfixable() saves the document.
VersionAnswer(v, offline) ==
    IF v = Len(log) THEN <<ConfirmVersion>>
    ELSE IF CanCatchUp(v) /\ ~offline THEN Append(DiffsAfter(v), ConfirmVersion)
    ELSE Refetch

\* The server says out[d] to every client d; a refetch_doc is preceded by a save.
Say(out) ==
    /\ down' = [d \in Client |-> down[d] \o out[d]]
    /\ said' = [d \in Client |-> said[d] + Len(out[d])]
    /\ saved' = IF \E d \in Client : Plain("refetch_doc") \in Range(out[d])
                THEN Len(log) ELSE saved

OnlyTo(c, ms) == [d \in Client |-> IF d = c THEN ms ELSE <<>>]

\* subscribe(): a first subscription has its version reconciled at once, a
\* later one only after the client has asked for it.
ServerSubscribe(c, m) ==
    /\ m.type = "subscribe"
    /\ joined' = joined \cup {c}
    /\ Say(OnlyTo(c, <<Plain("subscribed")>>
                     \o (IF m.again THEN <<>> ELSE VersionAnswer(m.v, FALSE))
                     \o (IF c \in Communicates THEN <<Plain("connections")>> ELSE <<>>)))
    /\ UNCHANGED log

ServerCheckVersion(c, m) ==
    /\ m.type = "check_version"
    /\ Say(OnlyTo(c, VersionAnswer(m.v, m.offline)))
    /\ UNCHANGED <<log, joined>>

\* Fault: diffs are taken whatever their version.
UpToDateAlways(v) == TRUE

UpToDate(v) == v = Len(log)

\* handle_diff(), pv == dv: the diff is accepted, confirmed and passed on.
ServerAccept(c, m) ==
    /\ m.type = "diff"
    /\ UpToDate(m.v)
    /\ log' = Append(log, [cid |-> c, rid |-> m.rid, edits |-> m.edits])
    /\ Say([d \in Client |->
              IF d = c THEN <<[type |-> "confirm_diff", rid |-> m.rid]>>
              ELSE IF d \in joined
              THEN <<[type |-> "diff", v |-> Len(log), cid |-> c, rid |-> m.rid,
                      edits |-> m.edits]>>
              ELSE <<>>])
    /\ UNCHANGED joined

\* handle_diff(), pv # dv: the sender is told what it is missing; this diff is
\* neither confirmed nor rejected.
ServerOutdated(c, m) ==
    /\ m.type = "diff"
    /\ ~UpToDate(m.v)
    /\ Say(OnlyTo(c, IF CanCatchUp(m.v) THEN DiffsAfter(m.v) ELSE Refetch))
    /\ UNCHANGED <<log, joined>>

\* Fault: a message that crosses another one is handled.
CrossesNever(c, m) == FALSE

\* m was sent before the client had everything the server has said.
Crosses(c, m) == m.seen < said[c]

\* A crossing message: reject_message() answers a diff only.
ServerCross(c, m) ==
    /\ Say(OnlyTo(c, IF m.type = "diff"
                     THEN <<[type |-> "reject_diff", rid |-> m.rid]>> ELSE <<>>))
    /\ UNCHANGED <<log, joined>>

ServerReceive(c) ==
    /\ up[c] # <<>>
    /\ up' = [up EXCEPT ![c] = Tail(@)]
    /\ LET m == Head(up[c])
       IN  IF Crosses(c, m)
           THEN ServerCross(c, m)
           ELSE \/ ServerSubscribe(c, m)
                \/ ServerCheckVersion(c, m)
                \/ ServerAccept(c, m)
                \/ ServerOutdated(c, m)
    /\ UNCHANGED <<link, count, seen, copyVars, flags, counters, history>>

-----------------------------------------------------------------------------
(* The client receives.  Each action is one case of receiveData().         *)

\* _processDiff(): steps under the client's own id count as confirmed, others
\* are put before the pending ones.
Applied(c, st, d) ==
    LET n == Min({Len(d.edits), Len(st.pend)})
    IN  IF d.cid = c
        THEN [ver |-> st.ver + 1, text |-> st.text \o SubSeq(st.pend, 1, n),
              pend |-> SubSeq(st.pend, n + 1, Len(st.pend))]
        ELSE [ver |-> st.ver + 1, text |-> st.text \o d.edits, pend |-> st.pend]

Copy(c) == [ver |-> ver[c], text |-> text[c], pend |-> pend[c]]

SetCopy(c, st) ==
    /\ ver' = [ver EXCEPT ![c] = st.ver]
    /\ text' = [text EXCEPT ![c] = st.text]
    /\ pend' = [pend EXCEPT ![c] = st.pend]

\* Fault: what was typed since the diff was sent counts as confirmed, too.
ConfirmedAll(c, u) == Len(pend[c])

\* Fault: what was confirmed stays pending.
ConfirmedNone(c, u) == 0

\* The number of pending edits that u stands for.
Confirmed(c, u) == Min({u.n, Len(pend[c])})

\* confirmDiff(): the diff rid of c has been accepted.
ConfirmDiff(c, rid) ==
    LET mine == {u \in unconf[c] : u.rid = rid}
    IN  IF mine = {}
        THEN KeepSending /\ UNCHANGED copyVars
        ELSE LET u == CHOOSE u \in mine : TRUE
                 n == Confirmed(c, u)
             IN  /\ EnableSending(c)
                 /\ unconf' = [unconf EXCEPT ![c] = @ \ {u}]
                 /\ SetCopy(c, [ver |-> ver[c] + 1,
                                text |-> text[c] \o SubSeq(pend[c], 1, n),
                                pend |-> SubSeq(pend[c], n + 1, Len(pend[c]))])
                 /\ UNCHANGED rids

\* resubScribed() waits "till the version is confirmed", without a timer.
ReceiveSubscribed(c, m) ==
    /\ m.type = "subscribed"
    /\ IF count[c] > 1
       THEN /\ resub' = [resub EXCEPT ![c] = TRUE]
            /\ await' = [await EXCEPT ![c] = TRUE]
       ELSE UNCHANGED <<resub, await>>
    /\ UNCHANGED <<timer, older, up, copyVars, checking, waiting, fetch>>

ReceiveConnections(c, m) ==
    /\ m.type = "connections"
    /\ IF resub[c]
       THEN CheckVersion(c, pend[c] # <<>>)
       ELSE KeepSending /\ UNCHANGED <<checking, up>>
    /\ resub' = [resub EXCEPT ![c] = FALSE]
    /\ UNCHANGED <<copyVars, waiting, fetch>>

ReceiveConfirmVersion(c, m) ==
    /\ m.type = "confirm_version"
    /\ IF m.v # ver[c]
       THEN \* checkVersion() right after the guard was taken back
            /\ DisableSending(c)
            /\ checking' = [checking EXCEPT ![c] = TRUE]
            /\ Upload(c, CheckMsg(c, FALSE))
            /\ UNCHANGED waiting
       ELSE /\ EnableSending(c)
            /\ checking' = [checking EXCEPT ![c] = FALSE]
            /\ waiting' = [waiting EXCEPT ![c] = FALSE]
            /\ UNCHANGED up
    /\ UNCHANGED <<copyVars, resub, fetch>>

ReceiveConfirmDiff(c, m) ==
    /\ m.type = "confirm_diff"
    /\ ConfirmDiff(c, m.rid)
    /\ UNCHANGED <<up, checking, waiting, resub, fetch>>

ReceiveRejectDiff(c, m) ==
    /\ m.type = "reject_diff"
    /\ unconf' = [unconf EXCEPT ![c] = {u \in @ : u.rid # m.rid}]
    /\ EnableSending(c)
    /\ UNCHANGED <<up, ver, text, pend, rids, checking, waiting, resub, fetch>>

\* Fault: the version of a received diff is not compared.
FitsAlways(c, m) == TRUE

Fits(c, m) == m.v = ver[c]

\* An own diff that is resent confirms it; one of another version leads to
\* checkVersion().
ReceiveDiff(c, m) ==
    /\ m.type = "diff"
    /\ IF m.cid = c
       THEN ConfirmDiff(c, m.rid) /\ UNCHANGED <<up, checking>>
       ELSE IF ~Fits(c, m)
       THEN CheckVersion(c, FALSE) /\ UNCHANGED copyVars
       ELSE /\ SetCopy(c, Applied(c, Copy(c), m))
            /\ KeepSending
            /\ UNCHANGED <<up, checking, unconf, rids>>
    /\ UNCHANGED <<waiting, resub, fetch>>

\* The client asks get_doc_data for the document.  Bound: the answer to an
\* earlier refetch comes before the next refetch_doc is read.
ReceiveRefetch(c, m) ==
    /\ m.type = "refetch_doc"
    /\ ~fetch[c].open
    /\ fetch' = [fetch EXCEPT ![c] = [from |-> ver[c], row |-> -1, open |-> TRUE]]
    /\ KeepSending
    /\ UNCHANGED <<up, copyVars, checking, waiting, resub>>

ClientReceive(c) ==
    /\ down[c] # <<>>
    /\ down' = [down EXCEPT ![c] = Tail(@)]
    /\ seen' = [seen EXCEPT ![c] = @ + 1]
    /\ LET m == Head(down[c])
       IN  \/ ReceiveSubscribed(c, m)
           \/ ReceiveConnections(c, m)
           \/ ReceiveConfirmVersion(c, m)
           \/ ReceiveConfirmDiff(c, m)
           \/ ReceiveRejectDiff(c, m)
           \/ ReceiveDiff(c, m)
           \/ ReceiveRefetch(c, m)
    /\ GoesOn(c)
    /\ UNCHANGED <<serverVars, link, count, counters>>

-----------------------------------------------------------------------------
(* The refetch.                                                            *)

\* get_doc_data() reads the row.
FetchServe(c) ==
    /\ fetch[c].open
    /\ fetch[c].row = -1
    /\ fetch' = [fetch EXCEPT ![c].row = saved]
    /\ UNCHANGED <<serverVars, wires, copyVars, await, timer, older, checking,
                   waiting, resub, counters, history>>

\* Did the diffs from the version asked with up to the row come with it ("m")?
Covering(f) == f.row > f.from /\ f.from + Min({f.row, History}) >= f.row

\* autoMerge(): the row replaces the document, and what was typed here is put
\* on top of it again.
Merged(c, f) == [ver |-> f.row, text |-> TextAt(f.row), pend |-> pend[c]]

\* The diffs are received one after the other, whatever version c has by now.
Received(c, f) ==
    LET after[v \in f.from .. f.row] ==
            IF v = f.from THEN Copy(c) ELSE Applied(c, after[v - 1], log[v])
    IN  after[f.row]

\* _loadUnencryptedDocument(): the row and nothing else.
Loaded(f) == [ver |-> f.row, text |-> TextAt(f.row), pend |-> <<>>]

\* adjustDocument() with local changes.
FetchMerge(c, f) ==
    /\ ver[c] < f.row
    /\ pend[c] # <<>>
    /\ SetCopy(c, Merged(c, f))
    /\ KeepSending
    /\ UNCHANGED <<unconf, rids, waiting>>

\* adjustDocument() without: the diffs that came along are received.
FetchDiffs(c, f) ==
    /\ ~(ver[c] < f.row /\ pend[c] # <<>>)
    /\ Covering(f)
    /\ SetCopy(c, Received(c, f))
    /\ EnableSending(c)
    /\ UNCHANGED <<unconf, rids, waiting>>

\* "The server seems to have lost some data. We reset."
FetchReset(c, f) ==
    /\ ~(ver[c] < f.row /\ pend[c] # <<>>)
    /\ ~Covering(f)
    /\ SetCopy(c, Loaded(f))
    /\ unconf' = [unconf EXCEPT ![c] = {}]
    /\ IF await[c] THEN EnableSending(c) ELSE KeepSending
    /\ waiting' = [waiting EXCEPT ![c] = FALSE]
    /\ UNCHANGED rids

FetchReceive(c) ==
    /\ fetch[c].open
    /\ fetch[c].row # -1
    /\ LET f == fetch[c]
       IN FetchMerge(c, f) \/ FetchDiffs(c, f) \/ FetchReset(c, f)
    /\ fetch' = [fetch EXCEPT ![c] = NoFetch]
    /\ checking' = [checking EXCEPT ![c] = FALSE]
    /\ strayed' = IF late[c] THEN strayed \cup {c} ELSE strayed
    /\ late' = [late EXCEPT ![c] = FALSE]
    /\ UNCHANGED <<serverVars, wires, resub, counters, unheard>>

-----------------------------------------------------------------------------
(* Connecting.                                                             *)

\* welcome: open() subscribes with the version the client has.  It takes two
\* seconds to connect again, longer than the timer of check_version.
Connect(c) ==
    /\ link[c] = "off"
    /\ ~checking[c]
    /\ link' = [link EXCEPT ![c] = "on"]
    /\ count' = [count EXCEPT ![c] = Min({2, @ + 1})]
    /\ seen' = [seen EXCEPT ![c] = 0]
    /\ said' = [said EXCEPT ![c] = 0]
    /\ up' = [up EXCEPT ![c] = <<Subscribe(c)>>]
    /\ GoesOn(c)
    /\ UNCHANGED <<log, saved, joined, down, copyVars, flags, counters>>

\* The diff after the version of c is its own: it was accepted, and c has not
\* heard of that.
OwnNext(c) == ver[c] < Len(log) /\ log[ver[c] + 1].cid = c

\* The connection is lost, with what was under way.
Drop(c) ==
    /\ link[c] = "on"
    /\ drops < MaxDrops
    /\ drops' = drops + 1
    /\ link' = [link EXCEPT ![c] = "off"]
    /\ up' = [up EXCEPT ![c] = <<>>]
    /\ down' = [down EXCEPT ![c] = <<>>]
    /\ joined' = joined \ {c}
    /\ unheard' = (unheard \/ OwnNext(c))
    /\ UNCHANGED <<log, saved, said, count, seen, copyVars, flags, typed, early,
                   late, strayed>>

Init ==
    /\ log = <<>> /\ saved = 0 /\ joined = {}
    /\ said = [c \in Client |-> 0]
    /\ link = [c \in Client |-> "off"]
    /\ count = [c \in Client |-> 0]
    /\ up = [c \in Client |-> <<>>] /\ down = [c \in Client |-> <<>>]
    /\ seen = [c \in Client |-> 0]
    /\ ver = [c \in Client |-> 0] /\ text = [c \in Client |-> <<>>]
    /\ pend = [c \in Client |-> <<>>] /\ unconf = [c \in Client |-> {}]
    /\ rids = [c \in Client |-> 0]
    /\ await = [c \in Client |-> FALSE] /\ timer = [c \in Client |-> FALSE]
    /\ older = [c \in Client |-> FALSE] /\ checking = [c \in Client |-> FALSE]
    /\ waiting = [c \in Client |-> TRUE] /\ resub = [c \in Client |-> FALSE]
    /\ fetch = [c \in Client |-> NoFetch]
    /\ typed = 0 /\ drops = 0 /\ early = 0
    /\ late = [c \in Client |-> FALSE] /\ strayed = {} /\ unheard = FALSE

Next ==
    \E c \in Client :
        \/ Type(c) \/ Send(c) \/ SendTimeout(c) \/ CheckTimeout(c)
        \/ ServerReceive(c) \/ ClientReceive(c)
        \/ FetchServe(c) \/ FetchReceive(c)
        \/ Connect(c) \/ Drop(c)

\* Browsers and server run, timers run out, a lost connection is tried again
\* every two seconds.
Fairness ==
    \A c \in Client :
        /\ WF_vars(Send(c)) /\ WF_vars(SendTimeout(c)) /\ WF_vars(CheckTimeout(c))
        /\ WF_vars(ServerReceive(c)) /\ WF_vars(ClientReceive(c))
        /\ WF_vars(FetchServe(c)) /\ WF_vars(FetchReceive(c))
        /\ WF_vars(Connect(c))

Spec == Init /\ [][Next]_vars /\ Fairness

-----------------------------------------------------------------------------
(* Properties.                                                             *)

\* Types; a document being waited for is never edited, and no client has more
\* edits pending than were typed.
TypeOK ==
    /\ log \in Seq(Diff)
    /\ saved \in 0 .. Len(log)
    /\ joined \in SUBSET Client
    /\ link \in [Client -> {"on", "off"}]
    /\ count \in [Client -> 0 .. 2]
    /\ <<said, seen, ver, rids>> \in [1 .. 4 -> [Client -> Nat]]
    /\ <<text, pend>> \in [1 .. 2 -> [Client -> Seq(Edit)]]
    /\ unconf \in [Client -> SUBSET [rid: Nat, n: Nat \ {0}]]
    /\ <<await, timer, older, checking, waiting, resub>> \in [1 .. 6 -> [Client -> BOOLEAN]]
    /\ fetch \in [Client -> [from: Nat, row: Nat \cup {-1}, open: BOOLEAN]]
    /\ late \in [Client -> BOOLEAN] /\ strayed \in SUBSET Client /\ unheard \in BOOLEAN
    /\ \A c \in Client : /\ seen[c] + Len(down[c]) <= said[c]
                         /\ Len(pend[c]) <= typed
                         /\ waiting[c] => pend[c] = <<>>

\* Every copy is, at its version, the text of the server at that version, for
\* any order in which diffs, confirmations, rejections and resent diffs arrive,
\* and for refetched documents that arrive before their browser went on.  A
\* browser that receives or sends while get_doc_data() is under way and then
\* uses the answer has strayed: the diffs that came along can be applied a second
\* time, or the copy go back.  Nothing is said of its copy any more, and the
\* copies of the others stay right, whatever it sends.
Converged ==
    \A c \in Client \ strayed : /\ ver[c] <= Len(log)
                                /\ text[c] = TextAt(ver[c])

\* No edit gets into the document twice, although diffs are sent again after
\* rejections, timeouts and lost connections (as long as no browser strayed).
OnceOnly ==
    LET whole == TextAt(Len(log))
    IN  strayed = {} => \A i, j \in 1 .. Len(whole) : whole[i] = whole[j] => i = j

\* An edit gets in twice only if a connection was lost between the acceptance of
\* a diff and the arrival of that news at its sender; no rejection, late answer,
\* early timer, resent diff, refetch or other lost connection does it.
OnceUnlessUnheard == unheard \/ OnceOnly

\* What was typed is on the server or still waits to be sent, until a browser
\* strayed (going back to an older row, it forgets what was typed).
NothingDropped ==
    \A e \in 1 .. typed :
        \/ e \in Range(TextAt(Len(log)))
        \/ \E c \in Client : e \in Range(pend[c])
        \/ strayed # {}

\* What was typed gets to the server at last, however many messages cross,
\* although the connection is lost in between and a browser may use a stale
\* answer to its refetch.  (With MaxEarly = 0: if a timer runs out early as well,
\* a browser that strayed may forget what was typed, see NothingDropped.)
Arrives == \A e \in Edit : (typed >= e) ~> (e \in Range(TextAt(Len(log))))

\* Seen from outside there is one growing text, of which every browser shows
\* a beginning: no confirmed text is ever taken back or changed, except in a
\* browser that strayed, and that changes nothing for the others.
Shared == INSTANCE SharedText WITH
              Reader <- Client,
              shared <- TextAt(Len(log)),
              following <- Client \ strayed,
              read <- [c \in Client \ strayed |-> text[c]]

RefinesShared == Shared!SharedSpec
=============================================================================
