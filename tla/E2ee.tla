-------------------------------- MODULE E2ee --------------------------------
(***************************************************************************)
(* Documents that are encrypted in the browser: diffs the server cannot    *)
(* read, snapshots it asks a browser for, the change of password, loading  *)
(* the stored document again (document/consumers.py, editor/collab/doc.js, *)
(* editor/e2ee/snapshot-manager.js, menus/headerbar/model.js).             *)
(*                                                                         *)
(* What the browsers do takes awaits in which messages are handled.        *)
(* `Awaits` names those in which the model lets anything happen; while a   *)
(* browser is in another one, nothing starts in it.  Races that the code   *)
(* does not exclude are let happen; history variables record them.         *)
(***************************************************************************)
EXTENDS Naturals, FiniteSets, Sequences

CONSTANTS
    Client,     \* browsers with the document open; all may write
    Owner,      \* the one that may change the password
    First,      \* the first of session["participants"]
    Typists,    \* those who type
    Awaits,     \* subset of Await
    Every,      \* DOC_SAVE_INTERVAL
    History,    \* diffs the server keeps
    MaxEdits,   \* bound: edits
    MaxEvents   \* bound: passwords changed, changes given up too early, and
                \* connections lost

Await == {"sending", "receiving", "snapshot", "rekey", "rekeying", "load"}

ASSUME ClientAssumption == {Owner, First} \cup Typists \subseteq Client
ASSUME AwaitsAssumption == Awaits \subseteq Await
ASSUME NumberAssumption == /\ {Every, History} \subseteq Nat \ {0}
                           /\ {MaxEdits, MaxEvents} \subseteq Nat

\* An edit is a number, a text a set of edits.  An epoch is a salt and the key
\* derived with it; a ciphertext is marked with the epoch of its key.
Edit == 1 .. MaxEdits
Epoch == 0 .. MaxEvents

VARIABLES
    log,        \* server: the accepted diffs; doc.version is their number
    kept,       \* server: how many of them are in doc.diffs
    doc,        \* server: the epoch, the content with its key, its version
    rekeying,   \* server: the change of password being written, or NoRekey
    up, down,   \* the messages under way
    ver, text,  \* client: docInfo.version and the confirmed text
    pend,       \* client: own edits not confirmed yet
    unconf,     \* client: unconfirmedDiffs; `again` tells the diff that a load
                \* has sent once more from the one before it
    await, checking, \* client: awaitingDiffResponse, currentlyCheckingVersion
    key, salt,  \* client: e2ee.key, e2ee.encryptionSalt
    skey,       \* client: snapshotManager.key
    sending, snap, change, dec, \* client: what is being encrypted and decrypted
    asked,      \* client: pendingRekey, 0 for none
    fetch,      \* client: the refetch under way
    load,       \* client: the document being loaded
    gap,        \* history: what the loaded content lacked of its version
    tally,      \* history: what a browser counts its version from, the beginning or
                \* the content it has loaded; "off" once it has counted a diff of
                \* the content replaced or one out of its turn
    mixed,      \* history: a browser has had two epochs at once
    overtaken,  \* history: diffs were accepted while the last change of password
                \* was written, and there has been no snapshot since
    typed, events \* counters for the bounds

serverVars == <<log, kept, doc, rekeying>>
wires == <<up, down>>
copyVars == <<ver, text, pend, unconf>>
flags == <<await, checking>>
keyVars == <<key, salt, skey, asked>>
jobs == <<sending, snap, change, dec>>
refetch == <<fetch, load>>
history == <<gap, tally, mixed, overtaken>>
counters == <<typed, events>>
vars == <<serverVars, wires, copyVars, flags, keyVars, jobs, refetch, history, counters>>

None == <<>>
NoFetch == [open |-> FALSE, row |-> None]
Version == Len(log)
TextAt(v) == UNION {log[i].edits : i \in {j \in DOMAIN log : j <= v}}

\* What client c is in the middle of.
Jobs(c) ==
    {a \in Await : \/ a = "sending" /\ sending[c] # <<>>
                   \/ a = "snapshot" /\ snap[c] # None
                   \/ a = "rekey" /\ change[c] # None
                   \/ a = "receiving" /\ dec[c] # <<>>
                   \/ a = "load" /\ load[c] # None}

Runs(c) == Jobs(c) \subseteq Awaits

\* Nothing is under way between c and the server.
Silent(c) ==
    /\ up[c] = <<>> /\ down[c] = <<>> /\ ~fetch[c].open
    /\ Jobs(c) = {} /\ rekeying = None

\* loadDocument() has put a new docInfo in place; the old text is still shown.
Loading(c) == load[c] # None /\ load[c].stage # "shown"

\* docInfo.confirmedDoc is defined.
Based(c) == load[c] # None => load[c].base

\* An encryption under way changes hands: the salt that goes with it is not
\* that of its key.
Crossing(c, epoch) == salt[c] # epoch /\ (sending[c] # <<>> \/ snap[c] # None)

Set(f, c, x) == [f EXCEPT ![c] = x]

\* Fault: a message that crosses another one is not noticed.
UploadOnTime(c, m, unseen) == up' = [up EXCEPT ![c] = Append(@, m)]

\* c sends m.  It crosses what the server has said and c has yet to receive.
Upload(c, m, unseen) ==
    up' = [up EXCEPT ![c] = Append(@, [m EXCEPT !.late = unseen # <<>>])]

-----------------------------------------------------------------------------
(* The browser: typing, sending, timers.                                   *)

Type(c) ==
    /\ c \in Typists
    /\ Runs(c)
    /\ typed < MaxEdits
    /\ typed' = typed + 1
    /\ pend' = [pend EXCEPT ![c] = @ \cup {typed + 1}]
    /\ UNCHANGED <<serverVars, wires, ver, text, unconf, flags, keyVars, jobs,
                   refetch, history, events>>

Diff(c, again) == [v |-> ver[c], edits |-> pend[c], again |-> again, key |-> key[c]]
Rid(d) == [edits |-> d.edits, again |-> d.again]

\* _sendE2EEDiff() up to the encryption ...
StartSend(c) ==
    /\ Runs(c)
    /\ ~await[c]
    /\ pend[c] # {}
    /\ Based(c)
    /\ await' = Set(await, c, TRUE)
    /\ unconf' = [unconf EXCEPT ![c] = @ \cup {Rid(Diff(c, FALSE))}]
    /\ sending' = [sending EXCEPT ![c] = Append(@, Diff(c, FALSE))]
    /\ UNCHANGED <<serverVars, wires, ver, text, pend, checking, keyVars,
                   snap, change, dec, refetch, history, counters>>

\* ... or up to the error it raises while docInfo.confirmedDoc is undefined ...
SendRaises(c) ==
    /\ Runs(c)
    /\ ~await[c]
    /\ pend[c] # {}
    /\ ~Based(c)
    /\ await' = Set(await, c, TRUE)
    /\ UNCHANGED <<serverVars, wires, copyVars, checking, keyVars, jobs, refetch, history,
                   counters>>

\* ... and after the encryption: the salt is the one of now.
FinishSend(c) ==
    /\ sending[c] # <<>>
    /\ LET s == Head(sending[c])
       IN  Upload(c, [type |-> "diff", v |-> s.v, edits |-> s.edits, again |-> s.again,
                      key |-> s.key, salt |-> salt[c], late |-> FALSE], down[c])
    /\ sending' = Set(sending, c, Tail(sending[c]))
    /\ UNCHANGED <<serverVars, down, copyVars, flags, keyVars,
                   snap, change, dec, refetch, history, counters>>

\* The timers of disableDiffSending() and checkVersion() run out.
Timeout(c) ==
    /\ Silent(c)
    /\ await[c] \/ checking[c]
    /\ await' = Set(await, c, FALSE)
    /\ checking' = Set(checking, c, FALSE)
    /\ UNCHANGED <<serverVars, wires, copyVars, keyVars, jobs, refetch, history, counters>>

\* checkVersion(), once the guard has been passed.
AskVersion(c, offline) ==
    /\ await' = Set(await, c, TRUE)
    /\ checking' = Set(checking, c, TRUE)
    /\ Upload(c, [type |-> "check", v |-> ver[c], offline |-> offline, late |-> FALSE],
              down'[c])

CheckVersion(c) == IF checking[c] THEN UNCHANGED <<flags, up>> ELSE AskVersion(c, FALSE)

\* The connection is lost and made again: resubScribed() and the version check
\* that follows, which is an offline one if there are pending edits.
Reconnect(c) ==
    /\ Runs(c)
    /\ events < MaxEvents
    /\ events' = events + 1
    /\ down' = Set(down, c, <<>>)
    /\ up' = Set(up, c, <<[type |-> "check", v |-> ver[c], offline |-> pend[c] # {},
                           late |-> FALSE]>>)
    /\ await' = Set(await, c, TRUE)
    /\ checking' = Set(checking, c, TRUE)
    /\ UNCHANGED <<serverVars, copyVars, keyVars, jobs, refetch, history,
                   typed>>

-----------------------------------------------------------------------------
(* The change of password.                                                 *)

PendingSave(c) == snap[c] # None \/ change[c] # None

\* The version of the docInfo that a job has taken hold of: the current one,
\* or one that a load has put aside.
InfoVersion(c, job) == IF job.info = None THEN ver[c] ELSE job.info[1]

\* reEncryptWithNewKey() up to the encryption.  While a snapshot is made it
\* returns without having done anything, and model.js takes this for success.
StartRekey(c) ==
    /\ c = Owner
    /\ Runs(c)
    /\ events < MaxEvents
    /\ asked[c] = 0
    /\ events' = events + 1
    /\ IF PendingSave(c)
       THEN /\ key' = Set(key, c, events + 1)
            /\ salt' = Set(salt, c, events + 1)
            /\ mixed' = TRUE
            /\ UNCHANGED change
       ELSE /\ change' = Set(change, c, [epoch |-> events + 1,
                                         text |-> text[c] \cup pend[c], info |-> None])
            /\ UNCHANGED <<key, salt, mixed>>
    /\ UNCHANGED <<serverVars, wires, copyVars, flags, skey, asked,
                   sending, snap, dec, refetch, gap, tally, overtaken, typed>>

FinishRekey(c) ==
    /\ change[c] # None
    /\ Upload(c, [type |-> "rekey", v |-> InfoVersion(c, change[c]), text |-> change[c].text,
                  epoch |-> change[c].epoch, late |-> FALSE], down[c])
    /\ asked' = Set(asked, c, change[c].epoch)
    /\ change' = Set(change, c, None)
    /\ UNCHANGED <<serverVars, down, copyVars, flags, key, salt, skey,
                   sending, snap, dec, refetch, history, counters>>

\* After 30 seconds the change is given up.
RekeyTimeout(c) ==
    /\ asked[c] # 0
    /\ Silent(c) \/ events < MaxEvents
    /\ events' = IF Silent(c) THEN events ELSE events + 1
    /\ asked' = Set(asked, c, 0)
    /\ UNCHANGED <<serverVars, wires, copyVars, flags, key, salt, skey, jobs,
                   refetch, history, typed>>

-----------------------------------------------------------------------------
(* The server.                                                             *)

Only(c, ms) == [d \in Client |-> IF d = c THEN ms ELSE <<>>]
Others(c, ms) == [d \in Client |-> IF d = c THEN <<>> ELSE ms]
Plain(type) == [type |-> type]

\* What the server says makes what is on its way to it late.  `rest` are the
\* messages it has not received yet.
Say(rest, out) ==
    /\ down' = [d \in Client |-> down[d] \o out[d]]
    /\ up' = [d \in Client |-> IF out[d] = <<>> THEN rest[d]
                               ELSE [i \in DOMAIN rest[d] |-> [rest[d][i] EXCEPT !.late = TRUE]]]

\* The messages that are left when the first one of c has been taken.
Rest(c) == [up EXCEPT ![c] = Tail(@)]

DiffMsg(n, l) == [type |-> "diff", v |-> n - 1, cid |-> l.cid, edits |-> l.edits,
                  again |-> l.again, key |-> l.key]
Answer(type, m) == [type |-> type, edits |-> m.edits, again |-> m.again]

\* Fault: the number of diffs that are still stored is not looked at.
CanCatchUpAlways(v) == v < Version

CanCatchUp(v) == v < Version /\ v + kept >= Version
DiffsAfter(v) == [i \in 1 .. Version - v |-> DiffMsg(v + i, log[v + i])]
Confirm == [type |-> "confirm_version", v |-> Version]
Refetch == <<Plain("refetch_doc")>>

\* check_version()
ServerCheck(c, m) ==
    /\ m.type = "check"
    /\ Say(Rest(c), Only(c, IF m.v = Version THEN <<Confirm>>
                   ELSE IF CanCatchUp(m.v) /\ ~m.offline THEN Append(DiffsAfter(m.v), Confirm)
                   ELSE Refetch))
    /\ UNCHANGED <<serverVars, overtaken>>

\* Fault: the salt of a message is not compared.
CurrentAlways(m) == TRUE

Current(m) == m.salt = doc.epoch

\* handle_diff(): the request for a snapshot goes out before the confirmation
\* and before the diff itself.
ServerAccept(c, m) ==
    /\ m.type = "diff"
    /\ m.v = Version
    /\ Current(m)
    /\ LET l == [cid |-> c, edits |-> m.edits, again |-> m.again, key |-> m.key]
           n == Version + 1
           request(d) == IF d = First /\ n % Every = 0
                         THEN <<Plain("request_snapshot")>> ELSE <<>>
       IN  /\ log' = Append(log, l)
           /\ kept' = IF kept < History THEN kept + 1 ELSE History
           /\ Say(Rest(c), [d \in Client |->
                     Append(request(d), IF d = c THEN Answer("confirm_diff", m)
                                        ELSE DiffMsg(n, l))])
    /\ UNCHANGED <<doc, rekeying, overtaken>>

ServerRefuse(c, m) ==
    /\ m.type = "diff"
    /\ m.v = Version
    /\ ~Current(m)
    /\ Say(Rest(c), Only(c, <<Answer("reject_diff", m)>>))
    /\ UNCHANGED <<serverVars, overtaken>>

ServerOutdated(c, m) ==
    /\ m.type = "diff"
    /\ m.v # Version
    /\ Say(Rest(c), Only(c, IF CanCatchUp(m.v) THEN DiffsAfter(m.v) ELSE Refetch))
    /\ UNCHANGED <<serverVars, overtaken>>

Exact(m) == m.v = Version

\* handle_e2ee_snapshot(); a refused one is not answered.
ServerSnapshot(c, m) ==
    /\ m.type = "snapshot"
    /\ IF Current(m) /\ Exact(m)
       THEN /\ doc' = [doc EXCEPT !.text = m.text, !.key = m.key, !.snapv = m.v]
            /\ overtaken' = FALSE
            /\ Say(Rest(c), Others(c, <<Plain("snapshot_received")>>))
       ELSE up' = Rest(c) /\ UNCHANGED <<doc, down, overtaken>>
    /\ UNCHANGED <<log, kept, rekeying>>

\* handle_e2ee_rekey() up to the await of _apply_rekey().
ServerRekey(c, m) ==
    /\ m.type = "rekey"
    /\ rekeying' = IF Exact(m) THEN [c |-> c, m |-> m] ELSE None
    /\ up' = Rest(c)
    /\ UNCHANGED <<log, kept, doc, down, overtaken>>

\* Fault: the version of the snapshot stays the old one.
RekeyedDocOld(m) == [epoch |-> m.epoch, key |-> m.epoch, text |-> m.text, snapv |-> doc.snapv]

RekeyedDoc(m) == [epoch |-> m.epoch, key |-> m.epoch, text |-> m.text, snapv |-> m.v]

\* _apply_rekey() and what follows.
ApplyRekey ==
    /\ rekeying # None
    /\ doc' = RekeyedDoc(rekeying.m)
    /\ kept' = 0
    /\ Say(up, [d \in Client |-> IF d = rekeying.c THEN <<Plain("rekey_done")>> ELSE Refetch])
    /\ rekeying' = None
    /\ overtaken' = ~Exact(rekeying.m)
    /\ UNCHANGED <<log, copyVars, flags, keyVars, jobs, refetch, gap, tally, mixed, counters>>

\* A holder has no new envelope, or no right: no answer.
RefuseRekey ==
    /\ rekeying # None
    /\ rekeying' = None
    /\ UNCHANGED <<log, kept, doc, wires, copyVars, flags, keyVars, jobs, refetch,
                   history, counters>>

ServerReceive(c) ==
    /\ up[c] # <<>>
    /\ rekeying # None => "rekeying" \in Awaits /\ rekeying.c # c
    /\ LET m == Head(up[c])
       IN  IF m.late
           THEN /\ Say(Rest(c), Only(c, IF m.type = "diff"
                               THEN <<Answer("reject_diff", m)>> ELSE <<>>))
                /\ UNCHANGED <<serverVars, overtaken>>
           ELSE \/ ServerCheck(c, m) \/ ServerAccept(c, m) \/ ServerRefuse(c, m)
                \/ ServerOutdated(c, m) \/ ServerSnapshot(c, m) \/ ServerRekey(c, m)
    /\ UNCHANGED <<copyVars, flags, keyVars, jobs, refetch, gap, tally, mixed, counters>>

-----------------------------------------------------------------------------
(* The browser receives.                                                   *)

\* docInfo.version goes up.  While another document is being loaded this is
\* the version of that one, but the content is still the old one.
Raise(c, applied, inTurn) ==
    /\ ver' = Set(ver, c, ver[c] + 1)
    /\ load' = IF Loading(c) /\ applied THEN [load EXCEPT ![c].base = TRUE] ELSE load
    /\ tally' = IF Loading(c) \/ ~inTurn THEN Set(tally, c, "off") ELSE tally

\* receiveTransaction() takes as many of the own pending steps for confirmed
\* as the diff had, whichever they are.
Confirmed(c, m) ==
    {e \in pend[c] : Cardinality({f \in pend[c] : f < e}) < Cardinality(m.edits)}

\* Fault: what was typed since the diff was sent counts as confirmed, too.
StillPendingNone(c, m) == {}

StillPending(c, m) == pend[c] \ Confirmed(c, m)

\* confirmDiff(): nothing happens for a diff that is not in unconfirmedDiffs.
ConfirmDiff(c, m) ==
    IF Rid(m) \notin unconf[c] THEN UNCHANGED <<copyVars, await, load, tally>>
    ELSE /\ Raise(c, TRUE, dec[c] = <<>>)
         /\ text' = Set(text, c, text[c] \cup Confirmed(c, m))
         /\ pend' = Set(pend, c, StillPending(c, m))
         /\ unconf' = Set(unconf, c, unconf[c] \ {Rid(m)})
         /\ await' = Set(await, c, FALSE)

ReceiveConfirmDiff(c, m) ==
    /\ m.type = "confirm_diff"
    /\ ConfirmDiff(c, m)
    /\ UNCHANGED <<up, checking, keyVars, jobs, fetch, mixed>>

ReceiveRejectDiff(c, m) ==
    /\ m.type = "reject_diff"
    /\ unconf' = Set(unconf, c, unconf[c] \ {Rid(m)})
    /\ await' = Set(await, c, FALSE)
    /\ UNCHANGED <<up, ver, text, pend, checking, keyVars, jobs, refetch, tally, mixed>>

\* An own diff that is resent is a confirmation; one that fits is decrypted.
ReceiveDiff(c, m) ==
    /\ m.type = "diff"
    /\ IF m.cid = c THEN ConfirmDiff(c, m) /\ UNCHANGED <<up, checking, dec>>
       ELSE /\ IF m.v # ver[c] THEN CheckVersion(c) /\ UNCHANGED dec
               ELSE /\ dec' = [dec EXCEPT ![c] =
                                 Append(@, [v |-> m.v, edits |-> m.edits, fits |-> m.key = key[c]])]
                    /\ UNCHANGED <<up, flags>>
            /\ UNCHANGED <<copyVars, load, tally>>
    /\ UNCHANGED <<keyVars, sending, snap, change, fetch, mixed>>

ReceiveConfirmVersion(c, m) ==
    /\ m.type = "confirm_version"
    /\ IF m.v # ver[c]
       THEN AskVersion(c, FALSE)
       ELSE await' = Set(await, c, FALSE) /\ checking' = Set(checking, c, FALSE) /\ UNCHANGED up
    /\ UNCHANGED <<copyVars, keyVars, jobs, refetch, tally, mixed>>

\* handleRequestSnapshot() up to the encryption.  A request that comes while
\* another is answered is forgotten.
ReceiveRequest(c, m) ==
    /\ m.type = "request_snapshot"
    /\ snap' = IF PendingSave(c) THEN snap
               ELSE Set(snap, c, [text |-> text[c] \cup pend[c], key |-> skey[c],
                                  info |-> None])
    /\ UNCHANGED <<up, copyVars, flags, keyVars, sending, change, dec, refetch, tally, mixed>>

\* handleRekeyDone(); nothing happens if the change was given up.
ReceiveRekeyDone(c, m) ==
    /\ m.type = "rekey_done"
    /\ LET e(k) == IF asked[c] = 0 THEN k ELSE Set(k, c, asked[c])
       IN  key' = e(key) /\ salt' = e(salt) /\ skey' = e(skey)
    /\ mixed' = (mixed \/ (asked[c] # 0 /\ Crossing(c, asked[c])))
    /\ asked' = Set(asked, c, 0)
    /\ UNCHANGED <<up, copyVars, flags, jobs, refetch, tally>>

\* Bound: it is read when the document fetched before it has been loaded.
ReceiveRefetch(c, m) ==
    /\ m.type = "refetch_doc"
    /\ ~fetch[c].open /\ load[c] = None
    /\ fetch' = Set(fetch, c, [open |-> TRUE, row |-> None])
    /\ UNCHANGED <<up, copyVars, flags, keyVars, jobs, load, tally, mixed>>

\* "Informational."
ReceiveReceived(c, m) ==
    /\ m.type = "snapshot_received"
    /\ UNCHANGED <<up, copyVars, flags, keyVars, jobs, refetch, tally, mixed>>

ClientReceive(c) ==
    /\ Runs(c)
    /\ down[c] # <<>>
    /\ down' = Set(down, c, Tail(down[c]))
    /\ LET m == Head(down[c])
       IN  \/ ReceiveConfirmDiff(c, m) \/ ReceiveRejectDiff(c, m) \/ ReceiveDiff(c, m)
           \/ ReceiveConfirmVersion(c, m) \/ ReceiveRequest(c, m) \/ ReceiveRekeyDone(c, m)
           \/ ReceiveRefetch(c, m) \/ ReceiveReceived(c, m)
    /\ UNCHANGED <<serverVars, gap, overtaken, counters>>

\* A diff is decrypted; one under another key is skipped, its version counted.
FinishReceive(c) ==
    /\ dec[c] # <<>>
    /\ dec' = Set(dec, c, Tail(dec[c]))
    /\ Raise(c, Head(dec[c]).fits, Head(dec[c]).v = ver[c])
    /\ text' = IF Head(dec[c]).fits THEN Set(text, c, text[c] \cup Head(dec[c]).edits)
               ELSE text
    /\ UNCHANGED <<serverVars, wires, pend, unconf, flags, keyVars, sending, snap, change,
                   fetch, gap, mixed, overtaken, counters>>

\* The snapshot is encrypted; version and salt are those of now.
FinishSnapshot(c) ==
    /\ snap[c] # None
    /\ Upload(c, [type |-> "snapshot", v |-> InfoVersion(c, snap[c]), text |-> snap[c].text,
                  key |-> snap[c].key, salt |-> salt[c], late |-> FALSE], down[c])
    /\ snap' = Set(snap, c, None)
    /\ UNCHANGED <<serverVars, down, copyVars, flags, keyVars,
                   sending, change, dec, refetch, history, counters>>

-----------------------------------------------------------------------------
(* Loading the stored document.                                            *)

\* get_doc_data
FetchServe(c) ==
    /\ fetch[c].open
    /\ fetch[c].row = None
    /\ fetch' = Set(fetch, c, [open |-> TRUE, row |-> doc])
    /\ UNCHANGED <<serverVars, wires, copyVars, flags, keyVars, jobs, load, history, counters>>

\* Fault: the version of the document is taken for that of its content.
LoadedVersionLast(row) == Version

LoadedVersion(row) == row.snapv

\* A job that has taken hold of the docInfo in use keeps that one.
Keeps(c, job) == IF job = None THEN None ELSE [job EXCEPT !.info = <<InfoVersion(c, job)>>]

\* receiveDocument() and loadDocument(): a diff that was waited for is sent once
\* more, from the old content and version, before the new docInfo is put in.
LoadBegin(c) ==
    /\ Runs(c)
    /\ fetch[c].row # None
    /\ LET d == Diff(c, TRUE)
           resends == await[c] /\ pend[c] # {}
       IN  /\ unconf' = Set(unconf, c, IF resends THEN {Rid(d)} ELSE {})
           /\ sending' = IF resends THEN [sending EXCEPT ![c] = Append(@, d)] ELSE sending
           /\ await' = Set(await, c, resends)
           /\ tally' = Set(tally, c, IF resends THEN "off" ELSE "loaded")
    /\ checking' = Set(checking, c, FALSE)
    /\ ver' = Set(ver, c, LoadedVersion(fetch[c].row))
    /\ load' = Set(load, c, [row |-> fetch[c].row, stage |-> "begun", base |-> FALSE])
    /\ fetch' = Set(fetch, c, NoFetch)
    /\ snap' = Set(snap, c, Keeps(c, snap[c]))
    /\ change' = Set(change, c, Keeps(c, change[c]))
    /\ UNCHANGED <<serverVars, wires, text, pend, keyVars, dec, gap, mixed, overtaken, counters>>

Stage(c, from, to) ==
    /\ load[c] # None
    /\ load[c].stage = from
    /\ load' = [load EXCEPT ![c].stage = to]

\* The content is decrypted, with the password of the row, which its user comes
\* to know; then the keys are put in.
LoadKeys(c) ==
    /\ Stage(c, "begun", "keyed")
    /\ LET epoch == load[c].row.epoch
       IN  /\ load[c].row.key = epoch
           /\ key' = Set(key, c, epoch)
           /\ salt' = Set(salt, c, epoch)
           /\ skey' = Set(skey, c, epoch)
           /\ mixed' = (mixed \/ Crossing(c, epoch))
    /\ UNCHANGED <<serverVars, wires, copyVars, flags, asked, jobs, fetch, gap, tally,
                   overtaken, counters>>

\* _loadUnencryptedDocument(): what was typed and not confirmed is gone.
LoadText(c) ==
    /\ Stage(c, "keyed", "shown")
    /\ LET row == load[c].row
       IN  /\ text' = Set(text, c, row.text)
           /\ gap' = Set(gap, c, TextAt(row.snapv) \ row.text)
    /\ pend' = Set(pend, c, {})
    /\ tally' = IF dec[c] # <<>> THEN Set(tally, c, "off") ELSE tally
    /\ UNCHANGED <<serverVars, wires, ver, unconf, flags, keyVars, jobs, fetch, mixed,
                   overtaken, counters>>

\* After one more await the key is put in again.
LoadEnd(c) ==
    /\ load[c] # None
    /\ load[c].stage = "shown"
    /\ load' = Set(load, c, None)
    /\ key' = Set(key, c, load[c].row.epoch)
    /\ mixed' = (mixed \/ salt[c] # load[c].row.epoch)
    /\ UNCHANGED <<serverVars, wires, copyVars, flags, salt, skey, asked, jobs, fetch, gap,
                   tally, overtaken, counters>>

-----------------------------------------------------------------------------
Init ==
    LET all(x) == [c \in Client |-> x]
    IN  /\ log = <<>> /\ kept = 0 /\ rekeying = None
        /\ doc = [epoch |-> 0, key |-> 0, text |-> {}, snapv |-> 0]
        /\ up = all(<<>>) /\ down = all(<<>>)
        /\ ver = all(0) /\ text = all({}) /\ pend = all({}) /\ unconf = all({})
        /\ await = all(FALSE) /\ checking = all(FALSE)
        /\ key = all(0) /\ salt = all(0) /\ skey = all(0) /\ asked = all(0)
        /\ sending = all(<<>>) /\ snap = all(None) /\ change = all(None) /\ dec = all(<<>>)
        /\ fetch = all(NoFetch) /\ load = all(None)
        /\ gap = all({}) /\ tally = all("first") /\ mixed = FALSE /\ overtaken = FALSE
        /\ typed = 0 /\ events = 0

Next ==
    \/ ApplyRekey \/ RefuseRekey
    \/ \E c \in Client :
        \/ Type(c) \/ StartSend(c) \/ SendRaises(c) \/ FinishSend(c) \/ Timeout(c)
        \/ Reconnect(c) \/ StartRekey(c) \/ FinishRekey(c) \/ RekeyTimeout(c)
        \/ ServerReceive(c) \/ ClientReceive(c) \/ FinishReceive(c) \/ FinishSnapshot(c)
        \/ FetchServe(c) \/ LoadBegin(c) \/ LoadKeys(c) \/ LoadText(c) \/ LoadEnd(c)

\* Browsers and server run, and timers run out when there is no answer.
Fairness ==
    /\ WF_vars(ApplyRekey \/ RefuseRekey)
    /\ \A c \in Client :
        /\ WF_vars(StartSend(c)) /\ WF_vars(FinishSend(c)) /\ WF_vars(Timeout(c))
        /\ WF_vars(FinishRekey(c)) /\ WF_vars(RekeyTimeout(c) /\ Silent(c))
        /\ WF_vars(ServerReceive(c)) /\ WF_vars(ClientReceive(c))
        /\ WF_vars(FinishReceive(c)) /\ WF_vars(FinishSnapshot(c)) /\ WF_vars(FetchServe(c))
        /\ WF_vars(LoadBegin(c) \/ LoadKeys(c) \/ LoadText(c) \/ LoadEnd(c))

Spec == Init /\ [][Next]_vars /\ Fairness
-----------------------------------------------------------------------------
(* Properties.                                                             *)

\* A fetched document is waited for, or will be.
Refetching(c) ==
    fetch[c].open \/ \E i \in DOMAIN down[c] : down[c][i].type = "refetch_doc"

\* What the variables hold, and a message that crosses another one is marked.
TypeOK ==
    /\ log \in Seq([cid: Client, edits: SUBSET Edit, again: BOOLEAN, key: Epoch])
    /\ kept \in 0 .. Version
    /\ doc \in [epoch: Epoch, key: Epoch, text: SUBSET Edit, snapv: Nat]
    /\ ver \in [Client -> Nat]
    /\ <<text, pend, gap>> \in [1 .. 3 -> [Client -> SUBSET Edit]]
    /\ unconf \in [Client -> SUBSET [edits: SUBSET Edit, again: BOOLEAN]]
    /\ <<await, checking>> \in [1 .. 2 -> [Client -> BOOLEAN]]
    /\ <<key, salt, skey, asked>> \in [1 .. 4 -> [Client -> Epoch]]
    /\ tally \in [Client -> {"first", "loaded", "off"}]
    /\ {mixed, overtaken} \subseteq BOOLEAN
    /\ \A c \in Client : \A i \in DOMAIN up[c] : down[c] # <<>> => up[c][i].late

\* Until a browser has had two epochs at once, or had its keys replaced during an
\* encryption, everything the server has stored can be decrypted with the key that
\* belongs to the salt it hands out.
Readable ==
    mixed \/ /\ doc.key = doc.epoch
             /\ \A i \in Version - kept + 1 .. Version : log[i].key = doc.epoch

\* The stored content and the stored diffs together make up the current version,
\* as long as no more diffs than the history holds have come since that content,
\* and none while a change of password was written that no snapshot has followed.
DiffsCover ==
    overtaken \/ Version - doc.snapv > History \/ doc.snapv + kept >= Version

\* A browser at version v has the edits of that version, short of what the
\* content it has loaded lacked.  Excepted are browsers that load a document or
\* are about to, those whose version has counted something else, and all once a
\* browser has had two epochs at once or after a second event.
Complete ==
    \/ mixed \/ events > 1
    \/ \A c \in Client :
        \/ Refetching(c) \/ load[c] # None \/ tally[c] = "off"
        \/ TextAt(ver[c]) \ gap[c] \subseteq text[c]

\* Until the password is changed, a connection is lost or a document is loaded
\* again, what is typed gets to the server and to every browser, for all the
\* messages that cross.  ("receiving" in Awaits makes it false: what comes while a
\* diff is decrypted does not fit yet, and asking for it again can cross a message.)
Settles ==
    \A e \in Edit, c \in Client :
        (typed >= e) ~> (e \in text[c] \/ events > 0 \/ \E d \in Client : tally[d] # "first")

\* document/consumers.py:995: "the snapshot must cover exactly the current
\* version."
SnapshotCovers == TextAt(doc.snapv) \subseteq doc.text
=============================================================================
