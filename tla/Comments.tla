------------------------------ MODULE Comments ------------------------------
(***************************************************************************)
(* The comments of a document: the store in every browser with its queue   *)
(* of updates not sent yet (editor/comments/store.js), the diffs that carry *)
(* them (editor/collab/doc.js), what the server does with them and whom it  *)
(* tells (document/consumers.py, document/helpers/comment_filter.py).      *)
(*                                                                         *)
(* Collab has the exchange of diffs with all its timers; here no           *)
(* connection is lost except by an exception of the server, and a timer    *)
(* runs out when nothing is under way.                                     *)
(***************************************************************************)
EXTENDS Integers, FiniteSets, SequencesExt

CONSTANTS
    Client,         \* browsers with the document open
    First,          \* the author of the comment that is there at the start
    CommentOnly,    \* those with a right in COMMENT_ONLY: review, comment
    OwnOnly,        \* those with review or review-tracked
    MaxActs         \* bound: what people do to comments

ASSUME ClientAssumption == /\ First \in Client
                           /\ CommentOnly \subseteq Client
                           /\ OwnOnly \subseteq Client
ASSUME NumberAssumption == MaxActs \in Nat

\* What people do is numbered; the number is the name and the text of what is
\* new.  The text stands for everything an update sets, but for who the comment
\* is assigned to (nobody is).
Act == 1 .. MaxActs
Id == 0 .. MaxActs
Answers == [id: Act, by: Client, text: Act]
Comment == [by: Client, text: Id, answers: SUBSET Answers]

\* The updates that wait in the queue of a browser, and the act each is from.
Kind == {"create", "update", "delete", "add_answer", "update_answer", "delete_answer"}
Waiter == [type: Kind, id: Id, aid: Id, act: Act]

VARIABLES
    com,        \* server: doc.comments, a function on the ids
    listed,     \* server: the ids of the comments with a key "answers"
    hist,       \* server: the accepted diffs; doc.version is their number
    said,       \* server: number of messages said on each connection
    link,       \* is the client connected?
    up, down,   \* the messages under way
    seen,       \* client: number of messages received on this connection
    ver,        \* client: docInfo.version
    copy,       \* client: store.comments
    unsent,     \* client: store.unsent
    unconf,     \* client: unconfirmedDiffs, [rid, n] with n updates
    await,      \* client: awaitingDiffResponse
    done,       \* for the properties: what each person did, in order
    failed      \* for the properties: the ids in diffs that failed half way

serverVars == <<com, listed, hist, said>>
wires == <<link, up, down, seen>>
storeVars == <<copy, unsent>>
ghosts == <<done, failed>>
vars == <<serverVars, wires, ver, storeVars, unconf, await, ghosts>>

Acts == UNION {Range(done[c]) : c \in Client}
NextAct == Cardinality(Acts) + 1

Put(s, i, x) == [j \in DOMAIN s \cup {i} |-> IF j = i THEN x ELSE s[j]]
Without(s, i) == [j \in DOMAIN s \ {i} |-> s[j]]
Named(as, a) == {x \in as : x.id = a}

-----------------------------------------------------------------------------
(* What people do.                                                         *)

\* The options of a comment are for its author and for writers
\* (marginboxes/templates.js).
Manages(c, i) == copy[c][i].by = c \/ c \notin CommentOnly \cup OwnOnly

\* c does something to comment i or its answer a: the store changes at once,
\* and an update waits to be sent.
Do(c, type, i, a, s) ==
    /\ copy' = [copy EXCEPT ![c] = s]
    /\ unsent' = [unsent EXCEPT ![c] =
                    Append(@, [type |-> type, id |-> i, aid |-> a, act |-> NextAct])]
    /\ done' = [done EXCEPT ![c] = Append(@, NextAct)]
    /\ UNCHANGED <<serverVars, wires, ver, unconf, await, failed>>

AddComment(c) ==
    LET n == NextAct
    IN  Do(c, "create", n, 0,
           Put(copy[c], n, [by |-> c, text |-> n, answers |-> {}]))

UpdateComment(c, i) ==
    /\ Manages(c, i)
    /\ Do(c, "update", i, 0, [copy[c] EXCEPT ![i].text = NextAct])

DeleteComment(c, i) ==
    /\ Manages(c, i)
    /\ Do(c, "delete", i, 0, Without(copy[c], i))

AddAnswer(c, i) ==
    LET n == NextAct
    IN  Do(c, "add_answer", i, n,
           [copy[c] EXCEPT ![i].answers = @ \cup {[id |-> n, by |-> c, text |-> n]}])

\* An answer has options for its author only.
UpdateAnswer(c, i, x) ==
    /\ x.by = c
    /\ Do(c, "update_answer", i, x.id,
          [copy[c] EXCEPT ![i].answers = (@ \ {x}) \cup {[x EXCEPT !.text = NextAct]}])

DeleteAnswer(c, i, x) ==
    /\ x.by = c
    /\ Do(c, "delete_answer", i, x.id, [copy[c] EXCEPT ![i].answers = @ \ {x}])

Acting(c) ==
    /\ NextAct <= MaxActs
    /\ \/ AddComment(c)
       \/ \E i \in DOMAIN copy[c] :
             \/ UpdateComment(c, i)
             \/ DeleteComment(c, i)
             \/ AddAnswer(c, i)
             \/ \E x \in copy[c][i].answers : UpdateAnswer(c, i, x) \/ DeleteAnswer(c, i, x)

-----------------------------------------------------------------------------
(* Sending.                                                                *)

Ignored == [type |-> "ignore"]

Answered(s, e) == Named(s[e.id].answers, e.aid) # {}
OfAnswer == {"add_answer", "update_answer"}

\* Fault: a deletion, too, is sent only of what the store still holds.
SendableIfThere(s, e) == e.id \in DOMAIN s /\ (e.type \in OfAnswer => Answered(s, e))

\* Is there still something to send?  A deletion does not ask.
Sendable(s, e) ==
    \/ e.type = "delete"
    \/ e.id \in DOMAIN s /\ (e.type \in OfAnswer => Answered(s, e))

\* unsentEvents(): an update is sent with what the store holds now; one of
\* something that is gone becomes "ignore", so that the numbers still agree.
Entry(s, e) ==
    IF ~Sendable(s, e) THEN Ignored
    ELSE CASE e.type = "delete" -> [type |-> "delete", id |-> e.id]
           [] e.type = "delete_answer" -> [type |-> e.type, id |-> e.id, aid |-> e.aid]
           [] e.type \in OfAnswer ->
                [type |-> e.type, id |-> e.id,
                 answer |-> CHOOSE x \in Named(s[e.id].answers, e.aid) : TRUE]
           [] OTHER -> [type |-> e.type, id |-> e.id, note |-> s[e.id]]

UnsentEvents(c) == [k \in DOMAIN unsent[c] |-> Entry(copy[c], unsent[c][k])]

\* A request id that no diff of c that may still be confirmed has.
NextRid(c) ==
    1 + Max({0} \cup {u.rid : u \in unconf[c]}
                \cup {hist[v].rid : v \in {w \in DOMAIN hist : hist[w].cid = c}})

Upload(c, m) == up' = [up EXCEPT ![c] = Append(@, [m EXCEPT !.seen = seen'[c]])]

\* sendToCollaborators(), as far as comments go.  What has arrived is read first
\* (Collab has the diffs that are sent between two messages).
Send(c) ==
    /\ link[c] = "on"
    /\ down[c] = <<>>
    /\ ~await[c]
    /\ unsent[c] # <<>>
    /\ seen' = seen
    /\ Upload(c, [type |-> "diff", v |-> ver[c], rid |-> NextRid(c), cu |-> UnsentEvents(c),
                  acts |-> [k \in DOMAIN unsent[c] |-> unsent[c][k].act], seen |-> 0])
    /\ unconf' = [unconf EXCEPT ![c] = @ \cup {[rid |-> NextRid(c), n |-> Len(unsent[c])]}]
    /\ await' = [await EXCEPT ![c] = TRUE]
    /\ UNCHANGED <<serverVars, link, down, ver, storeVars, ghosts>>

Silent(c) == up[c] = <<>> /\ down[c] = <<>>

\* The timer of disableDiffSending(): 8 seconds.
SendTimeout(c) ==
    /\ link[c] = "on"
    /\ await[c]
    /\ Silent(c)
    /\ await' = [await EXCEPT ![c] = FALSE]
    /\ UNCHANGED <<serverVars, wires, ver, storeVars, unconf, ghosts>>

\* checkVersion(): one at a time.
CheckVersion(c) ==
    /\ await' = [await EXCEPT ![c] = TRUE]
    /\ IF \E k \in DOMAIN up[c] : up[c][k].type = "check_version"
       THEN UNCHANGED up
       ELSE Upload(c, [type |-> "check_version", v |-> ver'[c], seen |-> 0])

-----------------------------------------------------------------------------
(* The server.                                                             *)

\* only_comments(): what is not an added or removed mark is not a comment.
\* Only the marks of new and deleted comments come as steps.
OnlyComments(m) == \E k \in DOMAIN m.cu : m.cu[k].type \in {"create", "delete"}

\* owns_comment_updates(), one update: it names its author, or deletes.
OwnUpdate(c, e) ==
    CASE e.type = "delete" -> \A i \in DOMAIN com \cap {e.id} : com[i].by = c
      [] e.type \in {"create", "update"} ->
            e.note.by = c /\ \A x \in e.note.answers : x.by = c
      [] e.type \in OfAnswer -> e.answer.by = c
      [] OTHER -> FALSE

Allowed(c, m) ==
    /\ c \in CommentOnly => OnlyComments(m)
    /\ c \in OwnOnly => \A k \in DOMAIN m.cu : OwnUpdate(c, m.cu[k])

\* One update in update_comments(); ok becomes FALSE where a KeyError ends it.
Applied(st, e) ==
    LET has == e.id \in DOMAIN st.com
        hasList == has /\ e.id \in st.listed
        old == st.com[e.id].answers
        set(as) == [st EXCEPT !.com[e.id].answers = as, !.listed = @ \cup {e.id}]
        error == [st EXCEPT !.ok = FALSE]
    IN  IF ~st.ok \/ e.type = "ignore" THEN st
        ELSE CASE e.type = "create" ->
                [st EXCEPT !.com = Put(@, e.id, [e.note EXCEPT !.answers = {}]),
                           !.listed = @ \ {e.id}]
          [] e.type = "delete" ->
                IF has THEN [st EXCEPT !.com = Without(@, e.id), !.listed = @ \ {e.id}]
                       ELSE error
          [] e.type = "update" ->
                IF has THEN [st EXCEPT !.com[e.id].text = e.note.text] ELSE error
          [] e.type = "add_answer" ->
                IF has THEN set(old \cup {e.answer}) ELSE error
          [] e.type = "delete_answer" ->
                IF hasList THEN set(old \ Named(old, e.aid)) ELSE error
          [] e.type = "update_answer" ->
                IF ~hasList THEN error
                ELSE set(IF Named(old, e.answer.id) = {} THEN old
                         ELSE (old \ Named(old, e.answer.id)) \cup {e.answer})

Say(out) ==
    /\ down' = [d \in Client |-> down[d] \o out[d]]
    /\ said' = [d \in Client |-> said[d] + Len(out[d])]

OnlyTo(c, ms) == [d \in Client |-> IF d = c THEN ms ELSE <<>>]

\* Fault: only what names d as its author is shown, which a deletion does not.
ShownByAuthor(d, e) ==
    \/ d \notin OwnOnly
    \/ e.type \in {"create", "update"} /\ e.note.by = d
    \/ e.type \in OfAnswer /\ e.answer.by = d

\* _entry_visible(): is the update for d, given the comments as they are then?
Shown(d, e) ==
    \/ d \notin OwnOnly
    \/ e.type \in {"create", "update"} /\ e.note.by = d
    \/ e.type \in OfAnswer /\ e.answer.by = d
    \/ e.type = "delete" /\ \A i \in DOMAIN com' \cap {e.id} : com'[i].by = d

\* filter_cu_list()
ShownTo(d, cu) == FlattenSeq([k \in DOMAIN cu |-> IF Shown(d, cu[k]) THEN <<cu[k]>> ELSE <<>>])

\* sanitize_diff_message(): the accepted diff v, as d gets it.
DiffFor(d, v) ==
    [type |-> "diff", v |-> v - 1, cid |-> hist'[v].cid, rid |-> hist'[v].rid,
     cu |-> ShownTo(d, hist'[v].cu)]

DiffsAfter(c, v) == [k \in 1 .. Len(hist) - v |-> DiffFor(c, v + k)]

\* A diff that the right does not cover is dropped without an answer.  (Its
\* entry in unconfirmedDiffs is never looked at again; the model removes it.)
ServerDiscard(c, m) ==
    /\ m.type = "diff"
    /\ ~Allowed(c, m)
    /\ unconf' = [unconf EXCEPT ![c] = {u \in @ : u.rid # m.rid}]
    /\ UNCHANGED <<serverVars, link, down, failed>>

Accept(c, m) ==
    /\ m.type = "diff"
    /\ Allowed(c, m)
    /\ m.v = Len(hist)
    /\ hist' = Append(hist, [cid |-> c, rid |-> m.rid, cu |-> m.cu, acts |-> m.acts])

After(m) == FoldLeft(Applied, [com |-> com, listed |-> listed, ok |-> TRUE], m.cu)

\* handle_diff(), pv == dv.
ServerAccept(c, m) ==
    /\ Accept(c, m)
    /\ After(m).ok
    /\ com' = After(m).com /\ listed' = After(m).listed
    /\ Say([d \in Client |->
              IF d = c THEN <<[type |-> "confirm_diff", rid |-> m.rid]>>
              ELSE IF link[d] = "on" THEN <<DiffFor(d, Len(hist'))>> ELSE <<>>])
    /\ UNCHANGED <<link, unconf, failed>>

\* Fault: what was under way to c arrives on the next connection.
ServerFailLate(c, m) ==
    /\ Accept(c, m)
    /\ ~After(m).ok
    /\ com' = After(m).com /\ listed' = After(m).listed
    /\ link' = [link EXCEPT ![c] = "off"]
    /\ down' = [down EXCEPT ![c] = <<[type |-> "confirm_diff", rid |-> m.rid]>>]
    /\ UNCHANGED <<said, unconf, failed>>

\* A KeyError ends the connection, after the version was raised: nobody is told.
ServerFail(c, m) ==
    /\ Accept(c, m)
    /\ ~After(m).ok
    /\ com' = After(m).com /\ listed' = After(m).listed
    /\ failed' = failed \cup {m.cu[k].id : k \in {j \in DOMAIN m.cu : m.cu[j] # Ignored}}
    /\ link' = [link EXCEPT ![c] = "off"]
    /\ down' = [down EXCEPT ![c] = <<>>]
    /\ UNCHANGED <<said, unconf>>

\* Fault: a diff against an older version is dropped, and nothing is sent.
ServerOutdatedSilent(c, m) ==
    /\ m.type = "diff"
    /\ m.v < Len(hist)
    /\ unconf' = [unconf EXCEPT ![c] = {u \in @ : u.rid # m.rid}]
    /\ UNCHANGED <<com, listed, hist, link, failed, down, said>>

\* handle_diff(), pv < dv: the missing diffs are sent, this one is dropped.
ServerOutdated(c, m) ==
    /\ m.type = "diff"
    /\ Allowed(c, m)
    /\ m.v < Len(hist)
    /\ UNCHANGED <<com, listed, hist, link, failed>>
    /\ unconf' = [unconf EXCEPT ![c] = {u \in @ : u.rid # m.rid}]
    /\ Say(OnlyTo(c, DiffsAfter(c, m.v)))

ServerCheckVersion(c, m) ==
    /\ m.type = "check_version"
    /\ UNCHANGED <<com, listed, hist, link, unconf, failed>>
    /\ Say(OnlyTo(c, Append(DiffsAfter(c, m.v), [type |-> "confirm_version", v |-> Len(hist)])))

\* A message that crosses one of the server: a diff is rejected.
ServerCross(c, m) ==
    /\ Say(OnlyTo(c, IF m.type = "diff" THEN <<[type |-> "reject_diff", rid |-> m.rid]>>
                                        ELSE <<>>))
    /\ UNCHANGED <<com, listed, hist, link, unconf, failed>>

ServerReceive(c) ==
    /\ up[c] # <<>>
    /\ LET m == Head(up[c])
       IN  /\ IF m.seen < said[c]
              THEN ServerCross(c, m)
              ELSE \/ ServerDiscard(c, m) \/ ServerAccept(c, m) \/ ServerFail(c, m)
                   \/ ServerOutdated(c, m) \/ ServerCheckVersion(c, m)
           /\ up' = [up EXCEPT ![c] = IF link'[c] = "on" THEN Tail(@) ELSE <<>>]
    /\ UNCHANGED <<seen, ver, storeVars, await, done>>

-----------------------------------------------------------------------------
(* The client receives.                                                    *)

\* Fault: all updates count as sent, not only those of the diff.
EventsSentAll(q, n) == <<>>

\* eventsSent(): the first n updates have been accepted.
EventsSent(q, n) == SubSeq(q, n + 1, Len(q))

\* confirmDiff(), for a confirmation or an own diff that is sent again.
ConfirmDiff(c, rid) ==
    LET mine == {u \in unconf[c] : u.rid = rid}
    IN  IF mine = {}
        THEN UNCHANGED <<ver, unsent, unconf, await>>
        ELSE /\ ver' = [ver EXCEPT ![c] = @ + 1]
             /\ \E u \in mine : unsent' = [unsent EXCEPT ![c] = EventsSent(@, u.n)]
             /\ unconf' = [unconf EXCEPT ![c] = @ \ mine]
             /\ await' = [await EXCEPT ![c] = FALSE]

ReceiveConfirmDiff(c, m) ==
    /\ m.type = "confirm_diff"
    /\ ConfirmDiff(c, m.rid)
    /\ UNCHANGED <<up, copy>>

ReceiveRejectDiff(c, m) ==
    /\ m.type = "reject_diff"
    /\ unconf' = [unconf EXCEPT ![c] = {u \in @ : u.rid # m.rid}]
    /\ await' = [await EXCEPT ![c] = FALSE]
    /\ UNCHANGED <<up, ver, storeVars>>

\* One update in receive(); what is gone stays gone, and "ignore" is no case.
Received(s, e) ==
    LET has == e.id \in DOMAIN s
    IN  CASE e.type = "create" -> IF has THEN s ELSE Put(s, e.id, e.note)
          [] e.type = "delete" -> Without(s, e.id)
          [] e.type = "update" /\ has -> Put(s, e.id, e.note)
          [] e.type = "add_answer" /\ has ->
                IF Named(s[e.id].answers, e.answer.id) # {} THEN s
                ELSE [s EXCEPT ![e.id].answers = @ \cup {e.answer}]
          [] e.type = "delete_answer" /\ has ->
                [s EXCEPT ![e.id].answers = @ \ Named(@, e.aid)]
          [] e.type = "update_answer" /\ has ->
                IF Named(s[e.id].answers, e.answer.id) = {} THEN s
                ELSE [s EXCEPT ![e.id].answers =
                        (@ \ Named(@, e.answer.id)) \cup {e.answer}]
          [] OTHER -> s

ReceiveDiff(c, m) ==
    /\ m.type = "diff"
    /\ IF m.cid = c
       THEN ConfirmDiff(c, m.rid) /\ UNCHANGED <<up, copy>>
       ELSE IF m.v # ver[c]
       THEN ver' = ver /\ CheckVersion(c) /\ UNCHANGED <<storeVars, unconf>>
       ELSE /\ ver' = [ver EXCEPT ![c] = @ + 1]
            /\ copy' = [copy EXCEPT ![c] = FoldLeft(Received, @, m.cu)]
            /\ UNCHANGED <<up, unsent, unconf, await>>

ReceiveConfirmVersion(c, m) ==
    /\ m.type = "confirm_version"
    /\ IF m.v # ver[c]
       THEN ver' = ver /\ CheckVersion(c)
       ELSE await' = [await EXCEPT ![c] = FALSE] /\ UNCHANGED <<up, ver>>
    /\ UNCHANGED <<storeVars, unconf>>

ClientReceive(c) ==
    /\ down[c] # <<>>
    /\ down' = [down EXCEPT ![c] = Tail(@)]
    /\ seen' = [seen EXCEPT ![c] = @ + 1]
    /\ LET m == Head(down[c])
       IN  \/ ReceiveConfirmDiff(c, m) \/ ReceiveRejectDiff(c, m)
           \/ ReceiveDiff(c, m) \/ ReceiveConfirmVersion(c, m)
    /\ UNCHANGED <<serverVars, link, ghosts>>

\* Two seconds after the connection broke.  The "connections" message makes
\* the client ask for its version; OwnOnly do not get one (CAN_COMMUNICATE).
Reconnect(c) ==
    /\ link[c] = "off"
    /\ link' = [link EXCEPT ![c] = "on"]
    /\ said' = [said EXCEPT ![c] = 0]
    /\ seen' = [seen EXCEPT ![c] = 0]
    /\ ver' = ver
    /\ IF c \in OwnOnly
       THEN await' = [await EXCEPT ![c] = TRUE] /\ UNCHANGED up
       ELSE CheckVersion(c)
    /\ UNCHANGED <<com, listed, hist, down, storeVars, unconf, ghosts>>

StartComments == [i \in {0} |-> [by |-> First, text |-> 0, answers |-> {}]]

Init ==
    /\ com = StartComments /\ listed = {} /\ hist = <<>>
    /\ said = [c \in Client |-> 0] /\ seen = [c \in Client |-> 0]
    /\ link = [c \in Client |-> "on"]
    /\ up = [c \in Client |-> <<>>] /\ down = [c \in Client |-> <<>>]
    /\ ver = [c \in Client |-> 0]
    /\ copy = [c \in Client |-> IF c \in OwnOnly \ {First} THEN <<>> ELSE StartComments]
    /\ unsent = [c \in Client |-> <<>>] /\ unconf = [c \in Client |-> {}]
    /\ await = [c \in Client |-> FALSE]
    /\ done = [c \in Client |-> <<>>] /\ failed = {}

Next == \E c \in Client :
            \/ Acting(c) \/ Send(c) \/ SendTimeout(c)
            \/ ServerReceive(c) \/ ClientReceive(c) \/ Reconnect(c)

Fairness == \A c \in Client :
                /\ WF_vars(Send(c)) /\ WF_vars(SendTimeout(c))
                /\ WF_vars(ServerReceive(c)) /\ WF_vars(ClientReceive(c))
                /\ WF_vars(Reconnect(c))

Spec == Init /\ [][Next]_vars /\ Fairness

-----------------------------------------------------------------------------
(* Properties.                                                             *)

\* Types; an update is of a comment that somebody made.
TypeOK ==
    /\ DOMAIN com \subseteq Id /\ \A i \in DOMAIN com : com[i] \in Comment
    /\ listed \subseteq DOMAIN com
    /\ link \in [Client -> {"on", "off"}]
    /\ <<said, seen, ver>> \in [1 .. 3 -> [Client -> Nat]]
    /\ \A c \in Client : /\ DOMAIN copy[c] \subseteq Id
                         /\ \A i \in DOMAIN copy[c] : copy[c][i] \in Comment
                         /\ seen[c] + Len(down[c]) <= said[c]
    /\ unsent \in [Client -> Seq(Waiter)]
    /\ unconf \in [Client -> SUBSET [rid: Nat, n: Nat \ {0}]]
    /\ await \in [Client -> BOOLEAN]
    /\ failed \subseteq Id

\* The acts that a list of diffs or updates carries.
ActsOf(c, v) ==
    FlattenSeq([k \in 1 .. v |-> IF hist[k].cid = c THEN hist[k].acts ELSE <<>>])
Waiting(c) == [k \in DOMAIN unsent[c] |-> unsent[c][k].act]

\* Every update of a person is either in the diffs that the browser knows to be
\* accepted, or waits to be sent: once, and in the order it was made, whatever
\* was rejected, sent again or lost with an exception.
Accounted == \A c \in Client : /\ ver[c] <= Len(hist)
                               /\ done[c] = ActsOf(c, ver[c]) \o Waiting(c)

\* The comments that c has an update of that waits to be sent.
Touched(c) == {unsent[c][k].id : k \in DOMAIN unsent[c]}

\* A browser that is up to date shows each comment as the server has it, unless
\* it has an update of its own to send or a diff with that comment has failed.
\* It also shows every answer, if the author of the comment does: an update
\* brings the answers that its sender sees.
SameComments ==
    \A c \in Client \ OwnOnly : ver[c] = Len(hist) =>
        \A i \in Id \ (Touched(c) \cup failed) :
            /\ i \in DOMAIN com <=> i \in DOMAIN copy[c]
            /\ i \in DOMAIN com =>
                  /\ com[i].text = copy[c][i].text
                  /\ com[i].by \notin OwnOnly => com[i].answers \subseteq copy[c][i].answers

\* The same for the own comments of those who see no others.
OwnComments ==
    \A c \in OwnOnly : ver[c] = Len(hist) =>
        \A i \in Id \ (Touched(c) \cup failed) :
            /\ i \in DOMAIN com /\ com[i].by = c => /\ i \in DOMAIN copy[c]
                                                    /\ com[i].text = copy[c][i].text
            /\ i \in DOMAIN copy[c] => i \in DOMAIN com

\* What somebody does to a comment reaches the server.
Arrives ==
    \A n \in Act, c \in Client \ OwnOnly :
        n \in Range(done[c]) ~> \E v \in DOMAIN hist : n \in Range(hist[v].acts)
=============================================================================
