----------------------------- MODULE E2ee_proofs -----------------------------
(***************************************************************************)
(* For any number of browsers, edits, changes of the password, lost        *)
(* connections and loads, and whatever awaits anything happens in:         *)
(* what the server stores can be read with the key of the salt it hands    *)
(* out until a browser has had two epochs at once, and content and stored  *)
(* diffs make up the current version, as far as the history reaches, until *)
(* a diff is accepted while a change of password is written.               *)
(***************************************************************************)
EXTENDS E2ee, SequenceTheorems, TLAPS

Edits == SUBSET Edit
LogEntry == [cid: Client, edits: Edits, again: BOOLEAN, key: Epoch]
Row == [epoch: Epoch, key: Epoch, text: Edits, snapv: Nat]

\* The messages to the server.  Unless b, what they carry is encrypted with the
\* key that belongs to their salt.
DiffUp(b) ==
    {m \in [type: {"diff"}, v: Nat, edits: Edits, again: BOOLEAN, key: Epoch, salt: Epoch,
            late: BOOLEAN] : b \/ m.key = m.salt}
CheckUp == [type: {"check"}, v: Nat, offline: BOOLEAN, late: BOOLEAN]
SnapshotUp(b) ==
    {m \in [type: {"snapshot"}, v: Nat, text: Edits, key: Epoch, salt: Epoch,
            late: BOOLEAN] : b \/ m.key = m.salt}
RekeyUp == [type: {"rekey"}, v: Nat, text: Edits, epoch: Epoch, late: BOOLEAN]
UpMsg(b) == DiffUp(b) \cup CheckUp \cup SnapshotUp(b) \cup RekeyUp
LateMsg(b) == {m \in UpMsg(b) : m.late}

\* The messages to a browser.
DiffDown == [type: {"diff"}, v: Nat, cid: Client, edits: Edits, again: BOOLEAN, key: Epoch]
AnswerDown == [type: {"confirm_diff", "reject_diff"}, edits: Edits, again: BOOLEAN]
VersionDown == [type: {"confirm_version"}, v: Nat]
PlainDown == [type: {"refetch_doc", "request_snapshot", "rekey_done", "snapshot_received"}]
DownMsg == DiffDown \cup AnswerDown \cup VersionDown \cup PlainDown

\* What a browser is in the middle of.
Infos == {None} \cup {<<v>> : v \in Nat}
DiffJob == [v: Nat, edits: Edits, again: BOOLEAN, key: Epoch]
SnapJob == [text: Edits, key: Epoch, info: Infos]
ChangeJob == [epoch: Epoch, text: Edits, info: Infos]
DecJob == [v: Nat, edits: Edits, fits: BOOLEAN]
LoadJob == [row: Row, stage: {"begun", "keyed", "shown"}, base: BOOLEAN]
Under(k) == {j \in DiffJob : j.key = k}

-----------------------------------------------------------------------------
(* The invariant.                                                          *)

\* Messages cross: what is on its way to the server when the browser has
\* something to receive is marked.
Wire ==
    /\ up \in [Client -> Seq(UpMsg(mixed))]
    /\ down \in [Client -> Seq(DownMsg)]
    /\ \A c \in Client : down[c] # <<>> => up[c] \in Seq(LateMsg(mixed))

\* Content and diffs reach the current version, or the history is full.
Covered == overtaken \/ kept = History \/ doc.snapv + kept >= Version

Server ==
    /\ log \in Seq(LogEntry)
    /\ kept \in Nat /\ kept <= Version
    /\ doc \in Row
    /\ rekeying # None => rekeying \in [c: Client, m: RekeyUp]
    /\ Readable
    /\ Covered

Copies ==
    /\ ver \in [Client -> Nat]
    /\ text \in [Client -> Edits] /\ pend \in [Client -> Edits]
    /\ unconf \in [Client -> SUBSET [edits: Edits, again: BOOLEAN]]
Flags == await \in [Client -> BOOLEAN] /\ checking \in [Client -> BOOLEAN]
Epochs ==
    /\ key \in [Client -> Epoch] /\ salt \in [Client -> Epoch]
    /\ skey \in [Client -> Epoch] /\ asked \in [Client -> Epoch]
Doing ==
    /\ sending \in [Client -> Seq(DiffJob)]
    /\ snap \in [Client -> {None} \cup SnapJob]
    /\ change \in [Client -> {None} \cup ChangeJob]
    /\ dec \in [Client -> Seq(DecJob)]
Fetches == fetch \in [Client -> [open: BOOLEAN, row: {None} \cup Row]]
Fresh == load \in [Client -> {None} \cup LoadJob]
Past ==
    /\ gap \in [Client -> Edits]
    /\ tally \in [Client -> {"first", "loaded", "off"}]
    /\ mixed \in BOOLEAN /\ overtaken \in BOOLEAN
Counts == typed \in 0 .. MaxEdits /\ events \in 0 .. MaxEvents

Browser == Copies /\ Flags /\ Epochs /\ Doing /\ Fetches /\ Fresh /\ Past /\ Counts

\* A browser has one epoch for all its keys, and what it is encrypting is
\* encrypted with the key of that.
OneEpoch(c) ==
    /\ key[c] = salt[c] /\ skey[c] = salt[c]
    /\ sending[c] \in Seq(Under(salt[c]))
    /\ snap[c] # None => snap[c].key = salt[c]

Unmixed == mixed \/ \A c \in Client : OneEpoch(c)

IInv == Wire /\ Server /\ Browser /\ Unmixed
-----------------------------------------------------------------------------
(* What stays when nothing it speaks of changes.                           *)

LEMMA SameBrowser ==
    /\ Copies /\ UNCHANGED copyVars => Copies'
    /\ Flags /\ UNCHANGED flags => Flags'
    /\ Epochs /\ UNCHANGED keyVars => Epochs'
    /\ Doing /\ UNCHANGED jobs => Doing'
    /\ Fetches /\ UNCHANGED fetch => Fetches'
    /\ Fresh /\ UNCHANGED load => Fresh'
    /\ Past /\ UNCHANGED history => Past'
    /\ Counts /\ UNCHANGED counters => Counts'
BY DEF Copies, Flags, Epochs, Doing, Fetches, Fresh, Past, Counts, copyVars, flags, keyVars,
       jobs, history, counters

LEMMA SameServer ==
    ASSUME Server, UNCHANGED <<serverVars, overtaken>>, mixed => mixed'
    PROVE  Server'
<1>1. UNCHANGED <<log, kept, doc, rekeying, overtaken>>
  BY DEF serverVars
<1>2. Version' = Version
  BY <1>1 DEF Version
<1>3. Readable'
  BY <1>1, <1>2 DEF Server, Readable
<1> QED
  BY <1>1, <1>2, <1>3 DEF Server, Covered

LEMMA SameUnmixed ==
    ASSUME Unmixed, UNCHANGED <<key, salt, skey, sending, snap, mixed>>
    PROVE  Unmixed'
BY DEF Unmixed, OneEpoch

\* A list of messages that were allowed stays one.
LEMMA MoreMessages ==
    ASSUME NEW S, NEW T, S \subseteq T
    PROVE  \A u \in Seq(S) : u \in Seq(T)
BY SeqMonotonic

LEMMA MoreMixed ==
    ASSUME Wire, UNCHANGED wires, mixed \in BOOLEAN, mixed' \in BOOLEAN, mixed => mixed'
    PROVE  Wire'
<1>1. UpMsg(mixed) \subseteq UpMsg(mixed') /\ LateMsg(mixed) \subseteq LateMsg(mixed')
  BY DEF UpMsg, DiffUp, SnapshotUp, LateMsg
<1>2. UNCHANGED <<up, down>>
  BY DEF wires
<1>3. \A d \in Client : up[d] \in Seq(UpMsg(mixed'))
  BY <1>1, MoreMessages DEF Wire
<1>4. \A d \in Client : down[d] # <<>> => up[d] \in Seq(LateMsg(mixed'))
  BY <1>1, MoreMessages DEF Wire
<1> QED
  BY <1>2, <1>3, <1>4 DEF Wire

-----------------------------------------------------------------------------
(* Messages.                                                               *)

\* A message of a type is one of its set.
LEMMA UpTypes ==
    ASSUME NEW m \in UpMsg(mixed)
    PROVE  /\ m.type = "diff" => m \in DiffUp(mixed)
           /\ m.type = "check" => m \in CheckUp
           /\ m.type = "snapshot" => m \in SnapshotUp(mixed)
           /\ m.type = "rekey" => m \in RekeyUp
BY DEF UpMsg, DiffUp, CheckUp, SnapshotUp, RekeyUp

LEMMA DownTypes ==
    ASSUME NEW m \in DownMsg
    PROVE  /\ m.type = "diff" => m \in DiffDown
           /\ m.type \in {"confirm_diff", "reject_diff"} => m \in AnswerDown
           /\ m.type = "confirm_version" => m \in VersionDown
BY DEF DownMsg, DiffDown, AnswerDown, VersionDown, PlainDown

\* A message that is marked as late stays what it is.
LEMMA Marked ==
    ASSUME NEW m \in UpMsg(mixed), NEW b \in BOOLEAN
    PROVE  /\ [m EXCEPT !.late = b] \in UpMsg(mixed)
           /\ b => [m EXCEPT !.late = b] \in LateMsg(mixed)
<1>1. CASE m \in DiffUp(mixed)
  BY <1>1 DEF DiffUp, UpMsg, LateMsg
<1>2. CASE m \in CheckUp
  BY <1>2 DEF CheckUp, UpMsg, LateMsg
<1>3. CASE m \in SnapshotUp(mixed)
  BY <1>3 DEF SnapshotUp, UpMsg, LateMsg
<1>4. CASE m \in RekeyUp
  BY <1>4 DEF RekeyUp, UpMsg, LateMsg
<1> QED
  BY <1>1, <1>2, <1>3, <1>4 DEF UpMsg

\* All messages of a list are marked.
LEMMA AllMarked ==
    ASSUME NEW u \in Seq(UpMsg(mixed))
    PROVE  [i \in DOMAIN u |-> [u[i] EXCEPT !.late = TRUE]] \in Seq(LateMsg(mixed))
<1> DEFINE f == [i \in DOMAIN u |-> [u[i] EXCEPT !.late = TRUE]]
<1>1. Len(u) \in Nat /\ DOMAIN u = 1 .. Len(u)
  BY LenProperties
<1>2. \A i \in 1 .. Len(u) : f[i] \in LateMsg(mixed)
  <2> TAKE i \in 1 .. Len(u)
  <2>1. u[i] \in UpMsg(mixed)
    BY ElementOfSeq
  <2> QED
    BY <1>1, <2>1, Marked
<1>3. f = [i \in 1 .. Len(u) |-> f[i]]
  BY <1>1
<1> HIDE DEF f
<1>4. f \in Seq(LateMsg(mixed))
  BY <1>1, <1>2, <1>3
<1> QED
  BY <1>4 DEF f

LEMMA LateIsUp == \A u \in Seq(LateMsg(mixed)) : u \in Seq(UpMsg(mixed))
<1>1. LateMsg(mixed) \subseteq UpMsg(mixed)
  BY DEF LateMsg
<1> QED
  BY <1>1, MoreMessages

\* Sending puts one more message on the wire, marked if there is something that
\* the browser has not received.
LEMMA UploadWire ==
    ASSUME Wire, NEW c \in Client, NEW m \in UpMsg(mixed), Upload(c, m, down'[c]),
           \/ down' = down
           \/ down[c] # <<>> /\ down' = Set(down, c, Tail(down[c])),
           mixed' = mixed
    PROVE  Wire'
<1> DEFINE x == [m EXCEPT !.late = down'[c] # <<>>]
<1>1. up' = [up EXCEPT ![c] = Append(up[c], x)]
  BY DEF Upload, Wire
<1>2. x \in UpMsg(mixed) /\ (down'[c] # <<>> => x \in LateMsg(mixed))
  BY Marked
<1> HIDE DEF x
<1>3. up' \in [Client -> Seq(UpMsg(mixed))]
  BY <1>1, <1>2 DEF Wire
<1>4. down' \in [Client -> Seq(DownMsg)] /\ (down'[c] # <<>> => down[c] # <<>>)
  <2>1. down[c] # <<>> => Tail(down[c]) \in Seq(DownMsg)
    BY HeadTailProperties DEF Wire
  <2> QED
    BY <2>1 DEF Wire, Set
<1>5. ASSUME NEW d \in Client, down'[d] # <<>> PROVE up'[d] \in Seq(LateMsg(mixed))
  <2>1. CASE d = c
    <3>1. up[c] \in Seq(LateMsg(mixed)) /\ x \in LateMsg(mixed)
      BY <1>2, <1>4, <1>5, <2>1 DEF Wire
    <3>2. up'[d] = Append(up[c], x)
      BY <1>1, <2>1 DEF Wire
    <3> QED
      BY <3>1, <3>2, AppendProperties
  <2>2. CASE d # c
    BY <1>1, <1>5, <2>2 DEF Wire, Set
  <2> QED
    BY <2>1, <2>2
<1> QED
  BY <1>3, <1>4, <1>5 DEF Wire

\* What the server says is appended, and marks what is on its way.
LEMMA SayWire ==
    ASSUME Wire, NEW rest \in [Client -> Seq(UpMsg(mixed))],
           \A d \in Client : down[d] # <<>> => rest[d] \in Seq(LateMsg(mixed)),
           NEW out \in [Client -> Seq(DownMsg)],
           Say(rest, out), mixed' = mixed
    PROVE  Wire'
<1> DEFINE mark(d) == [i \in DOMAIN rest[d] |-> [rest[d][i] EXCEPT !.late = TRUE]]
<1>1. /\ down' = [d \in Client |-> down[d] \o out[d]]
      /\ up' = [d \in Client |-> IF out[d] = <<>> THEN rest[d] ELSE mark(d)]
  BY DEF Say
<1>2. \A d \in Client : mark(d) \in Seq(LateMsg(mixed)) /\ mark(d) \in Seq(UpMsg(mixed))
  BY AllMarked, LateIsUp
<1> HIDE DEF mark
<1>3. up' \in [Client -> Seq(UpMsg(mixed))]
  BY <1>1, <1>2
<1>4. down' \in [Client -> Seq(DownMsg)]
  <2>1. \A d \in Client : down[d] \o out[d] \in Seq(DownMsg)
    BY ConcatProperties DEF Wire
  <2> QED
    BY <1>1, <2>1
<1>5. ASSUME NEW d \in Client, down'[d] # <<>> PROVE up'[d] \in Seq(LateMsg(mixed))
  <2>1. CASE out[d] = <<>>
    <3>1. down'[d] = down[d]
      <4>1. down[d] \in Seq(DownMsg) /\ down'[d] = down[d] \o <<>>
        BY <1>1, <2>1 DEF Wire
      <4> QED
        BY <4>1, ConcatEmptySeq
    <3> QED
      BY <1>1, <1>5, <2>1, <3>1
  <2>2. CASE out[d] # <<>>
    BY <1>1, <1>2, <2>2
  <2> QED
    BY <2>1, <2>2
<1> QED
  BY <1>3, <1>4, <1>5 DEF Wire

\* Taking the first message off leaves the others.
LEMMA RestWire ==
    ASSUME Wire, NEW c \in Client, up[c] # <<>>
    PROVE  /\ Rest(c) \in [Client -> Seq(UpMsg(mixed))]
           /\ \A d \in Client : down[d] # <<>> => Rest(c)[d] \in Seq(LateMsg(mixed))
           /\ Head(up[c]) \in UpMsg(mixed)
<1>1. up[c] \in Seq(UpMsg(mixed)) /\ up \in [Client -> Seq(UpMsg(mixed))]
  BY DEF Wire
<1>2. Tail(up[c]) \in Seq(UpMsg(mixed)) /\ Head(up[c]) \in UpMsg(mixed)
  BY <1>1, HeadTailProperties
<1>3. /\ Rest(c) \in [Client -> Seq(UpMsg(mixed))] /\ Rest(c)[c] = Tail(up[c])
      /\ \A d \in Client \ {c} : Rest(c)[d] = up[d]
  BY <1>1, <1>2 DEF Rest
<1>4. down[c] # <<>> => Tail(up[c]) \in Seq(LateMsg(mixed))
  BY HeadTailProperties DEF Wire
<1>5. \A d \in Client : down[d] # <<>> => Rest(c)[d] \in Seq(LateMsg(mixed))
  BY <1>3, <1>4 DEF Wire
<1> QED
  BY <1>2, <1>3, <1>5

\* One list for c, or for the others.
LEMMA OutTypes ==
    ASSUME NEW c \in Client, NEW ms \in Seq(DownMsg)
    PROVE  /\ Only(c, ms) \in [Client -> Seq(DownMsg)]
           /\ Others(c, ms) \in [Client -> Seq(DownMsg)]
<1>1. <<>> \in Seq(DownMsg)
  OBVIOUS
<1> QED
  BY <1>1 DEF Only, Others

\* The stored diffs after a version are messages of diffs.
LEMMA DiffsAfterTypes ==
    ASSUME log \in Seq(LogEntry), NEW v \in Nat, v < Version
    PROVE  DiffsAfter(v) \in Seq(DownMsg)
<1> DEFINE n == Version - v
           f == DiffsAfter(v)
<1>1. n \in Nat /\ Len(log) \in Nat /\ Version = Len(log)
  BY DEF Version
<1>2. \A i \in 1 .. n : f[i] \in DownMsg
  <2> TAKE i \in 1 .. n
  <2>1. v + i \in 1 .. Len(log) /\ v + i - 1 \in Nat
    BY <1>1
  <2>2. log[v + i] \in LogEntry
    BY <2>1, ElementOfSeq
  <2>3. f[i] = DiffMsg(v + i, log[v + i])
    BY DEF DiffsAfter
  <2> HIDE DEF f
  <2> QED
    BY <2>1, <2>2, <2>3 DEF DiffMsg, LogEntry, DownMsg, DiffDown
<1>3. f = [i \in 1 .. n |-> f[i]]
  BY DEF DiffsAfter
<1> HIDE DEF f, n
<1>4. f \in Seq(DownMsg)
  BY <1>1, <1>2, <1>3
<1> QED
  BY <1>4 DEF f

\* What a browser is told about a version.
LEMMA CatchUpTypes ==
    ASSUME log \in Seq(LogEntry), NEW v \in Nat
    PROVE  /\ Refetch \in Seq(DownMsg) /\ <<Confirm>> \in Seq(DownMsg)
           /\ <<Plain("rekey_done")>> \in Seq(DownMsg)
           /\ <<Plain("snapshot_received")>> \in Seq(DownMsg)
           /\ CanCatchUp(v) => /\ DiffsAfter(v) \in Seq(DownMsg)
                               /\ Append(DiffsAfter(v), Confirm) \in Seq(DownMsg)
<1>1. /\ Confirm \in DownMsg /\ Plain("refetch_doc") \in DownMsg
      /\ Plain("rekey_done") \in DownMsg /\ Plain("snapshot_received") \in DownMsg
  BY DEF Confirm, Plain, DownMsg, VersionDown, PlainDown, Version
<1>2. CASE CanCatchUp(v)
  <2>1. DiffsAfter(v) \in Seq(DownMsg)
    BY <1>2, DiffsAfterTypes DEF CanCatchUp
  <2> QED
    BY <1>1, <2>1, AppendProperties DEF Refetch
<1> QED
  BY <1>1, <1>2 DEF Refetch

-----------------------------------------------------------------------------
(* The server.                                                             *)

\* Answers keep what holds of the wire.
LEMMA AnswerWire ==
    ASSUME Wire, NEW c \in Client, up[c] # <<>>, NEW ms \in Seq(DownMsg), mixed' = mixed,
           Say(Rest(c), Only(c, ms)) \/ Say(Rest(c), Others(c, ms))
    PROVE  Wire'
BY RestWire, OutTypes, SayWire

\* Nothing is said.
LEMMA RestOnly ==
    ASSUME Wire, NEW c \in Client, up[c] # <<>>, up' = Rest(c), down' = down, mixed' = mixed
    PROVE  Wire'
BY RestWire DEF Wire

\* The document has the accepted diff, under the key that belongs to its salt.
LEMMA AcceptServer ==
    ASSUME Server, NEW l \in LogEntry, mixed \/ l.key = doc.epoch,
           log' = Append(log, l),
           kept' = IF kept < History THEN kept + 1 ELSE History,
           UNCHANGED <<doc, rekeying, overtaken, mixed>>
    PROVE  Server'
<1>1. /\ log \in Seq(LogEntry) /\ Version = Len(log) /\ Len(log) \in Nat
      /\ kept \in Nat /\ kept <= Version /\ History \in Nat /\ doc \in Row
  BY NumberAssumption DEF Server, Version
<1>2. /\ log' \in Seq(LogEntry) /\ Len(log') = Len(log) + 1
      /\ log'[Len(log) + 1] = l /\ \A i \in 1 .. Len(log) : log'[i] = log[i]
  BY <1>1, AppendProperties
<1>3. Version' = Version + 1
  BY <1>1, <1>2 DEF Version
<1>4. kept' \in Nat /\ kept' <= kept + 1 /\ kept' <= Version'
  BY <1>1, <1>3
<1>5. Readable'
  <2>1. CASE mixed
    BY <2>1 DEF Readable
  <2>2. CASE ~mixed
    <3>1. ASSUME NEW i \in Version' - kept' + 1 .. Version' PROVE log'[i].key = doc.epoch
      <4>1. CASE i = Len(log) + 1
        BY <1>2, <2>2, <4>1
      <4>2. CASE i # Len(log) + 1
        <5>1. i \in Version - kept + 1 .. Version /\ i \in 1 .. Len(log)
          BY <1>1, <1>2, <1>3, <1>4, <4>2
        <5> QED
          BY <1>2, <2>2, <5>1 DEF Server, Readable
      <4> QED
        BY <4>1, <4>2
    <3> QED
      BY <2>2, <3>1 DEF Server, Readable
  <2> QED
    BY <2>1, <2>2
<1>6. Covered'
  <2>1. doc.snapv \in Nat
    BY <1>1 DEF Row
  <2>2. CASE overtaken
    BY <2>2 DEF Covered
  <2>3. CASE ~overtaken
    <3>1. doc.snapv + kept' >= Version' \/ kept' = History
      BY <1>1, <1>3, <2>1, <2>3 DEF Server, Covered
    <3> QED
      BY <3>1 DEF Covered
  <2> QED
    BY <2>2, <2>3
<1> QED
  BY <1>1, <1>2, <1>4, <1>5, <1>6 DEF Server

\* Receiving a message.
LEMMA ServerReceiveKeeps ==
    ASSUME IInv, NEW c \in Client, ServerReceive(c)
    PROVE  IInv'
<1> DEFINE m == Head(up[c])
<1>1. /\ up[c] # <<>>
      /\ UNCHANGED <<copyVars, flags, keyVars, jobs, refetch, gap, tally, mixed, counters>>
  BY DEF ServerReceive
<1>2. Wire /\ Server /\ Browser /\ Unmixed
  BY DEF IInv
<1>3. Unmixed' /\ (overtaken' \in BOOLEAN => Browser')
  <2>1. Unmixed'
    BY <1>1, <1>2, SameUnmixed DEF keyVars, jobs
  <2>2. overtaken' \in BOOLEAN => Past'
    BY <1>1, <1>2 DEF Past, Browser
  <2> QED
    BY <1>1, <1>2, <2>1, <2>2, SameBrowser DEF Browser, refetch
<1>4. m \in UpMsg(mixed) /\ overtaken \in BOOLEAN
  BY <1>1, <1>2, RestWire DEF Browser, Past
<1>5. /\ log \in Seq(LogEntry) /\ Version \in Nat /\ kept \in Nat /\ kept <= Version
      /\ doc \in Row
  BY <1>2 DEF Server, Version
<1> HIDE DEF m
<1>6. ASSUME UNCHANGED <<serverVars, overtaken>>, NEW ms \in Seq(DownMsg),
             Say(Rest(c), Only(c, ms))
      PROVE  IInv'
  <2>1. Server'
    BY <1>1, <1>2, <1>6, SameServer
  <2>2. Wire'
    BY <1>1, <1>2, <1>6, AnswerWire
  <2> QED
    BY <1>3, <1>4, <1>6, <2>1, <2>2 DEF IInv
<1>7. CASE /\ m.late
           /\ Say(Rest(c), Only(c, IF m.type = "diff"
                               THEN <<Answer("reject_diff", m)>> ELSE <<>>))
           /\ UNCHANGED <<serverVars, overtaken>>
  <2>1. (IF m.type = "diff" THEN <<Answer("reject_diff", m)>> ELSE <<>>) \in Seq(DownMsg)
    <3>1. m.type = "diff" => Answer("reject_diff", m) \in DownMsg
      BY <1>4, UpTypes DEF DiffUp, DownMsg, AnswerDown, Answer
    <3> QED
      BY <3>1
  <2> QED
    BY <1>6, <1>7, <2>1
<1>8. CASE ServerCheck(c, m)
  <2> DEFINE ms == IF m.v = Version THEN <<Confirm>>
                   ELSE IF CanCatchUp(m.v) /\ ~m.offline THEN Append(DiffsAfter(m.v), Confirm)
                   ELSE Refetch
  <2>1. m.v \in Nat
    BY <1>4, <1>8, UpTypes DEF ServerCheck, CheckUp
  <2>2. ms \in Seq(DownMsg)
    BY <1>5, <2>1, CatchUpTypes
  <2>3. Say(Rest(c), Only(c, ms)) /\ UNCHANGED <<serverVars, overtaken>>
    BY <1>8 DEF ServerCheck
  <2> HIDE DEF ms
  <2> QED
    BY <1>6, <2>2, <2>3
<1>9. CASE ServerAccept(c, m)
  <2> DEFINE l == [cid |-> c, edits |-> m.edits, again |-> m.again, key |-> m.key]
             n == Version + 1
             request(d) == IF d = First /\ n % Every = 0
                           THEN <<Plain("request_snapshot")>> ELSE <<>>
             last(d) == IF d = c THEN Answer("confirm_diff", m) ELSE DiffMsg(n, l)
             out == [d \in Client |-> Append(request(d), last(d))]
  <2>1. /\ m.type = "diff" /\ Current(m)
        /\ log' = Append(log, l)
        /\ kept' = IF kept < History THEN kept + 1 ELSE History
        /\ Say(Rest(c), out)
        /\ UNCHANGED <<doc, rekeying, overtaken>>
    BY <1>9 DEF ServerAccept
  <2>2. m \in DiffUp(mixed) /\ l \in LogEntry /\ l.key = m.key
    BY <1>4, <2>1, UpTypes DEF DiffUp, LogEntry
  <2>3. mixed \/ l.key = doc.epoch
    BY <2>1, <2>2 DEF Current, DiffUp
  <2>4. \A d \in Client : last(d) \in DownMsg
    BY <1>5, <2>2 DEF DownMsg, AnswerDown, DiffDown, DiffMsg, DiffUp, LogEntry, Answer
  <2> HIDE DEF l
  <2>5. Server'
    BY <1>1, <1>2, <2>1, <2>2, <2>3, AcceptServer
  <2>6. \A d \in Client : request(d) \in Seq(DownMsg)
    <3>1. Plain("request_snapshot") \in DownMsg
      BY DEF Plain, DownMsg, PlainDown
    <3> QED
      BY <3>1
  <2> HIDE DEF request, last
  <2>7. out \in [Client -> Seq(DownMsg)]
    BY <2>4, <2>6, AppendProperties
  <2> HIDE DEF out
  <2>8. Wire'
    BY <1>1, <1>2, <2>1, <2>7, RestWire, SayWire
  <2> QED
    BY <1>3, <1>4, <2>1, <2>5, <2>8 DEF IInv
<1>10. CASE ServerRefuse(c, m)
  <2>1. Answer("reject_diff", m) \in DownMsg
    BY <1>4, <1>10, UpTypes DEF ServerRefuse, DiffUp, DownMsg, AnswerDown, Answer
  <2>2. <<Answer("reject_diff", m)>> \in Seq(DownMsg)
    BY <2>1
  <2> QED
    BY <1>6, <1>10, <2>2 DEF ServerRefuse
<1>11. CASE ServerOutdated(c, m)
  <2> DEFINE ms == IF CanCatchUp(m.v) THEN DiffsAfter(m.v) ELSE Refetch
  <2>1. m.v \in Nat
    BY <1>4, <1>11, UpTypes DEF ServerOutdated, DiffUp
  <2>2. ms \in Seq(DownMsg)
    BY <1>5, <2>1, CatchUpTypes
  <2>3. Say(Rest(c), Only(c, ms)) /\ UNCHANGED <<serverVars, overtaken>>
    BY <1>11 DEF ServerOutdated
  <2> HIDE DEF ms
  <2> QED
    BY <1>6, <2>2, <2>3
<1>12. CASE ServerSnapshot(c, m)
  <2>1. CASE Current(m) /\ Exact(m)
    <3>1. /\ doc' = [doc EXCEPT !.text = m.text, !.key = m.key, !.snapv = m.v]
          /\ Say(Rest(c), Others(c, <<Plain("snapshot_received")>>))
          /\ overtaken' = FALSE
          /\ UNCHANGED <<log, kept, rekeying>>
      BY <1>12, <2>1 DEF ServerSnapshot
    <3>2. m \in SnapshotUp(mixed) /\ (mixed \/ m.key = doc.epoch) /\ m.v = Version
      BY <1>4, <1>12, <2>1, UpTypes DEF ServerSnapshot, SnapshotUp, Current, Exact
    <3>3. /\ doc' \in Row /\ doc'.key = m.key /\ doc'.epoch = doc.epoch
          /\ doc'.snapv = Version
      BY <1>5, <3>1, <3>2 DEF Row, SnapshotUp
    <3>4. Wire'
      BY <1>1, <1>2, <1>5, <3>1, CatchUpTypes, AnswerWire
    <3>5. Version' = Version
      BY <3>1 DEF Version
    <3>6. Readable'
      BY <1>1, <1>2, <3>1, <3>2, <3>3, <3>5 DEF Server, Readable
    <3>7. Covered'
      BY <1>5, <3>1, <3>3, <3>5 DEF Covered
    <3>8. Server'
      BY <1>2, <1>5, <3>1, <3>3, <3>5, <3>6, <3>7 DEF Server
    <3> QED
      BY <1>3, <3>1, <3>4, <3>8 DEF IInv
  <2>2. CASE ~(Current(m) /\ Exact(m))
    <3>1. up' = Rest(c) /\ UNCHANGED <<doc, down, overtaken, log, kept, rekeying>>
      BY <1>12, <2>2 DEF ServerSnapshot
    <3>2. Wire' /\ Server'
      BY <1>1, <1>2, <3>1, RestOnly, SameServer DEF serverVars
    <3> QED
      BY <1>3, <1>4, <3>1, <3>2 DEF IInv
  <2> QED
    BY <2>1, <2>2
<1>13. CASE ServerRekey(c, m)
  <2>1. /\ m.type = "rekey" /\ up' = Rest(c) /\ UNCHANGED <<log, kept, doc, down, overtaken>>
        /\ rekeying' = IF Exact(m) THEN [c |-> c, m |-> m] ELSE None
    BY <1>13 DEF ServerRekey
  <2>2. Wire'
    BY <1>1, <1>2, <2>1, RestOnly
  <2>3. rekeying' # None => rekeying' \in [c: Client, m: RekeyUp]
    BY <1>4, <2>1, UpTypes
  <2>4. Version' = Version
    BY <2>1 DEF Version
  <2>5. Server'
    BY <1>1, <1>2, <2>1, <2>3, <2>4 DEF Server, Readable, Covered
  <2> QED
    BY <1>3, <1>4, <2>1, <2>2, <2>5 DEF IInv
<1> QED
  BY <1>7, <1>8, <1>9, <1>10, <1>11, <1>12, <1>13 DEF ServerReceive, m

\* The new content is under the new key, and no older diff is kept.
LEMMA ApplyRekeyKeeps ==
    ASSUME IInv, ApplyRekey
    PROVE  IInv'
<1> DEFINE r == rekeying.m
           out == [d \in Client |-> IF d = rekeying.c THEN <<Plain("rekey_done")>> ELSE Refetch]
<1>1. /\ rekeying # None /\ rekeying' = None
      /\ doc' = RekeyedDoc(r) /\ kept' = 0 /\ Say(up, out)
      /\ overtaken' = ~Exact(r)
      /\ UNCHANGED <<log, copyVars, flags, keyVars, jobs, refetch, gap, tally, mixed, counters>>
  BY DEF ApplyRekey
<1>2. Wire /\ Server /\ Browser /\ Unmixed
  BY DEF IInv
<1>3. r \in RekeyUp /\ log \in Seq(LogEntry) /\ Version \in Nat
  BY <1>1, <1>2 DEF Server, Version
<1>4. Browser' /\ Unmixed'
  <2>1. Unmixed'
    BY <1>1, <1>2, SameUnmixed DEF keyVars, jobs
  <2>2. Past'
    BY <1>1, <1>2 DEF Past, Browser
  <2> QED
    BY <1>1, <1>2, <2>1, <2>2, SameBrowser DEF Browser, refetch
<1>5. Wire'
  <2>1. out \in [Client -> Seq(DownMsg)]
    BY <1>3, CatchUpTypes
  <2> HIDE DEF out
  <2>2. /\ up \in [Client -> Seq(UpMsg(mixed))]
        /\ \A d \in Client : down[d] # <<>> => up[d] \in Seq(LateMsg(mixed))
    BY <1>2 DEF Wire
  <2> QED
    BY <1>1, <1>2, <2>1, <2>2, SayWire
<1>6. Server'
  <2>1. /\ doc' \in Row /\ doc'.key = doc'.epoch /\ doc'.snapv = r.v
        /\ Version' = Version
    BY <1>1, <1>3 DEF RekeyedDoc, Row, RekeyUp, Version
  <2>2. Readable'
    BY <1>1, <1>3, <2>1 DEF Readable
  <2>3. Covered'
    <3>1. CASE Exact(r)
      <4>1. doc'.snapv + kept' >= Version'
        BY <1>1, <1>3, <2>1, <3>1 DEF Exact
      <4> QED
        BY <4>1 DEF Covered
    <3>2. CASE ~Exact(r)
      BY <1>1, <3>2 DEF Covered
    <3> QED
      BY <3>1, <3>2
  <2> QED
    BY <1>1, <1>3, <2>1, <2>2, <2>3 DEF Server
<1> QED
  BY <1>4, <1>5, <1>6 DEF IInv

\* A change of password that is refused leaves the document alone.
LEMMA RefuseKeeps ==
    ASSUME IInv, RefuseRekey
    PROVE  IInv'
<1>1. /\ rekeying' = None
      /\ UNCHANGED <<log, kept, doc, wires, copyVars, flags, keyVars, jobs, refetch,
                     history, counters>>
  BY DEF RefuseRekey
<1>2. Wire /\ Server /\ Browser /\ Unmixed
  BY DEF IInv
<1>3. mixed' = mixed /\ overtaken' = overtaken /\ UNCHANGED <<up, down>> /\ Version' = Version
  BY <1>1 DEF history, wires, Version
<1>4. Browser'
  BY <1>1, <1>2, SameBrowser DEF Browser, refetch
<1>5. Unmixed'
  BY <1>1, <1>2, <1>3, SameUnmixed DEF keyVars, jobs
<1>6. Wire'
  BY <1>2, <1>3 DEF Wire
<1>7. Server'
  BY <1>1, <1>2, <1>3 DEF Server, Readable, Covered
<1> QED
  BY <1>4, <1>5, <1>6, <1>7 DEF IInv

-----------------------------------------------------------------------------
(* The browsers.                                                           *)

\* Nothing on the wire and at the server changes.
LEMMA Elsewhere ==
    ASSUME Wire, Server, UNCHANGED <<serverVars, wires, mixed, overtaken>>
    PROVE  Wire' /\ Server'
<1>1. UNCHANGED <<up, down>>
  BY DEF wires
<1> QED
  BY <1>1, SameServer DEF Wire

\* Typing, the timers, and the start of what takes time.
LEMMA StartsKeep ==
    ASSUME IInv, NEW c \in Client,
           \/ Type(c) \/ StartSend(c) \/ SendRaises(c) \/ Timeout(c) \/ RekeyTimeout(c)
    PROVE  IInv'
<1>1. Wire /\ Server /\ Browser /\ Unmixed
  BY DEF IInv
<1>2. CASE Type(c)
  <2>1. /\ typed' = typed + 1 /\ typed < MaxEdits
        /\ pend' = [pend EXCEPT ![c] = @ \cup {typed + 1}]
        /\ UNCHANGED <<serverVars, wires, ver, text, unconf, flags, keyVars, jobs,
                       refetch, history, events>>
    BY <1>2 DEF Type
  <2>2. typed + 1 \in Edit /\ typed + 1 \in 0 .. MaxEdits
    BY <1>1, <2>1, NumberAssumption DEF Browser, Counts, Edit
  <2>3. Copies' /\ Counts'
    <3>1. pend[c] \cup {typed + 1} \in Edits
      BY <1>1, <2>2 DEF Browser, Copies, Edits
    <3> QED
      BY <1>1, <2>1, <2>2, <3>1 DEF Browser, Copies, Counts
  <2>4. Browser'
    BY <1>1, <2>1, <2>3, SameBrowser DEF Browser, refetch
  <2>5. Unmixed' /\ UNCHANGED <<mixed, overtaken>>
    BY <1>1, <2>1, SameUnmixed DEF keyVars, jobs, history
  <2> QED
    BY <1>1, <2>1, <2>4, <2>5, Elsewhere DEF IInv
<1>3. CASE StartSend(c)
  <2> DEFINE d == Diff(c, FALSE)
  <2>1. /\ await' = Set(await, c, TRUE)
        /\ unconf' = [unconf EXCEPT ![c] = @ \cup {Rid(d)}]
        /\ sending' = [sending EXCEPT ![c] = Append(@, d)]
        /\ UNCHANGED <<serverVars, wires, ver, text, pend, checking, keyVars,
                       snap, change, dec, refetch, history, counters>>
    BY <1>3 DEF StartSend
  <2>2. /\ d \in DiffJob /\ d.key = key[c]
        /\ Rid(d) \in [edits: Edits, again: BOOLEAN]
    BY <1>1 DEF Browser, Copies, Epochs, Diff, Rid, DiffJob
  <2> HIDE DEF d
  <2>3. Copies'
    BY <1>1, <2>1, <2>2 DEF Browser, Copies
  <2>4. Flags'
    BY <1>1, <2>1 DEF Browser, Flags, Set
  <2>5. Append(sending[c], d) \in Seq(DiffJob)
    BY <1>1, <2>2, AppendProperties DEF Browser, Doing
  <2>6. Doing'
    BY <1>1, <2>1, <2>5 DEF Browser, Doing
  <2>7. Browser'
    BY <1>1, <2>1, <2>3, <2>4, <2>6, SameBrowser DEF Browser, refetch
  <2>8. Unmixed'
    <3>1. UNCHANGED <<key, salt, skey, snap, mixed>>
      BY <2>1 DEF keyVars, history
    <3>2. ASSUME ~mixed, NEW e \in Client PROVE OneEpoch(e)'
      <4>1. OneEpoch(e) /\ OneEpoch(c)
        BY <1>1, <3>2 DEF Unmixed
      <4>2. CASE e = c
        <5>1. d \in Under(salt[c]) /\ sending[c] \in Seq(Under(salt[c]))
          BY <2>2, <4>1 DEF Under, OneEpoch
        <5>2. Append(sending[c], d) \in Seq(Under(salt[c]))
          BY <5>1, AppendProperties
        <5>3. sending'[c] = Append(sending[c], d)
          BY <1>1, <2>1 DEF Browser, Doing
        <5> QED
          BY <3>1, <4>1, <4>2, <5>2, <5>3 DEF OneEpoch
      <4>3. CASE e # c
        <5>1. sending'[e] = sending[e]
          BY <1>1, <2>1, <4>3 DEF Browser, Doing
        <5> QED
          BY <3>1, <4>1, <5>1 DEF OneEpoch
      <4> QED
        BY <4>2, <4>3
    <3> QED
      BY <3>1, <3>2 DEF Unmixed
  <2>9. UNCHANGED <<mixed, overtaken>>
    BY <2>1 DEF history
  <2> QED
    BY <1>1, <2>1, <2>7, <2>8, <2>9, Elsewhere DEF IInv
<1>4. CASE SendRaises(c) \/ Timeout(c)
  <2>1. /\ \/ await' = Set(await, c, TRUE) /\ checking' = checking
           \/ await' = Set(await, c, FALSE) /\ checking' = Set(checking, c, FALSE)
        /\ UNCHANGED <<serverVars, wires, copyVars, keyVars, jobs, refetch, history, counters>>
    BY <1>4 DEF SendRaises, Timeout
  <2>2. Flags'
    BY <1>1, <2>1 DEF Browser, Flags, Set
  <2>3. Browser'
    BY <1>1, <2>1, <2>2, SameBrowser DEF Browser, refetch
  <2>4. Unmixed' /\ UNCHANGED <<mixed, overtaken>>
    BY <1>1, <2>1, SameUnmixed DEF keyVars, jobs, history
  <2> QED
    BY <1>1, <2>1, <2>3, <2>4, Elsewhere DEF IInv
<1>5. CASE RekeyTimeout(c)
  <2>1. /\ asked' = Set(asked, c, 0)
        /\ events' = events \/ (events < MaxEvents /\ events' = events + 1)
        /\ UNCHANGED <<serverVars, wires, copyVars, flags, key, salt, skey, jobs,
                       refetch, history, typed>>
    BY <1>5 DEF RekeyTimeout
  <2>2. events' \in 0 .. MaxEvents /\ 0 \in Epoch
    BY <1>1, <2>1, NumberAssumption DEF Browser, Counts, Epoch
  <2>3. Epochs' /\ Counts'
    BY <1>1, <2>1, <2>2 DEF Browser, Epochs, Counts, Set
  <2>4. Browser'
    BY <1>1, <2>1, <2>3, SameBrowser DEF Browser, refetch
  <2>5. Unmixed' /\ UNCHANGED <<mixed, overtaken>>
    BY <1>1, <2>1, SameUnmixed DEF jobs, history
  <2> QED
    BY <1>1, <2>1, <2>4, <2>5, Elsewhere DEF IInv
<1> QED
  BY <1>2, <1>3, <1>4, <1>5

\* A job's version is a number.
LEMMA InfoTypes ==
    ASSUME Copies, NEW c \in Client, NEW job, job.info \in Infos
    PROVE  InfoVersion(c, job) \in Nat
BY DEF Copies, InfoVersion, Infos

\* The change of password is begun; while a snapshot is made, it is only begun in
\* the browser.
LEMMA StartRekeyKeeps ==
    ASSUME IInv, NEW c \in Client, StartRekey(c)
    PROVE  IInv'
<1>1. Wire /\ Server /\ Browser /\ Unmixed
  BY DEF IInv
<1>2. /\ events < MaxEvents /\ events' = events + 1
      /\ UNCHANGED <<serverVars, wires, copyVars, flags, skey, asked,
                     sending, snap, dec, refetch, gap, tally, overtaken, typed>>
  BY DEF StartRekey
<1>3. events + 1 \in Epoch /\ events + 1 \in 0 .. MaxEvents
  BY <1>1, <1>2, NumberAssumption DEF Browser, Counts, Epoch
<1>4. Counts'
  BY <1>1, <1>2, <1>3 DEF Browser, Counts
<1>5. CASE PendingSave(c)
  <2>1. /\ key' = Set(key, c, events + 1) /\ salt' = Set(salt, c, events + 1)
        /\ mixed' = TRUE /\ change' = change
    BY <1>5 DEF StartRekey
  <2>2. Epochs' /\ Past' /\ Doing'
    BY <1>1, <1>2, <1>3, <2>1 DEF Browser, Epochs, Past, Doing, Set
  <2>3. Browser'
    BY <1>1, <1>2, <1>4, <2>2, SameBrowser DEF Browser, refetch
  <2>4. Wire' /\ Server'
    BY <1>1, <1>2, <2>1, MoreMixed, SameServer DEF Browser, Past
  <2> QED
    BY <2>1, <2>3, <2>4 DEF IInv, Unmixed
<1>6. CASE ~PendingSave(c)
  <2> DEFINE j == [epoch |-> events + 1, text |-> text[c] \cup pend[c], info |-> None]
  <2>1. change' = Set(change, c, j) /\ UNCHANGED <<key, salt, mixed>>
    BY <1>6 DEF StartRekey
  <2>2. j \in ChangeJob
    BY <1>1, <1>3 DEF Browser, Copies, Edits, ChangeJob, Infos
  <2> HIDE DEF j
  <2>3. Epochs' /\ Past' /\ Doing'
    BY <1>1, <1>2, <2>1, <2>2 DEF Browser, Epochs, Past, Doing, Set
  <2>4. Browser'
    BY <1>1, <1>2, <1>4, <2>3, SameBrowser DEF Browser, refetch
  <2>5. Unmixed' /\ Wire' /\ Server'
    BY <1>1, <1>2, <2>1, SameUnmixed, Elsewhere
  <2> QED
    BY <2>4, <2>5 DEF IInv
<1> QED
  BY <1>5, <1>6

\* What was encrypted is sent with the salt of now, which is that of the key
\* unless the browser has had two epochs at once.
LEMMA FinishSendKeeps ==
    ASSUME IInv, NEW c \in Client, FinishSend(c)
    PROVE  IInv'
<1> DEFINE s == Head(sending[c])
           m == [type |-> "diff", v |-> s.v, edits |-> s.edits, again |-> s.again,
                 key |-> s.key, salt |-> salt[c], late |-> FALSE]
<1>1. Wire /\ Server /\ Browser /\ Unmixed
  BY DEF IInv
<1>2. /\ sending[c] # <<>> /\ Upload(c, m, down[c])
      /\ sending' = Set(sending, c, Tail(sending[c]))
      /\ UNCHANGED <<serverVars, down, copyVars, flags, keyVars,
                     snap, change, dec, refetch, history, counters>>
  BY DEF FinishSend
<1>3. UNCHANGED <<key, salt, skey, snap, mixed, overtaken>>
  BY <1>2 DEF keyVars, history
<1>4. sending[c] \in Seq(DiffJob)
  BY <1>1 DEF Browser, Doing
<1>5. s \in DiffJob /\ Tail(sending[c]) \in Seq(DiffJob)
  BY <1>2, <1>4, HeadTailProperties
<1>6. ~mixed => s.key = salt[c]
  <2> SUFFICES ASSUME ~mixed PROVE s.key = salt[c]
    OBVIOUS
  <2>1. sending[c] \in Seq(Under(salt[c]))
    BY <1>1 DEF Unmixed, OneEpoch
  <2>2. s \in Under(salt[c])
    BY <1>2, <2>1, HeadTailProperties
  <2> QED
    BY <2>2 DEF Under
<1> HIDE DEF s
<1>7. m \in UpMsg(mixed)
  BY <1>1, <1>5, <1>6 DEF Browser, Epochs, DiffJob, UpMsg, DiffUp
<1> HIDE DEF m
<1>8. Wire'
  BY <1>1, <1>2, <1>3, <1>7, UploadWire
<1>9. Server'
  BY <1>1, <1>2, <1>3, SameServer
<1>10. Doing'
  BY <1>1, <1>2, <1>5 DEF Browser, Doing, Set
<1>11. Browser'
  BY <1>1, <1>2, <1>10, SameBrowser DEF Browser, refetch
<1>12. Unmixed'
  <2>1. ASSUME ~mixed, NEW e \in Client PROVE OneEpoch(e)'
    <3>1. OneEpoch(e) /\ OneEpoch(c)
      BY <1>1, <2>1 DEF Unmixed
    <3>2. CASE e = c
      <4>1. Tail(sending[c]) \in Seq(Under(salt[c]))
        BY <1>2, <3>1, HeadTailProperties DEF OneEpoch
      <4>2. sending'[c] = Tail(sending[c])
        BY <1>1, <1>2 DEF Browser, Doing, Set
      <4> QED
        BY <1>3, <3>1, <3>2, <4>1, <4>2 DEF OneEpoch
    <3>3. CASE e # c
      <4>1. sending'[e] = sending[e]
        BY <1>1, <1>2, <3>3 DEF Browser, Doing, Set
      <4> QED
        BY <1>3, <3>1, <4>1 DEF OneEpoch
    <3> QED
      BY <3>2, <3>3
  <2> QED
    BY <1>3, <2>1 DEF Unmixed
<1> QED
  BY <1>8, <1>9, <1>11, <1>12 DEF IInv

LEMMA FinishRekeyKeeps ==
    ASSUME IInv, NEW c \in Client, FinishRekey(c)
    PROVE  IInv'
<1> DEFINE m == [type |-> "rekey", v |-> InfoVersion(c, change[c]), text |-> change[c].text,
                 epoch |-> change[c].epoch, late |-> FALSE]
<1>1. Wire /\ Server /\ Browser /\ Unmixed
  BY DEF IInv
<1>2. /\ change[c] # None /\ Upload(c, m, down[c])
      /\ asked' = Set(asked, c, change[c].epoch)
      /\ change' = Set(change, c, None)
      /\ UNCHANGED <<serverVars, down, copyVars, flags, key, salt, skey,
                     sending, snap, dec, refetch, history, counters>>
  BY DEF FinishRekey
<1>3. change[c] \in ChangeJob
  BY <1>1, <1>2 DEF Browser, Doing
<1>4. change[c].epoch \in Epoch /\ InfoVersion(c, change[c]) \in Nat /\ change[c].text \in Edits
  BY <1>1, <1>3, InfoTypes DEF Browser, ChangeJob
<1>5. m \in UpMsg(mixed)
  BY <1>4 DEF UpMsg, RekeyUp
<1> HIDE DEF m
<1>6. Wire' /\ Server'
  BY <1>1, <1>2, <1>5, UploadWire, SameServer DEF history
<1>7. Doing' /\ Epochs'
  BY <1>1, <1>2, <1>4 DEF Browser, Doing, Epochs, Set
<1>8. Browser' /\ Unmixed'
  BY <1>1, <1>2, <1>7, SameBrowser, SameUnmixed DEF Browser, refetch, history
<1> QED
  BY <1>6, <1>8 DEF IInv

LEMMA FinishSnapshotKeeps ==
    ASSUME IInv, NEW c \in Client, FinishSnapshot(c)
    PROVE  IInv'
<1> DEFINE m == [type |-> "snapshot", v |-> InfoVersion(c, snap[c]), text |-> snap[c].text,
                 key |-> snap[c].key, salt |-> salt[c], late |-> FALSE]
<1>1. Wire /\ Server /\ Browser /\ Unmixed
  BY DEF IInv
<1>2. /\ snap[c] # None /\ Upload(c, m, down[c])
      /\ snap' = Set(snap, c, None)
      /\ UNCHANGED <<serverVars, down, copyVars, flags, keyVars,
                     sending, change, dec, refetch, history, counters>>
  BY DEF FinishSnapshot
<1>3. UNCHANGED <<key, salt, skey, mixed, overtaken>>
  BY <1>2 DEF keyVars, history
<1>4. snap[c] \in SnapJob /\ (mixed \/ snap[c].key = salt[c])
  BY <1>1, <1>2 DEF Browser, Doing, Unmixed, OneEpoch
<1>5. InfoVersion(c, snap[c]) \in Nat
  BY <1>1, <1>4, InfoTypes DEF Browser, SnapJob
<1>6. m \in UpMsg(mixed)
  BY <1>1, <1>4, <1>5 DEF Browser, Epochs, SnapJob, UpMsg, SnapshotUp
<1> HIDE DEF m
<1>7. Wire' /\ Server'
  BY <1>1, <1>2, <1>3, <1>6, UploadWire, SameServer
<1>8. Doing'
  BY <1>1, <1>2 DEF Browser, Doing, Set
<1>9. Browser'
  BY <1>1, <1>2, <1>8, SameBrowser DEF Browser, refetch
<1>10. Unmixed'
  BY <1>1, <1>2, <1>3 DEF Browser, Doing, Set, Unmixed, OneEpoch
<1> QED
  BY <1>7, <1>9, <1>10 DEF IInv

\* A connection that is made again starts with a check of the version.
LEMMA ReconnectKeeps ==
    ASSUME IInv, NEW c \in Client, Reconnect(c)
    PROVE  IInv'
<1> DEFINE m == [type |-> "check", v |-> ver[c], offline |-> pend[c] # {}, late |-> FALSE]
<1>1. Wire /\ Server /\ Browser /\ Unmixed
  BY DEF IInv
<1>2. /\ events < MaxEvents /\ events' = events + 1
      /\ down' = Set(down, c, <<>>) /\ up' = Set(up, c, <<m>>)
      /\ await' = Set(await, c, TRUE) /\ checking' = Set(checking, c, TRUE)
      /\ UNCHANGED <<serverVars, copyVars, keyVars, jobs, refetch, history, typed>>
  BY DEF Reconnect
<1>3. m \in UpMsg(mixed)
  BY <1>1 DEF Browser, Copies, UpMsg, CheckUp
<1> HIDE DEF m
<1>4. UNCHANGED <<mixed, overtaken>>
  BY <1>2 DEF history
<1>5. Wire'
  <2>1. <<m>> \in Seq(UpMsg(mixed)) /\ <<>> \in Seq(DownMsg)
    BY <1>3
  <2> QED
    BY <1>1, <1>2, <1>4, <2>1 DEF Wire, Set
<1>6. Flags' /\ Counts'
  BY <1>1, <1>2, NumberAssumption DEF Browser, Flags, Counts, Set
<1>7. Browser' /\ Unmixed' /\ Server'
  BY <1>1, <1>2, <1>4, <1>6, SameBrowser, SameUnmixed, SameServer
     DEF Browser, refetch, keyVars, jobs
<1> QED
  BY <1>5, <1>7 DEF IInv

-----------------------------------------------------------------------------
(* Loading the stored document.                                            *)

\* get_doc_data.
LEMMA FetchServeKeeps ==
    ASSUME IInv, NEW c \in Client, FetchServe(c)
    PROVE  IInv'
<1>1. Wire /\ Server /\ Browser /\ Unmixed
  BY DEF IInv
<1>2. /\ fetch' = Set(fetch, c, [open |-> TRUE, row |-> doc])
      /\ UNCHANGED <<serverVars, wires, copyVars, flags, keyVars, jobs, load, history, counters>>
  BY DEF FetchServe
<1>3. Fetches'
  BY <1>1, <1>2 DEF Browser, Fetches, Server, Set
<1>4. Browser'
  BY <1>1, <1>2, <1>3, SameBrowser DEF Browser
<1>5. Unmixed' /\ Wire' /\ Server'
  BY <1>1, <1>2, SameUnmixed, Elsewhere DEF keyVars, jobs, history
<1> QED
  BY <1>4, <1>5 DEF IInv

\* What has taken hold of the docInfo in use keeps its version, and what it is
\* encrypted with.
LEMMA KeepsTypes ==
    ASSUME Copies, NEW c \in Client
    PROVE  /\ snap[c] \in {None} \cup SnapJob =>
                /\ Keeps(c, snap[c]) \in {None} \cup SnapJob
                /\ Keeps(c, snap[c]) # None =>
                       snap[c] # None /\ Keeps(c, snap[c]).key = snap[c].key
           /\ change[c] \in {None} \cup ChangeJob =>
                Keeps(c, change[c]) \in {None} \cup ChangeJob
<1>1. ASSUME NEW j, j.info \in Infos PROVE <<InfoVersion(c, j)>> \in Infos
  BY <1>1, InfoTypes DEF Infos
<1>2. ASSUME NEW j \in SnapJob
      PROVE  Keeps(c, j) \in {None} \cup SnapJob /\ (Keeps(c, j) # None => Keeps(c, j).key = j.key)
  BY <1>1 DEF Keeps, SnapJob
<1>3. ASSUME NEW j \in ChangeJob PROVE Keeps(c, j) \in {None} \cup ChangeJob
  BY <1>1 DEF Keeps, ChangeJob
<1>4. Keeps(c, None) = None
  BY DEF Keeps
<1>5. CASE snap[c] = None
  <2>1. Keeps(c, snap[c]) = None
    BY <1>4, <1>5
  <2> QED
    BY <1>3, <1>4, <2>1
<1>6. CASE snap[c] # None
  BY <1>2, <1>3, <1>4, <1>6
<1> QED
  BY <1>5, <1>6

LEMMA LoadBeginKeeps ==
    ASSUME IInv, NEW c \in Client, LoadBegin(c)
    PROVE  IInv'
<1> DEFINE d == Diff(c, TRUE)
           resends == await[c] /\ pend[c] # {}
           row == fetch[c].row
           l == [row |-> row, stage |-> "begun", base |-> FALSE]
<1>1. Wire /\ Server /\ Browser /\ Unmixed
  BY DEF IInv
<1>2. /\ row # None
      /\ unconf' = Set(unconf, c, IF resends THEN {Rid(d)} ELSE {})
      /\ sending' = IF resends THEN [sending EXCEPT ![c] = Append(@, d)] ELSE sending
      /\ await' = Set(await, c, resends)
      /\ tally' = Set(tally, c, IF resends THEN "off" ELSE "loaded")
      /\ checking' = Set(checking, c, FALSE)
      /\ ver' = Set(ver, c, LoadedVersion(row))
      /\ load' = Set(load, c, l)
      /\ fetch' = Set(fetch, c, NoFetch)
      /\ snap' = Set(snap, c, Keeps(c, snap[c]))
      /\ change' = Set(change, c, Keeps(c, change[c]))
      /\ UNCHANGED <<serverVars, wires, text, pend, keyVars, dec, gap, mixed, overtaken, counters>>
  BY DEF LoadBegin
<1>3. row \in Row /\ row.snapv \in Nat
  BY <1>1, <1>2 DEF Browser, Fetches, Row
<1>4. /\ d \in DiffJob /\ d.key = key[c]
      /\ Rid(d) \in [edits: Edits, again: BOOLEAN]
  BY <1>1 DEF Browser, Copies, Epochs, Diff, Rid, DiffJob
<1>5. resends \in BOOLEAN
  BY <1>1 DEF Browser, Flags
<1>6. l \in LoadJob
  BY <1>3 DEF LoadJob
<1> HIDE DEF d, resends, row, l
<1>7. Copies'
  <2>1. (IF resends THEN {Rid(d)} ELSE {}) \in SUBSET [edits: Edits, again: BOOLEAN]
    BY <1>4
  <2> QED
    BY <1>1, <1>2, <1>3, <2>1 DEF Browser, Copies, Set, LoadedVersion
<1>8. Flags' /\ Fetches' /\ Fresh' /\ Past'
  <2>1. Flags' /\ Past'
    BY <1>1, <1>2, <1>5 DEF Browser, Flags, Past, Set
  <2>2. Fetches'
    BY <1>1, <1>2 DEF Browser, Fetches, Set, NoFetch
  <2>3. Fresh'
    BY <1>1, <1>2, <1>6 DEF Browser, Fresh, Set
  <2> QED
    BY <2>1, <2>2, <2>3
<1>9. Doing'
  <2>1. Append(sending[c], d) \in Seq(DiffJob)
    BY <1>1, <1>4, AppendProperties DEF Browser, Doing
  <2>2. sending' \in [Client -> Seq(DiffJob)]
    BY <1>1, <1>2, <2>1 DEF Browser, Doing
  <2>3. /\ Keeps(c, snap[c]) \in {None} \cup SnapJob
        /\ Keeps(c, change[c]) \in {None} \cup ChangeJob
    BY <1>1, KeepsTypes DEF Browser, Doing
  <2>4. snap' = [snap EXCEPT ![c] = Keeps(c, snap[c])]
    BY <1>2 DEF Set
  <2>5. change' = [change EXCEPT ![c] = Keeps(c, change[c])]
    BY <1>2 DEF Set
  <2>6. snap' \in [Client -> {None} \cup SnapJob]
    BY <1>1, <2>3, <2>4 DEF Browser, Doing
  <2>7. change' \in [Client -> {None} \cup ChangeJob]
    BY <1>1, <2>3, <2>5 DEF Browser, Doing
  <2> QED
    BY <1>1, <1>2, <2>2, <2>6, <2>7 DEF Browser, Doing
<1>10. Browser'
  BY <1>1, <1>2, <1>7, <1>8, <1>9, SameBrowser DEF Browser
<1>11. Unmixed'
  <2>1. ASSUME ~mixed, NEW e \in Client PROVE OneEpoch(e)'
    <3>1. OneEpoch(e) /\ OneEpoch(c) /\ UNCHANGED <<key, salt, skey>>
      BY <1>1, <1>2, <2>1 DEF Unmixed, keyVars
    <3>2. CASE e = c
      <4>1. d \in Under(salt[c]) /\ sending[c] \in Seq(Under(salt[c]))
        BY <1>4, <3>1 DEF Under, OneEpoch
      <4>2. Append(sending[c], d) \in Seq(Under(salt[c]))
        BY <4>1, AppendProperties
      <4>3. sending'[c] = IF resends THEN Append(sending[c], d) ELSE sending[c]
        BY <1>1, <1>2 DEF Browser, Doing
      <4>4. snap'[c] # None => snap'[c].key = salt[c]
        BY <1>1, <1>2, <3>1, KeepsTypes DEF Browser, Doing, Set, OneEpoch
      <4>5. sending'[c] \in Seq(Under(salt[c]))
        BY <4>1, <4>2, <4>3
      <4> QED
        BY <3>1, <3>2, <4>4, <4>5 DEF OneEpoch
    <3>3. CASE e # c
      <4>1. sending'[e] = sending[e] /\ snap'[e] = snap[e]
        BY <1>1, <1>2, <3>3 DEF Browser, Doing, Set
      <4> QED
        BY <3>1, <4>1 DEF OneEpoch
    <3> QED
      BY <3>2, <3>3
  <2> QED
    BY <1>2, <2>1 DEF Unmixed
<1>12. Wire' /\ Server'
  BY <1>1, <1>2, Elsewhere
<1> QED
  BY <1>10, <1>11, <1>12 DEF IInv

\* New keys: unless they cross an encryption under way, the browser has one epoch
\* for all it does.
LEMMA NewKeys ==
    ASSUME Browser, Unmixed, NEW c \in Client, NEW epoch \in Epoch,
           key' = Set(key, c, epoch), salt' = Set(salt, c, epoch), skey' = Set(skey, c, epoch),
           mixed' = (mixed \/ Crossing(c, epoch)), UNCHANGED <<sending, snap>>
    PROVE  Unmixed'
<1>1. ASSUME ~mixed, ~Crossing(c, epoch), NEW e \in Client PROVE OneEpoch(e)'
  <2>1. OneEpoch(e) /\ OneEpoch(c)
    BY <1>1 DEF Unmixed
  <2>2. CASE e = c
    <3>1. key'[c] = epoch /\ salt'[c] = epoch /\ skey'[c] = epoch
      BY DEF Browser, Epochs, Set
    <3>2. CASE salt[c] = epoch
      BY <2>1, <2>2, <3>1, <3>2 DEF OneEpoch
    <3>3. CASE sending[c] = <<>> /\ snap[c] = None
      <4>1. <<>> \in Seq(Under(epoch))
        OBVIOUS
      <4> QED
        BY <2>2, <3>1, <3>3, <4>1 DEF OneEpoch
    <3> QED
      BY <1>1, <3>2, <3>3 DEF Crossing
  <2>3. CASE e # c
    <3>1. key'[e] = key[e] /\ salt'[e] = salt[e] /\ skey'[e] = skey[e]
      BY <2>3 DEF Browser, Epochs, Set
    <3> QED
      BY <2>1, <3>1 DEF OneEpoch
  <2> QED
    BY <2>2, <2>3
<1> QED
  BY <1>1 DEF Unmixed

\* A load goes on.
LEMMA StageTypes ==
    ASSUME Fresh, NEW c \in Client, NEW from, NEW to \in {"keyed", "shown"},
           Stage(c, from, to)
    PROVE  Fresh' /\ load[c] # None /\ load[c] \in LoadJob /\ load[c].row \in Row
BY DEF Fresh, Stage, LoadJob

LEMMA LoadKeysKeeps ==
    ASSUME IInv, NEW c \in Client, LoadKeys(c)
    PROVE  IInv'
<1> DEFINE epoch == load[c].row.epoch
<1>1. Wire /\ Server /\ Browser /\ Unmixed
  BY DEF IInv
<1>2. /\ Stage(c, "begun", "keyed")
      /\ key' = Set(key, c, epoch) /\ salt' = Set(salt, c, epoch) /\ skey' = Set(skey, c, epoch)
      /\ mixed' = (mixed \/ Crossing(c, epoch))
      /\ UNCHANGED <<serverVars, wires, copyVars, flags, asked, jobs, fetch, gap, tally,
                     overtaken, counters>>
  BY DEF LoadKeys
<1>3. Fresh' /\ epoch \in Epoch
  BY <1>1, <1>2, StageTypes DEF Browser, Row
<1> HIDE DEF epoch
<1>4. Epochs' /\ Past'
  BY <1>1, <1>2, <1>3 DEF Browser, Epochs, Past, Set
<1>5. Browser'
  BY <1>1, <1>2, <1>3, <1>4, SameBrowser DEF Browser
<1>6. Unmixed'
  BY <1>1, <1>2, <1>3, NewKeys DEF jobs
<1>7. Wire' /\ Server'
  BY <1>1, <1>2, <1>4, MoreMixed, SameServer DEF Browser, Past
<1> QED
  BY <1>5, <1>6, <1>7 DEF IInv

LEMMA LoadTextKeeps ==
    ASSUME IInv, NEW c \in Client, LoadText(c)
    PROVE  IInv'
<1> DEFINE row == load[c].row
<1>1. Wire /\ Server /\ Browser /\ Unmixed
  BY DEF IInv
<1>2. /\ Stage(c, "keyed", "shown")
      /\ text' = Set(text, c, row.text)
      /\ gap' = Set(gap, c, TextAt(row.snapv) \ row.text)
      /\ pend' = Set(pend, c, {})
      /\ tally' = IF dec[c] # <<>> THEN Set(tally, c, "off") ELSE tally
      /\ UNCHANGED <<serverVars, wires, ver, unconf, flags, keyVars, jobs, fetch, mixed,
                     overtaken, counters>>
  BY DEF LoadText
<1>3. Fresh' /\ row.text \in Edits /\ row.snapv \in Nat
  BY <1>1, <1>2, StageTypes DEF Browser, Row
<1>4. TextAt(row.snapv) \in Edits
  <2>1. \A i \in DOMAIN log : log[i].edits \in Edits
    <3>1. log \in Seq(LogEntry)
      BY <1>1 DEF Server
    <3>2. DOMAIN log = 1 .. Len(log)
      BY <3>1, LenProperties
    <3>3. \A i \in 1 .. Len(log) : log[i] \in LogEntry
      BY <3>1, ElementOfSeq
    <3> QED
      BY <3>2, <3>3 DEF LogEntry
  <2> QED
    BY <2>1 DEF TextAt, Edits
<1> HIDE DEF row
<1>5. Copies' /\ Past'
  <2>1. {} \in Edits /\ TextAt(row.snapv) \ row.text \in Edits
    BY <1>4 DEF Edits
  <2> QED
    BY <1>1, <1>2, <1>3, <2>1 DEF Browser, Copies, Past, Set
<1>6. Browser'
  BY <1>1, <1>2, <1>3, <1>5, SameBrowser DEF Browser
<1>7. Unmixed' /\ Wire' /\ Server'
  BY <1>1, <1>2, SameUnmixed, Elsewhere DEF keyVars, jobs
<1> QED
  BY <1>6, <1>7 DEF IInv

LEMMA LoadEndKeeps ==
    ASSUME IInv, NEW c \in Client, LoadEnd(c)
    PROVE  IInv'
<1> DEFINE epoch == load[c].row.epoch
<1>1. Wire /\ Server /\ Browser /\ Unmixed
  BY DEF IInv
<1>2. /\ load[c] # None /\ load' = Set(load, c, None)
      /\ key' = Set(key, c, epoch)
      /\ mixed' = (mixed \/ salt[c] # epoch)
      /\ UNCHANGED <<serverVars, wires, copyVars, flags, salt, skey, asked, jobs, fetch, gap,
                     tally, overtaken, counters>>
  BY DEF LoadEnd
<1>3. Fresh' /\ epoch \in Epoch
  BY <1>1, <1>2 DEF Browser, Fresh, LoadJob, Row, Set
<1> HIDE DEF epoch
<1>4. Epochs' /\ Past'
  BY <1>1, <1>2, <1>3 DEF Browser, Epochs, Past, Set
<1>5. Browser'
  BY <1>1, <1>2, <1>3, <1>4, SameBrowser DEF Browser
<1>6. Unmixed'
  <2>1. ASSUME ~mixed, salt[c] = epoch PROVE key' = key
    <3>1. key[c] = epoch
      BY <1>1, <2>1 DEF Unmixed, OneEpoch
    <3> QED
      BY <1>1, <1>2, <3>1 DEF Browser, Epochs, Set
  <2>2. UNCHANGED <<salt, skey, sending, snap>>
    BY <1>2 DEF jobs
  <2> QED
    BY <1>1, <1>2, <2>1, <2>2 DEF Unmixed, OneEpoch
<1>7. Wire' /\ Server'
  BY <1>1, <1>2, <1>4, MoreMixed, SameServer DEF Browser, Past
<1> QED
  BY <1>5, <1>6, <1>7 DEF IInv

-----------------------------------------------------------------------------
(* The browser receives.                                                   *)

\* docInfo.version goes up.
LEMMA RaiseTypes ==
    ASSUME Browser, NEW c \in Client, NEW applied, NEW inTurn, Raise(c, applied, inTurn)
    PROVE  ver' \in [Client -> Nat] /\ Fresh' /\ tally' \in [Client -> {"first", "loaded", "off"}]
<1>1. ver' \in [Client -> Nat] /\ tally' \in [Client -> {"first", "loaded", "off"}]
  BY DEF Raise, Browser, Copies, Past, Set
<1>2. CASE load' = load
  BY <1>1, <1>2 DEF Browser, Fresh
<1>3. CASE Loading(c) /\ load' = [load EXCEPT ![c].base = TRUE]
  <2>1. load[c] \in LoadJob
    BY <1>3 DEF Browser, Fresh, Loading
  <2>2. [load[c] EXCEPT !.base = TRUE] \in LoadJob
    BY <2>1 DEF LoadJob
  <2> QED
    BY <1>1, <1>3, <2>2 DEF Browser, Fresh
<1> QED
  BY <1>1, <1>2, <1>3 DEF Raise

\* A diff that is confirmed.
LEMMA ConfirmTypes ==
    ASSUME Browser, NEW c \in Client, NEW m, ConfirmDiff(c, m)
    PROVE  /\ Copies' /\ Fresh' /\ await' \in [Client -> BOOLEAN]
           /\ tally' \in [Client -> {"first", "loaded", "off"}]
<1>1. CASE Rid(m) \notin unconf[c]
  <2>1. UNCHANGED <<copyVars, await, load, tally>>
    BY <1>1 DEF ConfirmDiff
  <2>2. Copies' /\ Fresh'
    BY <2>1, SameBrowser DEF Browser
  <2> QED
    BY <2>1, <2>2 DEF Browser, Flags, Past
<1>2. CASE Rid(m) \in unconf[c]
  <2>1. /\ Raise(c, TRUE, dec[c] = <<>>)
        /\ text' = Set(text, c, text[c] \cup Confirmed(c, m))
        /\ pend' = Set(pend, c, StillPending(c, m))
        /\ unconf' = Set(unconf, c, unconf[c] \ {Rid(m)})
        /\ await' = Set(await, c, FALSE)
    BY <1>2 DEF ConfirmDiff
  <2>2. /\ ver' \in [Client -> Nat] /\ Fresh'
        /\ tally' \in [Client -> {"first", "loaded", "off"}]
    BY <2>1, RaiseTypes
  <2>3. text[c] \cup Confirmed(c, m) \in Edits /\ StillPending(c, m) \in Edits
    BY DEF Browser, Copies, Edits, StillPending, Confirmed
  <2>4. /\ text' \in [Client -> Edits] /\ pend' \in [Client -> Edits]
        /\ await' \in [Client -> BOOLEAN]
    BY <2>1, <2>3 DEF Browser, Copies, Flags, Set
  <2>5. unconf' \in [Client -> SUBSET [edits: Edits, again: BOOLEAN]]
    BY <2>1 DEF Browser, Copies, Set
  <2> QED
    BY <2>2, <2>4, <2>5 DEF Copies
<1> QED
  BY <1>1, <1>2

\* A diff is decrypted.
LEMMA FinishReceiveKeeps ==
    ASSUME IInv, NEW c \in Client, FinishReceive(c)
    PROVE  IInv'
<1> DEFINE h == Head(dec[c])
<1>1. Wire /\ Server /\ Browser /\ Unmixed
  BY DEF IInv
<1>2. /\ dec[c] # <<>> /\ dec' = Set(dec, c, Tail(dec[c]))
      /\ Raise(c, h.fits, h.v = ver[c])
      /\ text' = IF h.fits THEN Set(text, c, text[c] \cup h.edits) ELSE text
      /\ UNCHANGED <<serverVars, wires, pend, unconf, flags, keyVars, sending, snap, change,
                     fetch, gap, mixed, overtaken, counters>>
  BY DEF FinishReceive
<1>3. dec[c] \in Seq(DecJob)
  BY <1>1 DEF Browser, Doing
<1>4. h \in DecJob /\ Tail(dec[c]) \in Seq(DecJob)
  BY <1>2, <1>3, HeadTailProperties
<1> HIDE DEF h
<1>5. /\ ver' \in [Client -> Nat] /\ Fresh'
      /\ tally' \in [Client -> {"first", "loaded", "off"}]
  BY <1>1, <1>2, RaiseTypes
<1>6. Copies'
  <2>1. text[c] \cup h.edits \in Edits
    BY <1>1, <1>4 DEF Browser, Copies, DecJob, Edits
  <2>2. text' \in [Client -> Edits]
    BY <1>1, <1>2, <2>1 DEF Browser, Copies, Set
  <2> QED
    BY <1>1, <1>2, <1>5, <2>2 DEF Browser, Copies
<1>7. Doing' /\ Past'
  BY <1>1, <1>2, <1>4, <1>5 DEF Browser, Doing, Past, Set
<1>8. Browser'
  BY <1>1, <1>2, <1>5, <1>6, <1>7, SameBrowser DEF Browser
<1>9. Unmixed' /\ Wire' /\ Server'
  BY <1>1, <1>2, SameUnmixed, Elsewhere DEF keyVars
<1> QED
  BY <1>8, <1>9 DEF IInv

\* Taking the first message, without or with a version check in answer.
LEMMA TakeWire ==
    ASSUME Wire, ver \in [Client -> Nat], NEW c \in Client, down[c] # <<>>,
           down' = Set(down, c, Tail(down[c])), mixed' = mixed,
           up' = up \/ AskVersion(c, FALSE)
    PROVE  Wire'
<1>1. CASE up' = up
  <2>1. Tail(down[c]) \in Seq(DownMsg)
    BY HeadTailProperties DEF Wire
  <2>2. down' \in [Client -> Seq(DownMsg)]
    BY <2>1 DEF Wire, Set
  <2>3. ASSUME NEW d \in Client, down'[d] # <<>> PROVE down[d] # <<>>
    BY <2>3 DEF Wire, Set
  <2> QED
    BY <1>1, <2>2, <2>3 DEF Wire
<1>2. CASE AskVersion(c, FALSE)
  <2> DEFINE m == [type |-> "check", v |-> ver[c], offline |-> FALSE, late |-> FALSE]
  <2>1. Upload(c, m, down'[c])
    BY <1>2 DEF AskVersion
  <2>2. m \in UpMsg(mixed)
    BY DEF UpMsg, CheckUp
  <2> HIDE DEF m
  <2> QED
    BY <2>1, <2>2, UploadWire
<1> QED
  BY <1>1, <1>2

\* A version check sets the flags.
LEMMA AskFlags ==
    ASSUME Flags, NEW c \in Client,
           \/ AskVersion(c, FALSE) \/ UNCHANGED flags
           \/ await' = Set(await, c, FALSE) /\ checking' = Set(checking, c, FALSE)
    PROVE  Flags'
BY DEF Flags, flags, AskVersion, Set

\* A browser handles what the server has said.
LEMMA ClientReceiveKeeps ==
    ASSUME IInv, NEW c \in Client, ClientReceive(c)
    PROVE  IInv'
<1> DEFINE m == Head(down[c])
<1>1. Wire /\ Server /\ Browser /\ Unmixed
  BY DEF IInv
<1>2. /\ down[c] # <<>> /\ down' = Set(down, c, Tail(down[c]))
      /\ UNCHANGED <<serverVars, gap, overtaken, counters>>
  BY DEF ClientReceive
<1>3. m \in DownMsg
  <2>1. down[c] \in Seq(DownMsg)
    BY <1>1 DEF Wire
  <2> QED
    BY <1>2, <2>1, HeadTailProperties
<1>4. ver \in [Client -> Nat] /\ mixed \in BOOLEAN /\ tally \in [Client -> {"first", "loaded", "off"}]
  BY <1>1 DEF Browser, Copies, Past
<1> HIDE DEF m
<1>5. ASSUME mixed' = mixed, up' = up \/ AskVersion(c, FALSE)
      PROVE  Wire' /\ Server'
  <2>1. Wire'
    BY <1>1, <1>2, <1>4, <1>5, TakeWire
  <2>2. Server'
    BY <1>1, <1>2, <1>5, SameServer
  <2> QED
    BY <2>1, <2>2
<1>6. mixed' = mixed /\ tally' \in [Client -> {"first", "loaded", "off"}] => Past'
  BY <1>1, <1>2 DEF Browser, Past
<1>7. CASE ReceiveConfirmDiff(c, m)
  <2>1. /\ ConfirmDiff(c, m)
        /\ UNCHANGED <<up, checking, keyVars, jobs, fetch, mixed>>
    BY <1>7 DEF ReceiveConfirmDiff
  <2>2. /\ Copies' /\ Fresh' /\ await' \in [Client -> BOOLEAN]
        /\ tally' \in [Client -> {"first", "loaded", "off"}]
    BY <1>1, <2>1, ConfirmTypes
  <2>3. Browser'
    BY <1>1, <1>2, <1>6, <2>1, <2>2, SameBrowser DEF Browser, Flags
  <2>4. Unmixed'
    BY <1>1, <2>1, SameUnmixed DEF keyVars, jobs
  <2> QED
    BY <1>5, <2>1, <2>3, <2>4 DEF IInv
<1>8. CASE ReceiveRejectDiff(c, m)
  <2>1. /\ unconf' = Set(unconf, c, unconf[c] \ {Rid(m)})
        /\ await' = Set(await, c, FALSE)
        /\ UNCHANGED <<up, ver, text, pend, checking, keyVars, jobs, refetch, tally, mixed>>
    BY <1>8 DEF ReceiveRejectDiff
  <2>2. Copies' /\ Flags'
    BY <1>1, <2>1 DEF Browser, Copies, Flags, Set
  <2>3. Browser'
    BY <1>1, <1>2, <1>4, <1>6, <2>1, <2>2, SameBrowser DEF Browser, refetch
  <2>4. Unmixed'
    BY <1>1, <2>1, SameUnmixed DEF keyVars, jobs
  <2> QED
    BY <1>5, <2>1, <2>3, <2>4 DEF IInv
<1>9. CASE ReceiveDiff(c, m)
  <2>1. m.type = "diff" /\ UNCHANGED <<keyVars, sending, snap, change, fetch, mixed>>
    BY <1>9 DEF ReceiveDiff
  <2>2. Unmixed'
    BY <1>1, <2>1, SameUnmixed DEF keyVars
  <2>3. CASE m.cid = c
    <3>1. ConfirmDiff(c, m) /\ UNCHANGED <<up, checking, dec>>
      BY <1>9, <2>3 DEF ReceiveDiff
    <3>2. /\ Copies' /\ Fresh' /\ await' \in [Client -> BOOLEAN]
          /\ tally' \in [Client -> {"first", "loaded", "off"}]
      BY <1>1, <3>1, ConfirmTypes
    <3>3. UNCHANGED jobs
      BY <2>1, <3>1 DEF jobs
    <3>4. Browser'
      BY <1>1, <1>2, <1>6, <2>1, <3>1, <3>2, <3>3, SameBrowser DEF Browser, Flags
    <3> QED
      BY <1>5, <2>1, <2>2, <3>1, <3>4 DEF IInv
  <2>4. CASE m.cid # c /\ m.v # ver[c]
    <3>1. CheckVersion(c) /\ UNCHANGED <<copyVars, load, tally, dec>>
      BY <1>9, <2>4 DEF ReceiveDiff
    <3>2. (up' = up /\ UNCHANGED flags) \/ AskVersion(c, FALSE)
      BY <3>1 DEF CheckVersion
    <3>3. Flags' /\ UNCHANGED jobs
      BY <1>1, <2>1, <3>1, <3>2, AskFlags DEF Browser, jobs
    <3>4. Browser'
      BY <1>1, <1>2, <1>4, <1>6, <2>1, <3>1, <3>3, SameBrowser DEF Browser
    <3> QED
      BY <1>5, <2>1, <2>2, <3>2, <3>4 DEF IInv
  <2>5. CASE m.cid # c /\ m.v = ver[c]
    <3> DEFINE e == [v |-> m.v, edits |-> m.edits, fits |-> m.key = key[c]]
    <3>1. /\ dec' = [dec EXCEPT ![c] = Append(@, e)]
          /\ UNCHANGED <<up, flags, copyVars, load, tally>>
      BY <1>9, <2>5 DEF ReceiveDiff
    <3>2. e \in DecJob
      <4>1. m \in DiffDown
        BY <1>3, <2>1, DownTypes
      <4> QED
        BY <4>1 DEF DiffDown, DecJob
    <3> HIDE DEF e
    <3>3. Append(dec[c], e) \in Seq(DecJob)
      BY <1>1, <3>2, AppendProperties DEF Browser, Doing
    <3>4. Doing'
      BY <1>1, <2>1, <3>1, <3>3 DEF Browser, Doing
    <3>5. Browser'
      BY <1>1, <1>2, <1>4, <1>6, <2>1, <3>1, <3>4, SameBrowser DEF Browser
    <3> QED
      BY <1>5, <2>1, <2>2, <3>1, <3>5 DEF IInv
  <2> QED
    BY <2>3, <2>4, <2>5
<1>10. CASE ReceiveConfirmVersion(c, m)
  <2>1. /\ UNCHANGED <<copyVars, keyVars, jobs, refetch, tally, mixed>>
        /\ \/ AskVersion(c, FALSE)
           \/ await' = Set(await, c, FALSE) /\ checking' = Set(checking, c, FALSE) /\ up' = up
    BY <1>10 DEF ReceiveConfirmVersion
  <2>2. Flags'
    BY <1>1, <2>1, AskFlags DEF Browser
  <2>3. Browser'
    BY <1>1, <1>2, <1>4, <1>6, <2>1, <2>2, SameBrowser DEF Browser, refetch
  <2>4. Unmixed'
    BY <1>1, <2>1, SameUnmixed DEF keyVars, jobs
  <2> QED
    BY <1>5, <2>1, <2>3, <2>4 DEF IInv
<1>11. CASE ReceiveRequest(c, m)
  <2> DEFINE s == [text |-> text[c] \cup pend[c], key |-> skey[c], info |-> None]
  <2>1. /\ snap' = snap \/ snap' = Set(snap, c, s)
        /\ UNCHANGED <<up, copyVars, flags, keyVars, sending, change, dec, refetch, tally, mixed>>
    BY <1>11 DEF ReceiveRequest
  <2>2. s \in SnapJob /\ s.key = skey[c]
    BY <1>1 DEF Browser, Copies, Epochs, Edits, SnapJob, Infos
  <2>3. Doing'
    BY <1>1, <2>1, <2>2 DEF Browser, Doing, Set
  <2>4. Browser'
    BY <1>1, <1>2, <1>4, <1>6, <2>1, <2>3, SameBrowser DEF Browser, refetch
  <2>5. UNCHANGED <<key, salt, skey>>
    BY <2>1 DEF keyVars
  <2> HIDE DEF s
  <2>6. Unmixed'
    <3>1. ASSUME ~mixed, NEW e \in Client PROVE OneEpoch(e)'
      <4>1. OneEpoch(e)
        BY <1>1, <3>1 DEF Unmixed
      <4>2. snap'[e] = snap[e] \/ (snap'[e] = s /\ e = c)
        BY <1>1, <2>1 DEF Browser, Doing, Set
      <4> QED
        BY <2>1, <2>2, <2>5, <4>1, <4>2 DEF OneEpoch
    <3> QED
      BY <2>1, <3>1 DEF Unmixed
  <2> QED
    BY <1>5, <2>1, <2>4, <2>6 DEF IInv
<1>12. CASE ReceiveRekeyDone(c, m)
  <2>1. /\ asked' = Set(asked, c, 0)
        /\ mixed' = (mixed \/ (asked[c] # 0 /\ Crossing(c, asked[c])))
        /\ UNCHANGED <<up, copyVars, flags, jobs, refetch, tally>>
    BY <1>12 DEF ReceiveRekeyDone
  <2>2. 0 \in Epoch /\ asked[c] \in Epoch
    BY <1>1, NumberAssumption DEF Browser, Epochs, Epoch
  <2>3. UNCHANGED <<sending, snap>>
    BY <2>1 DEF jobs
  <2>4. Epochs' /\ Unmixed'
    <3>1. CASE asked[c] = 0
      <4>1. key' = key /\ salt' = salt /\ skey' = skey
        BY <1>12, <3>1 DEF ReceiveRekeyDone
      <4>2. mixed' = mixed
        BY <1>4, <2>1, <3>1
      <4> QED
        BY <1>1, <2>1, <2>2, <2>3, <4>1, <4>2, SameUnmixed DEF Browser, Epochs, Set
    <3>2. CASE asked[c] # 0
      <4>1. /\ key' = Set(key, c, asked[c]) /\ salt' = Set(salt, c, asked[c])
            /\ skey' = Set(skey, c, asked[c])
        BY <1>12, <3>2 DEF ReceiveRekeyDone
      <4>2. mixed' = (mixed \/ Crossing(c, asked[c]))
        BY <2>1, <3>2
      <4>3. Unmixed'
        BY <1>1, <2>2, <2>3, <4>1, <4>2, NewKeys
      <4> QED
        BY <1>1, <2>1, <2>2, <4>1, <4>3 DEF Browser, Epochs, Set
    <3> QED
      BY <3>1, <3>2
  <2>5. Past' /\ (mixed => mixed')
    BY <1>1, <1>2, <2>1 DEF Browser, Past
  <2>6. Browser'
    BY <1>1, <1>2, <2>1, <2>4, <2>5, SameBrowser DEF Browser, refetch
  <2>7. Server'
    BY <1>1, <1>2, <2>5, SameServer
  <2>8. Wire'
    <3>1. UpMsg(mixed) \subseteq UpMsg(mixed') /\ LateMsg(mixed) \subseteq LateMsg(mixed')
      BY <2>5 DEF UpMsg, DiffUp, SnapshotUp, LateMsg
    <3>2. \A d \in Client : up[d] \in Seq(UpMsg(mixed'))
      BY <1>1, <3>1, MoreMessages DEF Wire
    <3>3. \A d \in Client : down'[d] # <<>> => down[d] # <<>>
      BY <1>1, <1>2 DEF Wire, Set
    <3>4. \A d \in Client : down'[d] # <<>> => up[d] \in Seq(LateMsg(mixed'))
      BY <1>1, <3>1, <3>3, MoreMessages DEF Wire
    <3>5. Tail(down[c]) \in Seq(DownMsg)
      BY <1>1, <1>2, HeadTailProperties DEF Wire
    <3>6. down' \in [Client -> Seq(DownMsg)]
      BY <1>1, <1>2, <3>5 DEF Wire, Set
    <3> QED
      BY <1>1, <2>1, <3>2, <3>4, <3>6 DEF Wire
  <2> QED
    BY <2>4, <2>6, <2>7, <2>8 DEF IInv
<1>13. CASE ReceiveRefetch(c, m)
  <2>1. /\ fetch' = Set(fetch, c, [open |-> TRUE, row |-> None])
        /\ UNCHANGED <<up, copyVars, flags, keyVars, jobs, load, tally, mixed>>
    BY <1>13 DEF ReceiveRefetch
  <2>2. Fetches'
    BY <1>1, <2>1 DEF Browser, Fetches, Set
  <2>3. Browser'
    BY <1>1, <1>2, <1>4, <1>6, <2>1, <2>2, SameBrowser DEF Browser
  <2>4. Unmixed'
    BY <1>1, <2>1, SameUnmixed DEF keyVars, jobs
  <2> QED
    BY <1>5, <2>1, <2>3, <2>4 DEF IInv
<1>14. CASE ReceiveReceived(c, m)
  <2>1. UNCHANGED <<up, copyVars, flags, keyVars, jobs, refetch, tally, mixed>>
    BY <1>14 DEF ReceiveReceived
  <2>2. Browser'
    BY <1>1, <1>2, <1>4, <1>6, <2>1, SameBrowser DEF Browser, refetch
  <2>3. Unmixed'
    BY <1>1, <2>1, SameUnmixed DEF keyVars, jobs
  <2> QED
    BY <1>5, <2>1, <2>2, <2>3 DEF IInv
<1> QED
  BY <1>7, <1>8, <1>9, <1>10, <1>11, <1>12, <1>13, <1>14 DEF ClientReceive, m

-----------------------------------------------------------------------------
(* The specification.                                                      *)

LEMMA InitIInv == Init => IInv
<1> SUFFICES ASSUME Init PROVE IInv
  OBVIOUS
<1>1. 0 \in Epoch /\ 0 \in 0 .. MaxEvents /\ 0 \in 0 .. MaxEdits /\ {} \in Edits
  BY NumberAssumption DEF Epoch, Edits
<1>2. Wire
  <2>1. up = [d \in Client |-> <<>>] /\ down = [d \in Client |-> <<>>]
    BY DEF Init
  <2>2. <<>> \in Seq(UpMsg(mixed)) /\ <<>> \in Seq(DownMsg)
    OBVIOUS
  <2> QED
    BY <2>1, <2>2 DEF Wire
<1>3. Server
  <2>1. /\ log = <<>> /\ kept = 0 /\ rekeying = None
        /\ doc = [epoch |-> 0, key |-> 0, text |-> {}, snapv |-> 0]
    BY DEF Init
  <2>2. log \in Seq(LogEntry) /\ Len(log) = 0
    BY <2>1
  <2> QED
    BY <1>1, <2>1, <2>2 DEF Server, Row, Version, Readable, Covered
<1>4. Browser
  <2>1. <<>> \in Seq(DecJob) /\ <<>> \in Seq(DiffJob)
    OBVIOUS
  <2>2. Copies /\ Flags /\ Epochs /\ Past /\ Counts
    BY <1>1 DEF Init, Copies, Flags, Epochs, Past, Counts
  <2>3. Doing /\ Fetches /\ Fresh
    BY <2>1 DEF Init, Doing, Fetches, Fresh, NoFetch
  <2> QED
    BY <2>2, <2>3 DEF Browser
<1>5. Unmixed
  <2>1. \A d \in Client : <<>> \in Seq(Under(salt[d]))
    OBVIOUS
  <2> QED
    BY <2>1 DEF Init, Unmixed, OneEpoch
<1> QED
  BY <1>2, <1>3, <1>4, <1>5 DEF IInv

LEMMA StepIInv ==
    ASSUME IInv, [Next]_vars
    PROVE  IInv'
<1>1. CASE ApplyRekey
  BY <1>1, ApplyRekeyKeeps
<1>2. CASE RefuseRekey
  BY <1>2, RefuseKeeps
<1>3. ASSUME NEW c \in Client,
             Type(c) \/ StartSend(c) \/ SendRaises(c) \/ Timeout(c) \/ RekeyTimeout(c)
      PROVE  IInv'
  BY <1>3, StartsKeep
<1>4. ASSUME NEW c \in Client, StartRekey(c) \/ FinishRekey(c)
      PROVE  IInv'
  BY <1>4, StartRekeyKeeps, FinishRekeyKeeps
<1>5. ASSUME NEW c \in Client, FinishSend(c) \/ FinishSnapshot(c) \/ Reconnect(c)
      PROVE  IInv'
  BY <1>5, FinishSendKeeps, FinishSnapshotKeeps, ReconnectKeeps
<1>6. ASSUME NEW c \in Client,
             FetchServe(c) \/ LoadBegin(c) \/ LoadKeys(c) \/ LoadText(c) \/ LoadEnd(c)
      PROVE  IInv'
  BY <1>6, FetchServeKeeps, LoadBeginKeeps, LoadKeysKeeps, LoadTextKeeps, LoadEndKeeps
<1>7. ASSUME NEW c \in Client, ServerReceive(c) PROVE IInv'
  BY <1>7, ServerReceiveKeeps
<1>8. ASSUME NEW c \in Client, ClientReceive(c) \/ FinishReceive(c) PROVE IInv'
  BY <1>8, ClientReceiveKeeps, FinishReceiveKeeps
<1>9. CASE UNCHANGED vars
  <2>1. UNCHANGED <<serverVars, wires, copyVars, flags, keyVars, jobs, refetch, history, counters>>
    BY <1>9 DEF vars
  <2>2. Browser'
    BY <2>1, SameBrowser DEF IInv, Browser, refetch
  <2>3. Unmixed' /\ Wire' /\ Server'
    BY <2>1, SameUnmixed, Elsewhere DEF IInv, keyVars, jobs, history
  <2> QED
    BY <2>2, <2>3 DEF IInv
<1> QED
  BY <1>1, <1>2, <1>3, <1>4, <1>5, <1>6, <1>7, <1>8, <1>9 DEF Next

LEMMA AlwaysIInv == Spec => []IInv
<1>1. Init => IInv
  BY InitIInv
<1>2. IInv /\ [Next]_vars => IInv'
  BY StepIInv
<1> QED
  BY <1>1, <1>2, PTL DEF Spec

\* Whatever browsers send, resend and load again, in whatever order their
\* encryptions end, the content and every diff that the server still keeps can be
\* decrypted with the key that belongs to the salt it hands out, until a browser
\* has had two epochs at once (_check_salt, _apply_rekey in document/consumers.py;
\* what takes that from it are the races of StartRekey, LoadKeys, LoadEnd and
\* ReceiveRekeyDone with an encryption under way).
THEOREM AlwaysReadable == Spec => []Readable
<1>1. IInv => Readable
  BY DEF IInv, Server
<1> QED
  BY <1>1, AlwaysIInv, PTL

\* The content that get_doc_data hands out and the diffs that the server keeps reach
\* the current version, as long as no more diffs than the history holds have come
\* since the content was saved, however snapshots, changes of password and diffs
\* follow each other; handle_diff() during the await of _apply_rekey() is what takes
\* that from it, until the next snapshot.
THEOREM AlwaysCovered == Spec => []DiffsCover
<1>1. IInv => DiffsCover
  <2> SUFFICES ASSUME IInv PROVE DiffsCover
    OBVIOUS
  <2>1. Server
    BY DEF IInv
  <2>2. Version \in Nat /\ doc.snapv \in Nat /\ kept \in Nat /\ History \in Nat
    BY <2>1, NumberAssumption DEF Server, Version, Row
  <2> QED
    BY <2>1, <2>2 DEF Server, Covered, DiffsCover
<1> QED
  BY <1>1, AlwaysIInv, PTL

\* What the variables hold; a message that was sent before the browser has received
\* what the server said is marked, and stays so (ws_message, base_consumer.py).
THEOREM TypeCorrect == Spec => []TypeOK
<1>1. IInv => TypeOK
  <2> SUFFICES ASSUME IInv PROVE TypeOK
    OBVIOUS
  <2>1. Wire /\ Server /\ Browser
    BY DEF IInv
  <2>2. log \in Seq([cid: Client, edits: SUBSET Edit, again: BOOLEAN, key: Epoch])
    BY <2>1 DEF Server, LogEntry, Edits
  <2>3. kept \in 0 .. Version
    BY <2>1 DEF Server, Version
  <2>4. doc \in [epoch: Epoch, key: Epoch, text: SUBSET Edit, snapv: Nat]
    BY <2>1 DEF Server, Row, Edits
  <2>5. /\ ver \in [Client -> Nat]
        /\ unconf \in [Client -> SUBSET [edits: SUBSET Edit, again: BOOLEAN]]
        /\ tally \in [Client -> {"first", "loaded", "off"}]
        /\ {mixed, overtaken} \subseteq BOOLEAN
    BY <2>1 DEF Browser, Copies, Past, Edits
  <2>6. <<text, pend, gap>> \in [1 .. 3 -> [Client -> SUBSET Edit]]
    BY <2>1 DEF Browser, Copies, Past, Edits
  <2>7. <<await, checking>> \in [1 .. 2 -> [Client -> BOOLEAN]]
    BY <2>1 DEF Browser, Flags
  <2>8. <<key, salt, skey, asked>> \in [1 .. 4 -> [Client -> Epoch]]
    BY <2>1 DEF Browser, Epochs
  <2>9. ASSUME NEW c \in Client, NEW i \in DOMAIN up[c], down[c] # <<>>
        PROVE  up[c][i].late
    <3>1. up[c] \in Seq(LateMsg(mixed))
      BY <2>1, <2>9 DEF Wire
    <3>2. i \in 1 .. Len(up[c])
      BY <3>1, LenProperties
    <3>3. up[c][i] \in LateMsg(mixed)
      BY <3>1, <3>2, ElementOfSeq
    <3> QED
      BY <3>3 DEF LateMsg
  <2> QED
    BY <2>2, <2>3, <2>4, <2>5, <2>6, <2>7, <2>8, <2>9 DEF TypeOK
<1> QED
  BY <1>1, AlwaysIInv, PTL
=============================================================================
