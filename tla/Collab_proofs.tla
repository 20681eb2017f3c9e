---------------------------- MODULE Collab_proofs ----------------------------
(***************************************************************************)
(* That the copies of a document agree with the server's text, that no     *)
(* edit is dropped and none is taken twice unless the news of it is lost,  *)
(* and that the exchange of diffs implements one text that grows, for any  *)
(* number of browsers, edits and diffs, and any length of the history.     *)
(*                                                                         *)
(* A browser that used the answer to a refetch after it went on (strayed)  *)
(* is left out of the invariant; what it does to the others is not.        *)
(***************************************************************************)
EXTENDS Collab, Concatenation

-----------------------------------------------------------------------------
(* The inductive invariant.                                                *)

\* The messages to the server.
SubscribeUp == [type: {"subscribe"}, v: Nat, again: BOOLEAN, seen: Nat]
CheckUp == [type: {"check_version"}, v: Nat, offline: BOOLEAN, seen: Nat]
DiffUp == [type: {"diff"}, v: Nat, rid: Nat, edits: Seq(Edit), seen: Nat]
UpMsg == SubscribeUp \cup CheckUp \cup DiffUp

\* The messages to a browser.
PlainDown == [type: {"subscribed", "connections", "refetch_doc"}]
VersionDown == [type: {"confirm_version"}, v: Nat]
AnswerDown == [type: {"confirm_diff", "reject_diff"}, rid: Nat]
DiffDown == [type: {"diff"}, v: Nat, cid: Client, rid: Nat, edits: Seq(Edit)]
DownMsg == PlainDown \cup VersionDown \cup AnswerDown \cup DiffDown

Types ==
    /\ log \in Seq(Diff) /\ saved \in Nat /\ saved <= Len(log)
    /\ joined \in SUBSET Client
    /\ link \in [Client -> {"on", "off"}] /\ count \in [Client -> 0 .. 2]
    /\ said \in [Client -> Nat] /\ seen \in [Client -> Nat]
    /\ ver \in [Client -> Nat] /\ rids \in [Client -> Nat]
    /\ text \in [Client -> Seq(Edit)] /\ pend \in [Client -> Seq(Edit)]
    /\ unconf \in [Client -> SUBSET [rid: Nat, n: Nat \ {0}]]
    /\ await \in [Client -> BOOLEAN] /\ timer \in [Client -> BOOLEAN]
    /\ older \in [Client -> BOOLEAN] /\ checking \in [Client -> BOOLEAN]
    /\ waiting \in [Client -> BOOLEAN] /\ resub \in [Client -> BOOLEAN]
    /\ fetch \in [Client -> [from: Nat, row: Nat \cup {-1}, open: BOOLEAN]]
    /\ late \in [Client -> BOOLEAN]
    /\ up \in [Client -> Seq(UpMsg)] /\ down \in [Client -> Seq(DownMsg)]
    /\ typed \in Nat

\* What has been said on a connection was received or is under way, and nothing
\* is under way without a connection.
Linked(c) ==
    /\ link[c] = "on" => seen[c] + Len(down[c]) = said[c]
    /\ link[c] = "off" => /\ up[c] = <<>> /\ down[c] = <<>> /\ c \notin joined
                          /\ seen[c] <= said[c]

\* A refetch is under way, and c did nothing since it asked.
Waits(c) == fetch[c].open /\ ~late[c]

\* A message of c that was sent since c received something last is about the
\* version that c still has; a diff is a beginning of what is pending.
Fresh(c) ==
    \A i \in 1 .. Len(up[c]) :
        /\ up[c][i].seen <= seen[c]
        /\ up[c][i].seen = seen[c] =>
              /\ up[c][i].v = ver[c]
              /\ ~Waits(c)
              /\ up[c][i].type = "diff" =>
                    /\ IsPrefix(up[c][i].edits, pend[c])
                    /\ [rid |-> up[c][i].rid, n |-> Len(up[c][i].edits)] \in unconf[c]
              /\ up[c][i].type = "check_version" =>
                    (up[c][i].offline => pend[c] # <<>>)

\* Request ids tell the diffs of a client apart, and those under way from those
\* accepted and those rejected.
Rids(c) ==
    /\ \A u \in unconf[c] : u.rid < rids[c] /\ \A w \in unconf[c] : w.rid = u.rid => w = u
    /\ \A k \in 1 .. Len(log) : log[k].cid = c => log[k].rid < rids[c]
    /\ \A i \in 1 .. Len(up[c]) : up[c][i].type = "diff" =>
          /\ up[c][i].rid < rids[c]
          /\ \A j \in 1 .. i - 1 : up[c][j].type = "diff" => up[c][j].rid # up[c][i].rid
          /\ \A k \in 1 .. Len(log) : log[k].cid = c => log[k].rid # up[c][i].rid
    /\ \A i \in 1 .. Len(down[c]) : down[c][i].type = "reject_diff" =>
          \A k \in 1 .. Len(log) : log[k].cid = c => log[k].rid # down[c][i].rid

\* An accepted diff that its sender does not know of is the next one, and a
\* beginning of what the sender has pending.
Own(c) ==
    /\ \A k \in ver[c] + 2 .. Len(log) : log[k].cid # c
    /\ OwnNext(c) =>
          LET l == log[ver[c] + 1]
          IN  /\ IsPrefix(l.edits, pend[c])
              /\ [rid |-> l.rid, n |-> Len(l.edits)] \in unconf[c]

\* m tells c that its next diff is accepted.
Confirms(c, m) == m.type = "confirm_diff" \/ (m.type = "diff" /\ m.cid = c)
IsRefetch(m) == m.type = "refetch_doc"

\* The row is newer than the copy of c and holds all that c has sent; c has
\* something pending, or the history did not reach back to its version.
RowCovers(c, v) ==
    /\ ver[c] < v
    /\ \A k \in v + 1 .. Len(log) : log[k].cid # c
    /\ pend[c] # <<>> \/ ver[c] + History < v

\* What is on its way to c: confirmations and refetches come first, while the
\* version of c is the one they are about; diffs are those of the server.
Incoming(c) ==
    \A i \in 1 .. Len(down[c]) :
        LET m == down[c][i]
        IN  /\ Confirms(c, m) \/ IsRefetch(m) =>
                  /\ ~Waits(c)
                  /\ \A j \in 1 .. i - 1 : down[c][j].type = "subscribed"
            /\ Confirms(c, m) => OwnNext(c) /\ log[ver[c] + 1].rid = m.rid
            /\ IsRefetch(m) => RowCovers(c, saved)
            /\ m.type = "diff" =>
                  /\ m.v < Len(log)
                  /\ log[m.v + 1] = [cid |-> m.cid, rid |-> m.rid, edits |-> m.edits]

Fetching(c) ==
    /\ fetch[c].row <= saved
    /\ Waits(c) => /\ fetch[c].from = ver[c]
                   /\ RowCovers(c, saved)
                   /\ fetch[c].row # -1 => RowCovers(c, fetch[c].row)

\* What is pending was typed, and in a document that was there.
Editing(c) == Len(pend[c]) <= typed /\ (waiting[c] => pend[c] = <<>>)

Current(c) == ver[c] <= Len(log) /\ text[c] = TextAt(ver[c])

ClientInv(c) ==
    /\ Linked(c) /\ Fresh(c) /\ Rids(c) /\ Own(c)
    /\ Incoming(c) /\ Fetching(c) /\ Editing(c) /\ Current(c)

\* What holds of a browser that strayed, too.
Plainly(c) == Linked(c) /\ Editing(c) /\ fetch[c].row <= saved

IInv ==
    /\ Types /\ strayed \in SUBSET Client /\ unheard \in BOOLEAN
    /\ \A c \in Client : Plainly(c)
    /\ \A c \in Client \ strayed : ClientInv(c)

-----------------------------------------------------------------------------
(* The text at a version.                                                  *)

LEMMA LogEntries ==
    ASSUME log \in Seq(Diff)
    PROVE  /\ Len(log) \in Nat
           /\ \A i \in 1 .. Len(log) : /\ log[i] \in Diff /\ log[i].cid \in Client
                                       /\ log[i].rid \in Nat /\ log[i].edits \in Seq(Edit)
<1>1. Len(log) \in Nat
  BY LenProperties
<1>2. \A i \in 1 .. Len(log) : log[i] \in Diff
  BY ElementOfSeq
<1> QED
  BY <1>1, <1>2 DEF Diff

\* It grows by the edits of the next diff.
LEMMA TextStep ==
    ASSUME log \in Seq(Diff), NEW v \in Nat, v < Len(log)
    PROVE  /\ TextAt(v) \in Seq(Edit)
           /\ TextAt(v + 1) = TextAt(v) \o log[v + 1].edits
           /\ v = 0 => TextAt(v) = <<>>
<1> DEFINE s == [i \in 1 .. v |-> log[i].edits]
           m == v + 1
           t == [i \in 1 .. m |-> log[i].edits]
<1>1. Len(log) \in Nat /\ \A i \in 1 .. Len(log) : log[i].edits \in Seq(Edit)
  BY LogEntries
<1>2. /\ \A i \in 1 .. v : s[i] \in Seq(Edit)
      /\ \A i \in 1 .. m : t[i] \in Seq(Edit)
      /\ m \in Nat
  BY <1>1
<1>3. s \in Seq(Seq(Edit)) /\ Len(s) = v /\ t \in Seq(Seq(Edit)) /\ Len(t) = m
  BY <1>2
<1>4. t[m] = log[v + 1].edits /\ \A i \in 1 .. v : s[i] = t[i]
  OBVIOUS
<1>5. TextAt(v) = FlattenSeq(s) /\ TextAt(v + 1) = FlattenSeq(t)
  BY DEF TextAt
<1>6. m = v + 1 /\ m \in Nat
  OBVIOUS
<1> HIDE DEF s, t, m
<1>7. /\ FlattenSeq(s) \in Seq(Edit)
      /\ FlattenSeq(t) = FlattenSeq(s) \o t[m]
      /\ v = 0 => FlattenSeq(s) = <<>>
  <2> DEFINE T == Edit
  <2>1. s \in Seq(Seq(T)) /\ t \in Seq(Seq(T))
    BY <1>3
  <2> HIDE DEF T
  <2>2. OneMore(T, s, t, v, m)
    BY <1>3, <1>4, <1>6, <2>1 DEF OneMore
  <2>3. FlattenSeq(s) \in Seq(T) /\ FlattenSeq(t) = FlattenSeq(s) \o t[m]
    BY <2>2, FlattenStep
  <2>4. v = 0 => FlattenSeq(s) = <<>>
    BY <2>2, FlattenStep
  <2> QED
    BY <2>3, <2>4 DEF T
<1> QED
  BY <1>4, <1>5, <1>7

LEMMA TextType ==
    ASSUME log \in Seq(Diff), NEW v \in Nat, v <= Len(log)
    PROVE  TextAt(v) \in Seq(Edit)
<1>1. CASE v < Len(log)
  BY <1>1, TextStep
<1>2. CASE v = 0
  <2>1. [i \in 1 .. 0 |-> log[i].edits] = <<>> /\ Len(<<>>) = 0
    OBVIOUS
  <2> QED
    BY <1>2, <2>1, EmptySeq DEF TextAt, FlattenSeq
<1>3. CASE v = Len(log) /\ v # 0
  <2>1. v - 1 \in Nat /\ v - 1 < Len(log) /\ v - 1 + 1 = v /\ v \in 1 .. Len(log)
    BY <1>3
  <2>2. TextAt(v - 1) \in Seq(Edit) /\ TextAt(v) = TextAt(v - 1) \o log[v].edits
    BY <2>1, TextStep
  <2>3. log[v].edits \in Seq(Edit)
    BY <2>1, LogEntries
  <2> QED
    BY <2>2, <2>3, ConcatProperties
<1> QED
  BY <1>1, <1>2, <1>3, LenProperties

\* The text at an earlier version is a beginning of the one at a later version.
LEMMA TextGrows ==
    ASSUME log \in Seq(Diff), NEW v \in Nat, NEW w \in Nat, v <= w, w <= Len(log)
    PROVE  IsPrefix(TextAt(v), TextAt(w))
<1> DEFINE S == {k \in Nat : v + k <= Len(log) => IsPrefix(TextAt(v), TextAt(v + k))}
<1>0. Len(log) \in Nat
  BY LenProperties
<1>1. 0 \in S
  <2> SUFFICES ASSUME v <= Len(log) PROVE IsPrefix(TextAt(v), TextAt(v))
    BY <1>0
  <2> QED
    BY TextType, PrefixElements, LenProperties
<1>2. ASSUME NEW k \in Nat, k \in S
      PROVE  k + 1 \in S
  <2> SUFFICES ASSUME v + (k + 1) <= Len(log)
               PROVE  IsPrefix(TextAt(v), TextAt(v + (k + 1)))
    OBVIOUS
  <2>1. v + k \in Nat /\ v + k < Len(log) /\ v + (k + 1) = v + k + 1 /\ v <= Len(log)
    BY <1>0
  <2>2. /\ TextAt(v) \in Seq(Edit) /\ TextAt(v + k) \in Seq(Edit)
        /\ TextAt(v + k + 1) = TextAt(v + k) \o log[v + k + 1].edits
    BY <2>1, TextStep, TextType
  <2>3. log[v + k + 1].edits \in Seq(Edit)
    BY <2>1, <1>0, LogEntries
  <2>4. IsPrefix(TextAt(v), TextAt(v + k))
    BY <1>2, <2>1
  <2> QED
    BY <2>1, <2>2, <2>3, <2>4, PrefixConcat
<1> HIDE DEF S
<1>3. Nat \subseteq S
  BY <1>1, <1>2, SetInduction
<1>4. w - v \in Nat /\ v + (w - v) = w
  OBVIOUS
<1> QED
  BY <1>3, <1>4 DEF S

\* An earlier text stays what it is when a diff is accepted.
LEMMA TextStays ==
    ASSUME log \in Seq(Diff), NEW v \in Nat, v <= Len(log),
           log' = log \/ \E l \in Diff : log' = Append(log, l)
    PROVE  TextAt(v)' = TextAt(v)
<1>1. \A i \in 1 .. v : log'[i] = log[i]
  BY AppendProperties, LenProperties
<1>2. [i \in 1 .. v |-> log'[i].edits] = [i \in 1 .. v |-> log[i].edits]
  BY <1>1
<1> QED
  BY <1>2 DEF TextAt

-----------------------------------------------------------------------------
(* Types of the parts, and of messages.                                    *)

LEMMA Typed ==
    ASSUME Types, NEW c \in Client
    PROVE  /\ log \in Seq(Diff) /\ Len(log) \in Nat
           /\ saved \in Nat /\ saved <= Len(log) /\ typed \in Nat
           /\ link[c] \in {"on", "off"} /\ count[c] \in 0 .. 2
           /\ said[c] \in Nat /\ seen[c] \in Nat /\ ver[c] \in Nat /\ rids[c] \in Nat
           /\ text[c] \in Seq(Edit) /\ pend[c] \in Seq(Edit) /\ Len(pend[c]) \in Nat
           /\ unconf[c] \subseteq [rid: Nat, n: Nat \ {0}]
           /\ fetch[c] \in [from: Nat, row: Nat \cup {-1}, open: BOOLEAN]
           /\ up[c] \in Seq(UpMsg) /\ Len(up[c]) \in Nat
           /\ down[c] \in Seq(DownMsg) /\ Len(down[c]) \in Nat
           /\ History \in Nat \ {0}
<1>1. /\ log \in Seq(Diff) /\ saved \in Nat /\ saved <= Len(log) /\ typed \in Nat
      /\ link[c] \in {"on", "off"} /\ count[c] \in 0 .. 2
      /\ said[c] \in Nat /\ seen[c] \in Nat /\ ver[c] \in Nat /\ rids[c] \in Nat
      /\ text[c] \in Seq(Edit) /\ pend[c] \in Seq(Edit)
      /\ unconf[c] \subseteq [rid: Nat, n: Nat \ {0}]
      /\ fetch[c] \in [from: Nat, row: Nat \cup {-1}, open: BOOLEAN]
      /\ up[c] \in Seq(UpMsg) /\ down[c] \in Seq(DownMsg)
  BY DEF Types
<1>2. /\ Len(log) \in Nat /\ Len(pend[c]) \in Nat /\ Len(up[c]) \in Nat
      /\ Len(down[c]) \in Nat
  BY <1>1, LenProperties
<1> QED
  BY <1>1, <1>2, NumberAssumption

LEMMA UpTyped ==
    ASSUME NEW m \in UpMsg
    PROVE  /\ m.type \in {"subscribe", "check_version", "diff"}
           /\ m.v \in Nat /\ m.seen \in Nat
           /\ m.type = "subscribe" => m.again \in BOOLEAN
           /\ m.type = "check_version" => m.offline \in BOOLEAN
           /\ m.type = "diff" => m.rid \in Nat /\ m.edits \in Seq(Edit)
  BY DEF UpMsg, SubscribeUp, CheckUp, DiffUp

LEMMA DownTyped ==
    ASSUME NEW m \in DownMsg
    PROVE  /\ m.type \in {"subscribed", "connections", "refetch_doc", "confirm_version",
                          "confirm_diff", "reject_diff", "diff"}
           /\ m.type = "confirm_version" => m.v \in Nat
           /\ m.type \in {"confirm_diff", "reject_diff"} => m.rid \in Nat
           /\ m.type = "diff" => /\ m.v \in Nat /\ m.cid \in Client /\ m.rid \in Nat
                                 /\ m.edits \in Seq(Edit)
  BY DEF DownMsg, PlainDown, VersionDown, AnswerDown, DiffDown

\* The log is kept, or a diff of another client than d is added.
LogGrows(d) == log' = log \/ \E l \in Diff : l.cid # d /\ log' = Append(log, l)

LEMMA Logged ==
    ASSUME log \in Seq(Diff), NEW d, LogGrows(d)
    PROVE  /\ Len(log) \in Nat /\ Len(log') \in Nat /\ Len(log) <= Len(log')
           /\ \A i \in 1 .. Len(log) : i \in 1 .. Len(log') /\ log'[i] = log[i]
           /\ \A i \in 1 .. Len(log') : i <= Len(log) \/ log'[i].cid # d
<1>0. Len(log) \in Nat
  BY LenProperties
<1>1. CASE log' = log
  BY <1>0, <1>1
<1>2. CASE \E l \in Diff : l.cid # d /\ log' = Append(log, l)
  <2>1. PICK l \in Diff : l.cid # d /\ log' = Append(log, l)
    BY <1>2
  <2>2. /\ Len(log') = Len(log) + 1
        /\ \A i \in 1 .. Len(log) : log'[i] = log[i]
        /\ log'[Len(log) + 1] = l
    BY <2>1, AppendProperties
  <2>3. \A i \in 1 .. Len(log') : i <= Len(log) \/ i = Len(log) + 1
    BY <1>0, <2>2
  <2> QED
    BY <1>0, <2>1, <2>2, <2>3
<1> QED
  BY <1>1, <1>2 DEF LogGrows

-----------------------------------------------------------------------------
(* A step that leaves the copy of d alone: messages that say nothing about *)
(* it may be added for d, and one from d may have been read.               *)

Keeps(d) ==
    /\ link'[d] = link[d] /\ seen'[d] = seen[d] /\ ver'[d] = ver[d]
    /\ text'[d] = text[d] /\ pend'[d] = pend[d] /\ unconf'[d] = unconf[d]
    /\ rids'[d] = rids[d] /\ waiting'[d] = waiting[d] /\ fetch'[d] = fetch[d]
    /\ late'[d] = late[d]

Tells(d, out) ==
    /\ out \in Seq(DownMsg)
    /\ link[d] = "off" => out = <<>>
    /\ down'[d] = down[d] \o out
    /\ said'[d] = said[d] + Len(out)
    /\ \A i \in 1 .. Len(out) : out[i].type = "reject_diff" =>
          \A k \in 1 .. Len(log') : log'[k].cid = d => log'[k].rid # out[i].rid

Quiet(d, out) ==
    \A i \in 1 .. Len(out) :
        /\ ~Confirms(d, out[i]) /\ ~IsRefetch(out[i])
        /\ out[i].type = "diff" =>
              /\ out[i].v < Len(log')
              /\ log'[out[i].v + 1] =
                    [cid |-> out[i].cid, rid |-> out[i].rid, edits |-> out[i].edits]

Reads(d) == up'[d] = up[d] \/ (up[d] # <<>> /\ up'[d] = Tail(up[d]))

\* What is left of the messages read.
LEMMA Remaining ==
    ASSUME Types, NEW d \in Client, Reads(d)
    PROVE  /\ Len(up'[d]) \in Nat
           /\ \E s \in {0, 1} : /\ Len(up'[d]) = Len(up[d]) - s
                                /\ \A i \in 1 .. Len(up'[d]) :
                                      i + s \in 1 .. Len(up[d]) /\ up'[d][i] = up[d][i + s]
<1>0. up[d] \in Seq(UpMsg) /\ Len(up[d]) \in Nat
  BY Typed
<1>1. CASE up'[d] = up[d]
  BY <1>0, <1>1
<1>2. CASE up[d] # <<>> /\ up'[d] = Tail(up[d])
  <2>1. /\ Len(up'[d]) = Len(up[d]) - 1
        /\ \A i \in 1 .. Len(up'[d]) : up'[d][i] = up[d][i + 1]
    BY <1>0, <1>2, HeadTailProperties
  <2>2. Len(up[d]) # 0
    BY <1>0, <1>2, EmptySeq
  <2>3. Len(up'[d]) \in Nat /\ \A i \in 1 .. Len(up'[d]) : i + 1 \in 1 .. Len(up[d])
    BY <1>0, <2>1, <2>2
  <2> QED
    BY <2>1, <2>3
<1> QED
  BY <1>1, <1>2 DEF Reads

\* A row goes on covering what d has, and so does a later one.
LEMMA CoversMore ==
    ASSUME Types, NEW d \in Client, Keeps(d), LogGrows(d),
           NEW u \in Nat, NEW w \in Nat, u <= w, RowCovers(d, u)
    PROVE  RowCovers(d, w)'
<1>1. /\ ver[d] < u /\ \A k \in u + 1 .. Len(log) : log[k].cid # d
      /\ pend[d] # <<>> \/ ver[d] + History < u
  BY DEF RowCovers
<1>2. /\ log \in Seq(Diff) /\ ver[d] \in Nat /\ History \in Nat
  BY Typed
<1>3. /\ Len(log) \in Nat /\ Len(log') \in Nat /\ Len(log) <= Len(log')
      /\ \A i \in 1 .. Len(log) : i \in 1 .. Len(log') /\ log'[i] = log[i]
      /\ \A i \in 1 .. Len(log') : i <= Len(log) \/ log'[i].cid # d
  BY <1>2, Logged
<1>4. \A k \in w + 1 .. Len(log') : log'[k].cid # d
  <2> TAKE k \in w + 1 .. Len(log')
  <2>1. k \in 1 .. Len(log')
    BY <1>3
  <2>2. k \in Int /\ u + 1 <= k
    OBVIOUS
  <2>3. k <= Len(log) => k \in 1 .. Len(log) /\ k \in u + 1 .. Len(log)
    BY <1>3, <2>1, <2>2
  <2> QED
    BY <1>1, <1>3, <2>1, <2>3
<1>5. ver'[d] = ver[d] /\ pend'[d] = pend[d]
  BY DEF Keeps
<1>6. ver'[d] < w /\ (pend'[d] # <<>> \/ ver'[d] + History < w)
  BY <1>1, <1>2, <1>5
<1> QED
  BY <1>4, <1>6 DEF RowCovers

\* The next diff of d is what it was.
LEMMA OwnStays ==
    ASSUME Types, NEW d \in Client, Current(d), Keeps(d), LogGrows(d)
    PROVE  /\ OwnNext(d)' <=> OwnNext(d)
           /\ OwnNext(d) => log'[ver[d] + 1] = log[ver[d] + 1]
<1>1. /\ log \in Seq(Diff) /\ ver[d] \in Nat /\ ver[d] <= Len(log)
  BY Typed DEF Current
<1>2. /\ Len(log) \in Nat /\ Len(log') \in Nat /\ Len(log) <= Len(log')
      /\ \A i \in 1 .. Len(log) : i \in 1 .. Len(log') /\ log'[i] = log[i]
      /\ \A i \in 1 .. Len(log') : i <= Len(log) \/ log'[i].cid # d
  BY <1>1, Logged
<1>3. ver'[d] = ver[d]
  BY DEF Keeps
<1>4. CASE ver[d] < Len(log)
  <2>1. ver[d] + 1 \in 1 .. Len(log) /\ ver[d] < Len(log')
    BY <1>1, <1>2, <1>4
  <2>2. log'[ver[d] + 1] = log[ver[d] + 1]
    BY <1>2, <2>1
  <2> QED
    BY <1>3, <1>4, <2>1, <2>2 DEF OwnNext
<1>5. CASE ver[d] = Len(log)
  <2>1. ~OwnNext(d)
    BY <1>2, <1>5 DEF OwnNext
  <2>2. ASSUME ver[d] < Len(log')
        PROVE  log'[ver[d] + 1].cid # d
    <3>1. ver[d] + 1 \in 1 .. Len(log') /\ ~(ver[d] + 1 <= Len(log))
      BY <1>1, <1>2, <1>5, <2>2
    <3> QED
      BY <1>2, <3>1
  <2> QED
    BY <1>3, <2>1, <2>2 DEF OwnNext
<1> QED
  BY <1>1, <1>2, <1>4, <1>5

\* All but what is said of the messages that come.
LEMMA Untouched ==
    ASSUME Types, NEW d \in Client, ClientInv(d), Keeps(d), Reads(d), LogGrows(d),
           NEW out, Tells(d, out),
           saved \in Nat, saved' \in Nat, saved <= saved', saved' <= Len(log'),
           typed' \in Nat, typed <= typed', d \in joined' => d \in joined \/ link[d] = "on"
    PROVE  /\ Linked(d)' /\ Fresh(d)' /\ Rids(d)' /\ Own(d)'
           /\ Fetching(d)' /\ Editing(d)' /\ Current(d)'
<1>1. /\ log \in Seq(Diff) /\ Len(log) \in Nat /\ saved <= Len(log) /\ typed \in Nat
      /\ link[d] \in {"on", "off"}
      /\ said[d] \in Nat /\ seen[d] \in Nat /\ ver[d] \in Nat /\ rids[d] \in Nat
      /\ pend[d] \in Seq(Edit) /\ Len(pend[d]) \in Nat
      /\ fetch[d] \in [from: Nat, row: Nat \cup {-1}, open: BOOLEAN]
      /\ down[d] \in Seq(DownMsg) /\ Len(down[d]) \in Nat
      /\ up[d] \in Seq(UpMsg) /\ Len(up[d]) \in Nat
      /\ History \in Nat
  BY Typed
<1>2. /\ Len(log') \in Nat /\ Len(log) <= Len(log')
      /\ \A i \in 1 .. Len(log) : i \in 1 .. Len(log') /\ log'[i] = log[i]
      /\ \A i \in 1 .. Len(log') : i <= Len(log) \/ log'[i].cid # d
  BY <1>1, Logged
<1>3. /\ link'[d] = link[d] /\ seen'[d] = seen[d] /\ ver'[d] = ver[d]
      /\ text'[d] = text[d] /\ pend'[d] = pend[d] /\ unconf'[d] = unconf[d]
      /\ rids'[d] = rids[d] /\ waiting'[d] = waiting[d] /\ fetch'[d] = fetch[d]
      /\ Waits(d)' <=> Waits(d)
  BY DEF Keeps, Waits
<1>4. /\ out \in Seq(DownMsg) /\ Len(out) \in Nat
      /\ down'[d] = down[d] \o out /\ said'[d] = said[d] + Len(out)
  BY LenProperties DEF Tells
<1>5. PICK s \in {0, 1} : /\ Len(up'[d]) = Len(up[d]) - s
                          /\ \A i \in 1 .. Len(up'[d]) :
                                i + s \in 1 .. Len(up[d]) /\ up'[d][i] = up[d][i + s]
  BY Remaining
<1>6. Len(up'[d]) \in Nat
  BY Remaining
<1>7. /\ Len(down'[d]) = Len(down[d]) + Len(out)
      /\ \A i \in 1 .. Len(down[d]) : down'[d][i] = down[d][i]
      /\ \A i \in 1 .. Len(down'[d]) : i > Len(down[d]) =>
            i - Len(down[d]) \in 1 .. Len(out) /\ down'[d][i] = out[i - Len(down[d])]
  <2>1. down[d] \o out \in Seq(DownMsg) /\ Len(down[d] \o out) = Len(down[d]) + Len(out)
    BY <1>1, <1>4, ConcatProperties
  <2>2. \A i \in 1 .. Len(down[d]) + Len(out) :
           (down[d] \o out)[i] = IF i <= Len(down[d]) THEN down[d][i]
                                 ELSE out[i - Len(down[d])]
    BY <1>1, <1>4, ConcatProperties
  <2> QED
    BY SMTT(20), <1>1, <1>4, <2>1, <2>2
<1>8. \A i \in 1 .. Len(out) : out[i].type = "reject_diff" =>
          \A k \in 1 .. Len(log') : log'[k].cid = d => log'[k].rid # out[i].rid
  BY DEF Tells
<1>9. Linked(d)'
  <2>1. link[d] = "off" => out = <<>> /\ Len(out) = 0
    BY EmptySeq DEF Tells
  <2>2. link'[d] = "on" => seen'[d] + Len(down'[d]) = said'[d]
    BY SMTT(20), <1>1, <1>3, <1>4, <1>7 DEF ClientInv, Linked
  <2>3. ASSUME link[d] = "off"
        PROVE  /\ up'[d] = <<>> /\ down'[d] = <<>> /\ d \notin joined'
               /\ seen'[d] <= said'[d]
    <3>1. up[d] = <<>> /\ down[d] = <<>> /\ d \notin joined /\ seen[d] <= said[d]
      BY <2>3 DEF ClientInv, Linked
    <3>2. up'[d] = <<>> /\ down'[d] = <<>> /\ d \notin joined'
      BY <1>4, <2>1, <2>3, <3>1, EmptySeq, ConcatEmptySeq DEF Reads
    <3>3. said'[d] = said[d] + 0
      BY <1>4, <2>1, <2>3
    <3> QED
      BY <1>1, <1>3, <3>1, <3>2, <3>3
  <2> QED
    BY <1>3, <2>2, <2>3 DEF Linked
<1>10. Fresh(d)'
  <2> SUFFICES ASSUME NEW i \in 1 .. Len(up'[d])
               PROVE  /\ up'[d][i].seen <= seen'[d]
                      /\ up'[d][i].seen = seen'[d] =>
                            /\ up'[d][i].v = ver'[d]
                            /\ ~Waits(d)'
                            /\ up'[d][i].type = "diff" =>
                                  /\ IsPrefix(up'[d][i].edits, pend'[d])
                                  /\ [rid |-> up'[d][i].rid, n |-> Len(up'[d][i].edits)]
                                        \in unconf'[d]
                            /\ up'[d][i].type = "check_version" =>
                                  (up'[d][i].offline => pend'[d] # <<>>)
    BY DEF Fresh
  <2> DEFINE h == i + s
  <2>1. h \in 1 .. Len(up[d]) /\ up'[d][i] = up[d][h]
    BY <1>5
  <2> HIDE DEF h
  <2> QED
    BY <1>3, <2>1 DEF ClientInv, Fresh
<1>11. OwnNext(d)' <=> OwnNext(d)
  BY OwnStays DEF ClientInv
<1>12. OwnNext(d) => log'[ver[d] + 1] = log[ver[d] + 1]
  BY OwnStays DEF ClientInv
<1>13. Own(d)'
  <2>1. \A k \in ver'[d] + 2 .. Len(log') : log'[k].cid # d
    <3> TAKE k \in ver'[d] + 2 .. Len(log')
    <3>1. k \in 1 .. Len(log') /\ (k <= Len(log) => k \in ver[d] + 2 .. Len(log))
      BY <1>1, <1>2, <1>3
    <3>2. CASE k <= Len(log)
      <4>1. k \in 1 .. Len(log) /\ k \in ver[d] + 2 .. Len(log)
        BY <1>1, <3>1, <3>2
      <4> QED
        BY <1>2, <4>1 DEF ClientInv, Own
    <3> QED
      BY <1>2, <3>1, <3>2
  <2> QED
    BY <1>3, <1>11, <1>12, <2>1 DEF ClientInv, Own
<1>14. Rids(d)'
  <2>1. \A k \in 1 .. Len(log') : log'[k].cid = d => k \in 1 .. Len(log) /\ log'[k] = log[k]
    BY SMTT(20), <1>1, <1>2
  <2>2. \A i \in 1 .. Len(down'[d]) : down'[d][i].type = "reject_diff" =>
            \A k \in 1 .. Len(log') : log'[k].cid = d => log'[k].rid # down'[d][i].rid
    <3> SUFFICES ASSUME NEW i \in 1 .. Len(down'[d]), down'[d][i].type = "reject_diff",
                        NEW k \in 1 .. Len(log'), log'[k].cid = d
                 PROVE  log'[k].rid # down'[d][i].rid
      OBVIOUS
    <3>1. CASE i <= Len(down[d])
      <4>1. i \in 1 .. Len(down[d])
        BY <1>1, <3>1
      <4>2. down'[d][i] = down[d][i] /\ k \in 1 .. Len(log) /\ log'[k] = log[k]
        BY <1>7, <2>1, <4>1
      <4>3. down[d][i].type = "reject_diff" /\ log[k].cid = d
        BY <4>2
      <4> QED
        BY <4>1, <4>2, <4>3 DEF ClientInv, Rids
    <3>2. CASE i > Len(down[d])
      <4> DEFINE h == i - Len(down[d])
      <4>1. h \in 1 .. Len(out) /\ down'[d][i] = out[h]
        BY <1>7, <3>2
      <4> HIDE DEF h
      <4> QED
        BY <1>8, <4>1
    <3> QED
      BY SMTT(20), <1>1, <1>4, <1>7, <3>1, <3>2
  <2>3. /\ \A u \in unconf[d] : u.rid < rids[d] /\ \A w \in unconf[d] : w.rid = u.rid => w = u
        /\ \A k \in 1 .. Len(log') : log'[k].cid = d => log'[k].rid < rids[d]
    BY <2>1 DEF ClientInv, Rids
  <2>4. ASSUME NEW i \in 1 .. Len(up'[d]), up'[d][i].type = "diff"
        PROVE  /\ up'[d][i].rid < rids[d]
               /\ \A j \in 1 .. i - 1 : up'[d][j].type = "diff" => up'[d][j].rid # up'[d][i].rid
               /\ \A k \in 1 .. Len(log') : log'[k].cid = d => log'[k].rid # up'[d][i].rid
    <3>1. i + s \in 1 .. Len(up[d]) /\ up'[d][i] = up[d][i + s]
      BY <1>5
    <3>2. \A j \in 1 .. i - 1 : j + s \in 1 .. i + s - 1 /\ up'[d][j] = up[d][j + s]
      BY <1>5, <1>6
    <3> DEFINE h == i + s
    <3>3. /\ up[d][h].rid < rids[d]
          /\ \A j \in 1 .. h - 1 : up[d][j].type = "diff" => up[d][j].rid # up[d][h].rid
          /\ \A k \in 1 .. Len(log) : log[k].cid = d => log[k].rid # up[d][h].rid
      BY <2>4, <3>1 DEF ClientInv, Rids
    <3>4. up'[d][i] = up[d][h] /\ \A j \in 1 .. i - 1 : j + s \in 1 .. h - 1
      BY <3>1, <3>2
    <3> HIDE DEF h
    <3> QED
      BY <2>1, <3>2, <3>3, <3>4
  <2> QED
    BY <1>3, <2>2, <2>3, <2>4 DEF Rids
<1>16. RowCovers(d, saved) => RowCovers(d, saved)'
  <2>1. PICK u \in Nat, w \in Nat : u = saved /\ w = saved' /\ u <= w
    OBVIOUS
  <2>2. RowCovers(d, u) => RowCovers(d, w)'
    BY <2>1, CoversMore
  <2> QED
    BY <2>1, <2>2 DEF RowCovers
<1>18. Fetching(d)'
  <2>1. fetch[d].row \in Nat \cup {-1} /\ fetch[d].row <= saved'
    BY <1>1 DEF ClientInv, Fetching
  <2>2. /\ Waits(d) => fetch[d].from = ver[d] /\ RowCovers(d, saved)
        /\ Waits(d) /\ fetch[d].row # -1 => RowCovers(d, fetch[d].row)
    BY DEF ClientInv, Fetching
  <2>3. Waits(d) /\ fetch[d].row # -1 => RowCovers(d, fetch[d].row)'
    <3>1. Waits(d) /\ fetch[d].row # -1 => fetch[d].row \in Nat /\ fetch[d].row <= Len(log)
      BY <1>1, <2>1 DEF ClientInv, Fetching
    <3> SUFFICES ASSUME Waits(d), fetch[d].row # -1 PROVE RowCovers(d, fetch[d].row)'
      OBVIOUS
    <3>2. PICK u \in Nat : u = fetch[d].row
      BY <3>1
    <3>3. RowCovers(d, u)'
      BY <2>2, <3>2, CoversMore
    <3> QED
      BY <1>3, <3>2, <3>3 DEF RowCovers
  <2> QED
    BY <1>3, <1>16, <2>1, <2>2, <2>3 DEF Fetching
<1>19. Editing(d)'
  BY <1>1, <1>3 DEF ClientInv, Editing
<1>20. Current(d)'
  <2>1. PICK v \in Nat : v = ver[d]
    BY <1>1
  <2>2. log' = log \/ \E l \in Diff : log' = Append(log, l)
    BY DEF LogGrows
  <2>3. ver[d] <= Len(log) /\ text[d] = TextAt(ver[d])
    BY DEF ClientInv, Current
  <2>4. TextAt(v)' = TextAt(v)
    BY <1>1, <2>1, <2>2, <2>3, TextStays
  <2>5. ver'[d] = v /\ v <= Len(log') /\ text'[d] = TextAt(v)'
    BY <1>1, <1>2, <1>3, <2>1, <2>3, <2>4
  <2> QED
    BY <2>5 DEF Current
<1> QED
  BY <1>9, <1>10, <1>13, <1>14, <1>18, <1>19, <1>20

LEMMA Told ==
    ASSUME Types, NEW d \in Client, ClientInv(d), Keeps(d), Reads(d), LogGrows(d),
           NEW out, Tells(d, out), Quiet(d, out),
           saved \in Nat, saved' \in Nat, saved <= saved', saved' <= Len(log'),
           typed' \in Nat, typed <= typed', d \in joined' => d \in joined \/ link[d] = "on"
    PROVE  ClientInv(d)'
<1>1. /\ log \in Seq(Diff) /\ Len(log) \in Nat /\ saved <= Len(log) /\ typed \in Nat
      /\ link[d] \in {"on", "off"}
      /\ said[d] \in Nat /\ seen[d] \in Nat /\ ver[d] \in Nat /\ rids[d] \in Nat
      /\ pend[d] \in Seq(Edit) /\ Len(pend[d]) \in Nat
      /\ fetch[d] \in [from: Nat, row: Nat \cup {-1}, open: BOOLEAN]
      /\ down[d] \in Seq(DownMsg) /\ Len(down[d]) \in Nat
      /\ up[d] \in Seq(UpMsg) /\ Len(up[d]) \in Nat
      /\ History \in Nat
  BY Typed
<1>2. /\ Len(log') \in Nat /\ Len(log) <= Len(log')
      /\ \A i \in 1 .. Len(log) : i \in 1 .. Len(log') /\ log'[i] = log[i]
      /\ \A i \in 1 .. Len(log') : i <= Len(log) \/ log'[i].cid # d
  BY <1>1, Logged
<1>3. /\ link'[d] = link[d] /\ seen'[d] = seen[d] /\ ver'[d] = ver[d]
      /\ text'[d] = text[d] /\ pend'[d] = pend[d] /\ unconf'[d] = unconf[d]
      /\ rids'[d] = rids[d] /\ waiting'[d] = waiting[d] /\ fetch'[d] = fetch[d]
      /\ Waits(d)' <=> Waits(d)
  BY DEF Keeps, Waits
<1>4. /\ out \in Seq(DownMsg) /\ Len(out) \in Nat
      /\ down'[d] = down[d] \o out /\ said'[d] = said[d] + Len(out)
  BY LenProperties DEF Tells
<1>7. /\ Len(down'[d]) = Len(down[d]) + Len(out)
      /\ \A i \in 1 .. Len(down[d]) : down'[d][i] = down[d][i]
      /\ \A i \in 1 .. Len(down'[d]) : i > Len(down[d]) =>
            i - Len(down[d]) \in 1 .. Len(out) /\ down'[d][i] = out[i - Len(down[d])]
  <2>1. down[d] \o out \in Seq(DownMsg) /\ Len(down[d] \o out) = Len(down[d]) + Len(out)
    BY <1>1, <1>4, ConcatProperties
  <2>2. \A i \in 1 .. Len(down[d]) + Len(out) :
           (down[d] \o out)[i] = IF i <= Len(down[d]) THEN down[d][i]
                                 ELSE out[i - Len(down[d])]
    BY <1>1, <1>4, ConcatProperties
  <2>3. Len(down'[d]) = Len(down[d]) + Len(out)
    BY <1>4, <2>1
  <2>4. \A i \in 1 .. Len(down[d]) : i \in 1 .. Len(down[d]) + Len(out) /\ i <= Len(down[d])
    <3>1. PICK a, b \in Nat : a = Len(down[d]) /\ b = Len(out)
      BY <1>1, <1>4
    <3>2. \A i \in 1 .. a : i \in 1 .. a + b /\ i <= a
      OBVIOUS
    <3> QED
      BY <3>1, <3>2
  <2>5. \A i \in 1 .. Len(down[d]) : down'[d][i] = down[d][i]
    BY <1>4, <2>2, <2>4
  <2>6. \A i \in 1 .. Len(down[d]) + Len(out) :
           i > Len(down[d]) => ~(i <= Len(down[d])) /\ i - Len(down[d]) \in 1 .. Len(out)
    <3>1. PICK a, b \in Nat : a = Len(down[d]) /\ b = Len(out)
      BY <1>1, <1>4
    <3>2. \A i \in 1 .. a + b : i > a => ~(i <= a) /\ i - a \in 1 .. b
      OBVIOUS
    <3> QED
      BY <3>1, <3>2
  <2>7. \A i \in 1 .. Len(down'[d]) : i > Len(down[d]) =>
           i - Len(down[d]) \in 1 .. Len(out) /\ down'[d][i] = out[i - Len(down[d])]
    BY <1>4, <2>2, <2>3, <2>6
  <2> QED
    BY <2>3, <2>5, <2>7
<1>8. \A i \in 1 .. Len(out) :
          /\ ~Confirms(d, out[i]) /\ ~IsRefetch(out[i])
          /\ out[i].type = "diff" =>
                /\ out[i].v < Len(log')
                /\ log'[out[i].v + 1] =
                      [cid |-> out[i].cid, rid |-> out[i].rid, edits |-> out[i].edits]
  BY DEF Quiet
<1>11. OwnNext(d)' <=> OwnNext(d)
  BY OwnStays DEF ClientInv
<1>12. OwnNext(d) => log'[ver[d] + 1] = log[ver[d] + 1]
  BY OwnStays DEF ClientInv
<1>16. RowCovers(d, saved) => RowCovers(d, saved)'
  <2>1. PICK u \in Nat, w \in Nat : u = saved /\ w = saved' /\ u <= w
    OBVIOUS
  <2>2. RowCovers(d, u) => RowCovers(d, w)'
    BY <2>1, CoversMore
  <2> QED
    BY <2>1, <2>2 DEF RowCovers
<1>17. Incoming(d)'
  <2> SUFFICES ASSUME NEW i \in 1 .. Len(down'[d])
               PROVE  /\ Confirms(d, down'[d][i]) \/ IsRefetch(down'[d][i]) =>
                            /\ ~Waits(d)'
                            /\ \A j \in 1 .. i - 1 : down'[d][j].type = "subscribed"
                      /\ Confirms(d, down'[d][i]) =>
                            OwnNext(d)' /\ log'[ver'[d] + 1].rid = down'[d][i].rid
                      /\ IsRefetch(down'[d][i]) => RowCovers(d, saved)'
                      /\ down'[d][i].type = "diff" =>
                            /\ down'[d][i].v < Len(log')
                            /\ log'[down'[d][i].v + 1] =
                                  [cid |-> down'[d][i].cid, rid |-> down'[d][i].rid,
                                   edits |-> down'[d][i].edits]
    BY DEF Incoming, Confirms, IsRefetch
  <2>1. CASE i <= Len(down[d])
    <3>1. i \in 1 .. Len(down[d]) /\ down'[d][i] = down[d][i]
      BY <1>1, <1>7, <2>1
    <3>2. \A j \in 1 .. i - 1 : j \in 1 .. Len(down[d]) /\ down'[d][j] = down[d][j]
      BY SMTT(20), <1>1, <1>7, <3>1
    <3> DEFINE m == down[d][i]
    <3>3. /\ Confirms(d, m) \/ IsRefetch(m) =>
                /\ ~Waits(d)
                /\ \A j \in 1 .. i - 1 : down[d][j].type = "subscribed"
          /\ Confirms(d, m) => OwnNext(d) /\ log[ver[d] + 1].rid = m.rid
          /\ IsRefetch(m) => RowCovers(d, saved)
          /\ m.type = "diff" =>
                /\ m.v < Len(log)
                /\ log[m.v + 1] = [cid |-> m.cid, rid |-> m.rid, edits |-> m.edits]
      BY <3>1 DEF ClientInv, Incoming
    <3>6. m \in DownMsg /\ down'[d][i] = m
      BY <1>1, <3>1, ElementOfSeq
    <3> HIDE DEF m
    <3>4. m.type = "diff" => m.v \in Nat
      BY <3>6, DownTyped
    <3>5. m.type = "diff" => m.v < Len(log') /\ log'[m.v + 1] = log[m.v + 1]
      <4> SUFFICES ASSUME m.type = "diff" PROVE m.v < Len(log') /\ log'[m.v + 1] = log[m.v + 1]
        OBVIOUS
      <4>1. m.v \in Nat /\ m.v < Len(log)
        BY <3>3, <3>4
      <4>2. m.v + 1 \in 1 .. Len(log) /\ m.v < Len(log')
        BY <1>2, <4>1
      <4> QED
        BY <1>2, <4>2
    <3> QED
      BY <1>3, <1>11, <1>12, <1>16, <3>2, <3>3, <3>5, <3>6
  <2>2. CASE i > Len(down[d])
    <3> DEFINE h == i - Len(down[d])
    <3>1. h \in 1 .. Len(out) /\ down'[d][i] = out[h]
      BY <1>7, <2>2
    <3> HIDE DEF h
    <3>2. ~Confirms(d, down'[d][i]) /\ ~IsRefetch(down'[d][i])
      BY <1>8, <3>1
    <3>3. down'[d][i].type = "diff" =>
            /\ down'[d][i].v < Len(log')
            /\ log'[down'[d][i].v + 1] =
                  [cid |-> down'[d][i].cid, rid |-> down'[d][i].rid,
                   edits |-> down'[d][i].edits]
      BY <1>8, <3>1
    <3> QED
      BY <3>2, <3>3 DEF Confirms, IsRefetch
  <2>3. i <= Len(down[d]) \/ i > Len(down[d])
    BY <1>1, <1>4, <1>7
  <2> QED
    BY <2>1, <2>2, <2>3
<1> QED
  BY <1>17, Untouched DEF ClientInv

-----------------------------------------------------------------------------
(* The answers of the server about a version.                              *)

LEMMA MinOf ==
    ASSUME NEW a \in Int, NEW b \in Int
    PROVE  Min({a, b}) = IF a <= b THEN a ELSE b
<1> DEFINE m == IF a <= b THEN a ELSE b
<1>1. m \in {a, b} /\ \A y \in {a, b} : m <= y
  OBVIOUS
<1>2. \A x \in {a, b} : (\A y \in {a, b} : x <= y) => x = m
  OBVIOUS
<1> QED
  BY <1>1, <1>2 DEF Min

LEMMA Behind ==
    ASSUME Types, NEW v \in Nat, v <= Len(log), ~CanCatchUp(v), v # Len(log)
    PROVE  v + History < Len(log)
<1>1. Len(log) \in Nat /\ History \in Nat
  BY LenProperties, NumberAssumption DEF Types
<1>2. Min({Len(log), History}) = IF Len(log) <= History THEN Len(log) ELSE History
  BY <1>1, MinOf
<1> QED
  BY <1>1, <1>2 DEF CanCatchUp

LEMMA DiffsAfterIs ==
    ASSUME Types, NEW v \in Nat, v <= Len(log)
    PROVE  /\ DiffsAfter(v) \in Seq(DownMsg)
           /\ Len(DiffsAfter(v)) = Len(log) - v
           /\ \A i \in 1 .. Len(log) - v :
                 DiffsAfter(v)[i] = [type |-> "diff", v |-> v + i - 1, cid |-> log[v + i].cid,
                                     rid |-> log[v + i].rid, edits |-> log[v + i].edits]
<1>1. /\ Len(log) \in Nat
      /\ \A i \in 1 .. Len(log) : /\ log[i].cid \in Client
                                  /\ log[i].rid \in Nat /\ log[i].edits \in Seq(Edit)
  BY LogEntries DEF Types
<1> DEFINE n == Len(log) - v
           D == [i \in 1 .. n |-> [type |-> "diff", v |-> v + i - 1, cid |-> log[v + i].cid,
                                   rid |-> log[v + i].rid, edits |-> log[v + i].edits]]
<1>2. n \in Nat
  BY <1>1
<1>3. DOMAIN Missing(v) = 1 .. n /\ \A i \in 1 .. n : Missing(v)[i] = v + i
  BY DEF Missing
<1>4. DiffsAfter(v) = D
  BY <1>3 DEF DiffsAfter
<1>5. \A i \in 1 .. n : D[i] \in DownMsg
  <2> TAKE i \in 1 .. n
  <2>1. v + i \in 1 .. Len(log) /\ v + i - 1 \in Nat
    BY <1>1
  <2> QED
    BY <1>1, <2>1 DEF DownMsg, DiffDown
<1>6. D \in Seq(DownMsg) /\ Len(D) = n
  <2>1. D = [i \in 1 .. n |-> D[i]]
    OBVIOUS
  <2> HIDE DEF n, D
  <2> QED
    BY <1>2, <1>5, <2>1
<1> QED
  BY <1>4, <1>6

\* What the server may say to c when c has received all that was said before.
Answers(c, out) ==
    /\ out \in Seq(DownMsg)
    /\ \A i \in 1 .. Len(out) :
          /\ out[i].type # "reject_diff"
          /\ Confirms(c, out[i]) \/ IsRefetch(out[i]) =>
                \A j \in 1 .. i - 1 : out[j].type = "subscribed"
          /\ Confirms(c, out[i]) => OwnNext(c) /\ log[ver[c] + 1].rid = out[i].rid
          /\ IsRefetch(out[i]) => RowCovers(c, Len(log))
          /\ out[i].type = "diff" =>
                /\ out[i].v < Len(log)
                /\ log[out[i].v + 1] =
                      [cid |-> out[i].cid, rid |-> out[i].rid, edits |-> out[i].edits]

LEMMA DiffsAnswer ==
    ASSUME Types, NEW c \in Client, ClientInv(c)
    PROVE  Answers(c, DiffsAfter(ver[c]))
<1> DEFINE v == ver[c]
           D == DiffsAfter(v)
<1>1. log \in Seq(Diff) /\ Len(log) \in Nat /\ v \in Nat /\ v <= Len(log)
  BY Typed DEF ClientInv, Current
<1>2. /\ D \in Seq(DownMsg)
      /\ Len(D) = Len(log) - v
      /\ \A i \in 1 .. Len(log) - v :
            D[i] = [type |-> "diff", v |-> v + i - 1, cid |-> log[v + i].cid,
                    rid |-> log[v + i].rid, edits |-> log[v + i].edits]
  BY <1>1, DiffsAfterIs
<1> SUFFICES ASSUME NEW i \in 1 .. Len(log) - v
             PROVE  /\ D[i].type # "reject_diff"
                    /\ ~IsRefetch(D[i])
                    /\ Confirms(c, D[i]) =>
                          /\ i = 1
                          /\ OwnNext(c) /\ log[v + 1].rid = D[i].rid
                    /\ D[i].v < Len(log)
                    /\ log[D[i].v + 1] =
                          [cid |-> D[i].cid, rid |-> D[i].rid, edits |-> D[i].edits]
  BY <1>2 DEF Answers
<1> HIDE DEF v, D
<1>3. D[i].type # "reject_diff" /\ ~IsRefetch(D[i]) /\ D[i].v = v + i - 1
  BY <1>2 DEF IsRefetch
<1>4. v + i \in 1 .. Len(log) /\ v + i - 1 + 1 = v + i /\ v + i - 1 < Len(log)
  BY <1>1
<1>5. log[v + i] = [cid |-> D[i].cid, rid |-> D[i].rid, edits |-> D[i].edits]
  <2>1. log[v + i] \in Diff
    BY <1>1, <1>4, LogEntries
  <2> QED
    BY <1>2, <2>1 DEF Diff
<1>6. ASSUME Confirms(c, D[i])
      PROVE  i = 1 /\ OwnNext(c) /\ log[v + 1].rid = D[i].rid
  <2>1. log[v + i].cid = c
    BY <1>2, <1>6 DEF Confirms
  <2>2. i = 1 \/ v + i \in ver[c] + 2 .. Len(log)
    BY <1>1, <1>4 DEF v
  <2>3. i = 1
    BY <2>1, <2>2 DEF ClientInv, Own
  <2>4. v < Len(log) /\ log[v + 1].cid = c /\ log[v + 1].rid = D[i].rid
    <3>1. v + i = v + 1 /\ v < Len(log)
      BY <1>1, <1>4, <2>3
    <3>2. log[v + i].rid = D[i].rid
      BY <1>2
    <3> QED
      BY <2>1, <3>1, <3>2
  <2> QED
    BY <2>3, <2>4 DEF OwnNext, v
<1> QED
  BY <1>3, <1>4, <1>5, <1>6

LEMMA RefetchAnswer ==
    ASSUME Types, NEW c \in Client, RowCovers(c, Len(log))
    PROVE  Answers(c, Refetch)
<1>1. Plain("refetch_doc") \in DownMsg
  BY DEF Plain, DownMsg, PlainDown
<1>2. Refetch \in Seq(DownMsg) /\ Len(Refetch) = 1 /\ Refetch[1] = Plain("refetch_doc")
  BY <1>1 DEF Refetch
<1>3. Plain("refetch_doc").type = "refetch_doc"
  BY DEF Plain
<1>4. ASSUME NEW i \in 1 .. Len(Refetch)
      PROVE  i = 1 /\ Refetch[i].type = "refetch_doc"
  BY <1>2, <1>3
<1> QED
  BY <1>2, <1>4 DEF Answers, Confirms, IsRefetch

\* Messages that are about no diff and no row may be said as well.
Others == {"subscribed", "connections", "confirm_version"}

LEMMA AnswersAppend ==
    ASSUME NEW c, NEW s, Answers(c, s), NEW m \in DownMsg, m.type \in Others
    PROVE  Answers(c, Append(s, m))
<1> DEFINE t == Append(s, m)
<1>1. s \in Seq(DownMsg) /\ Len(s) \in Nat
  BY LenProperties DEF Answers
<1>2. /\ t \in Seq(DownMsg) /\ Len(t) = Len(s) + 1 /\ t[Len(s) + 1] = m
      /\ \A i \in 1 .. Len(s) : t[i] = s[i]
  BY <1>1, AppendProperties
<1> HIDE DEF t
<1> SUFFICES ASSUME NEW i \in 1 .. Len(t)
             PROVE  /\ t[i].type # "reject_diff"
                    /\ Confirms(c, t[i]) \/ IsRefetch(t[i]) =>
                          \A j \in 1 .. i - 1 : t[j].type = "subscribed"
                    /\ Confirms(c, t[i]) => OwnNext(c) /\ log[ver[c] + 1].rid = t[i].rid
                    /\ IsRefetch(t[i]) => RowCovers(c, Len(log))
                    /\ t[i].type = "diff" =>
                          /\ t[i].v < Len(log)
                          /\ log[t[i].v + 1] =
                                [cid |-> t[i].cid, rid |-> t[i].rid, edits |-> t[i].edits]
  BY <1>2 DEF Answers, t
<1>3. CASE i = Len(s) + 1
  <2>1. t[i].type \in Others
    BY <1>2, <1>3
  <2> QED
    BY <2>1 DEF Others, Confirms, IsRefetch
<1>4. CASE i \in 1 .. Len(s)
  <2>1. t[i] = s[i] /\ \A j \in 1 .. i - 1 : t[j] = s[j]
    BY <1>1, <1>2, <1>4
  <2> QED
    BY <1>4, <2>1 DEF Answers
<1> QED
  BY <1>1, <1>2, <1>3, <1>4

LEMMA AnswersAfter ==
    ASSUME NEW c, NEW s, Answers(c, s)
    PROVE  Answers(c, <<Plain("subscribed")>> \o s)
<1> DEFINE h == <<Plain("subscribed")>>
           t == h \o s
<1>1. s \in Seq(DownMsg) /\ Len(s) \in Nat
  BY LenProperties DEF Answers
<1>2. /\ h \in Seq(DownMsg) /\ Len(h) = 1 /\ h[1].type = "subscribed"
  BY DEF Plain, DownMsg, PlainDown
<1> HIDE DEF h
<1>3. /\ t \in Seq(DownMsg) /\ Len(t) = Len(s) + 1 /\ t[1].type = "subscribed"
      /\ \A i \in 1 .. Len(t) : i # 1 => i - 1 \in 1 .. Len(s) /\ t[i] = s[i - 1]
  BY SMTT(20), <1>1, <1>2, ConcatProperties
<1> HIDE DEF t
<1> SUFFICES ASSUME NEW i \in 1 .. Len(t)
             PROVE  /\ t[i].type # "reject_diff"
                    /\ Confirms(c, t[i]) \/ IsRefetch(t[i]) =>
                          \A j \in 1 .. i - 1 : t[j].type = "subscribed"
                    /\ Confirms(c, t[i]) => OwnNext(c) /\ log[ver[c] + 1].rid = t[i].rid
                    /\ IsRefetch(t[i]) => RowCovers(c, Len(log))
                    /\ t[i].type = "diff" =>
                          /\ t[i].v < Len(log)
                          /\ log[t[i].v + 1] =
                                [cid |-> t[i].cid, rid |-> t[i].rid, edits |-> t[i].edits]
  BY <1>3 DEF Answers, t, h
<1>4. CASE i = 1
  BY <1>3, <1>4 DEF Confirms, IsRefetch
<1>5. CASE i # 1
  <2> DEFINE k == i - 1
  <2>1. k \in 1 .. Len(s) /\ t[i] = s[k]
    BY <1>3, <1>5
  <2>2. ASSUME NEW j \in 1 .. i - 1, \A x \in 1 .. k - 1 : s[x].type = "subscribed"
        PROVE  t[j].type = "subscribed"
    <3>1. j \in 1 .. Len(t) /\ (j # 1 => j - 1 \in 1 .. k - 1)
      BY <1>1, <1>3
    <3> QED
      BY <1>3, <2>2, <3>1
  <2> HIDE DEF k
  <2> QED
    BY <2>1, <2>2 DEF Answers
<1> QED
  BY <1>4, <1>5

LEMMA VersionAnswers ==
    ASSUME Types, NEW c \in Client, ClientInv(c), NEW offline \in BOOLEAN,
           offline => pend[c] # <<>>
    PROVE  Answers(c, VersionAnswer(ver[c], offline))
<1>1. /\ log \in Seq(Diff) /\ Len(log) \in Nat /\ ver[c] \in Nat /\ ver[c] <= Len(log)
      /\ History \in Nat
  BY Typed DEF ClientInv, Current
<1>2. ConfirmVersion \in DownMsg /\ ConfirmVersion.type \in Others
  BY <1>1 DEF ConfirmVersion, DownMsg, VersionDown, Others
<1>3. CASE ver[c] = Len(log)
  <2>1. <<>> \in Seq(DownMsg) /\ Len(<<>>) = 0
    BY EmptySeq
  <2>2. Answers(c, <<>>)
    BY <2>1 DEF Answers
  <2>3. Answers(c, Append(<<>>, ConfirmVersion))
    BY <1>2, <2>2, AnswersAppend
  <2>4. \A m : Append(<<>>, m) = <<m>>
    OBVIOUS
  <2>5. VersionAnswer(ver[c], offline) = <<ConfirmVersion>>
    BY <1>3 DEF VersionAnswer
  <2> QED
    BY <2>3, <2>4, <2>5
<1>4. CASE ver[c] # Len(log) /\ CanCatchUp(ver[c]) /\ ~offline
  BY <1>2, <1>4, DiffsAnswer, AnswersAppend DEF VersionAnswer
<1>5. CASE ver[c] # Len(log) /\ ~(CanCatchUp(ver[c]) /\ ~offline)
  <2>1. pend[c] # <<>> \/ ver[c] + History < Len(log)
    BY <1>1, <1>5, Behind
  <2>2. RowCovers(c, Len(log))
    BY <1>1, <1>5, <2>1 DEF RowCovers
  <2> QED
    BY <1>5, <2>2, RefetchAnswer DEF VersionAnswer
<1> QED
  BY <1>3, <1>4, <1>5

LEMMA OutdatedAnswers ==
    ASSUME Types, NEW c \in Client, ClientInv(c), ver[c] # Len(log)
    PROVE  Answers(c, IF CanCatchUp(ver[c]) THEN DiffsAfter(ver[c]) ELSE Refetch)
<1>1. /\ Len(log) \in Nat /\ ver[c] \in Nat /\ ver[c] <= Len(log)
  BY Typed DEF ClientInv, Current
<1>2. ASSUME ~CanCatchUp(ver[c])
      PROVE  RowCovers(c, Len(log))
  BY <1>1, <1>2, Behind DEF RowCovers
<1> QED
  BY <1>2, DiffsAnswer, RefetchAnswer

\* All that is said after a subscription.
SubscribedOut(c, m) ==
    <<Plain("subscribed")>>
    \o (IF m.again THEN <<>> ELSE VersionAnswer(m.v, FALSE))
    \o (IF c \in Communicates THEN <<Plain("connections")>> ELSE <<>>)

LEMMA SubscribedAnswers ==
    ASSUME Types, NEW c \in Client, ClientInv(c), NEW m, m.v = ver[c]
    PROVE  Answers(c, SubscribedOut(c, m))
<1> DEFINE a == IF m.again THEN <<>> ELSE VersionAnswer(m.v, FALSE)
           b == <<Plain("subscribed")>> \o a
           k == Plain("connections")
<1>1. Answers(c, a)
  <2>1. <<>> \in Seq(DownMsg) /\ Len(<<>>) = 0
    BY EmptySeq
  <2>2. Answers(c, <<>>)
    BY <2>1 DEF Answers
  <2>3. Answers(c, VersionAnswer(ver[c], FALSE))
    BY VersionAnswers
  <2> QED
    BY <2>2, <2>3
<1> HIDE DEF a
<1>2. Answers(c, b)
  BY <1>1, AnswersAfter
<1>3. k \in DownMsg /\ k.type \in Others
  BY DEF Plain, DownMsg, PlainDown, Others
<1> HIDE DEF b, k
<1>4. Answers(c, Append(b, k))
  BY <1>2, <1>3, AnswersAppend
<1>5. b \in Seq(DownMsg)
  BY <1>2 DEF Answers
<1>6. Append(b, k) = b \o <<k>> /\ b \o <<>> = b
  BY <1>3, <1>5, AppendIsConcat, ConcatEmptySeq
<1>7. SubscribedOut(c, m) = IF c \in Communicates THEN b \o <<k>> ELSE b \o <<>>
  BY DEF SubscribedOut, a, b, k
<1> QED
  BY <1>2, <1>4, <1>6, <1>7

-----------------------------------------------------------------------------
(* The steps of the server.                                                *)

LEMMA SaidAll ==
    ASSUME Types, NEW out \in [Client -> Seq(DownMsg)], Say(out)
    PROVE  /\ down' \in [Client -> Seq(DownMsg)] /\ said' \in [Client -> Nat]
           /\ \A d \in Client : /\ down'[d] = down[d] \o out[d]
                                /\ said'[d] = said[d] + Len(out[d])
           /\ saved' \in Nat /\ saved <= saved' /\ saved' <= Len(log)
           /\ \A d \in Client : \A i \in 1 .. Len(out[d]) :
                 IsRefetch(out[d][i]) => saved' = Len(log)
<1>1. \A d \in Client : /\ down[d] \o out[d] \in Seq(DownMsg)
                        /\ said[d] + Len(out[d]) \in Nat
  <2> TAKE d \in Client
  <2>1. down[d] \in Seq(DownMsg) /\ out[d] \in Seq(DownMsg) /\ said[d] \in Nat
    BY Typed
  <2> QED
    BY <2>1, ConcatProperties, LenProperties
<1>2. /\ down' = [d \in Client |-> down[d] \o out[d]]
      /\ said' = [d \in Client |-> said[d] + Len(out[d])]
      /\ saved' = IF \E d \in Client : Plain("refetch_doc") \in Range(out[d])
                  THEN Len(log) ELSE saved
  BY DEF Say
<1>3. saved \in Nat /\ Len(log) \in Nat /\ saved <= Len(log)
  BY LenProperties DEF Types
<1>4. ASSUME NEW d \in Client, NEW i \in 1 .. Len(out[d]), IsRefetch(out[d][i])
      PROVE  saved' = Len(log)
  <2>1. out[d][i] \in DownMsg
    BY ElementOfSeq
  <2>2. out[d][i] = Plain("refetch_doc")
    BY <1>4, <2>1 DEF IsRefetch, Plain, DownMsg, PlainDown, VersionDown, AnswerDown, DiffDown
  <2>3. i \in DOMAIN out[d]
    BY LenProperties
  <2>4. Plain("refetch_doc") \in Range(out[d])
    BY <2>2, <2>3 DEF Range
  <2> QED
    BY <1>2, <2>4
<1> QED
  BY <1>1, <1>2, <1>3, <1>4

\* The first message from c when it does not cross: c has received everything,
\* and means the version it has.
LEMMA Caught ==
    ASSUME Types, NEW c \in Client, ClientInv(c), up[c] # <<>>, ~Crosses(c, Head(up[c]))
    PROVE  /\ link[c] = "on" /\ down[c] = <<>> /\ ~Waits(c)
           /\ Head(up[c]) \in UpMsg /\ Head(up[c]) = up[c][1] /\ 1 \in 1 .. Len(up[c])
           /\ Head(up[c]).v = ver[c]
           /\ Head(up[c]).type = "diff" =>
                 /\ IsPrefix(Head(up[c]).edits, pend[c])
                 /\ [rid |-> Head(up[c]).rid, n |-> Len(Head(up[c]).edits)] \in unconf[c]
           /\ Head(up[c]).type = "check_version" => (Head(up[c]).offline => pend[c] # <<>>)
<1>1. /\ up[c] \in Seq(UpMsg) /\ Len(up[c]) \in Nat /\ link[c] \in {"on", "off"}
      /\ seen[c] \in Nat /\ said[c] \in Nat
      /\ down[c] \in Seq(DownMsg) /\ Len(down[c]) \in Nat
  BY Typed
<1>2. Head(up[c]) = up[c][1] /\ 1 \in 1 .. Len(up[c])
  <2>1. Len(up[c]) # 0
    BY <1>1, EmptySeq
  <2> QED
    BY <1>1, <2>1
<1>3. Head(up[c]) \in UpMsg /\ Head(up[c]).seen \in Nat
  BY <1>1, <1>2, ElementOfSeq, UpTyped
<1>4. link[c] = "on"
  BY <1>1 DEF ClientInv, Linked
<1>5. seen[c] + Len(down[c]) = said[c]
  BY <1>4 DEF ClientInv, Linked
<1>6. /\ Head(up[c]).seen <= seen[c]
      /\ Head(up[c]).seen = seen[c] =>
            /\ Head(up[c]).v = ver[c]
            /\ ~Waits(c)
            /\ Head(up[c]).type = "diff" =>
                  /\ IsPrefix(Head(up[c]).edits, pend[c])
                  /\ [rid |-> Head(up[c]).rid, n |-> Len(Head(up[c]).edits)] \in unconf[c]
            /\ Head(up[c]).type = "check_version" =>
                  (Head(up[c]).offline => pend[c] # <<>>)
  BY <1>2 DEF ClientInv, Fresh
<1>7. Head(up[c]).seen = seen[c] /\ Len(down[c]) = 0
  <2>1. ~(Head(up[c]).seen < said[c])
    BY DEF Crosses
  <2> QED
    BY <1>1, <1>3, <1>5, <1>6, <2>1
<1>8. down[c] = <<>>
  BY <1>1, <1>7, EmptySeq
<1> QED
  BY <1>2, <1>3, <1>4, <1>6, <1>7, <1>8

\* An answer to a message that does not cross.
LEMMA Answered ==
    ASSUME Types, NEW c \in Client, ClientInv(c), Keeps(c), Reads(c), log' = log,
           NEW out, Tells(c, out), Answers(c, out),
           link[c] = "on", down[c] = <<>>, ~Waits(c),
           saved' \in Nat, saved <= saved', saved' <= Len(log),
           \A i \in 1 .. Len(out) : IsRefetch(out[i]) => saved' = Len(log),
           typed' = typed
    PROVE  ClientInv(c)'
<1>1. LogGrows(c)
  BY DEF LogGrows
<1>2. saved \in Nat /\ typed \in Nat
  BY DEF Types
<1>3. /\ Linked(c)' /\ Fresh(c)' /\ Rids(c)' /\ Own(c)'
      /\ Fetching(c)' /\ Editing(c)' /\ Current(c)'
  BY <1>1, <1>2, Untouched
<1>4. down'[c] = out
  BY ConcatEmptySeq DEF Tells
<1>5. ver'[c] = ver[c] /\ (Waits(c)' <=> Waits(c)) /\ pend'[c] = pend[c]
  BY DEF Keeps, Waits
<1>6. OwnNext(c)' <=> OwnNext(c)
  BY <1>5 DEF OwnNext
<1>7. RowCovers(c, Len(log)) /\ saved' = Len(log) => RowCovers(c, saved)'
  BY <1>5 DEF RowCovers
<1>8. Incoming(c)'
  <2> SUFFICES ASSUME NEW i \in 1 .. Len(out)
               PROVE  /\ Confirms(c, out[i]) \/ IsRefetch(out[i]) =>
                            /\ ~Waits(c)'
                            /\ \A j \in 1 .. i - 1 : out[j].type = "subscribed"
                      /\ Confirms(c, out[i]) =>
                            OwnNext(c)' /\ log'[ver'[c] + 1].rid = out[i].rid
                      /\ IsRefetch(out[i]) => RowCovers(c, saved)'
                      /\ out[i].type = "diff" =>
                            /\ out[i].v < Len(log')
                            /\ log'[out[i].v + 1] =
                                  [cid |-> out[i].cid, rid |-> out[i].rid,
                                   edits |-> out[i].edits]
    BY <1>4 DEF Incoming, Confirms, IsRefetch
  <2> QED
    BY <1>5, <1>6, <1>7 DEF Answers
<1> QED
  BY <1>3, <1>8 DEF ClientInv

\* A step that neither reads from d nor says anything to d.
Apart(d) ==
    /\ Keeps(d) /\ Reads(d) /\ down'[d] = down[d] /\ said'[d] = said[d]
    /\ d \in joined' => d \in joined \/ link[d] = "on"

LEMMA StaysApart ==
    ASSUME Types, NEW d \in Client, ClientInv(d), Apart(d), log' = log,
           saved' \in Nat, saved <= saved', saved' <= Len(log), typed' \in Nat, typed <= typed'
    PROVE  ClientInv(d)'
<1>1. <<>> \in Seq(DownMsg) /\ Len(<<>>) = 0
  BY EmptySeq
<1>2. down[d] \in Seq(DownMsg) /\ said[d] \in Nat
  BY Typed
<1>3. down[d] \o <<>> = down[d]
  BY <1>2, ConcatEmptySeq
<1>4. Tells(d, <<>>) /\ Quiet(d, <<>>)
  BY <1>1, <1>2, <1>3 DEF Apart, Tells, Quiet
<1>5. Keeps(d) /\ Reads(d) /\ LogGrows(d) /\ (d \in joined' => d \in joined \/ link[d] = "on")
  BY DEF Apart, LogGrows
<1>6. saved \in Nat /\ typed \in Nat
  BY DEF Types
<1> QED
  BY <1>4, <1>5, <1>6, Told

LEMMA OnlyToType ==
    ASSUME NEW c \in Client, NEW s \in Seq(DownMsg)
    PROVE  /\ OnlyTo(c, s) \in [Client -> Seq(DownMsg)]
           /\ OnlyTo(c, s)[c] = s
           /\ \A d \in Client : d # c => OnlyTo(c, s)[d] = <<>>
<1>1. <<>> \in Seq(DownMsg)
  BY EmptySeq
<1> QED
  BY <1>1 DEF OnlyTo

\* The frame of a step of the server.
LEMMA ServerFrame ==
    ASSUME Types, NEW c \in Client, ServerReceive(c)
    PROVE  /\ up[c] # <<>> /\ up' \in [Client -> Seq(UpMsg)]
           /\ \A d \in Client : Keeps(d) /\ Reads(d)
           /\ up'[c] = Tail(up[c])
           /\ typed' = typed /\ link' = link /\ count' = count /\ seen' = seen
           /\ ver' = ver /\ rids' = rids /\ text' = text /\ pend' = pend
           /\ unconf' = unconf /\ await' = await /\ timer' = timer /\ older' = older
           /\ checking' = checking /\ waiting' = waiting /\ resub' = resub /\ fetch' = fetch
           /\ late' = late /\ strayed' = strayed /\ unheard' = unheard
<1>1. /\ up[c] # <<>> /\ up' = [up EXCEPT ![c] = Tail(@)]
      /\ typed' = typed /\ link' = link /\ count' = count /\ seen' = seen
      /\ ver' = ver /\ rids' = rids /\ text' = text /\ pend' = pend
      /\ unconf' = unconf /\ await' = await /\ timer' = timer /\ older' = older
      /\ checking' = checking /\ waiting' = waiting /\ resub' = resub /\ fetch' = fetch
      /\ late' = late /\ strayed' = strayed /\ unheard' = unheard
  BY DEF ServerReceive, copyVars, flags, counters, history
<1>2. up \in [Client -> Seq(UpMsg)]
  BY DEF Types
<1>3. Tail(up[c]) \in Seq(UpMsg)
  BY <1>1, <1>2, HeadTailProperties
<1>4. up' \in [Client -> Seq(UpMsg)] /\ up'[c] = Tail(up[c])
      /\ \A d \in Client : d # c => up'[d] = up[d]
  BY <1>1, <1>2, <1>3
<1>5. \A d \in Client : Keeps(d) /\ Reads(d)
  BY <1>1, <1>4 DEF Keeps, Reads
<1> QED
  BY <1>1, <1>4, <1>5

LEMMA ServerTypes ==
    ASSUME Types, NEW c \in Client, ServerReceive(c),
           log' \in Seq(Diff), saved' \in Nat, saved' <= Len(log'), joined' \in SUBSET Client,
           said' \in [Client -> Nat], down' \in [Client -> Seq(DownMsg)]
    PROVE  Types'
  BY ServerFrame DEF Types

\* Whoever asked, and whatever the state it is in: a step of the server says
\* something to c, and to the others at most that a diff was accepted.
Says(c, out) ==
    /\ Say(out)
    /\ log' \in Seq(Diff) /\ Len(log) <= Len(log')
    /\ joined' \in {joined, joined \cup {c}}
    /\ \A d \in Client : d # c =>
          /\ LogGrows(d) /\ Quiet(d, out[d])
          /\ out[d] = <<>> \/ d \in joined
          /\ \A i \in 1 .. Len(out[d]) : out[d][i].type # "reject_diff"

LEMMA SaysToOne ==
    ASSUME Types, NEW c \in Client, NEW s \in Seq(DownMsg), Say(OnlyTo(c, s)),
           log' = log, joined' \in {joined, joined \cup {c}}
    PROVE  \E out \in [Client -> Seq(DownMsg)] : Says(c, out)
<1> DEFINE out == OnlyTo(c, s)
<1>1. out \in [Client -> Seq(DownMsg)] /\ \A d \in Client : d # c => out[d] = <<>>
  BY OnlyToType
<1>2. log \in Seq(Diff) /\ Len(log) \in Nat /\ Len(<<>>) = 0
  BY LenProperties DEF Types
<1> HIDE DEF out
<1>3. \A d \in Client : d # c => \A i \in 1 .. Len(out[d]) : FALSE
  BY <1>1, <1>2
<1>4. Says(c, out)
  BY <1>1, <1>2, <1>3 DEF Says, LogGrows, Quiet, out
<1> QED
  BY <1>1, <1>4

LEMMA VersionAnswerType ==
    ASSUME Types, NEW v \in Nat, NEW offline
    PROVE  /\ VersionAnswer(v, offline) \in Seq(DownMsg)
           /\ (IF CanCatchUp(v) THEN DiffsAfter(v) ELSE Refetch) \in Seq(DownMsg)
<1>1. Len(log) \in Nat
  BY LenProperties DEF Types
<1>2. ConfirmVersion \in DownMsg /\ Plain("refetch_doc") \in DownMsg
  BY <1>1 DEF ConfirmVersion, Plain, DownMsg, VersionDown, PlainDown
<1>3. <<ConfirmVersion>> \in Seq(DownMsg) /\ Refetch \in Seq(DownMsg)
  BY <1>2 DEF Refetch
<1>4. CanCatchUp(v) => DiffsAfter(v) \in Seq(DownMsg)
  BY <1>1, DiffsAfterIs DEF CanCatchUp
<1>5. CanCatchUp(v) => Append(DiffsAfter(v), ConfirmVersion) \in Seq(DownMsg)
  BY <1>2, <1>4, AppendProperties
<1> QED
  BY <1>3, <1>4, <1>5 DEF VersionAnswer

LEMMA SaysAccept ==
    ASSUME Types, NEW c \in Client, NEW m \in UpMsg, ServerAccept(c, m)
    PROVE  \E out \in [Client -> Seq(DownMsg)] : Says(c, out)
<1> DEFINE l == [cid |-> c, rid |-> m.rid, edits |-> m.edits]
           q == [type |-> "confirm_diff", rid |-> m.rid]
           p == [type |-> "diff", v |-> Len(log), cid |-> c, rid |-> m.rid, edits |-> m.edits]
           out == [d \in Client |-> IF d = c THEN <<q>>
                                    ELSE IF d \in joined THEN <<p>> ELSE <<>>]
<1>1. /\ m.type = "diff" /\ log' = Append(log, l) /\ Say(out) /\ joined' = joined
  BY DEF ServerAccept
<1>2. log \in Seq(Diff) /\ Len(log) \in Nat
  BY LenProperties DEF Types
<1>3. m.rid \in Nat /\ m.edits \in Seq(Edit)
  BY <1>1, UpTyped
<1>4. /\ l \in Diff /\ l.cid = c /\ q \in DownMsg
      /\ p \in DownMsg /\ p.type = "diff" /\ p.v = Len(log) /\ p.cid = c
      /\ l = [cid |-> p.cid, rid |-> p.rid, edits |-> p.edits]
  BY <1>2, <1>3 DEF Diff, DownMsg, AnswerDown, DiffDown
<1>5. /\ out \in [Client -> Seq(DownMsg)]
      /\ \A d \in Client : d # c => (out[d] = <<p>> /\ d \in joined) \/ out[d] = <<>>
  <2>1. <<>> \in Seq(DownMsg) /\ <<q>> \in Seq(DownMsg) /\ <<p>> \in Seq(DownMsg)
    BY <1>4, EmptySeq
  <2> HIDE DEF p, q
  <2> QED
    BY <2>1
<1>6. /\ log' \in Seq(Diff) /\ Len(log') = Len(log) + 1 /\ log'[Len(log) + 1] = l
  BY <1>1, <1>2, <1>4, AppendProperties
<1> HIDE DEF l, p, q, out
<1>7. ASSUME NEW d \in Client, d # c
      PROVE  /\ LogGrows(d) /\ Quiet(d, out[d])
             /\ out[d] = <<>> \/ d \in joined
             /\ \A i \in 1 .. Len(out[d]) : out[d][i].type # "reject_diff"
  <2>1. LogGrows(d)
    BY <1>1, <1>4, <1>7 DEF LogGrows
  <2>2. \A i \in 1 .. Len(out[d]) : out[d][i] = p
    <3>1. Len(<<p>>) = 1 /\ <<p>>[1] = p /\ Len(<<>>) = 0
      OBVIOUS
    <3> QED
      BY <1>5, <1>7, <3>1
  <2>3. ~Confirms(d, p) /\ ~IsRefetch(p) /\ p.v < Len(log') /\ p.v + 1 = Len(log) + 1
    BY <1>2, <1>4, <1>6, <1>7 DEF Confirms, IsRefetch
  <2>4. log'[p.v + 1] = [cid |-> p.cid, rid |-> p.rid, edits |-> p.edits]
    BY <1>4, <1>6, <2>3
  <2>5. Quiet(d, out[d])
    BY <2>2, <2>3, <2>4 DEF Quiet
  <2>6. p.type # "reject_diff"
    BY <1>4
  <2> QED
    BY <1>5, <1>7, <2>1, <2>2, <2>5, <2>6
<1>8. Says(c, out)
  BY <1>1, <1>2, <1>6, <1>7 DEF Says
<1> QED
  BY <1>5, <1>8

LEMMA ServerSays ==
    ASSUME Types, NEW c \in Client, ServerReceive(c)
    PROVE  \E out \in [Client -> Seq(DownMsg)] : Says(c, out)
<1> DEFINE m == Head(up[c])
<1>1. up[c] \in Seq(UpMsg) /\ up[c] # <<>>
  BY Typed, ServerFrame
<1>2. m \in UpMsg
  BY <1>1, HeadTailProperties
<1>3. IF Crosses(c, m) THEN ServerCross(c, m)
      ELSE \/ ServerSubscribe(c, m) \/ ServerCheckVersion(c, m)
           \/ ServerAccept(c, m) \/ ServerOutdated(c, m)
  BY DEF ServerReceive
<1> HIDE DEF m
<1>4. m.v \in Nat /\ (m.type = "diff" => m.rid \in Nat)
  BY <1>2, UpTyped
<1>5. CASE ServerCross(c, m)
  <2> DEFINE a == [type |-> "reject_diff", rid |-> m.rid]
             s == IF m.type = "diff" THEN <<a>> ELSE <<>>
  <2>1. m.type = "diff" => a \in DownMsg
    BY <1>4 DEF DownMsg, AnswerDown
  <2>2. Say(OnlyTo(c, s)) /\ log' = log /\ joined' = joined
    BY <1>5 DEF ServerCross
  <2> HIDE DEF a
  <2>3. s \in Seq(DownMsg)
    BY <2>1, EmptySeq
  <2> QED
    BY <2>2, <2>3, SaysToOne
<1>6. CASE ServerSubscribe(c, m)
  <2> DEFINE s == SubscribedOut(c, m)
  <2>1. Say(OnlyTo(c, s)) /\ log' = log /\ joined' = joined \cup {c}
    BY <1>6 DEF ServerSubscribe, SubscribedOut
  <2>2. s \in Seq(DownMsg)
    <3> DEFINE a == Plain("subscribed")
               b == Plain("connections")
               t == IF m.again THEN <<>> ELSE VersionAnswer(m.v, FALSE)
               w == IF c \in Communicates THEN <<b>> ELSE <<>>
    <3>1. a \in DownMsg /\ b \in DownMsg
      BY DEF Plain, DownMsg, PlainDown
    <3>2. t \in Seq(DownMsg)
      BY <1>4, VersionAnswerType, EmptySeq
    <3>3. s = <<a>> \o t \o w
      BY DEF SubscribedOut
    <3> HIDE DEF a, b, t, s
    <3>4. <<a>> \in Seq(DownMsg) /\ w \in Seq(DownMsg)
      BY <3>1, EmptySeq
    <3> HIDE DEF w
    <3>5. <<a>> \o t \in Seq(DownMsg)
      BY <3>2, <3>4, ConcatProperties
    <3>6. <<a>> \o t \o w \in Seq(DownMsg)
      BY <3>4, <3>5, ConcatProperties
    <3> QED
      BY <3>3, <3>6
  <2> QED
    BY <2>1, <2>2, SaysToOne
<1>7. CASE ServerCheckVersion(c, m)
  <2>1. Say(OnlyTo(c, VersionAnswer(m.v, m.offline))) /\ log' = log /\ joined' = joined
    BY <1>7 DEF ServerCheckVersion
  <2> QED
    BY <1>4, <2>1, VersionAnswerType, SaysToOne
<1>8. CASE ServerOutdated(c, m)
  <2> DEFINE s == IF CanCatchUp(m.v) THEN DiffsAfter(m.v) ELSE Refetch
  <2>1. Say(OnlyTo(c, s)) /\ log' = log /\ joined' = joined
    BY <1>8 DEF ServerOutdated
  <2>2. s \in Seq(DownMsg)
    BY <1>4, VersionAnswerType
  <2> HIDE DEF s
  <2> QED
    BY <2>1, <2>2, SaysToOne
<1>9. CASE ServerAccept(c, m)
  BY <1>2, <1>9, SaysAccept
<1> QED
  BY <1>3, <1>5, <1>6, <1>7, <1>8, <1>9

\* The numbers on a connection stay right.
LEMMA StaysLinked ==
    ASSUME Types, NEW d \in Client, Linked(d), Keeps(d), Reads(d), NEW out \in Seq(DownMsg),
           out = <<>> \/ d \in joined \/ link[d] = "on",
           down'[d] = down[d] \o out, said'[d] = said[d] + Len(out),
           d \in joined' => d \in joined \/ link[d] = "on"
    PROVE  Linked(d)'
<1>1. /\ link[d] \in {"on", "off"} /\ down[d] \in Seq(DownMsg) /\ Len(down[d]) \in Nat
      /\ seen[d] \in Nat /\ said[d] \in Nat
  BY Typed
<1>2. link'[d] = link[d] /\ seen'[d] = seen[d]
  BY DEF Keeps
<1>3. Len(out) \in Nat /\ Len(down'[d]) = Len(down[d]) + Len(out)
  BY <1>1, LenProperties, ConcatProperties
<1>4. link[d] = "on" => seen'[d] + Len(down'[d]) = said'[d]
  <2>1. link[d] = "on" => seen[d] + Len(down[d]) = said[d]
    BY DEF Linked
  <2> QED
    BY <1>1, <1>2, <1>3, <2>1
<1>5. ASSUME link[d] = "off"
      PROVE  /\ up'[d] = <<>> /\ down'[d] = <<>> /\ d \notin joined'
             /\ seen'[d] <= said'[d]
  <2>1. up[d] = <<>> /\ down[d] = <<>> /\ d \notin joined /\ seen[d] <= said[d]
    BY <1>5 DEF Linked
  <2>2. out = <<>> /\ Len(out) = 0
    BY <1>5, <2>1, EmptySeq
  <2>3. up'[d] = <<>> /\ down'[d] = <<>> /\ d \notin joined'
    BY <1>5, <2>1, <2>2, EmptySeq, ConcatEmptySeq DEF Reads
  <2> QED
    BY <1>1, <1>2, <2>1, <2>2, <2>3
<1> QED
  BY <1>2, <1>4, <1>5 DEF Linked

\* What a step of the server for c does to everybody, and to the others.
LEMMA ServerPlainly ==
    ASSUME Types, NEW c \in Client, ServerReceive(c), \A d \in Client : Plainly(d)
    PROVE  /\ Types'
           /\ \A d \in Client : Plainly(d)'
           /\ \A d \in Client : d # c /\ ClientInv(d) => ClientInv(d)'
<1>1. PICK out \in [Client -> Seq(DownMsg)] : Says(c, out)
  BY ServerSays
<1>2. /\ up[c] # <<>> /\ \A d \in Client : Keeps(d) /\ Reads(d)
      /\ typed' = typed
  BY ServerFrame
<1>3. /\ Say(out) /\ log' \in Seq(Diff) /\ Len(log) <= Len(log')
      /\ joined' \in {joined, joined \cup {c}}
      /\ \A d \in Client : d # c =>
            /\ LogGrows(d) /\ Quiet(d, out[d])
            /\ out[d] = <<>> \/ d \in joined
            /\ \A i \in 1 .. Len(out[d]) : out[d][i].type # "reject_diff"
  BY <1>1 DEF Says
<1>4. /\ down' \in [Client -> Seq(DownMsg)] /\ said' \in [Client -> Nat]
      /\ \A d \in Client : /\ down'[d] = down[d] \o out[d]
                           /\ said'[d] = said[d] + Len(out[d])
      /\ saved' \in Nat /\ saved <= saved' /\ saved' <= Len(log)
  BY <1>3, SaidAll
<1>5. /\ log \in Seq(Diff) /\ joined \in SUBSET Client /\ saved \in Nat /\ typed \in Nat
      /\ Len(log) \in Nat /\ Len(log') \in Nat
  BY <1>3, LenProperties DEF Types
<1>6. saved' <= Len(log')
  BY <1>3, <1>4, <1>5
<1>7. Types'
  BY <1>3, <1>4, <1>5, <1>6, ServerTypes
<1>8. link[c] = "on"
  <2>1. link[c] \in {"on", "off"} /\ Linked(c)
    BY Typed DEF Plainly
  <2> QED
    BY <1>2, <2>1 DEF Linked
<1>9. \A d \in Client : d \in joined' => d \in joined \/ link[d] = "on"
  BY <1>3, <1>8
<1>10. ASSUME NEW d \in Client
       PROVE  Plainly(d)'
  <2>1. out[d] = <<>> \/ d \in joined \/ link[d] = "on"
    BY <1>3, <1>8
  <2>2. Linked(d)'
    BY <1>2, <1>4, <1>9, <2>1, StaysLinked DEF Plainly
  <2>3. pend'[d] = pend[d] /\ waiting'[d] = waiting[d] /\ fetch'[d] = fetch[d]
    BY <1>2 DEF Keeps
  <2>4. Editing(d)'
    BY <1>2, <2>3 DEF Plainly, Editing
  <2>5. fetch[d] \in [from: Nat, row: Nat \cup {-1}, open: BOOLEAN] /\ fetch[d].row <= saved
    BY Typed DEF Plainly
  <2>6. fetch'[d].row <= saved'
    BY <1>4, <1>5, <2>3, <2>5
  <2> QED
    BY <2>2, <2>4, <2>6 DEF Plainly
<1>11. ASSUME NEW d \in Client, d # c, ClientInv(d)
       PROVE  ClientInv(d)'
  <2>1. link[d] = "off" => out[d] = <<>>
    BY <1>3, <1>11 DEF ClientInv, Linked
  <2>2. out[d] \in Seq(DownMsg)
    BY <1>1
  <2>3. Tells(d, out[d])
    BY <1>3, <1>4, <1>11, <2>1, <2>2 DEF Tells
  <2> QED
    BY <1>2, <1>3, <1>4, <1>5, <1>6, <1>9, <1>11, <2>3, Told
<1> QED
  BY <1>7, <1>10, <1>11

\* A step of the server that accepts no diff and talks to c only.
LEMMA ServerAnswers ==
    ASSUME Types, NEW c \in Client, ClientInv(c), ServerReceive(c), NEW s \in Seq(DownMsg),
           Say(OnlyTo(c, s)), log' = log, joined' = joined \/ joined' = joined \cup {c},
           \/ ~Crosses(c, Head(up[c])) /\ Answers(c, s)
           \/ Quiet(c, s) /\ \A i \in 1 .. Len(s) : s[i].type = "reject_diff" =>
                 \A k \in 1 .. Len(log) : log[k].cid = c => log[k].rid # s[i].rid
    PROVE  ClientInv(c)'
<1>2. /\ OnlyTo(c, s) \in [Client -> Seq(DownMsg)]
      /\ OnlyTo(c, s)[c] = s
      /\ \A d \in Client : d # c => OnlyTo(c, s)[d] = <<>>
  BY OnlyToType
<1>3. /\ down' \in [Client -> Seq(DownMsg)] /\ said' \in [Client -> Nat]
      /\ \A d \in Client : /\ down'[d] = down[d] \o OnlyTo(c, s)[d]
                           /\ said'[d] = said[d] + Len(OnlyTo(c, s)[d])
      /\ saved' \in Nat /\ saved <= saved' /\ saved' <= Len(log)
      /\ \A i \in 1 .. Len(OnlyTo(c, s)[c]) :
            IsRefetch(OnlyTo(c, s)[c][i]) => saved' = Len(log)
  BY <1>2, SaidAll
<1>4. /\ up[c] # <<>> /\ \A d \in Client : Keeps(d) /\ Reads(d)
      /\ typed' = typed
  BY ServerFrame
<1>5. log \in Seq(Diff) /\ joined \in SUBSET Client /\ saved \in Nat /\ typed \in Nat
  BY DEF Types
<1>6. link[c] = "on"
  <2>1. link[c] \in {"on", "off"}
    BY Typed
  <2> QED
    BY <1>4, <2>1 DEF ClientInv, Linked
<1>9. Tells(c, s) <=> \A i \in 1 .. Len(s) : s[i].type = "reject_diff" =>
                          \A k \in 1 .. Len(log) : log[k].cid = c => log[k].rid # s[i].rid
  BY <1>2, <1>3, <1>6 DEF Tells
<1>10. CASE ~Crosses(c, Head(up[c])) /\ Answers(c, s)
  <2>1. Tells(c, s)
    BY <1>9, <1>10 DEF Answers
  <2>2. down[c] = <<>> /\ ~Waits(c)
    BY <1>4, <1>10, Caught
  <2>3. \A i \in 1 .. Len(s) : IsRefetch(s[i]) => saved' = Len(log)
    BY <1>2, <1>3
  <2>4. ClientInv(c)'
    BY <1>3, <1>4, <1>6, <1>10, <2>1, <2>2, <2>3, Answered
  <2> QED
    BY <2>4
<1>11. CASE Quiet(c, s) /\ \A i \in 1 .. Len(s) : s[i].type = "reject_diff" =>
                 \A k \in 1 .. Len(log) : log[k].cid = c => log[k].rid # s[i].rid
  <2>1. Tells(c, s)
    BY <1>9, <1>11
  <2>2. LogGrows(c)
    BY DEF LogGrows
  <2>3. ClientInv(c)'
    BY <1>3, <1>4, <1>5, <1>6, <1>11, <2>1, <2>2, Told
  <2> QED
    BY <2>3
<1> QED
  BY <1>10, <1>11

LEMMA ServerCrossStep ==
    ASSUME Types, NEW c \in Client, ClientInv(c), ServerReceive(c), ServerCross(c, Head(up[c]))
    PROVE  ClientInv(c)'
<1> DEFINE m == Head(up[c])
           s == IF m.type = "diff" THEN <<[type |-> "reject_diff", rid |-> m.rid]>> ELSE <<>>
<1>1. Types /\ ClientInv(c)
  OBVIOUS
<1>2. up[c] \in Seq(UpMsg) /\ up[c] # <<>>
  BY <1>1, Typed, ServerFrame
<1>3. m = up[c][1] /\ 1 \in 1 .. Len(up[c]) /\ m \in UpMsg
  <2>1. Len(up[c]) \in Nat /\ Len(up[c]) # 0
    BY <1>2, EmptySeq, LenProperties
  <2> QED
    BY <1>2, <2>1, ElementOfSeq
<1>4. m.type = "diff" =>
         /\ m.rid \in Nat
         /\ \A k \in 1 .. Len(log) : log[k].cid = c => log[k].rid # m.rid
  BY <1>1, <1>3, UpTyped DEF ClientInv, Rids
<1>5. Say(OnlyTo(c, s)) /\ log' = log /\ joined' = joined
  BY DEF ServerCross
<1> HIDE DEF m
<1>6. CASE m.type = "diff"
  <2> DEFINE a == [type |-> "reject_diff", rid |-> m.rid]
  <2>1. a \in DownMsg /\ a.type = "reject_diff" /\ a.rid = m.rid
    BY <1>4, <1>6 DEF DownMsg, AnswerDown
  <2>2. s = <<a>>
    BY <1>6
  <2> HIDE DEF a, s
  <2>3. s \in Seq(DownMsg) /\ Len(s) = 1 /\ s[1] = a
    BY <2>1, <2>2
  <2>4. \A i \in 1 .. Len(s) : s[i] = a
    BY <2>3
  <2>5. Quiet(c, s)
    BY <2>1, <2>4 DEF Quiet, Confirms, IsRefetch
  <2>6. \A i \in 1 .. Len(s) : \A k \in 1 .. Len(log) : log[k].cid = c => log[k].rid # s[i].rid
    BY <1>4, <1>6, <2>1, <2>4
  <2> QED
    BY <1>5, <2>3, <2>5, <2>6, ServerAnswers
<1>7. CASE m.type # "diff"
  <2>1. s \in Seq(DownMsg) /\ Len(s) = 0
    BY <1>7, EmptySeq
  <2> HIDE DEF s
  <2>2. Quiet(c, s)
    BY <2>1 DEF Quiet
  <2>3. \A i \in 1 .. Len(s) : s[i].type = "reject_diff" =>
           \A k \in 1 .. Len(log) : log[k].cid = c => log[k].rid # s[i].rid
    BY <2>1
  <2> QED
    BY <1>5, <2>1, <2>2, <2>3, ServerAnswers
<1> QED
  BY <1>6, <1>7

LEMMA ServerAnswerStep ==
    ASSUME Types, NEW c \in Client, ClientInv(c), ServerReceive(c), ~Crosses(c, Head(up[c])),
           \/ ServerSubscribe(c, Head(up[c]))
           \/ ServerCheckVersion(c, Head(up[c]))
           \/ ServerOutdated(c, Head(up[c]))
    PROVE  ClientInv(c)'
<1> DEFINE m == Head(up[c])
<1>1. Types /\ ClientInv(c)
  OBVIOUS
<1>2. up[c] # <<>>
  BY <1>1, ServerFrame
<1>3. /\ m \in UpMsg /\ m.v = ver[c]
      /\ m.type = "check_version" => (m.offline => pend[c] # <<>>)
  BY <1>1, <1>2, Caught
<1> HIDE DEF m
<1>4. m.type = "check_version" => m.offline \in BOOLEAN
  BY <1>3, UpTyped
<1>5. CASE ServerSubscribe(c, Head(up[c]))
  <2>1. Say(OnlyTo(c, SubscribedOut(c, m))) /\ log' = log /\ joined' = joined \cup {c}
    BY <1>5 DEF ServerSubscribe, SubscribedOut, m
  <2>2. Answers(c, SubscribedOut(c, m))
    BY <1>1, <1>3, SubscribedAnswers
  <2>3. SubscribedOut(c, m) \in Seq(DownMsg)
    BY <2>2 DEF Answers
  <2> QED
    BY <2>1, <2>2, <2>3, ServerAnswers
<1>6. CASE ServerCheckVersion(c, Head(up[c]))
  <2>1. /\ m.type = "check_version" /\ Say(OnlyTo(c, VersionAnswer(m.v, m.offline)))
        /\ log' = log /\ joined' = joined
    BY <1>6 DEF ServerCheckVersion, m
  <2>2. Answers(c, VersionAnswer(m.v, m.offline))
    BY <1>1, <1>3, <1>4, <2>1, VersionAnswers
  <2>3. VersionAnswer(m.v, m.offline) \in Seq(DownMsg)
    BY <2>2 DEF Answers
  <2> QED
    BY <2>1, <2>2, <2>3, ServerAnswers
<1>7. CASE ServerOutdated(c, Head(up[c]))
  <2> DEFINE s == IF CanCatchUp(m.v) THEN DiffsAfter(m.v) ELSE Refetch
  <2>1. Say(OnlyTo(c, s)) /\ log' = log /\ joined' = joined /\ m.v # Len(log)
    BY <1>7 DEF ServerOutdated, UpToDate, m
  <2>2. Answers(c, s)
    BY <1>1, <1>3, <2>1, OutdatedAnswers
  <2>3. s \in Seq(DownMsg)
    BY <2>2 DEF Answers
  <2> QED
    BY <2>1, <2>2, <2>3, ServerAnswers
<1> QED
  BY <1>5, <1>6, <1>7

\* An accepted diff: it becomes the next diff of its sender.
LEMMA ServerAcceptStep ==
    ASSUME Types, NEW c \in Client, ClientInv(c), ServerReceive(c), ~Crosses(c, Head(up[c])),
           ServerAccept(c, Head(up[c]))
    PROVE  ClientInv(c)'
<1> DEFINE m == Head(up[c])
           l == [cid |-> c, rid |-> m.rid, edits |-> m.edits]
           q == [type |-> "confirm_diff", rid |-> m.rid]
           p == [type |-> "diff", v |-> Len(log), cid |-> c, rid |-> m.rid, edits |-> m.edits]
           out == [d \in Client |-> IF d = c THEN <<q>>
                                    ELSE IF d \in joined THEN <<p>> ELSE <<>>]
<1>1. Types /\ ClientInv(c)
  OBVIOUS
<1>2. /\ up[c] # <<>> /\ up'[c] = Tail(up[c]) /\ \A d \in Client : Keeps(d) /\ Reads(d)
      /\ typed' = typed
  BY <1>1, ServerFrame
<1>3. /\ m \in UpMsg /\ m.v = ver[c] /\ link[c] = "on" /\ down[c] = <<>> /\ ~Waits(c)
      /\ m = up[c][1] /\ 1 \in 1 .. Len(up[c])
      /\ m.type = "diff" =>
            /\ IsPrefix(m.edits, pend[c])
            /\ [rid |-> m.rid, n |-> Len(m.edits)] \in unconf[c]
  BY <1>1, <1>2, Caught
<1>4. /\ m.type = "diff" /\ m.v = Len(log) /\ log' = Append(log, l) /\ Say(out)
      /\ joined' = joined
  BY DEF ServerAccept, UpToDate
<1>5. /\ log \in Seq(Diff) /\ Len(log) \in Nat /\ saved \in Nat /\ typed \in Nat
      /\ saved <= Len(log) /\ joined \in SUBSET Client
  BY <1>1, LenProperties DEF Types
<1> HIDE DEF m
<1>6. m.rid \in Nat /\ m.edits \in Seq(Edit) /\ m.type = "diff"
  BY <1>3, <1>4, UpTyped
<1>7. /\ l \in Diff /\ l.cid = c /\ l.rid = m.rid /\ l.edits = m.edits
      /\ q \in DownMsg /\ q.type = "confirm_diff" /\ q.rid = m.rid
      /\ p \in DownMsg /\ p.type = "diff" /\ p.v = Len(log) /\ p.cid = c
      /\ l = [cid |-> p.cid, rid |-> p.rid, edits |-> p.edits]
  BY <1>5, <1>6 DEF Diff, DownMsg, AnswerDown, DiffDown
<1>8. /\ out \in [Client -> Seq(DownMsg)]
      /\ out[c] = <<q>>
      /\ \A d \in Client : d # c => out[d] = <<p>> \/ out[d] = <<>>
      /\ \A d \in Client : d # c /\ d \notin joined => out[d] = <<>>
  <2>1. <<>> \in Seq(DownMsg) /\ <<q>> \in Seq(DownMsg) /\ <<p>> \in Seq(DownMsg)
    BY <1>7, EmptySeq
  <2> HIDE DEF p, q
  <2> QED
    BY <2>1
<1>9. /\ log' \in Seq(Diff) /\ Len(log') = Len(log) + 1 /\ log'[Len(log) + 1] = l
      /\ \A i \in 1 .. Len(log) : log'[i] = log[i]
  BY <1>4, <1>5, <1>7, AppendProperties
<1> HIDE DEF l, p, q, out
<1>10. /\ down' \in [Client -> Seq(DownMsg)] /\ said' \in [Client -> Nat]
       /\ \A d \in Client : down'[d] = down[d] \o out[d] /\ said'[d] = said[d] + Len(out[d])
       /\ saved' \in Nat /\ saved <= saved' /\ saved' <= Len(log)
  BY <1>1, <1>4, <1>8, SaidAll
<1>11. saved' <= Len(log')
  BY <1>5, <1>9, <1>10
<1>14. /\ ver[c] \in Nat /\ ver[c] = Len(log) /\ rids[c] \in Nat
       /\ seen[c] \in Nat /\ said[c] \in Nat
       /\ fetch[c] \in [from: Nat, row: Nat \cup {-1}, open: BOOLEAN]
       /\ up[c] \in Seq(UpMsg) /\ Len(up[c]) \in Nat
  BY <1>1, <1>3, <1>4, Typed
<1>15. /\ link'[c] = link[c] /\ seen'[c] = seen[c] /\ ver'[c] = ver[c]
       /\ text'[c] = text[c] /\ pend'[c] = pend[c] /\ unconf'[c] = unconf[c]
       /\ rids'[c] = rids[c] /\ waiting'[c] = waiting[c] /\ fetch'[c] = fetch[c]
       /\ Waits(c)' <=> Waits(c)
  BY <1>2 DEF Keeps, Waits
<1>16. down'[c] = <<q>> /\ Len(down'[c]) = 1 /\ down'[c][1] = q /\ said'[c] = said[c] + 1
  <2>1. down'[c] = <<>> \o <<q>> /\ said'[c] = said[c] + Len(<<q>>)
    BY <1>3, <1>8, <1>10
  <2>2. <<>> \o <<q>> = <<q>> /\ Len(<<q>>) = 1 /\ <<q>>[1] = q
    BY <1>7, ConcatEmptySeq
  <2> QED
    BY <2>1, <2>2
<1>17. /\ Len(up'[c]) = Len(up[c]) - 1 /\ Len(up'[c]) \in Nat
       /\ \A i \in 1 .. Len(up'[c]) : i + 1 \in 1 .. Len(up[c]) /\ up'[c][i] = up[c][i + 1]
  <2>1. Len(up'[c]) = Len(up[c]) - 1 /\ \A i \in 1 .. Len(up'[c]) : up'[c][i] = up[c][i + 1]
    BY <1>2, <1>14, HeadTailProperties
  <2> QED
    BY <1>3, <1>14, <2>1
<1>18. ClientInv(c)
  BY <1>1
<1>19. Linked(c)'
  <2>1. seen[c] + Len(down[c]) = said[c] /\ Len(down[c]) = 0
    BY <1>3, <1>18 DEF ClientInv, Linked
  <2>2. seen'[c] + Len(down'[c]) = said'[c] /\ link'[c] = "on"
    BY <1>3, <1>14, <1>15, <1>16, <2>1
  <2> QED
    BY <2>2 DEF Linked
<1>20. Fresh(c)'
  <2> SUFFICES ASSUME NEW i \in 1 .. Len(up'[c])
               PROVE  /\ up'[c][i].seen <= seen'[c]
                      /\ up'[c][i].seen = seen'[c] =>
                            /\ up'[c][i].v = ver'[c]
                            /\ ~Waits(c)'
                            /\ up'[c][i].type = "diff" =>
                                  /\ IsPrefix(up'[c][i].edits, pend'[c])
                                  /\ [rid |-> up'[c][i].rid, n |-> Len(up'[c][i].edits)]
                                        \in unconf'[c]
                            /\ up'[c][i].type = "check_version" =>
                                  (up'[c][i].offline => pend'[c] # <<>>)
    BY DEF Fresh
  <2> DEFINE h == i + 1
  <2>1. h \in 1 .. Len(up[c]) /\ up'[c][i] = up[c][h]
    BY <1>17
  <2> HIDE DEF h
  <2> QED
    BY <1>15, <1>18, <2>1 DEF ClientInv, Fresh
<1>21. Rids(c)'
  <2>1. \A k \in 1 .. Len(log') : \/ k \in 1 .. Len(log) /\ log'[k] = log[k]
                                  \/ k = Len(log) + 1 /\ log'[k] = l
    <3> TAKE k \in 1 .. Len(log')
    <3>1. k \in 1 .. Len(log) \/ k = Len(log) + 1
      BY <1>5, <1>9
    <3>2. k \in 1 .. Len(log) => log'[k] = log[k]
      BY <1>9
    <3>3. k = Len(log) + 1 => log'[k] = l
      BY <1>9
    <3> QED
      BY <3>1, <3>2, <3>3
  <2>2. m.rid < rids[c]
    BY <1>3, <1>4, <1>18 DEF ClientInv, Rids
  <2>3. \A k \in 1 .. Len(log') : log'[k].cid = c => log'[k].rid < rids[c]
    BY <1>7, <1>18, <2>1, <2>2 DEF ClientInv, Rids
  <2>4. ASSUME NEW i \in 1 .. Len(up'[c]), up'[c][i].type = "diff"
        PROVE  /\ up'[c][i].rid < rids[c]
               /\ \A j \in 1 .. i - 1 : up'[c][j].type = "diff" => up'[c][j].rid # up'[c][i].rid
               /\ \A k \in 1 .. Len(log') : log'[k].cid = c => log'[k].rid # up'[c][i].rid
    <3> DEFINE h == i + 1
    <3>1. h \in 1 .. Len(up[c]) /\ up'[c][i] = up[c][h] /\ 1 \in 1 .. h - 1
      BY <1>17
    <3>2. \A j \in 1 .. i - 1 : j + 1 \in 1 .. h - 1 /\ up'[c][j] = up[c][j + 1]
      BY <1>17
    <3> HIDE DEF h
    <3>3. /\ up[c][h].rid < rids[c]
          /\ \A j \in 1 .. h - 1 : up[c][j].type = "diff" => up[c][j].rid # up[c][h].rid
          /\ \A k \in 1 .. Len(log) : log[k].cid = c => log[k].rid # up[c][h].rid
      BY <1>18, <2>4, <3>1 DEF ClientInv, Rids
    <3>4. m.rid # up[c][h].rid
      BY <1>3, <1>4, <3>1, <3>3
    <3>5. \A k \in 1 .. Len(log') : log'[k].cid = c => log'[k].rid # up[c][h].rid
      BY <1>7, <2>1, <3>3, <3>4
    <3> QED
      BY <3>1, <3>2, <3>3, <3>5
  <2>5. \A i \in 1 .. Len(down'[c]) : down'[c][i].type # "reject_diff"
    BY <1>7, <1>16
  <2>6. \A u \in unconf[c] : u.rid < rids[c] /\ \A w \in unconf[c] : w.rid = u.rid => w = u
    BY <1>18 DEF ClientInv, Rids
  <2> QED
    BY <1>15, <2>3, <2>4, <2>5, <2>6 DEF Rids
<1>22. log'[ver'[c] + 1] = l /\ ver'[c] = Len(log) /\ ver'[c] < Len(log')
  BY <1>5, <1>9, <1>14, <1>15
<1>23. Own(c)'
  <2>1. \A k \in ver'[c] + 2 .. Len(log') : FALSE
    BY <1>5, <1>9, <1>22
  <2> QED
    BY <1>3, <1>4, <1>7, <1>15, <1>22, <2>1 DEF Own
<1>24. Incoming(c)'
  <2>1. OwnNext(c)' /\ log'[ver'[c] + 1].rid = q.rid
    BY <1>7, <1>22 DEF OwnNext
  <2>2. \A i \in 1 .. Len(down'[c]) : i = 1 /\ down'[c][i] = q
    BY <1>16
  <2>3. q.type = "confirm_diff" /\ ~Waits(c)'
    BY <1>3, <1>7, <1>15
  <2> QED
    BY <2>1, <2>2, <2>3 DEF Incoming, Confirms, IsRefetch
<1>25. Fetching(c)'
  <2>1. fetch[c].row <= saved /\ fetch[c].row \in Int
    BY <1>14, <1>18 DEF ClientInv, Fetching
  <2>2. fetch'[c].row <= saved' /\ ~Waits(c)'
    BY <1>3, <1>5, <1>10, <1>15, <2>1
  <2> QED
    BY <2>2 DEF Fetching
<1>26. Editing(c)'
  BY <1>2, <1>15, <1>18 DEF ClientInv, Editing
<1>27. Current(c)'
  <2>1. PICK v \in Nat : v = ver[c]
    BY <1>14
  <2>2. \E x \in Diff : log' = Append(log, x)
    BY <1>4, <1>7
  <2>3. TextAt(v)' = TextAt(v)
    BY <1>5, <1>14, <2>1, <2>2, TextStays
  <2>4. text[c] = TextAt(v)
    BY <1>18, <2>1 DEF ClientInv, Current
  <2>5. ver'[c] = v /\ v <= Len(log') /\ text'[c] = TextAt(v)'
    BY <1>5, <1>9, <1>14, <1>15, <2>1, <2>3, <2>4
  <2> QED
    BY <2>5 DEF Current
<1> QED
  BY <1>19, <1>20, <1>21, <1>23, <1>24, <1>25, <1>26, <1>27 DEF ClientInv

LEMMA ServerStep ==
    ASSUME Types, NEW c \in Client, ClientInv(c), ServerReceive(c)
    PROVE  ClientInv(c)'
<1> DEFINE m == Head(up[c])
<1>1. IF Crosses(c, m) THEN ServerCross(c, m)
      ELSE \/ ServerSubscribe(c, m) \/ ServerCheckVersion(c, m)
           \/ ServerAccept(c, m) \/ ServerOutdated(c, m)
  BY DEF ServerReceive
<1> QED
  BY <1>1, ServerCrossStep, ServerAnswerStep, ServerAcceptStep

-----------------------------------------------------------------------------
(* The steps of a client: what they share.                                 *)

\* Nothing changes for the others or on the server.
OnlyOf(c) ==
    \A d \in Client : d # c =>
        /\ Keeps(d) /\ up'[d] = up[d] /\ down'[d] = down[d] /\ said'[d] = said[d]

Local(c) ==
    /\ OnlyOf(c) /\ log' = log /\ saved' = saved /\ joined' \subseteq joined
    /\ typed' \in Nat /\ typed <= typed'

\* So all that is right for them stays right.
LEMMA LocalOthers ==
    ASSUME Types, NEW c \in Client, Local(c), NEW d \in Client, d # c
    PROVE  /\ Plainly(d) => Plainly(d)'
           /\ ClientInv(d) => ClientInv(d)'
<1>1. saved' \in Nat /\ saved <= saved' /\ saved' <= Len(log)
  BY LenProperties DEF Types, Local
<1>2. /\ Apart(d) /\ log' = log /\ saved' = saved /\ typed' \in Nat /\ typed <= typed'
      /\ joined' \subseteq joined
  BY DEF Local, OnlyOf, Apart, Reads
<1>3. ASSUME Plainly(d)
      PROVE  Plainly(d)'
  <2>1. /\ link'[d] = link[d] /\ seen'[d] = seen[d] /\ up'[d] = up[d] /\ down'[d] = down[d]
        /\ said'[d] = said[d] /\ pend'[d] = pend[d] /\ waiting'[d] = waiting[d]
        /\ fetch'[d] = fetch[d]
    BY DEF Local, OnlyOf, Keeps
  <2>2. pend[d] \in Seq(Edit) /\ Len(pend[d]) \in Nat /\ typed \in Nat
    BY Typed
  <2>3. Linked(d)'
    BY <1>2, <1>3, <2>1 DEF Plainly, Linked
  <2>4. Editing(d)'
    BY <1>2, <1>3, <2>1, <2>2 DEF Plainly, Editing
  <2> QED
    BY <1>2, <1>3, <2>1, <2>3, <2>4 DEF Plainly
<1>4. ASSUME ClientInv(d)
      PROVE  ClientInv(d)'
  BY <1>1, <1>2, <1>4, StaysApart
<1> QED
  BY <1>3, <1>4

LEMMA SendingTypes ==
    ASSUME Types, NEW c \in Client, KeepSending \/ EnableSending(c) \/ DisableSending(c)
    PROVE  /\ await' \in [Client -> BOOLEAN] /\ timer' \in [Client -> BOOLEAN]
           /\ older' \in [Client -> BOOLEAN]
<1>1. await \in [Client -> BOOLEAN] /\ timer \in [Client -> BOOLEAN] /\ older \in [Client -> BOOLEAN]
  BY DEF Types
<1>2. CASE KeepSending
  BY <1>1, <1>2 DEF KeepSending
<1>3. CASE EnableSending(c)
  BY <1>1, <1>3 DEF EnableSending
<1>4. CASE DisableSending(c)
  <2>1. (older[c] \/ timer[c]) \in BOOLEAN
    OBVIOUS
  <2> QED
    BY <1>1, <1>4, <2>1 DEF DisableSending
<1> QED
  BY <1>2, <1>3, <1>4

\* At most a check_version is sent, about the version and what is pending.
UpGrows(c) ==
    \/ up'[c] = up[c]
    \/ /\ ~Waits(c)'
       /\ \E k \in CheckUp : /\ up'[c] = Append(up[c], k)
                             /\ k.seen = seen'[c] /\ k.v = ver'[c]
                             /\ k.offline => pend'[c] # <<>>

LEMMA Checked ==
    ASSUME Types, NEW c \in Client, NEW off \in BOOLEAN, off => pend'[c] # <<>>,
           seen'[c] \in Nat, ver'[c] = ver[c], ~Waits(c)',
           \/ CheckVersion(c, off)
           \/ /\ DisableSending(c) /\ checking' = [checking EXCEPT ![c] = TRUE]
              /\ Upload(c, CheckMsg(c, off))
    PROVE  /\ await' \in [Client -> BOOLEAN] /\ timer' \in [Client -> BOOLEAN]
           /\ older' \in [Client -> BOOLEAN] /\ checking' \in [Client -> BOOLEAN]
           /\ up' \in [Client -> Seq(UpMsg)] /\ UpGrows(c)
           /\ \A d \in Client : d # c => up'[d] = up[d]
<1>1. up \in [Client -> Seq(UpMsg)] /\ checking \in [Client -> BOOLEAN]
      /\ ver[c] \in Nat
  BY DEF Types
<1>2. CASE KeepSending /\ UNCHANGED <<checking, up>>
  BY <1>1, <1>2, SendingTypes DEF UpGrows
<1>3. CASE /\ DisableSending(c) /\ checking' = [checking EXCEPT ![c] = TRUE]
           /\ Upload(c, CheckMsg(c, off))
  <2> DEFINE k == [CheckMsg(c, off) EXCEPT !.seen = seen'[c]]
  <2>1. k = [type |-> "check_version", v |-> ver[c], offline |-> off, seen |-> seen'[c]]
    BY DEF CheckMsg
  <2>2. k \in CheckUp /\ k \in UpMsg /\ k.seen = seen'[c] /\ k.v = ver[c] /\ k.offline = off
    BY <1>1, <2>1 DEF CheckUp, UpMsg
  <2>3. up' = [up EXCEPT ![c] = Append(@, k)]
    BY <1>3 DEF Upload
  <2> HIDE DEF k
  <2>4. Append(up[c], k) \in Seq(UpMsg)
    BY <1>1, <2>2, AppendProperties
  <2>5. /\ up' \in [Client -> Seq(UpMsg)] /\ up'[c] = Append(up[c], k)
        /\ \A d \in Client : d # c => up'[d] = up[d]
    BY <1>1, <2>3, <2>4
  <2>6. UpGrows(c)
    BY <2>2, <2>5 DEF UpGrows
  <2> QED
    BY <1>1, <1>3, <2>5, <2>6, SendingTypes
<1> QED
  BY <1>2, <1>3 DEF CheckVersion

\* What a client has sent before it received a message is not about what it has
\* after it.
LEMMA FreshAfter ==
    ASSUME Types, NEW c \in Client, ClientInv(c), seen'[c] = seen[c] + 1, UpGrows(c)
    PROVE  Fresh(c)'
<1>1. up[c] \in Seq(UpMsg) /\ Len(up[c]) \in Nat /\ seen[c] \in Nat
  BY Typed
<1>2. \A i \in 1 .. Len(up[c]) : up[c][i].seen <= seen[c] /\ up[c][i].seen \in Nat
  <2> TAKE i \in 1 .. Len(up[c])
  <2>1. up[c][i] \in UpMsg
    BY <1>1, ElementOfSeq
  <2> QED
    BY <2>1, UpTyped DEF ClientInv, Fresh
<1>3. \A i \in 1 .. Len(up[c]) : up[c][i].seen <= seen'[c] /\ up[c][i].seen # seen'[c]
  BY <1>1, <1>2
<1>4. CASE up'[c] = up[c]
  BY <1>3, <1>4 DEF Fresh
<1>5. CASE up'[c] # up[c]
  <2>1. ~Waits(c)'
    BY <1>5 DEF UpGrows
  <2>2. PICK k \in CheckUp : /\ up'[c] = Append(up[c], k)
                             /\ k.seen = seen'[c] /\ k.v = ver'[c]
                             /\ k.offline => pend'[c] # <<>>
    BY <1>5 DEF UpGrows
  <2>3. k.type = "check_version" /\ k \in UpMsg /\ k.seen <= k.seen
    BY DEF CheckUp, UpMsg
  <2>4. /\ Len(up'[c]) = Len(up[c]) + 1 /\ up'[c][Len(up[c]) + 1] = k
        /\ \A i \in 1 .. Len(up[c]) : up'[c][i] = up[c][i]
    BY <1>1, <2>2, <2>3, AppendProperties
  <2>5. \A i \in 1 .. Len(up'[c]) : i \in 1 .. Len(up[c]) \/ i = Len(up[c]) + 1
    BY <1>1, <2>4
  <2>6. \A i \in 1 .. Len(up'[c]) : \/ up'[c][i].seen <= seen'[c] /\ up'[c][i].seen # seen'[c]
                                    \/ up'[c][i] = k
    BY <1>3, <2>4, <2>5
  <2> QED
    BY <2>1, <2>2, <2>3, <2>6 DEF Fresh
<1> QED
  BY <1>4, <1>5

LEMMA RidsAfter ==
    ASSUME Types, NEW c \in Client, ClientInv(c), log' = log, down[c] # <<>>,
           down'[c] = Tail(down[c]), rids' = rids, unconf'[c] \subseteq unconf[c], UpGrows(c)
    PROVE  Rids(c)'
<1>1. /\ up[c] \in Seq(UpMsg) /\ Len(up[c]) \in Nat
      /\ down[c] \in Seq(DownMsg) /\ Len(down[c]) \in Nat
  BY Typed
<1>2. /\ \A u \in unconf'[c] : u.rid < rids'[c]
                               /\ \A w \in unconf'[c] : w.rid = u.rid => w = u
      /\ \A k \in 1 .. Len(log') : log'[k].cid = c => log'[k].rid < rids'[c]
  BY DEF ClientInv, Rids
<1>3. \A i \in 1 .. Len(down'[c]) : i + 1 \in 1 .. Len(down[c]) /\ down'[c][i] = down[c][i + 1]
  BY <1>1, HeadTailProperties
<1>4. ASSUME NEW i \in 1 .. Len(down'[c]), down'[c][i].type = "reject_diff"
      PROVE  \A k \in 1 .. Len(log') : log'[k].cid = c => log'[k].rid # down'[c][i].rid
  <2> DEFINE h == i + 1
  <2>1. h \in 1 .. Len(down[c]) /\ down'[c][i] = down[c][h]
    BY <1>3
  <2> HIDE DEF h
  <2> QED
    BY <1>4, <2>1 DEF ClientInv, Rids
<1>5. \A i \in 1 .. Len(up'[c]) : up'[c][i].type = "diff" =>
         /\ i \in 1 .. Len(up[c]) /\ up'[c][i] = up[c][i]
         /\ \A j \in 1 .. i - 1 : j \in 1 .. Len(up[c]) /\ up'[c][j] = up[c][j]
  <2>1. CASE up'[c] = up[c]
    BY <1>1, <2>1
  <2>2. CASE up'[c] # up[c]
    <3>1. PICK k \in CheckUp : up'[c] = Append(up[c], k)
      BY <2>2 DEF UpGrows
    <3>2. k.type = "check_version" /\ k \in UpMsg
      BY DEF CheckUp, UpMsg
    <3>3. /\ Len(up'[c]) = Len(up[c]) + 1 /\ up'[c][Len(up[c]) + 1] = k
          /\ \A i \in 1 .. Len(up[c]) : up'[c][i] = up[c][i]
      BY <1>1, <3>1, <3>2, AppendProperties
    <3> TAKE i \in 1 .. Len(up'[c])
    <3>4. i \in 1 .. Len(up[c]) \/ i = Len(up[c]) + 1
      BY <1>1, <3>3
    <3>5. \A j \in 1 .. i - 1 : j \in 1 .. Len(up[c])
      BY <1>1, <3>4
    <3> QED
      BY <3>2, <3>3, <3>4, <3>5
  <2> QED
    BY <2>1, <2>2
<1>6. ASSUME NEW i \in 1 .. Len(up'[c]), up'[c][i].type = "diff"
      PROVE  /\ up'[c][i].rid < rids'[c]
             /\ \A j \in 1 .. i - 1 : up'[c][j].type = "diff" => up'[c][j].rid # up'[c][i].rid
             /\ \A k \in 1 .. Len(log') : log'[k].cid = c => log'[k].rid # up'[c][i].rid
  BY <1>5, <1>6 DEF ClientInv, Rids
<1> QED
  BY <1>2, <1>4, <1>6 DEF Rids

-----------------------------------------------------------------------------
(* A client receives.                                                      *)

LEMMA ReceivePlain ==
    ASSUME Types, NEW c \in Client, Linked(c), ClientReceive(c)
    PROVE  /\ Types /\ down[c] # <<>> /\ link[c] = "on"
           /\ down' \in [Client -> Seq(DownMsg)] /\ down'[c] = Tail(down[c])
           /\ seen' \in [Client -> Nat] /\ seen'[c] = seen[c] + 1 /\ seen'[c] \in Nat
           /\ \A d \in Client : d # c => down'[d] = down[d] /\ seen'[d] = seen[d]
           /\ Head(down[c]) = down[c][1] /\ 1 \in 1 .. Len(down[c]) /\ down[c][1] \in DownMsg
           /\ log' = log /\ saved' = saved /\ joined' = joined /\ said' = said
           /\ link' = link /\ count' = count /\ typed' = typed
           /\ late' \in [Client -> BOOLEAN] /\ late'[c] = fetch[c].open
           /\ \A d \in Client : d # c => late'[d] = late[d]
           /\ strayed' = strayed /\ unheard' = unheard
           /\ fetch'[c] = fetch[c] => ~Waits(c)'
           /\ Linked(c)'
<1>2. /\ down[c] # <<>> /\ down' = [down EXCEPT ![c] = Tail(@)]
      /\ seen' = [seen EXCEPT ![c] = @ + 1]
      /\ log' = log /\ saved' = saved /\ joined' = joined /\ said' = said
      /\ link' = link /\ count' = count /\ typed' = typed
      /\ late' = [late EXCEPT ![c] = fetch[c].open]
      /\ strayed' = strayed /\ unheard' = unheard
  BY DEF ClientReceive, GoesOn, serverVars, counters
<1>3. /\ down \in [Client -> Seq(DownMsg)] /\ seen \in [Client -> Nat]
      /\ link[c] \in {"on", "off"} /\ Len(down[c]) \in Nat
      /\ late \in [Client -> BOOLEAN] /\ fetch[c].open \in BOOLEAN
      /\ seen[c] \in Nat /\ said[c] \in Nat
  BY Typed DEF Types
<1>4. Tail(down[c]) \in Seq(DownMsg) /\ Len(down[c]) # 0
  BY <1>2, <1>3, HeadTailProperties, EmptySeq
<1>5. /\ down' \in [Client -> Seq(DownMsg)] /\ down'[c] = Tail(down[c])
      /\ \A d \in Client : d # c => down'[d] = down[d]
  BY <1>2, <1>3, <1>4
<1>6. /\ seen' \in [Client -> Nat] /\ seen'[c] = seen[c] + 1 /\ seen'[c] \in Nat
      /\ \A d \in Client : d # c => seen'[d] = seen[d]
  BY <1>2, <1>3
<1>7. Head(down[c]) = down[c][1] /\ 1 \in 1 .. Len(down[c]) /\ down[c][1] \in DownMsg
  BY <1>2, <1>3, <1>4, ElementOfSeq
<1>8. link[c] = "on"
  BY <1>2, <1>3 DEF Linked
<1>9. /\ late' \in [Client -> BOOLEAN] /\ late'[c] = fetch[c].open
      /\ \A d \in Client : d # c => late'[d] = late[d]
  BY <1>2, <1>3
<1>10. fetch'[c] = fetch[c] => ~Waits(c)'
  BY <1>9 DEF Waits
<1>11. Linked(c)'
  <2>1. Len(down'[c]) = Len(down[c]) - 1
    BY <1>3, <1>4, <1>5, <1>2, HeadTailProperties
  <2>2. seen[c] + Len(down[c]) = said[c]
    BY <1>8 DEF Linked
  <2>3. \A a, b \in Nat : a + 1 + (b - 1) = a + b
    OBVIOUS
  <2>4. seen[c] + 1 + (Len(down[c]) - 1) = said[c]
    BY <1>3, <2>2, <2>3
  <2>5. seen'[c] + Len(down'[c]) = said'[c] /\ link'[c] = "on"
    BY <1>2, <1>6, <1>8, <2>1, <2>4
  <2> QED
    BY <2>5 DEF Linked
<1> QED
  BY <1>2, <1>5, <1>6, <1>7, <1>8, <1>9, <1>10, <1>11

LEMMA ReceiveFrame ==
    ASSUME Types, NEW c \in Client, ClientInv(c), ClientReceive(c)
    PROVE  /\ Types /\ ClientInv(c) /\ down[c] # <<>> /\ link[c] = "on"
           /\ down' \in [Client -> Seq(DownMsg)] /\ down'[c] = Tail(down[c])
           /\ seen' \in [Client -> Nat] /\ seen'[c] = seen[c] + 1 /\ seen'[c] \in Nat
           /\ \A d \in Client : d # c => down'[d] = down[d] /\ seen'[d] = seen[d]
           /\ Head(down[c]) = down[c][1] /\ 1 \in 1 .. Len(down[c]) /\ down[c][1] \in DownMsg
           /\ log' = log /\ saved' = saved /\ joined' = joined /\ said' = said
           /\ link' = link /\ count' = count /\ typed' = typed
           /\ late' \in [Client -> BOOLEAN] /\ late'[c] = fetch[c].open
           /\ fetch'[c] = fetch[c] => ~Waits(c)'
           /\ Linked(c)'
  BY ReceivePlain DEF ClientInv

\* What comes after a message that was received.
LEMMA IncomingAfter ==
    ASSUME Types, NEW c \in Client, Incoming(c), log' = log, saved' = saved,
           down[c] # <<>>, down'[c] = Tail(down[c]),
           \/ down[c][1].type # "subscribed"
           \/ ver'[c] = ver[c] /\ pend'[c] = pend[c] /\ ~Waits(c)'
    PROVE  Incoming(c)'
<1>1. down[c] \in Seq(DownMsg) /\ Len(down[c]) \in Nat
  BY Typed
<1>2. \A i \in 1 .. Len(down'[c]) : i + 1 \in 1 .. Len(down[c]) /\ down'[c][i] = down[c][i + 1]
  BY <1>1, HeadTailProperties
<1>3. Len(down'[c]) \in Nat
  BY <1>1, HeadTailProperties, EmptySeq
<1> SUFFICES ASSUME NEW i \in 1 .. Len(down'[c])
             PROVE  /\ Confirms(c, down'[c][i]) \/ IsRefetch(down'[c][i]) =>
                          /\ ~Waits(c)'
                          /\ \A j \in 1 .. i - 1 : down'[c][j].type = "subscribed"
                    /\ Confirms(c, down'[c][i]) =>
                          OwnNext(c)' /\ log'[ver'[c] + 1].rid = down'[c][i].rid
                    /\ IsRefetch(down'[c][i]) => RowCovers(c, saved)'
                    /\ down'[c][i].type = "diff" =>
                          /\ down'[c][i].v < Len(log')
                          /\ log'[down'[c][i].v + 1] =
                                [cid |-> down'[c][i].cid, rid |-> down'[c][i].rid,
                                 edits |-> down'[c][i].edits]
  BY DEF Incoming, Confirms, IsRefetch
<1> DEFINE h == i + 1
           m == down[c][h]
<1>4. h \in 1 .. Len(down[c]) /\ down'[c][i] = m /\ 1 \in 1 .. h - 1
  BY <1>2
<1>5. \A j \in 1 .. i - 1 : j + 1 \in 1 .. h - 1 /\ down'[c][j] = down[c][j + 1]
  BY <1>2, <1>3
<1> HIDE DEF h
<1>6. /\ Confirms(c, m) \/ IsRefetch(m) =>
            /\ ~Waits(c)
            /\ \A j \in 1 .. h - 1 : down[c][j].type = "subscribed"
      /\ Confirms(c, m) => OwnNext(c) /\ log[ver[c] + 1].rid = m.rid
      /\ IsRefetch(m) => RowCovers(c, saved)
      /\ m.type = "diff" =>
            /\ m.v < Len(log)
            /\ log[m.v + 1] = [cid |-> m.cid, rid |-> m.rid, edits |-> m.edits]
  BY <1>4 DEF Incoming
<1> HIDE DEF m
<1>7. CASE down[c][1].type # "subscribed"
  <2>1. ~Confirms(c, m) /\ ~IsRefetch(m)
    BY <1>4, <1>6, <1>7
  <2> QED
    BY <1>4, <1>6, <2>1
<1>8. CASE ver'[c] = ver[c] /\ pend'[c] = pend[c] /\ ~Waits(c)'
  <2>1. (OwnNext(c)' <=> OwnNext(c)) /\ (RowCovers(c, saved)' <=> RowCovers(c, saved))
    BY <1>8 DEF OwnNext, RowCovers
  <2>2. (\A j \in 1 .. h - 1 : down[c][j].type = "subscribed") =>
           \A j \in 1 .. i - 1 : down'[c][j].type = "subscribed"
    BY <1>5
  <2> QED
    BY <1>4, <1>6, <1>8, <2>1, <2>2
<1> QED
  BY <1>7, <1>8

\* The step is right for the receiving client if it is for its copy.
LEMMA Reading ==
    ASSUME Types, NEW c \in Client, ClientInv(c), ClientReceive(c),
           rids' = rids, UpGrows(c), unconf'[c] \subseteq unconf[c],
           \/ down[c][1].type # "subscribed"
           \/ ver'[c] = ver[c] /\ pend'[c] = pend[c] /\ fetch'[c] = fetch[c],
           Own(c)', Fetching(c)', Editing(c)', Current(c)'
    PROVE  ClientInv(c)'
<1>1. /\ Types /\ ClientInv(c) /\ down[c] # <<>> /\ link[c] = "on"
      /\ down' \in [Client -> Seq(DownMsg)] /\ down'[c] = Tail(down[c])
      /\ seen' \in [Client -> Nat] /\ seen'[c] = seen[c] + 1 /\ seen'[c] \in Nat
      /\ \A d \in Client : d # c => down'[d] = down[d] /\ seen'[d] = seen[d]
      /\ log' = log /\ saved' = saved /\ joined' = joined /\ said' = said
      /\ link' = link /\ count' = count /\ typed' = typed
      /\ late' \in [Client -> BOOLEAN] /\ (fetch'[c] = fetch[c] => ~Waits(c)') /\ Linked(c)'
  BY ReceiveFrame
<1>5. Fresh(c)'
  BY <1>1, FreshAfter
<1>6. Rids(c)'
  BY <1>1, RidsAfter
<1>7. Incoming(c)'
  BY <1>1, IncomingAfter DEF ClientInv
<1> QED
  BY <1>1, <1>5, <1>6, <1>7 DEF ClientInv

\* The copy is left alone: own diffs sent may have been rejected.
LEMMA Still ==
    ASSUME Types, NEW c \in Client, ClientInv(c), log' = log, saved' = saved, typed' = typed,
           ver'[c] = ver[c], text'[c] = text[c], pend'[c] = pend[c],
           waiting'[c] => waiting[c],
           OwnNext(c) => [rid |-> log[ver[c] + 1].rid, n |-> Len(log[ver[c] + 1].edits)]
                            \in unconf'[c]
    PROVE  /\ Own(c)' /\ Editing(c)' /\ Current(c)'
           /\ fetch'[c].row = fetch[c].row /\ ~Waits(c)' => Fetching(c)'
<1>1. OwnNext(c)' <=> OwnNext(c)
  BY DEF OwnNext
<1>2. Own(c)'
  BY <1>1 DEF ClientInv, Own
<1>4. fetch'[c].row = fetch[c].row /\ ~Waits(c)' => Fetching(c)'
  BY DEF ClientInv, Fetching
<1>5. Editing(c)'
  BY DEF ClientInv, Editing
<1>6. Current(c)'
  BY DEF ClientInv, Current, TextAt
<1> QED
  BY <1>2, <1>4, <1>5, <1>6

LEMMA SubscribedStep ==
    ASSUME Types, NEW c \in Client, ClientInv(c), ClientReceive(c),
           ReceiveSubscribed(c, down[c][1])
    PROVE  ClientInv(c)'
<1>1. /\ Types /\ ClientInv(c) /\ log' = log /\ saved' = saved /\ typed' = typed
      /\ fetch'[c] = fetch[c] => ~Waits(c)'
  BY ReceiveFrame
<1>2. /\ timer' = timer /\ older' = older /\ up' = up /\ ver' = ver /\ text' = text
      /\ pend' = pend /\ unconf' = unconf /\ rids' = rids
      /\ checking' = checking /\ waiting' = waiting /\ fetch' = fetch
  BY DEF ReceiveSubscribed, copyVars
<1>5. Own(c)' /\ Fetching(c)' /\ Editing(c)' /\ Current(c)'
  <2>1. OwnNext(c) => [rid |-> log[ver[c] + 1].rid, n |-> Len(log[ver[c] + 1].edits)]
                         \in unconf'[c]
    BY <1>1, <1>2 DEF ClientInv, Own
  <2> QED
    BY <1>1, <1>2, <2>1, Still
<1>6. UpGrows(c)
  BY <1>2 DEF UpGrows
<1> QED
  BY <1>2, <1>5, <1>6, Reading

\* A message after which only a check of the version may be sent.
LEMMA CheckStep ==
    ASSUME Types, NEW c \in Client, ClientInv(c), ClientReceive(c),
           ver' = ver, text' = text, pend' = pend, unconf' = unconf, rids' = rids,
           fetch' = fetch, waiting'[c] => waiting[c], UpGrows(c)
    PROVE  ClientInv(c)'
<1>1. /\ Types /\ ClientInv(c) /\ log' = log /\ saved' = saved /\ typed' = typed
      /\ fetch'[c] = fetch[c] => ~Waits(c)'
  BY ReceiveFrame
<1>5. Own(c)' /\ Fetching(c)' /\ Editing(c)' /\ Current(c)'
  <2>1. OwnNext(c) => [rid |-> log[ver[c] + 1].rid, n |-> Len(log[ver[c] + 1].edits)]
                         \in unconf'[c]
    BY <1>1 DEF ClientInv, Own
  <2> QED
    BY <1>1, <2>1, Still
<1> QED
  BY <1>5, Reading

LEMMA ConnectionsStep ==
    ASSUME Types, NEW c \in Client, ClientInv(c), ClientReceive(c),
           ReceiveConnections(c, down[c][1])
    PROVE  ClientInv(c)'
<1>1. Types /\ seen'[c] \in Nat /\ (fetch'[c] = fetch[c] => ~Waits(c)')
  BY ReceiveFrame
<1>2. /\ ver' = ver /\ text' = text /\ pend' = pend /\ unconf' = unconf /\ rids' = rids
      /\ waiting' = waiting /\ fetch' = fetch
      /\ resub' = [resub EXCEPT ![c] = FALSE]
      /\ IF resub[c] THEN CheckVersion(c, pend[c] # <<>>)
         ELSE KeepSending /\ UNCHANGED <<checking, up>>
  BY DEF ReceiveConnections, copyVars
<1>4. UpGrows(c)
  <2>1. CASE resub[c]
    <3>1. PICK off \in BOOLEAN : off = (pend[c] # <<>>)
      OBVIOUS
    <3>2. CheckVersion(c, off) /\ (off => pend'[c] # <<>>)
      BY <1>2, <2>1, <3>1
    <3> QED
      BY <1>1, <1>2, <3>2, Checked
  <2>2. CASE ~resub[c]
    BY <1>2, <2>2 DEF UpGrows
  <2> QED
    BY <2>1, <2>2
<1> QED
  BY <1>2, <1>4, CheckStep

LEMMA ConfirmVersionStep ==
    ASSUME Types, NEW c \in Client, ClientInv(c), ClientReceive(c),
           ReceiveConfirmVersion(c, down[c][1])
    PROVE  ClientInv(c)'
<1>1. Types /\ seen'[c] \in Nat /\ (fetch'[c] = fetch[c] => ~Waits(c)')
  BY ReceiveFrame
<1>2. /\ ver' = ver /\ text' = text /\ pend' = pend /\ unconf' = unconf /\ rids' = rids
      /\ resub' = resub /\ fetch' = fetch
      /\ IF down[c][1].v # ver[c]
         THEN /\ DisableSending(c) /\ checking' = [checking EXCEPT ![c] = TRUE]
              /\ Upload(c, CheckMsg(c, FALSE)) /\ waiting' = waiting
         ELSE /\ EnableSending(c) /\ checking' = [checking EXCEPT ![c] = FALSE]
              /\ waiting' = [waiting EXCEPT ![c] = FALSE] /\ up' = up
  BY DEF ReceiveConfirmVersion, copyVars
<1>3. waiting'[c] => waiting[c]
  BY <1>1, <1>2 DEF Types
<1>4. UpGrows(c)
  <2>1. CASE down[c][1].v # ver[c]
    BY <1>1, <1>2, <2>1, Checked
  <2>2. CASE down[c][1].v = ver[c]
    BY <1>2, <2>2 DEF UpGrows
  <2> QED
    BY <2>1, <2>2
<1> QED
  BY <1>2, <1>3, <1>4, CheckStep

LEMMA RejectStep ==
    ASSUME Types, NEW c \in Client, ClientInv(c), ClientReceive(c),
           ReceiveRejectDiff(c, down[c][1])
    PROVE  ClientInv(c)'
<1> DEFINE m == down[c][1]
<1>1. /\ Types /\ ClientInv(c) /\ log' = log /\ saved' = saved /\ typed' = typed
      /\ 1 \in 1 .. Len(down[c]) /\ (fetch'[c] = fetch[c] => ~Waits(c)')
      /\ late'[c] = fetch[c].open
  BY ReceiveFrame
<1>2. /\ m.type = "reject_diff"
      /\ unconf' = [unconf EXCEPT ![c] = {u \in @ : u.rid # m.rid}]
      /\ EnableSending(c)
      /\ up' = up /\ ver' = ver /\ text' = text /\ pend' = pend /\ rids' = rids
      /\ checking' = checking /\ waiting' = waiting /\ resub' = resub /\ fetch' = fetch
  BY DEF ReceiveRejectDiff
<1>5. unconf \in [Client -> SUBSET [rid: Nat, n: Nat \ {0}]]
  BY <1>1 DEF Types
<1>6. unconf'[c] = {u \in unconf[c] : u.rid # m.rid}
  BY <1>2, <1>5
<1>7. Own(c)' /\ Fetching(c)' /\ Editing(c)' /\ Current(c)'
  <2>1. ASSUME OwnNext(c)
        PROVE  [rid |-> log[ver[c] + 1].rid, n |-> Len(log[ver[c] + 1].edits)] \in unconf'[c]
    <3>1. [rid |-> log[ver[c] + 1].rid, n |-> Len(log[ver[c] + 1].edits)] \in unconf[c]
      BY <1>1, <2>1 DEF ClientInv, Own
    <3>2. ver[c] \in Nat /\ Len(log) \in Nat
      BY <1>1, Typed
    <3>3. ver[c] + 1 \in 1 .. Len(log) /\ log[ver[c] + 1].cid = c
      BY <2>1, <3>2 DEF OwnNext
    <3>4. log[ver[c] + 1].rid # m.rid
      BY <1>1, <1>2, <3>3 DEF ClientInv, Rids
    <3> QED
      BY <1>6, <3>1, <3>4
  <2> QED
    BY <1>1, <1>2, <2>1, Still
<1>8. UpGrows(c) /\ unconf'[c] \subseteq unconf[c]
  BY <1>2, <1>6 DEF UpGrows
<1> QED
  BY <1>2, <1>7, <1>8, Reading

\* The next diff is taken into the copy.
LEMMA Advance ==
    ASSUME Types, NEW c \in Client, ClientInv(c), log' = log, ver[c] < Len(log),
           ver'[c] = ver[c] + 1, text'[c] = text[c] \o log[ver[c] + 1].edits
    PROVE  Current(c)' /\ Own(c)'
<1>1. /\ log \in Seq(Diff) /\ Len(log) \in Nat /\ ver[c] \in Nat
      /\ text[c] = TextAt(ver[c])
  BY Typed DEF ClientInv, Current
<1>2. PICK v \in Nat, w \in Nat : v = ver[c] /\ w = v + 1
  BY <1>1
<1>3. TextAt(w) = TextAt(v) \o log[v + 1].edits
  BY <1>1, <1>2, TextStep
<1>4. TextAt(w)' = TextAt(w)
  BY DEF TextAt
<1>5. ver'[c] = w /\ w <= Len(log')
  BY <1>1, <1>2
<1>6. Current(c)'
  BY <1>1, <1>2, <1>3, <1>4, <1>5 DEF Current
<1>7. \A k \in w + 1 .. Len(log) : log[k].cid # c
  <2> TAKE k \in w + 1 .. Len(log)
  <2>1. k \in ver[c] + 2 .. Len(log)
    BY <1>1, <1>2
  <2> QED
    BY <2>1 DEF ClientInv, Own
<1>8. ~OwnNext(c)'
  <2>1. w < Len(log) => w + 1 \in w + 1 .. Len(log)
    BY <1>1
  <2> QED
    BY <1>5, <1>7, <2>1 DEF OwnNext
<1>9. \A k \in ver'[c] + 2 .. Len(log') : log'[k].cid # c
  <2> TAKE k \in ver'[c] + 2 .. Len(log')
  <2>1. k \in w + 1 .. Len(log)
    BY <1>1, <1>5
  <2> QED
    BY <1>7, <2>1
<1>10. Own(c)'
  BY <1>8, <1>9 DEF Own
<1> QED
  BY <1>6, <1>10

\* An accepted diff of c itself: its edits are no longer pending.
LEMMA ConfirmCopy ==
    ASSUME Types, NEW c \in Client, ClientInv(c), 1 \in 1 .. Len(down[c]),
           Confirms(c, down[c][1]), ConfirmDiff(c, down[c][1].rid)
    PROVE  LET l == log[ver[c] + 1]
               rest == SubSeq(pend[c], Len(l.edits) + 1, Len(pend[c]))
           IN  /\ OwnNext(c) /\ ver[c] < Len(log) /\ IsPrefix(l.edits, pend[c])
               /\ l.edits \in Seq(Edit) /\ Len(l.edits) \in Nat
               /\ Len(l.edits) <= Len(pend[c])
               /\ rest \in Seq(Edit) /\ Len(rest) = Len(pend[c]) - Len(l.edits)
               /\ EnableSending(c) /\ rids' = rids
               /\ \E u : unconf' = [unconf EXCEPT ![c] = @ \ {u}]
               /\ ver' = [ver EXCEPT ![c] = ver[c] + 1]
               /\ text' = [text EXCEPT ![c] = text[c] \o l.edits]
               /\ pend' = [pend EXCEPT ![c] = rest]
<1> DEFINE m == down[c][1]
           l == log[ver[c] + 1]
           r == [rid |-> l.rid, n |-> Len(l.edits)]
           mine == {u \in unconf[c] : u.rid = m.rid}
           u == CHOOSE x \in mine : TRUE
           rest == SubSeq(pend[c], Len(l.edits) + 1, Len(pend[c]))
<1>2. OwnNext(c) /\ l.rid = m.rid
  BY DEF ClientInv, Incoming
<1>3. IsPrefix(l.edits, pend[c]) /\ r \in unconf[c]
  BY <1>2 DEF ClientInv, Own
<1>4. /\ log \in Seq(Diff) /\ Len(log) \in Nat /\ ver[c] \in Nat
      /\ pend[c] \in Seq(Edit) /\ Len(pend[c]) \in Nat /\ text[c] \in Seq(Edit)
  BY Typed
<1>5. ver[c] + 1 \in 1 .. Len(log) /\ ver[c] < Len(log)
  BY <1>2, <1>4 DEF OwnNext
<1>6. l.edits \in Seq(Edit) /\ Len(l.edits) \in Nat /\ Len(l.edits) <= Len(pend[c])
  <2>1. l.edits \in Seq(Edit)
    BY <1>4, <1>5, LogEntries
  <2> QED
    BY <1>3, <1>4, <2>1, PrefixElements, LenProperties
<1>7. r \in mine /\ \A x \in mine : x = r
  BY <1>2, <1>3 DEF ClientInv, Rids
<1>8. u = r /\ mine # {}
  BY <1>7
<1>24. r.n = Len(l.edits)
  OBVIOUS
<1> HIDE DEF u, mine, r
<1>9. u.n = Len(l.edits)
  BY <1>8, <1>24
<1>10. Confirmed(c, u) = Len(l.edits)
  <2>1. Min({Len(l.edits), Len(pend[c])}) = Len(l.edits)
    <3>1. Len(l.edits) \in Int /\ Len(pend[c]) \in Int
      BY <1>4, <1>6
    <3>2. Min({Len(l.edits), Len(pend[c])})
            = IF Len(l.edits) <= Len(pend[c]) THEN Len(l.edits) ELSE Len(pend[c])
      BY <3>1, MinOf
    <3> QED
      BY <1>6, <3>2
  <2> QED
    BY <1>9, <2>1 DEF Confirmed
<1>11. /\ SubSeq(pend[c], 1, Len(l.edits)) = l.edits
       /\ rest \in Seq(Edit) /\ Len(rest) = Len(pend[c]) - Len(l.edits)
  BY <1>3, <1>4, <1>6, PrefixSplit
<1>12. /\ EnableSending(c)
       /\ unconf' = [unconf EXCEPT ![c] = @ \ {u}]
       /\ SetCopy(c, [ver |-> ver[c] + 1,
                      text |-> text[c] \o SubSeq(pend[c], 1, Confirmed(c, u)),
                      pend |-> SubSeq(pend[c], Confirmed(c, u) + 1, Len(pend[c]))])
       /\ rids' = rids
  BY <1>8 DEF ConfirmDiff, u, mine
<1>13. /\ ver' = [ver EXCEPT ![c] = ver[c] + 1]
       /\ text' = [text EXCEPT ![c] = text[c] \o l.edits]
       /\ pend' = [pend EXCEPT ![c] = rest]
  BY <1>10, <1>11, <1>12 DEF SetCopy
<1>14. \E x : unconf' = [unconf EXCEPT ![c] = @ \ {x}]
  BY <1>12
<1> HIDE DEF rest, l
<1> QED
  BY <1>2, <1>3, <1>5, <1>6, <1>11, <1>12, <1>13, <1>14 DEF rest, l

LEMMA ConfirmStep ==
    ASSUME Types, NEW c \in Client, ClientInv(c), ClientReceive(c),
           Confirms(c, down[c][1]), ConfirmDiff(c, down[c][1].rid),
           up' = up, checking' = checking, waiting' = waiting, resub' = resub, fetch' = fetch
    PROVE  ClientInv(c)'
<1> DEFINE m == down[c][1]
           l == log[ver[c] + 1]
           rest == SubSeq(pend[c], Len(l.edits) + 1, Len(pend[c]))
<1>1. /\ Types /\ ClientInv(c) /\ log' = log /\ saved' = saved /\ typed' = typed
      /\ 1 \in 1 .. Len(down[c]) /\ (fetch'[c] = fetch[c] => ~Waits(c)')
  BY ReceiveFrame
<1>2. /\ OwnNext(c) /\ ver[c] < Len(log) /\ IsPrefix(l.edits, pend[c])
      /\ l.edits \in Seq(Edit) /\ Len(l.edits) \in Nat /\ Len(l.edits) <= Len(pend[c])
      /\ rest \in Seq(Edit) /\ Len(rest) = Len(pend[c]) - Len(l.edits)
      /\ EnableSending(c) /\ rids' = rids
      /\ ver' = [ver EXCEPT ![c] = ver[c] + 1]
      /\ text' = [text EXCEPT ![c] = text[c] \o l.edits]
      /\ pend' = [pend EXCEPT ![c] = rest]
  BY <1>1, ConfirmCopy
<1>3. PICK u : unconf' = [unconf EXCEPT ![c] = @ \ {u}]
  BY <1>1, ConfirmCopy
<1>4. /\ ver[c] \in Nat /\ pend[c] \in Seq(Edit) /\ Len(pend[c]) \in Nat
      /\ text[c] \in Seq(Edit)
  BY <1>1, Typed
<1> HIDE DEF rest, l
<1>14. /\ ver \in [Client -> Nat] /\ text \in [Client -> Seq(Edit)]
       /\ pend \in [Client -> Seq(Edit)]
       /\ unconf \in [Client -> SUBSET [rid: Nat, n: Nat \ {0}]]
  BY <1>1 DEF Types
<1>16. ver'[c] = ver[c] + 1 /\ text'[c] = text[c] \o l.edits /\ pend'[c] = rest
  BY <1>2, <1>14
<1>17. unconf'[c] \subseteq unconf[c]
  BY <1>3, <1>14
<1>20. Current(c)' /\ Own(c)'
  BY <1>1, <1>2, <1>16, Advance DEF l
<1>21. Fetching(c)'
  BY <1>1 DEF ClientInv, Fetching
<1>22. Editing(c)'
  <2>1. Len(pend[c]) <= typed /\ (waiting[c] => pend[c] = <<>>) /\ typed \in Nat
    BY <1>1 DEF ClientInv, Editing, Types
  <2>4. \A a, b, t \in Nat : a <= t /\ b <= a => a - b <= t
    OBVIOUS
  <2>2. Len(rest) <= typed
    BY <1>2, <1>4, <2>1, <2>4
  <2>3. ASSUME waiting[c]
        PROVE  rest = <<>>
    <3>1. Len(pend[c]) = 0
      BY <1>4, <2>1, <2>3, EmptySeq
    <3>2. Len(rest) = 0
      BY <1>2, <3>1
    <3> QED
      BY <1>2, <3>2, EmptySeq
  <2> QED
    BY <1>1, <1>16, <2>2, <2>3 DEF Editing
<1>23. UpGrows(c) /\ m.type # "subscribed"
  BY DEF UpGrows, Confirms
<1> QED
  BY <1>2, <1>17, <1>20, <1>21, <1>22, <1>23, Reading

LEMMA ConfirmDiffStep ==
    ASSUME Types, NEW c \in Client, ClientInv(c), ClientReceive(c),
           ReceiveConfirmDiff(c, down[c][1])
    PROVE  ClientInv(c)'
  BY ConfirmStep DEF ReceiveConfirmDiff, Confirms

LEMMA DiffStep ==
    ASSUME Types, NEW c \in Client, ClientInv(c), ClientReceive(c),
           ReceiveDiff(c, down[c][1])
    PROVE  ClientInv(c)'
<1> DEFINE m == down[c][1]
<1>1. /\ Types /\ ClientInv(c) /\ log' = log /\ saved' = saved /\ typed' = typed
      /\ 1 \in 1 .. Len(down[c]) /\ (fetch'[c] = fetch[c] => ~Waits(c)')
      /\ m \in DownMsg /\ seen'[c] \in Nat
  BY ReceiveFrame
<1>2. /\ m.type = "diff" /\ waiting' = waiting /\ resub' = resub /\ fetch' = fetch
  BY DEF ReceiveDiff
<1>4. CASE m.cid = c
  BY <1>2, <1>4, ConfirmStep DEF ReceiveDiff, Confirms
<1>5. CASE m.cid # c /\ ~Fits(c, m)
  <2>1. /\ CheckVersion(c, FALSE)
        /\ ver' = ver /\ text' = text /\ pend' = pend /\ unconf' = unconf /\ rids' = rids
    BY <1>5 DEF ReceiveDiff, copyVars
  <2>2. UpGrows(c)
    BY <1>1, <1>2, <2>1, Checked
  <2> QED
    BY <1>2, <2>1, <2>2, CheckStep
<1>6. CASE m.cid # c /\ Fits(c, m)
  <2>1. /\ SetCopy(c, Applied(c, Copy(c), m)) /\ KeepSending
        /\ up' = up /\ checking' = checking /\ unconf' = unconf /\ rids' = rids
    BY <1>6 DEF ReceiveDiff
  <2>2. /\ ver' = [ver EXCEPT ![c] = ver[c] + 1]
        /\ text' = [text EXCEPT ![c] = text[c] \o m.edits]
        /\ pend' = [pend EXCEPT ![c] = pend[c]]
    BY <1>6, <2>1 DEF SetCopy, Applied, Copy
  <2>3. /\ ver[c] < Len(log) /\ m.v = ver[c]
        /\ log[m.v + 1] = [cid |-> m.cid, rid |-> m.rid, edits |-> m.edits]
    BY <1>1, <1>2, <1>6 DEF ClientInv, Incoming, Fits
  <2>4. log[ver[c] + 1].edits = m.edits
    BY <2>3
  <2> HIDE DEF m
  <2>5. /\ ver \in [Client -> Nat] /\ text \in [Client -> Seq(Edit)]
        /\ pend \in [Client -> Seq(Edit)] /\ m.edits \in Seq(Edit)
    BY <1>1, <1>2, DownTyped DEF Types
  <2>7. ver'[c] = ver[c] + 1 /\ text'[c] = text[c] \o m.edits /\ pend'[c] = pend[c]
    BY <2>2, <2>5
  <2>8. Current(c)' /\ Own(c)'
    BY <1>1, <2>3, <2>4, <2>7, Advance
  <2>9. Fetching(c)' /\ Editing(c)'
    BY <1>1, <1>2, <2>7 DEF ClientInv, Fetching, Editing
  <2>12. UpGrows(c) /\ down[c][1].type # "subscribed"
    BY <1>2, <2>1 DEF UpGrows, m
  <2> QED
    BY <1>1, <1>2, <2>1, <2>8, <2>9, <2>12, Reading
<1> QED
  BY <1>4, <1>5, <1>6

LEMMA RefetchStep ==
    ASSUME Types, NEW c \in Client, ClientInv(c), ClientReceive(c),
           ReceiveRefetch(c, down[c][1])
    PROVE  ClientInv(c)'
<1> DEFINE m == down[c][1]
           f == [from |-> ver[c], row |-> -1, open |-> TRUE]
<1>1. /\ Types /\ ClientInv(c) /\ log' = log /\ saved' = saved /\ typed' = typed
      /\ 1 \in 1 .. Len(down[c]) /\ (fetch'[c] = fetch[c] => ~Waits(c)')
      /\ late'[c] = fetch[c].open
  BY ReceiveFrame
<1>2. /\ m.type = "refetch_doc" /\ ~fetch[c].open /\ fetch' = [fetch EXCEPT ![c] = f] /\ KeepSending
      /\ up' = up /\ ver' = ver /\ text' = text /\ pend' = pend /\ unconf' = unconf
      /\ rids' = rids /\ checking' = checking /\ waiting' = waiting /\ resub' = resub
  BY DEF ReceiveRefetch, copyVars
<1>3. RowCovers(c, saved)
  BY <1>1, <1>2 DEF ClientInv, Incoming, IsRefetch
<1>4. ver[c] \in Nat /\ saved \in Nat
  BY <1>1, Typed
<1>5. f \in [from: Nat, row: Nat \cup {-1}, open: BOOLEAN]
  BY <1>4
<1>6. fetch'[c] = f /\ ~late'[c]
  BY <1>1, <1>2, <1>5 DEF Types
<1>7. Own(c)' /\ Editing(c)' /\ Current(c)'
  <2>1. OwnNext(c) => [rid |-> log[ver[c] + 1].rid, n |-> Len(log[ver[c] + 1].edits)]
                         \in unconf'[c]
    BY <1>1, <1>2 DEF ClientInv, Own
  <2> QED
    BY <1>1, <1>2, <2>1, Still
<1>8. Fetching(c)'
  <2>1. RowCovers(c, saved)'
    BY <1>1, <1>2, <1>3 DEF RowCovers
  <2>2. fetch'[c].row = -1 /\ fetch'[c].from = ver'[c] /\ -1 <= saved'
    BY <1>1, <1>2, <1>4, <1>6
  <2> QED
    BY <2>1, <2>2 DEF Fetching
<1>11. UpGrows(c)
  BY <1>2 DEF UpGrows
<1> QED
  BY <1>2, <1>7, <1>8, <1>11, Reading

LEMMA ReceiveStep ==
    ASSUME Types, NEW c \in Client, ClientInv(c), ClientReceive(c)
    PROVE  ClientInv(c)'
<1>1. Head(down[c]) = down[c][1]
  BY ReceiveFrame
<1>2. LET m == down[c][1]
      IN  \/ ReceiveSubscribed(c, m) \/ ReceiveConnections(c, m)
          \/ ReceiveConfirmVersion(c, m) \/ ReceiveConfirmDiff(c, m)
          \/ ReceiveRejectDiff(c, m) \/ ReceiveDiff(c, m) \/ ReceiveRefetch(c, m)
  BY <1>1 DEF ClientReceive
<1> QED
  BY <1>2, SubscribedStep, ConnectionsStep, ConfirmVersionStep, ConfirmDiffStep, RejectStep,
     DiffStep, RefetchStep

-----------------------------------------------------------------------------
(* The other steps of a client.                                            *)

LEMMA TypeStep ==
    ASSUME Types, NEW c \in Client, ClientInv(c), Type(c)
    PROVE  ClientInv(c)'
<1> DEFINE q == <<typed + 1>>
<1>1. Types /\ ClientInv(c)
  OBVIOUS
<1>2. /\ ~waiting[c] /\ typed < MaxEdits /\ typed' = typed + 1
      /\ pend' = [pend EXCEPT ![c] = Append(@, typed + 1)]
      /\ log' = log /\ saved' = saved /\ joined' = joined /\ said' = said
      /\ link' = link /\ count' = count /\ up' = up /\ down' = down /\ seen' = seen
      /\ ver' = ver /\ text' = text /\ unconf' = unconf /\ rids' = rids
      /\ await' = await /\ timer' = timer /\ older' = older /\ checking' = checking
      /\ waiting' = waiting /\ resub' = resub /\ fetch' = fetch /\ (Waits(c)' <=> Waits(c))
  BY DEF Type, MayType, serverVars, wires, flags, history, Waits
<1>3. /\ typed \in Nat /\ pend \in [Client -> Seq(Edit)] /\ pend[c] \in Seq(Edit)
      /\ Len(pend[c]) \in Nat /\ MaxEdits \in Nat
      /\ up[c] \in Seq(UpMsg) /\ log \in Seq(Diff) /\ Len(log) \in Nat /\ ver[c] \in Nat
  BY <1>1, Typed, NumberAssumption DEF Types
<1>4. typed + 1 \in Edit /\ typed' \in Nat /\ typed <= typed'
  BY <1>2, <1>3 DEF Edit
<1>5. /\ Append(pend[c], typed + 1) \in Seq(Edit)
      /\ Len(Append(pend[c], typed + 1)) = Len(pend[c]) + 1
      /\ Append(pend[c], typed + 1) = pend[c] \o q /\ q \in Seq(Edit)
  BY <1>3, <1>4, AppendProperties, AppendIsConcat
<1>6. /\ pend' \in [Client -> Seq(Edit)] /\ pend'[c] = pend[c] \o q
      /\ pend'[c] \in Seq(Edit) /\ Len(pend'[c]) = Len(pend[c]) + 1
      /\ \A d \in Client : d # c => pend'[d] = pend[d]
  BY <1>2, <1>3, <1>5
<1> HIDE DEF q
<1>7. pend'[c] # <<>>
  BY <1>3, <1>6, EmptySeq
<1>8. \A s \in Seq(Edit) : IsPrefix(s, pend[c]) => IsPrefix(s, pend'[c])
  BY <1>3, <1>5, <1>6, PrefixConcat
<1>11. Linked(c)'
  BY <1>1, <1>2 DEF ClientInv, Linked
<1>12. Fresh(c)'
  <2>1. \A i \in 1 .. Len(up[c]) : up[c][i].type = "diff" => up[c][i].edits \in Seq(Edit)
    <3> TAKE i \in 1 .. Len(up[c])
    <3>1. up[c][i] \in UpMsg
      BY <1>3, ElementOfSeq
    <3> QED
      BY <3>1, UpTyped
  <2> QED
    BY <1>1, <1>2, <1>7, <1>8, <2>1 DEF ClientInv, Fresh
<1>13. Rids(c)'
  BY <1>1, <1>2 DEF ClientInv, Rids
<1>14. OwnNext(c)' <=> OwnNext(c)
  BY <1>2 DEF OwnNext
<1>15. Own(c)'
  <2>1. OwnNext(c) => log[ver[c] + 1].edits \in Seq(Edit)
    <3>1. OwnNext(c) => ver[c] + 1 \in 1 .. Len(log)
      BY <1>3 DEF OwnNext
    <3> QED
      BY <1>3, <3>1, LogEntries
  <2> QED
    BY <1>1, <1>2, <1>8, <1>14, <2>1 DEF ClientInv, Own
<1>16. RowCovers(c, saved) => RowCovers(c, saved)'
  BY <1>2, <1>7 DEF RowCovers
<1>17. Incoming(c)'
  BY <1>1, <1>2, <1>14, <1>16 DEF ClientInv, Incoming, Confirms, IsRefetch
<1>18. Fetching(c)'
  BY <1>1, <1>2, <1>7 DEF ClientInv, Fetching, RowCovers
<1>19. Editing(c)'
  BY <1>1, <1>2, <1>3, <1>6 DEF ClientInv, Editing
<1>20. Current(c)'
  BY <1>1, <1>2 DEF ClientInv, Current, TextAt
<1> QED
  BY <1>11, <1>12, <1>13, <1>15, <1>17, <1>18, <1>19, <1>20 DEF ClientInv

\* Timers change flags that the invariant does not speak of.
LEMMA TimerStep ==
    ASSUME Types, NEW c \in Client, SendTimeout(c) \/ CheckTimeout(c), NEW d \in Client
    PROVE  ClientInv(d) => ClientInv(d)'
<1>2. /\ log' = log /\ saved' = saved /\ joined' = joined /\ said' = said
      /\ link' = link /\ count' = count /\ up' = up /\ down' = down /\ seen' = seen
      /\ ver' = ver /\ text' = text /\ pend' = pend /\ unconf' = unconf /\ rids' = rids
      /\ waiting' = waiting /\ resub' = resub /\ fetch' = fetch /\ typed' = typed
      /\ late' = late
  BY DEF SendTimeout, CheckTimeout, serverVars, wires, copyVars, counters, history
<1>5. saved \in Nat /\ saved <= Len(log) /\ typed \in Nat /\ Len(log) \in Nat
  BY LenProperties DEF Types
<1>6. Apart(d)
  BY <1>2 DEF Apart, Keeps, Reads
<1> QED
  BY <1>2, <1>5, <1>6, StaysApart

LEMMA FetchServeStep ==
    ASSUME Types, NEW c \in Client, ClientInv(c), FetchServe(c)
    PROVE  ClientInv(c)'
<1>1. Types /\ ClientInv(c)
  OBVIOUS
<1>2. /\ fetch[c].open /\ fetch' = [fetch EXCEPT ![c].row = saved]
      /\ log' = log /\ saved' = saved /\ joined' = joined /\ said' = said
      /\ link' = link /\ count' = count /\ up' = up /\ down' = down /\ seen' = seen
      /\ ver' = ver /\ text' = text /\ pend' = pend /\ unconf' = unconf /\ rids' = rids
      /\ await' = await /\ timer' = timer /\ older' = older /\ checking' = checking
      /\ waiting' = waiting /\ resub' = resub /\ typed' = typed /\ late' = late
  BY DEF FetchServe, serverVars, wires, copyVars, counters, history
<1>3. fetch \in [Client -> [from: Nat, row: Nat \cup {-1}, open: BOOLEAN]]
      /\ saved \in Nat /\ typed \in Nat /\ fetch[c] \in [from: Nat, row: Nat \cup {-1}, open: BOOLEAN]
  BY <1>1 DEF Types
<1>4. /\ fetch' \in [Client -> [from: Nat, row: Nat \cup {-1}, open: BOOLEAN]]
      /\ fetch'[c].row = saved /\ fetch'[c].open = fetch[c].open
      /\ fetch'[c].from = fetch[c].from
      /\ Waits(c)' <=> Waits(c)
  BY <1>2, <1>3 DEF Waits
<1>7. Linked(c)' /\ Rids(c)' /\ Editing(c)' /\ Current(c)'
  BY <1>1, <1>2 DEF ClientInv, Linked, Rids, Editing, Current, TextAt
<1>8. Fresh(c)'
  BY <1>1, <1>2, <1>4 DEF ClientInv, Fresh
<1>9. /\ OwnNext(c)' <=> OwnNext(c)
      /\ RowCovers(c, saved)' <=> RowCovers(c, saved)
  BY <1>2 DEF OwnNext, RowCovers
<1>10. Own(c)'
  BY <1>1, <1>2, <1>9 DEF ClientInv, Own
<1>11. Incoming(c)'
  BY <1>1, <1>2, <1>4, <1>9 DEF ClientInv, Incoming, Confirms, IsRefetch
<1>12. Fetching(c)'
  <2>1. Waits(c) => RowCovers(c, saved) /\ fetch[c].from = ver[c]
    BY <1>1, <1>2 DEF ClientInv, Fetching
  <2>2. Waits(c) => RowCovers(c, saved)' /\ RowCovers(c, fetch[c].row)'
    BY <1>2, <1>4, <1>9, <2>1 DEF RowCovers
  <2> QED
    BY <1>2, <1>3, <1>4, <2>1, <2>2 DEF Fetching
<1> QED
  BY <1>7, <1>8, <1>10, <1>11, <1>12 DEF ClientInv

LEMMA SendStep ==
    ASSUME Types, NEW c \in Client, ClientInv(c), Send(c)
    PROVE  ClientInv(c)'
<1> DEFINE k == [DiffMsg(c, rids[c], pend[c]) EXCEPT !.seen = seen'[c]]
           w == [rid |-> rids[c], n |-> Len(pend[c])]
<1>1. Types /\ ClientInv(c)
  OBVIOUS
<1>2. /\ late' = [late EXCEPT ![c] = fetch[c].open] /\ link[c] = "on" /\ pend[c] # <<>> /\ DisableSending(c)
      /\ rids' = [rids EXCEPT ![c] = @ + 1]
      /\ unconf' = [unconf EXCEPT ![c] = @ \cup {w}]
      /\ up' = [up EXCEPT ![c] = Append(@, k)]
      /\ log' = log /\ saved' = saved /\ joined' = joined /\ said' = said
      /\ link' = link /\ count' = count /\ down' = down /\ seen' = seen
      /\ ver' = ver /\ text' = text /\ pend' = pend
      /\ checking' = checking /\ waiting' = waiting /\ resub' = resub /\ fetch' = fetch
      /\ typed' = typed
  BY DEF Send, GoesOn, MaySend, Upload, serverVars, counters
<1>3. /\ up \in [Client -> Seq(UpMsg)] /\ up[c] \in Seq(UpMsg) /\ Len(up[c]) \in Nat
      /\ pend[c] \in Seq(Edit) /\ Len(pend[c]) \in Nat /\ ver[c] \in Nat /\ seen[c] \in Nat
      /\ rids[c] \in Nat /\ rids \in [Client -> Nat] /\ typed \in Nat
      /\ unconf \in [Client -> SUBSET [rid: Nat, n: Nat \ {0}]] /\ log \in Seq(Diff)
      /\ unconf[c] \subseteq [rid: Nat, n: Nat \ {0}]
  BY <1>1, Typed DEF Types
<1>4. Len(pend[c]) \in Nat \ {0}
  BY <1>2, <1>3, EmptySeq
<1>5. w \in [rid: Nat, n: Nat \ {0}] /\ w.rid = rids[c]
  BY <1>3, <1>4
<1>6. k = [type |-> "diff", v |-> ver[c], rid |-> rids[c], edits |-> pend[c], seen |-> seen[c]]
  BY <1>2 DEF DiffMsg
<1>7. /\ k \in UpMsg /\ k.type = "diff" /\ k.v = ver[c] /\ k.rid = rids[c]
      /\ k.edits = pend[c] /\ k.seen = seen[c]
  BY <1>3, <1>6 DEF UpMsg, DiffUp
<1>8. [rid |-> k.rid, n |-> Len(k.edits)] = w
  BY <1>7
<1> HIDE DEF k, w
<1>9. Append(up[c], k) \in Seq(UpMsg)
  BY <1>3, <1>7, AppendProperties
<1>10. /\ up' \in [Client -> Seq(UpMsg)] /\ up'[c] = Append(up[c], k)
       /\ \A d \in Client : d # c => up'[d] = up[d]
  BY <1>2, <1>3, <1>9
<1>11. /\ Len(up'[c]) = Len(up[c]) + 1 /\ up'[c][Len(up[c]) + 1] = k
       /\ \A i \in 1 .. Len(up[c]) : up'[c][i] = up[c][i]
  BY <1>3, <1>7, <1>10, AppendProperties
<1>12. \A i \in 1 .. Len(up'[c]) : \/ i \in 1 .. Len(up[c]) /\ up'[c][i] = up[c][i]
                                   \/ i = Len(up[c]) + 1 /\ up'[c][i] = k
  <2> TAKE i \in 1 .. Len(up'[c])
  <2>1. i \in 1 .. Len(up[c]) \/ i = Len(up[c]) + 1
    BY <1>3, <1>11
  <2> QED
    BY <1>11, <2>1
<1>13. /\ rids' \in [Client -> Nat] /\ rids'[c] = rids[c] + 1
       /\ unconf' \in [Client -> SUBSET [rid: Nat, n: Nat \ {0}]]
       /\ unconf'[c] = unconf[c] \cup {w}
       /\ \A d \in Client : d # c => rids'[d] = rids[d] /\ unconf'[d] = unconf[d]
  BY <1>2, <1>3, <1>5
<1>14. ~Waits(c)'
  BY <1>2 DEF Waits, Types
<1>16. Linked(c)'
  BY <1>1, <1>2 DEF ClientInv, Linked
<1>17. Fresh(c)'
  <2> SUFFICES ASSUME NEW i \in 1 .. Len(up'[c])
               PROVE  /\ up'[c][i].seen <= seen'[c]
                      /\ up'[c][i].seen = seen'[c] =>
                            /\ up'[c][i].v = ver'[c]
                            /\ ~Waits(c)'
                            /\ up'[c][i].type = "diff" =>
                                  /\ IsPrefix(up'[c][i].edits, pend'[c])
                                  /\ [rid |-> up'[c][i].rid, n |-> Len(up'[c][i].edits)]
                                        \in unconf'[c]
                            /\ up'[c][i].type = "check_version" =>
                                  (up'[c][i].offline => pend'[c] # <<>>)
    BY DEF Fresh
  <2>1. CASE i \in 1 .. Len(up[c]) /\ up'[c][i] = up[c][i]
    BY <1>1, <1>2, <1>13, <1>14, <2>1 DEF ClientInv, Fresh
  <2>2. CASE up'[c][i] = k
    <3>1. IsPrefix(pend[c], pend[c])
      BY <1>3, PrefixElements
    <3>2. seen'[c] = seen[c] /\ seen[c] <= seen[c]
      BY <1>2, <1>3
    <3> QED
      BY <1>2, <1>7, <1>8, <1>13, <1>14, <2>2, <3>1, <3>2
  <2> QED
    BY <1>12, <2>1, <2>2
<1>18. Rids(c)'
  <2>1. /\ \A u \in unconf[c] : /\ u.rid \in Nat /\ u.rid < rids[c]
                                /\ \A x \in unconf[c] : x.rid = u.rid => x = u
        /\ \A j \in 1 .. Len(log) : log[j].rid \in Nat /\ (log[j].cid = c => log[j].rid < rids[c])
        /\ \A i \in 1 .. Len(down[c]) : down[c][i].type = "reject_diff" =>
              \A j \in 1 .. Len(log) : log[j].cid = c => log[j].rid # down[c][i].rid
    BY <1>1, <1>3, LogEntries DEF ClientInv, Rids
  <2>2. \A i \in 1 .. Len(up[c]) : up[c][i].type = "diff" =>
          /\ up[c][i].rid \in Nat /\ up[c][i].rid < rids[c]
          /\ \A j \in 1 .. i - 1 : up[c][j].type = "diff" => up[c][j].rid # up[c][i].rid
          /\ \A j \in 1 .. Len(log) : log[j].cid = c => log[j].rid # up[c][i].rid
    <3> TAKE i \in 1 .. Len(up[c])
    <3>1. up[c][i] \in UpMsg
      BY <1>3, ElementOfSeq
    <3> QED
      BY <1>1, <3>1, UpTyped DEF ClientInv, Rids
  <2>3. \A x \in Nat : x < rids[c] => x < rids[c] + 1 /\ x # rids[c]
    BY <1>3
  <2>4. rids[c] < rids[c] + 1
    BY <1>3
  <2>5. \A u \in unconf'[c] : u.rid < rids'[c] /\ \A x \in unconf'[c] : x.rid = u.rid => x = u
    BY <1>5, <1>13, <2>1, <2>3, <2>4
  <2>6. \A j \in 1 .. Len(log') : log'[j].cid = c => log'[j].rid < rids'[c]
    BY <1>2, <1>13, <2>1, <2>3
  <2>7. ASSUME NEW i \in 1 .. Len(up'[c]), up'[c][i].type = "diff"
        PROVE  /\ up'[c][i].rid < rids'[c]
               /\ \A j \in 1 .. i - 1 : up'[c][j].type = "diff" => up'[c][j].rid # up'[c][i].rid
               /\ \A j \in 1 .. Len(log') : log'[j].cid = c => log'[j].rid # up'[c][i].rid
    <3>1. CASE i \in 1 .. Len(up[c]) /\ up'[c][i] = up[c][i]
      <4>1. \A j \in 1 .. i - 1 : j \in 1 .. Len(up[c]) /\ up'[c][j] = up[c][j]
        BY <1>3, <1>11, <3>1
      <4> QED
        BY <1>2, <1>13, <2>2, <2>3, <2>7, <3>1, <4>1
    <3>2. CASE i = Len(up[c]) + 1 /\ up'[c][i] = k
      <4>1. \A j \in 1 .. i - 1 : j \in 1 .. Len(up[c]) /\ up'[c][j] = up[c][j]
        BY <1>3, <1>11, <3>2
      <4>2. \A j \in 1 .. i - 1 : up'[c][j].type = "diff" => up'[c][j].rid # rids[c]
        BY <2>2, <2>3, <4>1
      <4>3. \A j \in 1 .. Len(log) : log[j].cid = c => log[j].rid # rids[c]
        BY <2>1, <2>3
      <4> QED
        BY <1>2, <1>7, <1>13, <2>4, <3>2, <4>2, <4>3
    <3> QED
      BY <1>12, <3>1, <3>2
  <2> QED
    BY <1>2, <2>1, <2>5, <2>6, <2>7 DEF Rids
<1>19. OwnNext(c)' <=> OwnNext(c)
  BY <1>2 DEF OwnNext
<1>20. RowCovers(c, saved) <=> RowCovers(c, saved)'
  BY <1>2 DEF RowCovers
<1>21. Own(c)'
  BY <1>1, <1>2, <1>13, <1>19 DEF ClientInv, Own
<1>22. Incoming(c)'
  BY <1>1, <1>2, <1>14, <1>19, <1>20 DEF ClientInv, Incoming, Confirms, IsRefetch
<1>23. Fetching(c)' /\ Editing(c)' /\ Current(c)'
  BY <1>1, <1>2, <1>14 DEF ClientInv, Fetching, Editing, Current, TextAt
<1> QED
  BY <1>16, <1>17, <1>18, <1>21, <1>22, <1>23 DEF ClientInv

LEMMA ConnectStep ==
    ASSUME Types, NEW c \in Client, ClientInv(c), Connect(c)
    PROVE  ClientInv(c)'
<1>1. Types /\ ClientInv(c)
  OBVIOUS
<1>2. /\ late' = [late EXCEPT ![c] = fetch[c].open] /\ link[c] = "off"
      /\ link' = [link EXCEPT ![c] = "on"] /\ count' = [count EXCEPT ![c] = Min({2, @ + 1})]
      /\ seen' = [seen EXCEPT ![c] = 0] /\ said' = [said EXCEPT ![c] = 0]
      /\ up' = [up EXCEPT ![c] = <<Subscribe(c)>>]
      /\ log' = log /\ saved' = saved /\ joined' = joined /\ down' = down
      /\ ver' = ver /\ text' = text /\ pend' = pend /\ unconf' = unconf /\ rids' = rids
      /\ await' = await /\ timer' = timer /\ older' = older /\ checking' = checking
      /\ waiting' = waiting /\ resub' = resub /\ fetch' = fetch /\ typed' = typed
  BY DEF Connect, GoesOn, copyVars, flags, counters
<1>3. /\ count[c] \in 0 .. 2 /\ ver[c] \in Nat /\ typed \in Nat
  BY <1>1, Typed
<1>4. Min({2, count[c] + 1}) \in 0 .. 2
  <2>1. Min({2, count[c] + 1}) = IF 2 <= count[c] + 1 THEN 2 ELSE count[c] + 1
    BY <1>3, MinOf
  <2> QED
    BY <1>3, <2>1
<1> DEFINE k == Subscribe(c)
<1>5. /\ k \in UpMsg /\ k.type = "subscribe" /\ k.v = ver[c] /\ k.seen = 0
  BY <1>3 DEF Subscribe, UpMsg, SubscribeUp
<1> HIDE DEF k
<1>6. <<k>> \in Seq(UpMsg) /\ Len(<<k>>) = 1 /\ <<k>>[1] = k
  BY <1>5
<1>7. /\ link' \in [Client -> {"on", "off"}] /\ count' \in [Client -> 0 .. 2]
      /\ seen' \in [Client -> Nat] /\ said' \in [Client -> Nat]
      /\ up' \in [Client -> Seq(UpMsg)]
      /\ link'[c] = "on" /\ seen'[c] = 0 /\ said'[c] = 0 /\ up'[c] = <<k>>
      /\ \A d \in Client : d # c => /\ link'[d] = link[d] /\ seen'[d] = seen[d]
                                    /\ said'[d] = said[d] /\ up'[d] = up[d]
  BY <1>1, <1>2, <1>4, <1>6 DEF Types, k
<1>8. ~Waits(c)'
  BY <1>2 DEF Waits, Types
<1>10. down[c] = <<>> /\ Len(down[c]) = 0
  BY <1>1, <1>2, EmptySeq DEF ClientInv, Linked
<1>11. Linked(c)'
  <2>1. seen'[c] + Len(down'[c]) = said'[c]
    BY <1>2, <1>7, <1>10
  <2> QED
    BY <1>7, <2>1 DEF Linked
<1>12. \A i \in 1 .. Len(up'[c]) : up'[c][i] = k
  BY <1>6, <1>7
<1>13. Fresh(c)'
  BY <1>2, <1>5, <1>7, <1>8, <1>12 DEF Fresh
<1>14. Rids(c)'
  BY <1>1, <1>2, <1>5, <1>12 DEF ClientInv, Rids
<1>15. OwnNext(c)' <=> OwnNext(c)
  BY <1>2 DEF OwnNext
<1>16. Own(c)'
  BY <1>1, <1>2, <1>15 DEF ClientInv, Own
<1>17. Incoming(c)'
  BY <1>2, <1>10 DEF Incoming
<1>18. Fetching(c)' /\ Editing(c)' /\ Current(c)'
  <2>1. Fetching(c)'
    BY <1>1, <1>2, <1>8 DEF ClientInv, Fetching
  <2>2. Editing(c)'
    BY <1>1, <1>2 DEF ClientInv, Editing
  <2>3. Current(c)'
    BY <1>1, <1>2 DEF ClientInv, Current, TextAt
  <2> QED
    BY <2>1, <2>2, <2>3
<1> QED
  BY <1>11, <1>13, <1>14, <1>16, <1>17, <1>18 DEF ClientInv

LEMMA DropStep ==
    ASSUME Types, NEW c \in Client, ClientInv(c), Drop(c)
    PROVE  ClientInv(c)'
<1>1. Types /\ ClientInv(c)
  OBVIOUS
<1>2. /\ link[c] = "on" /\ link' = [link EXCEPT ![c] = "off"]
      /\ up' = [up EXCEPT ![c] = <<>>] /\ down' = [down EXCEPT ![c] = <<>>]
      /\ joined' = joined \ {c}
      /\ log' = log /\ saved' = saved /\ said' = said /\ count' = count /\ seen' = seen
      /\ ver' = ver /\ text' = text /\ pend' = pend /\ unconf' = unconf /\ rids' = rids
      /\ await' = await /\ timer' = timer /\ older' = older /\ checking' = checking
      /\ waiting' = waiting /\ resub' = resub /\ fetch' = fetch /\ typed' = typed
      /\ late' = late
  BY DEF Drop, copyVars, flags
<1>3. <<>> \in Seq(UpMsg) /\ <<>> \in Seq(DownMsg) /\ Len(<<>>) = 0
  BY EmptySeq
<1>4. /\ link' \in [Client -> {"on", "off"}]
      /\ up' \in [Client -> Seq(UpMsg)] /\ down' \in [Client -> Seq(DownMsg)]
      /\ link'[c] = "off" /\ up'[c] = <<>> /\ down'[c] = <<>>
      /\ \A d \in Client : d # c => /\ link'[d] = link[d] /\ up'[d] = up[d]
                                    /\ down'[d] = down[d]
      /\ joined' \in SUBSET Client /\ joined' \subseteq joined /\ c \notin joined'
  BY <1>1, <1>2, <1>3 DEF Types
<1>7. Linked(c)'
  <2>1. seen[c] + Len(down[c]) = said[c]
    BY <1>1, <1>2 DEF ClientInv, Linked
  <2>2. seen[c] \in Nat /\ said[c] \in Nat /\ Len(down[c]) \in Nat
    BY <1>1, Typed
  <2>3. seen'[c] <= said'[c]
    BY <1>2, <2>1, <2>2
  <2> QED
    BY <1>4, <2>3 DEF Linked
<1>8. Fresh(c)' /\ Incoming(c)'
  BY <1>3, <1>4 DEF Fresh, Incoming
<1>9. Rids(c)'
  BY <1>1, <1>2, <1>3, <1>4 DEF ClientInv, Rids
<1>10. OwnNext(c)' <=> OwnNext(c)
  BY <1>2 DEF OwnNext
<1>11. Own(c)'
  BY <1>1, <1>2, <1>10 DEF ClientInv, Own
<1>12. Fetching(c)' /\ Editing(c)' /\ Current(c)'
  <2>1. Fetching(c)'
    BY <1>1, <1>2 DEF ClientInv, Fetching, RowCovers, Waits
  <2>2. Editing(c)'
    BY <1>1, <1>2 DEF ClientInv, Editing
  <2>3. Current(c)'
    BY <1>1, <1>2 DEF ClientInv, Current, TextAt
  <2> QED
    BY <2>1, <2>2, <2>3
<1> QED
  BY <1>7, <1>8, <1>9, <1>11, <1>12 DEF ClientInv

-----------------------------------------------------------------------------
(* The answer to a refetch is used.                                        *)

\* The row takes the place of the copy and what is pending stays.  The diffs
\* that come along are never needed: when nothing is pending, the history did
\* not reach back to the version of the copy.
LEMMA FetchLoads ==
    ASSUME Types, NEW c \in Client, ClientInv(c), FetchReceive(c), ~late[c]
    PROVE  /\ fetch[c].open /\ fetch[c].row \in Nat /\ fetch[c].row <= saved
           /\ ver[c] < fetch[c].row
           /\ \A k \in fetch[c].row + 1 .. Len(log) : log[k].cid # c
           /\ ver' = [ver EXCEPT ![c] = fetch[c].row]
           /\ text' = [text EXCEPT ![c] = TextAt(fetch[c].row)]
           /\ pend' = pend
           /\ \/ unconf' = unconf /\ waiting' = waiting
              \/ /\ unconf' = [unconf EXCEPT ![c] = {}]
                 /\ waiting' = [waiting EXCEPT ![c] = FALSE]
           /\ rids' = rids /\ (KeepSending \/ EnableSending(c))
<1> DEFINE f == fetch[c]
<1>1. /\ f \in [from: Nat, row: Nat \cup {-1}, open: BOOLEAN]
      /\ ver[c] \in Nat /\ History \in Nat \ {0} /\ pend[c] \in Seq(Edit)
      /\ pend \in [Client -> Seq(Edit)]
  BY Typed DEF Types
<1>2. f.open /\ f.row # -1 /\ (FetchMerge(c, f) \/ FetchDiffs(c, f) \/ FetchReset(c, f))
  BY DEF FetchReceive
<1>3. f.from = ver[c] /\ f.row <= saved /\ RowCovers(c, f.row)
  BY <1>2 DEF ClientInv, Fetching, Waits
<1>4. f.row \in Nat
  BY <1>1, <1>2
<1> HIDE DEF f
<1>5. /\ ver[c] < f.row /\ \A k \in f.row + 1 .. Len(log) : log[k].cid # c
      /\ pend[c] # <<>> \/ ver[c] + History < f.row
  BY <1>3 DEF RowCovers
<1>6. CASE FetchMerge(c, f)
  <2>1. /\ ver' = [ver EXCEPT ![c] = f.row] /\ text' = [text EXCEPT ![c] = TextAt(f.row)]
        /\ pend' = [pend EXCEPT ![c] = pend[c]]
        /\ unconf' = unconf /\ rids' = rids /\ waiting' = waiting /\ KeepSending
    BY <1>6 DEF FetchMerge, SetCopy, Merged
  <2> QED
    BY <1>1, <1>2, <1>3, <1>4, <1>5, <2>1 DEF f
<1>7. CASE ~FetchMerge(c, f)
  <2>1. ~(ver[c] < f.row /\ pend[c] # <<>>)
    BY <1>2, <1>7 DEF FetchDiffs, FetchReset
  <2>2. pend[c] = <<>> /\ ver[c] + History < f.row
    BY <1>5, <2>1
  <2>3. ~Covering(f)
    <3>1. Min({f.row, History}) = IF f.row <= History THEN f.row ELSE History
      BY <1>1, <1>4, MinOf
    <3> QED
      BY <1>1, <1>3, <1>4, <2>2, <3>1 DEF Covering
  <2>4. FetchReset(c, f)
    BY <1>2, <1>7, <2>3 DEF FetchDiffs
  <2>5. /\ ver' = [ver EXCEPT ![c] = f.row] /\ text' = [text EXCEPT ![c] = TextAt(f.row)]
        /\ pend' = [pend EXCEPT ![c] = <<>>]
        /\ unconf' = [unconf EXCEPT ![c] = {}] /\ waiting' = [waiting EXCEPT ![c] = FALSE]
        /\ rids' = rids /\ (KeepSending \/ EnableSending(c))
    BY <2>4 DEF FetchReset, SetCopy, Loaded
  <2>6. pend' = pend
    BY <1>1, <2>2, <2>5
  <2> QED
    BY <1>2, <1>3, <1>4, <1>5, <2>5, <2>6 DEF f
<1> QED
  BY <1>6, <1>7

LEMMA FetchReceiveStep ==
    ASSUME Types, NEW c \in Client, ClientInv(c), FetchReceive(c), ~late[c]
    PROVE  ClientInv(c)'
<1>1. Types /\ ClientInv(c)
  OBVIOUS
<1> DEFINE r == fetch[c].row
<1>2. /\ fetch[c].open /\ r \in Nat /\ r <= saved /\ ver[c] < r
      /\ \A k \in r + 1 .. Len(log) : log[k].cid # c
      /\ ver' = [ver EXCEPT ![c] = r] /\ text' = [text EXCEPT ![c] = TextAt(r)]
      /\ pend' = pend
      /\ \/ unconf' = unconf /\ waiting' = waiting
         \/ /\ unconf' = [unconf EXCEPT ![c] = {}]
            /\ waiting' = [waiting EXCEPT ![c] = FALSE]
      /\ rids' = rids /\ (KeepSending \/ EnableSending(c))
  BY <1>1, FetchLoads
<1>3. /\ fetch' = [fetch EXCEPT ![c] = NoFetch] /\ checking' = [checking EXCEPT ![c] = FALSE]
      /\ log' = log /\ saved' = saved /\ joined' = joined /\ said' = said
      /\ link' = link /\ count' = count /\ up' = up /\ down' = down /\ seen' = seen
      /\ resub' = resub /\ typed' = typed
  BY DEF FetchReceive, serverVars, wires, counters
<1> HIDE DEF r
<1>4. /\ log \in Seq(Diff) /\ Len(log) \in Nat /\ saved \in Nat /\ saved <= Len(log)
      /\ ver \in [Client -> Nat] /\ text \in [Client -> Seq(Edit)]
      /\ unconf \in [Client -> SUBSET [rid: Nat, n: Nat \ {0}]]
      /\ waiting \in [Client -> BOOLEAN] /\ checking \in [Client -> BOOLEAN]
      /\ fetch \in [Client -> [from: Nat, row: Nat \cup {-1}, open: BOOLEAN]]
      /\ typed \in Nat
  BY <1>1, Typed DEF Types
<1>5. r <= Len(log) /\ TextAt(r) \in Seq(Edit)
  <2>1. r <= Len(log)
    BY <1>2, <1>4
  <2> QED
    BY <1>2, <1>4, <2>1, TextType
<1>6. /\ ver' \in [Client -> Nat] /\ text' \in [Client -> Seq(Edit)]
      /\ ver'[c] = r /\ text'[c] = TextAt(r)
      /\ \A d \in Client : d # c => ver'[d] = ver[d] /\ text'[d] = text[d]
  BY <1>2, <1>4, <1>5
<1>7. NoFetch \in [from: Nat, row: Nat \cup {-1}, open: BOOLEAN]
      /\ NoFetch.row = -1 /\ ~NoFetch.open
  BY DEF NoFetch
<1>8. /\ fetch' \in [Client -> [from: Nat, row: Nat \cup {-1}, open: BOOLEAN]]
      /\ fetch'[c] = NoFetch /\ checking' \in [Client -> BOOLEAN]
      /\ \A d \in Client : d # c => fetch'[d] = fetch[d]
  BY <1>3, <1>4, <1>7
<1>9. /\ unconf' \in [Client -> SUBSET [rid: Nat, n: Nat \ {0}]]
      /\ waiting' \in [Client -> BOOLEAN] /\ unconf'[c] \subseteq unconf[c]
      /\ waiting'[c] => waiting[c]
      /\ \A d \in Client : d # c => unconf'[d] = unconf[d] /\ waiting'[d] = waiting[d]
  BY <1>2, <1>4
<1>10. Waits(c) /\ ~Waits(c)'
  BY <1>2, <1>7, <1>8 DEF Waits
<1>13. Linked(c)'
  BY <1>1, <1>3 DEF ClientInv, Linked
<1>14. Fresh(c)'
  BY <1>1, <1>2, <1>3, <1>10 DEF ClientInv, Fresh
<1>15. Rids(c)'
  BY <1>1, <1>2, <1>3, <1>9 DEF ClientInv, Rids
<1>16. Own(c)'
  <2>1. \A k \in r + 2 .. Len(log) : log[k].cid # c
    BY <1>2, <1>4
  <2>2. ~(r < Len(log) /\ log[r + 1].cid = c)
    BY <1>2, <1>4
  <2>3. ~OwnNext(c)'
    BY <1>3, <1>6, <2>2 DEF OwnNext
  <2> QED
    BY <1>3, <1>6, <2>1, <2>3 DEF Own
<1>17. Incoming(c)'
  <2> SUFFICES ASSUME NEW i \in 1 .. Len(down[c])
               PROVE  /\ ~Confirms(c, down[c][i]) /\ ~IsRefetch(down[c][i])
                      /\ down[c][i].type = "diff" =>
                            /\ down[c][i].v < Len(log)
                            /\ log[down[c][i].v + 1] =
                                 [cid |-> down[c][i].cid, rid |-> down[c][i].rid,
                                  edits |-> down[c][i].edits]
    BY <1>3 DEF Incoming, Confirms, IsRefetch
  <2> QED
    BY <1>1, <1>2, <1>10 DEF ClientInv, Incoming
<1>18. Fetching(c)'
  BY <1>3, <1>4, <1>7, <1>8, <1>10 DEF Fetching
<1>19. Editing(c)'
  BY <1>1, <1>2, <1>3, <1>9 DEF ClientInv, Editing
<1>20. Current(c)'
  <2>1. PICK q \in Nat : q = r
    BY <1>2
  <2>2. TextAt(q)' = TextAt(q)
    BY <1>3 DEF TextAt
  <2>3. ver'[c] = q /\ text'[c] = TextAt(q)' /\ q <= Len(log')
    BY <1>3, <1>5, <1>6, <2>1, <2>2
  <2> QED
    BY <2>3 DEF Current
<1> QED
  BY <1>13, <1>14, <1>15, <1>16, <1>17, <1>18, <1>19, <1>20 DEF ClientInv

-----------------------------------------------------------------------------
(* What every step of c leaves right, even if c strayed: the types, the    *)
(* numbers on its connection, and everything of the others.                *)

StaysPlain(c) == Types' /\ Plainly(c)' /\ Local(c)

LEMMA TypePlain ==
    ASSUME Types, NEW c \in Client, Plainly(c), Type(c)
    PROVE  StaysPlain(c)
<1>1. /\ ~waiting[c] /\ typed < MaxEdits /\ typed' = typed + 1
      /\ pend' = [pend EXCEPT ![c] = Append(@, typed + 1)]
      /\ log' = log /\ saved' = saved /\ joined' = joined /\ said' = said
      /\ link' = link /\ count' = count /\ up' = up /\ down' = down /\ seen' = seen
      /\ ver' = ver /\ text' = text /\ unconf' = unconf /\ rids' = rids
      /\ await' = await /\ timer' = timer /\ older' = older /\ checking' = checking
      /\ waiting' = waiting /\ resub' = resub /\ fetch' = fetch /\ late' = late
  BY DEF Type, MayType, serverVars, wires, flags, history
<1>2. /\ typed \in Nat /\ pend \in [Client -> Seq(Edit)] /\ pend[c] \in Seq(Edit)
      /\ Len(pend[c]) \in Nat /\ MaxEdits \in Nat
  BY Typed, NumberAssumption DEF Types
<1>3. typed + 1 \in Edit /\ typed' \in Nat /\ typed <= typed'
  BY <1>1, <1>2 DEF Edit
<1>4. /\ Append(pend[c], typed + 1) \in Seq(Edit)
      /\ Len(Append(pend[c], typed + 1)) = Len(pend[c]) + 1
  BY <1>2, <1>3, AppendProperties
<1>5. /\ pend' \in [Client -> Seq(Edit)] /\ Len(pend'[c]) = Len(pend[c]) + 1
      /\ \A d \in Client : d # c => pend'[d] = pend[d]
  BY <1>1, <1>2, <1>4
<1>6. Types'
  BY <1>1, <1>3, <1>5 DEF Types
<1>7. Linked(c)' /\ fetch'[c].row <= saved'
  BY <1>1 DEF Plainly, Linked
<1>8. Editing(c)'
  BY <1>1, <1>2, <1>5 DEF Plainly, Editing
<1>9. Local(c)
  BY <1>1, <1>3, <1>5 DEF Local, OnlyOf, Keeps
<1> QED
  BY <1>6, <1>7, <1>8, <1>9 DEF StaysPlain, Plainly

LEMMA TimerPlain ==
    ASSUME Types, NEW c \in Client, Plainly(c), SendTimeout(c) \/ CheckTimeout(c)
    PROVE  StaysPlain(c)
<1>1. /\ log' = log /\ saved' = saved /\ joined' = joined /\ said' = said
      /\ link' = link /\ count' = count /\ up' = up /\ down' = down /\ seen' = seen
      /\ ver' = ver /\ text' = text /\ pend' = pend /\ unconf' = unconf /\ rids' = rids
      /\ waiting' = waiting /\ resub' = resub /\ fetch' = fetch /\ typed' = typed
      /\ late' = late
  BY DEF SendTimeout, CheckTimeout, serverVars, wires, copyVars, counters, history
<1>2. /\ await' \in [Client -> BOOLEAN] /\ timer' \in [Client -> BOOLEAN]
      /\ older' \in [Client -> BOOLEAN] /\ checking' \in [Client -> BOOLEAN]
  BY DEF SendTimeout, CheckTimeout, Types
<1>3. Types'
  BY <1>1, <1>2 DEF Types
<1>4. Plainly(c)'
  BY <1>1 DEF Plainly, Linked, Editing
<1>5. typed \in Nat
  BY DEF Types
<1>6. Local(c)
  BY <1>1, <1>5 DEF Local, OnlyOf, Keeps
<1> QED
  BY <1>3, <1>4, <1>6 DEF StaysPlain

LEMMA FetchServePlain ==
    ASSUME Types, NEW c \in Client, Plainly(c), FetchServe(c)
    PROVE  StaysPlain(c)
<1>1. /\ fetch' = [fetch EXCEPT ![c].row = saved]
      /\ log' = log /\ saved' = saved /\ joined' = joined /\ said' = said
      /\ link' = link /\ count' = count /\ up' = up /\ down' = down /\ seen' = seen
      /\ ver' = ver /\ text' = text /\ pend' = pend /\ unconf' = unconf /\ rids' = rids
      /\ await' = await /\ timer' = timer /\ older' = older /\ checking' = checking
      /\ waiting' = waiting /\ resub' = resub /\ typed' = typed /\ late' = late
  BY DEF FetchServe, serverVars, wires, copyVars, counters, history
<1>2. /\ fetch \in [Client -> [from: Nat, row: Nat \cup {-1}, open: BOOLEAN]]
      /\ saved \in Nat /\ typed \in Nat
  BY DEF Types
<1>3. /\ fetch' \in [Client -> [from: Nat, row: Nat \cup {-1}, open: BOOLEAN]]
      /\ fetch'[c].row = saved /\ \A d \in Client : d # c => fetch'[d] = fetch[d]
  BY <1>1, <1>2
<1>4. Types'
  BY <1>1, <1>3 DEF Types
<1>5. Plainly(c)'
  BY <1>1, <1>2, <1>3 DEF Plainly, Linked, Editing
<1>6. Local(c)
  BY <1>1, <1>2, <1>3 DEF Local, OnlyOf, Keeps
<1> QED
  BY <1>4, <1>5, <1>6 DEF StaysPlain

LEMMA SendPlain ==
    ASSUME Types, NEW c \in Client, Plainly(c), Send(c)
    PROVE  StaysPlain(c)
<1> DEFINE k == [DiffMsg(c, rids[c], pend[c]) EXCEPT !.seen = seen'[c]]
           w == [rid |-> rids[c], n |-> Len(pend[c])]
<1>1. /\ link[c] = "on" /\ pend[c] # <<>> /\ DisableSending(c)
      /\ rids' = [rids EXCEPT ![c] = @ + 1]
      /\ unconf' = [unconf EXCEPT ![c] = @ \cup {w}]
      /\ up' = [up EXCEPT ![c] = Append(@, k)]
      /\ log' = log /\ saved' = saved /\ joined' = joined /\ said' = said
      /\ link' = link /\ count' = count /\ down' = down /\ seen' = seen
      /\ ver' = ver /\ text' = text /\ pend' = pend
      /\ checking' = checking /\ waiting' = waiting /\ resub' = resub /\ fetch' = fetch
      /\ typed' = typed /\ late' = [late EXCEPT ![c] = fetch[c].open]
  BY DEF Send, GoesOn, MaySend, Upload, serverVars, counters
<1>2. /\ up \in [Client -> Seq(UpMsg)] /\ up[c] \in Seq(UpMsg)
      /\ pend[c] \in Seq(Edit) /\ Len(pend[c]) \in Nat /\ ver[c] \in Nat /\ seen[c] \in Nat
      /\ rids[c] \in Nat /\ rids \in [Client -> Nat] /\ typed \in Nat
      /\ unconf \in [Client -> SUBSET [rid: Nat, n: Nat \ {0}]]
      /\ late \in [Client -> BOOLEAN] /\ fetch[c].open \in BOOLEAN
  BY Typed DEF Types
<1>3. w \in [rid: Nat, n: Nat \ {0}]
  BY <1>1, <1>2, EmptySeq
<1>4. k \in UpMsg
  <2>1. k = [type |-> "diff", v |-> ver[c], rid |-> rids[c], edits |-> pend[c], seen |-> seen[c]]
    BY <1>1 DEF DiffMsg
  <2> QED
    BY <1>2, <2>1 DEF UpMsg, DiffUp
<1> HIDE DEF k, w
<1>5. Append(up[c], k) \in Seq(UpMsg)
  BY <1>2, <1>4, AppendProperties
<1>6. /\ up' \in [Client -> Seq(UpMsg)] /\ rids' \in [Client -> Nat]
      /\ late' \in [Client -> BOOLEAN]
      /\ unconf' \in [Client -> SUBSET [rid: Nat, n: Nat \ {0}]]
      /\ \A d \in Client : d # c => /\ up'[d] = up[d] /\ rids'[d] = rids[d]
                                    /\ unconf'[d] = unconf[d] /\ late'[d] = late[d]
  BY <1>1, <1>2, <1>3, <1>5
<1>7. Types'
  BY <1>1, <1>6, SendingTypes DEF Types
<1>8. Plainly(c)'
  BY <1>1 DEF Plainly, Linked, Editing
<1>9. Local(c)
  BY <1>1, <1>2, <1>6 DEF Local, OnlyOf, Keeps
<1> QED
  BY <1>7, <1>8, <1>9 DEF StaysPlain

LEMMA ConnectPlain ==
    ASSUME Types, NEW c \in Client, Plainly(c), Connect(c)
    PROVE  StaysPlain(c)
<1> DEFINE k == Subscribe(c)
<1>1. /\ link[c] = "off"
      /\ link' = [link EXCEPT ![c] = "on"] /\ count' = [count EXCEPT ![c] = Min({2, @ + 1})]
      /\ seen' = [seen EXCEPT ![c] = 0] /\ said' = [said EXCEPT ![c] = 0]
      /\ up' = [up EXCEPT ![c] = <<k>>]
      /\ log' = log /\ saved' = saved /\ joined' = joined /\ down' = down
      /\ ver' = ver /\ text' = text /\ pend' = pend /\ unconf' = unconf /\ rids' = rids
      /\ await' = await /\ timer' = timer /\ older' = older /\ checking' = checking
      /\ waiting' = waiting /\ resub' = resub /\ fetch' = fetch /\ typed' = typed
      /\ late' = [late EXCEPT ![c] = fetch[c].open]
  BY DEF Connect, GoesOn, copyVars, flags, counters
<1>2. /\ count[c] \in 0 .. 2 /\ ver[c] \in Nat /\ typed \in Nat
      /\ late \in [Client -> BOOLEAN] /\ fetch[c].open \in BOOLEAN
  BY Typed DEF Types
<1>3. Min({2, count[c] + 1}) \in 0 .. 2
  <2>1. Min({2, count[c] + 1}) = IF 2 <= count[c] + 1 THEN 2 ELSE count[c] + 1
    BY <1>2, MinOf
  <2> QED
    BY <1>2, <2>1
<1>4. k \in UpMsg
  BY <1>2 DEF Subscribe, UpMsg, SubscribeUp
<1> HIDE DEF k
<1>5. /\ link' \in [Client -> {"on", "off"}] /\ count' \in [Client -> 0 .. 2]
      /\ seen' \in [Client -> Nat] /\ said' \in [Client -> Nat]
      /\ up' \in [Client -> Seq(UpMsg)] /\ late' \in [Client -> BOOLEAN]
      /\ link'[c] = "on" /\ seen'[c] = 0 /\ said'[c] = 0
      /\ \A d \in Client : d # c => /\ link'[d] = link[d] /\ seen'[d] = seen[d]
                                    /\ said'[d] = said[d] /\ up'[d] = up[d]
                                    /\ late'[d] = late[d]
  BY <1>1, <1>2, <1>3, <1>4 DEF Types
<1>6. Types'
  BY <1>1, <1>5 DEF Types
<1>7. down'[c] = <<>> /\ Len(down'[c]) = 0
  BY <1>1, EmptySeq DEF Plainly, Linked
<1>8. Linked(c)'
  BY <1>5, <1>7 DEF Linked
<1>9. Plainly(c)'
  BY <1>1, <1>8 DEF Plainly, Editing
<1>10. Local(c)
  BY <1>1, <1>2, <1>5 DEF Local, OnlyOf, Keeps
<1> QED
  BY <1>6, <1>9, <1>10 DEF StaysPlain

LEMMA DropPlain ==
    ASSUME Types, NEW c \in Client, Plainly(c), Drop(c)
    PROVE  StaysPlain(c)
<1>1. /\ link[c] = "on" /\ link' = [link EXCEPT ![c] = "off"]
      /\ up' = [up EXCEPT ![c] = <<>>] /\ down' = [down EXCEPT ![c] = <<>>]
      /\ joined' = joined \ {c}
      /\ log' = log /\ saved' = saved /\ said' = said /\ count' = count /\ seen' = seen
      /\ ver' = ver /\ text' = text /\ pend' = pend /\ unconf' = unconf /\ rids' = rids
      /\ await' = await /\ timer' = timer /\ older' = older /\ checking' = checking
      /\ waiting' = waiting /\ resub' = resub /\ fetch' = fetch /\ typed' = typed
      /\ late' = late
  BY DEF Drop, copyVars, flags
<1>2. <<>> \in Seq(UpMsg) /\ <<>> \in Seq(DownMsg)
  BY EmptySeq
<1>3. /\ link' \in [Client -> {"on", "off"}]
      /\ up' \in [Client -> Seq(UpMsg)] /\ down' \in [Client -> Seq(DownMsg)]
      /\ link'[c] = "off" /\ up'[c] = <<>> /\ down'[c] = <<>>
      /\ \A d \in Client : d # c => /\ link'[d] = link[d] /\ up'[d] = up[d]
                                    /\ down'[d] = down[d]
      /\ joined' \in SUBSET Client /\ joined' \subseteq joined /\ c \notin joined'
  BY <1>1, <1>2 DEF Types
<1>4. Types'
  BY <1>1, <1>3 DEF Types
<1>5. seen[c] \in Nat /\ said[c] \in Nat /\ Len(down[c]) \in Nat /\ typed \in Nat
  BY Typed
<1>6. Linked(c)'
  <2>1. seen[c] + Len(down[c]) = said[c]
    BY <1>1 DEF Plainly, Linked
  <2>2. seen'[c] <= said'[c]
    BY <1>1, <1>5, <2>1
  <2> QED
    BY <1>3, <2>2 DEF Linked
<1>7. Plainly(c)'
  BY <1>1, <1>6 DEF Plainly, Editing
<1>8. Local(c)
  BY <1>1, <1>3, <1>5 DEF Local, OnlyOf, Keeps
<1> QED
  BY <1>4, <1>7, <1>8 DEF StaysPlain

\* A copy: what Applied() and the like are about.
CopyType == [ver: Nat, text: Seq(Edit), pend: Seq(Edit)]

\* The copy st takes the place of the one of c.
LEMMA SetPlain ==
    ASSUME Types, NEW c \in Client, NEW st \in CopyType, SetCopy(c, st)
    PROVE  /\ ver' \in [Client -> Nat] /\ text' \in [Client -> Seq(Edit)]
           /\ pend' \in [Client -> Seq(Edit)] /\ pend'[c] = st.pend
           /\ \A d \in Client : d # c => /\ ver'[d] = ver[d] /\ text'[d] = text[d]
                                         /\ pend'[d] = pend[d]
<1>1. /\ ver \in [Client -> Nat] /\ text \in [Client -> Seq(Edit)]
      /\ pend \in [Client -> Seq(Edit)]
      /\ st.ver \in Nat /\ st.text \in Seq(Edit) /\ st.pend \in Seq(Edit)
  BY DEF Types, CopyType
<1>2. /\ ver' = [ver EXCEPT ![c] = st.ver] /\ text' = [text EXCEPT ![c] = st.text]
      /\ pend' = [pend EXCEPT ![c] = st.pend]
  BY DEF SetCopy
<1> QED
  BY <1>1, <1>2

\* The first n of what is pending go into the text.
LEMMA SplitPlain ==
    ASSUME NEW p \in Seq(Edit), NEW n \in Nat, n <= Len(p)
    PROVE  /\ SubSeq(p, 1, n) \in Seq(Edit)
           /\ SubSeq(p, n + 1, Len(p)) \in Seq(Edit)
           /\ Len(SubSeq(p, n + 1, Len(p))) <= Len(p)
<1>1. Len(p) \in Nat /\ \A i \in 1 .. Len(p) : p[i] \in Edit
  BY LenProperties, ElementOfSeq
<1>2. \A i \in 1 .. n : p[i] \in Edit
  BY <1>1
<1>3. \A i \in n + 1 .. Len(p) : p[i] \in Edit
  BY <1>1
<1>4. SubSeq(p, 1, n) \in Seq(Edit)
  BY <1>1, <1>2, SubSeqProperties
<1>5. /\ SubSeq(p, n + 1, Len(p)) \in Seq(Edit)
      /\ Len(SubSeq(p, n + 1, Len(p))) = Len(p) - n
  BY <1>1, <1>3, SubSeqProperties
<1> QED
  BY <1>1, <1>4, <1>5

LEMMA MinSmall ==
    ASSUME NEW m \in Nat, NEW n \in Nat
    PROVE  Min({m, n}) \in Nat /\ Min({m, n}) <= n
<1>1. Min({m, n}) = IF m <= n THEN m ELSE n
  BY MinOf
<1>2. CASE m <= n
  BY <1>1, <1>2
<1>3. CASE ~(m <= n)
  BY <1>1, <1>3
<1> QED
  BY <1>2, <1>3

LEMMA AppliedPlain ==
    ASSUME NEW c, NEW st \in CopyType, NEW d, d.edits \in Seq(Edit)
    PROVE  /\ Applied(c, st, d) \in CopyType
           /\ Len(Applied(c, st, d).pend) <= Len(st.pend)
<1> DEFINE n == Min({Len(d.edits), Len(st.pend)})
<1>1. /\ st.ver \in Nat /\ st.text \in Seq(Edit) /\ st.pend \in Seq(Edit)
      /\ Len(st.pend) \in Nat /\ Len(d.edits) \in Nat
  BY LenProperties DEF CopyType
<1>2. n \in Nat /\ n <= Len(st.pend)
  BY <1>1, MinSmall
<1> DEFINE a == SubSeq(st.pend, 1, n)
           b == SubSeq(st.pend, n + 1, Len(st.pend))
<1>3. Applied(c, st, d) = IF d.cid = c
                          THEN [ver |-> st.ver + 1, text |-> st.text \o a, pend |-> b]
                          ELSE [ver |-> st.ver + 1, text |-> st.text \o d.edits, pend |-> st.pend]
  BY DEF Applied
<1> HIDE DEF n
<1>4. a \in Seq(Edit) /\ b \in Seq(Edit) /\ Len(b) <= Len(st.pend)
  BY <1>1, <1>2, SplitPlain
<1> HIDE DEF a, b
<1>5. st.text \o a \in Seq(Edit) /\ st.text \o d.edits \in Seq(Edit)
  BY <1>1, <1>4, ConcatProperties
<1> QED
  BY <1>1, <1>3, <1>4, <1>5 DEF CopyType

LEMMA CopyPlain ==
    ASSUME Types, NEW c \in Client
    PROVE  Copy(c) \in CopyType /\ Copy(c).pend = pend[c]
  BY Typed DEF Copy, CopyType

LEMMA ConfirmPlain ==
    ASSUME Types, NEW c \in Client, NEW rid, ConfirmDiff(c, rid)
    PROVE  /\ ver' \in [Client -> Nat] /\ text' \in [Client -> Seq(Edit)]
           /\ pend' \in [Client -> Seq(Edit)] /\ Len(pend'[c]) <= Len(pend[c])
           /\ unconf' \in [Client -> SUBSET [rid: Nat, n: Nat \ {0}]] /\ rids' = rids
           /\ KeepSending \/ EnableSending(c)
           /\ \A d \in Client : d # c => /\ ver'[d] = ver[d] /\ text'[d] = text[d]
                                         /\ pend'[d] = pend[d] /\ unconf'[d] = unconf[d]
<1> DEFINE mine == {x \in unconf[c] : x.rid = rid}
           u == CHOOSE x \in mine : TRUE
           n == Confirmed(c, u)
           st == [ver |-> ver[c] + 1, text |-> text[c] \o SubSeq(pend[c], 1, n),
                  pend |-> SubSeq(pend[c], n + 1, Len(pend[c]))]
<1>1. /\ ver[c] \in Nat /\ text[c] \in Seq(Edit) /\ pend[c] \in Seq(Edit)
      /\ Len(pend[c]) \in Nat /\ unconf[c] \subseteq [rid: Nat, n: Nat \ {0}]
      /\ unconf \in [Client -> SUBSET [rid: Nat, n: Nat \ {0}]]
  BY Typed DEF Types
<1>2. CASE mine = {}
  <2>1. KeepSending /\ ver' = ver /\ text' = text /\ pend' = pend /\ unconf' = unconf
        /\ rids' = rids
    BY <1>2 DEF ConfirmDiff, copyVars
  <2> QED
    BY <1>1, <2>1 DEF Types
<1>3. CASE mine # {}
  <2>1. u \in mine
    BY <1>3
  <2>2. u.n \in Nat
    BY <1>1, <2>1
  <2>3. n \in Nat /\ n <= Len(pend[c])
    <3> HIDE DEF u
    <3>1. /\ Min({u.n, Len(pend[c])}) \in Nat
          /\ Min({u.n, Len(pend[c])}) <= Len(pend[c])
      BY <1>1, <2>2, MinSmall
    <3> QED
      BY <3>1 DEF Confirmed
  <2>4. /\ EnableSending(c) /\ unconf' = [unconf EXCEPT ![c] = @ \ {u}]
        /\ SetCopy(c, st) /\ rids' = rids
    BY <1>3 DEF ConfirmDiff
  <2> HIDE DEF n, u, mine
  <2>5. /\ SubSeq(pend[c], 1, n) \in Seq(Edit)
        /\ SubSeq(pend[c], n + 1, Len(pend[c])) \in Seq(Edit)
        /\ Len(SubSeq(pend[c], n + 1, Len(pend[c]))) <= Len(pend[c])
    BY <1>1, <2>3, SplitPlain
  <2>6. text[c] \o SubSeq(pend[c], 1, n) \in Seq(Edit)
    BY <1>1, <2>5, ConcatProperties
  <2>7. st \in CopyType /\ Len(st.pend) <= Len(pend[c])
    BY <1>1, <2>5, <2>6 DEF CopyType
  <2> HIDE DEF st
  <2>8. unconf' \in [Client -> SUBSET [rid: Nat, n: Nat \ {0}]]
        /\ \A d \in Client : d # c => unconf'[d] = unconf[d]
    BY <1>1, <2>4
  <2> QED
    BY <2>4, <2>7, <2>8, SetPlain
<1> QED
  BY <1>2, <1>3

\* What the handling of a message leaves of the state of c.
Handled(c) ==
    /\ up' \in [Client -> Seq(UpMsg)]
    /\ ver' \in [Client -> Nat] /\ text' \in [Client -> Seq(Edit)]
    /\ pend' \in [Client -> Seq(Edit)]
    /\ unconf' \in [Client -> SUBSET [rid: Nat, n: Nat \ {0}]] /\ rids' = rids
    /\ await' \in [Client -> BOOLEAN] /\ timer' \in [Client -> BOOLEAN]
    /\ older' \in [Client -> BOOLEAN] /\ checking' \in [Client -> BOOLEAN]
    /\ waiting' \in [Client -> BOOLEAN] /\ resub' \in [Client -> BOOLEAN]
    /\ fetch' \in [Client -> [from: Nat, row: Nat \cup {-1}, open: BOOLEAN]]
    /\ \A d \in Client : d # c =>
          /\ up'[d] = up[d] /\ ver'[d] = ver[d] /\ text'[d] = text[d]
          /\ pend'[d] = pend[d] /\ unconf'[d] = unconf[d]
          /\ waiting'[d] = waiting[d] /\ fetch'[d] = fetch[d]
    /\ waiting'[c] => waiting[c]
    /\ Len(pend'[c]) <= Len(pend[c])
    /\ fetch'[c] = fetch[c] \/ fetch'[c].row = -1

LEMMA ReadPlain ==
    ASSUME Types, NEW c \in Client, Plainly(c), ClientReceive(c), Handled(c)
    PROVE  StaysPlain(c)
<1>1. /\ down' \in [Client -> Seq(DownMsg)] /\ seen' \in [Client -> Nat]
      /\ \A d \in Client : d # c => down'[d] = down[d] /\ seen'[d] = seen[d]
      /\ log' = log /\ saved' = saved /\ joined' = joined /\ said' = said
      /\ link' = link /\ count' = count /\ typed' = typed
      /\ late' \in [Client -> BOOLEAN] /\ \A d \in Client : d # c => late'[d] = late[d]
      /\ Linked(c)'
  BY ReceivePlain DEF Plainly
<1>2. Types'
  BY <1>1 DEF Types, Handled
<1>3. /\ typed \in Nat /\ saved \in Nat /\ pend[c] \in Seq(Edit) /\ Len(pend[c]) \in Nat
      /\ pend'[c] \in Seq(Edit) /\ Len(pend'[c]) \in Nat
      /\ Len(pend'[c]) <= Len(pend[c]) /\ (waiting'[c] => waiting[c])
      /\ fetch'[c] = fetch[c] \/ fetch'[c].row = -1
  BY Typed, LenProperties DEF Handled
<1>4. Editing(c)'
  <2>1. Len(pend'[c]) <= typed'
    BY <1>1, <1>3 DEF Plainly, Editing
  <2>2. ASSUME waiting'[c]
        PROVE  pend'[c] = <<>>
    <3>1. pend[c] = <<>> /\ Len(<<>>) = 0
      BY <1>3, <2>2, EmptySeq DEF Plainly, Editing
    <3>2. Len(pend'[c]) = 0
      BY <1>3, <3>1
    <3> QED
      BY <1>3, <3>2, EmptySeq
  <2> QED
    BY <2>1, <2>2 DEF Editing
<1>5. fetch'[c].row <= saved'
  BY <1>1, <1>3 DEF Plainly
<1>6. Local(c)
  BY <1>1, <1>3 DEF Local, OnlyOf, Keeps, Handled
<1> QED
  BY <1>1, <1>2, <1>4, <1>5, <1>6 DEF StaysPlain, Plainly

LEMMA ReceivePlainly ==
    ASSUME Types, NEW c \in Client, Plainly(c), ClientReceive(c)
    PROVE  StaysPlain(c)
<1> DEFINE m == down[c][1]
<1>1. /\ m = Head(down[c]) /\ m \in DownMsg /\ seen'[c] \in Nat
      /\ fetch'[c] = fetch[c] => ~Waits(c)'
  BY ReceivePlain DEF Plainly
<1>2. \/ ReceiveSubscribed(c, m) \/ ReceiveConnections(c, m)
      \/ ReceiveConfirmVersion(c, m) \/ ReceiveConfirmDiff(c, m)
      \/ ReceiveRejectDiff(c, m) \/ ReceiveDiff(c, m) \/ ReceiveRefetch(c, m)
  BY <1>1 DEF ClientReceive
<1> HIDE DEF m
<1>3. /\ ver \in [Client -> Nat] /\ text \in [Client -> Seq(Edit)]
      /\ pend \in [Client -> Seq(Edit)] /\ Len(pend[c]) \in Nat
      /\ unconf \in [Client -> SUBSET [rid: Nat, n: Nat \ {0}]]
      /\ await \in [Client -> BOOLEAN] /\ timer \in [Client -> BOOLEAN]
      /\ older \in [Client -> BOOLEAN] /\ checking \in [Client -> BOOLEAN]
      /\ waiting \in [Client -> BOOLEAN] /\ resub \in [Client -> BOOLEAN]
      /\ fetch \in [Client -> [from: Nat, row: Nat \cup {-1}, open: BOOLEAN]]
      /\ up \in [Client -> Seq(UpMsg)] /\ ver[c] \in Nat
  BY Typed DEF Types
<1>4. CASE ReceiveSubscribed(c, m)
  <2>1. /\ timer' = timer /\ older' = older /\ up' = up /\ ver' = ver /\ text' = text
        /\ pend' = pend /\ unconf' = unconf /\ rids' = rids
        /\ checking' = checking /\ waiting' = waiting /\ fetch' = fetch
    BY <1>4 DEF ReceiveSubscribed, copyVars
  <2>2. await' \in [Client -> BOOLEAN] /\ resub' \in [Client -> BOOLEAN]
    BY <1>3, <1>4 DEF ReceiveSubscribed
  <2>9. Handled(c)
    BY <1>3, <2>1, <2>2 DEF Handled
  <2> QED
    BY <2>9, ReadPlain
<1>5. CASE ReceiveConnections(c, m)
  <2>1. /\ ver' = ver /\ text' = text /\ pend' = pend /\ unconf' = unconf /\ rids' = rids
        /\ waiting' = waiting /\ fetch' = fetch
        /\ resub' = [resub EXCEPT ![c] = FALSE]
        /\ IF resub[c] THEN CheckVersion(c, pend[c] # <<>>)
           ELSE KeepSending /\ UNCHANGED <<checking, up>>
    BY <1>5 DEF ReceiveConnections, copyVars
  <2>2. /\ await' \in [Client -> BOOLEAN] /\ timer' \in [Client -> BOOLEAN]
        /\ older' \in [Client -> BOOLEAN] /\ checking' \in [Client -> BOOLEAN]
        /\ up' \in [Client -> Seq(UpMsg)]
        /\ \A d \in Client : d # c => up'[d] = up[d]
    <3>1. CASE resub[c]
      <4>1. PICK off \in BOOLEAN : off = (pend[c] # <<>>)
        OBVIOUS
      <4>2. CheckVersion(c, off) /\ (off => pend'[c] # <<>>)
        BY <2>1, <3>1, <4>1
      <4> QED
        BY <1>1, <2>1, <4>2, Checked
    <3>2. CASE ~resub[c]
      BY <1>3, <2>1, <3>2, SendingTypes
    <3> QED
      BY <3>1, <3>2
  <2>3. resub' \in [Client -> BOOLEAN]
    BY <1>3, <2>1
  <2>9. Handled(c)
    BY <1>3, <2>1, <2>2, <2>3 DEF Handled
  <2> QED
    BY <2>9, ReadPlain
<1>6. CASE ReceiveConfirmVersion(c, m)
  <2>1. /\ ver' = ver /\ text' = text /\ pend' = pend /\ unconf' = unconf /\ rids' = rids
        /\ resub' = resub /\ fetch' = fetch
        /\ IF m.v # ver[c]
           THEN /\ DisableSending(c) /\ checking' = [checking EXCEPT ![c] = TRUE]
                /\ Upload(c, CheckMsg(c, FALSE)) /\ waiting' = waiting
           ELSE /\ EnableSending(c) /\ checking' = [checking EXCEPT ![c] = FALSE]
                /\ waiting' = [waiting EXCEPT ![c] = FALSE] /\ up' = up
    BY <1>6 DEF ReceiveConfirmVersion, copyVars
  <2>2. /\ waiting' \in [Client -> BOOLEAN]
        /\ \A d \in Client : d # c => waiting'[d] = waiting[d]
        /\ waiting'[c] => waiting[c]
    BY <1>3, <2>1
  <2>3. /\ await' \in [Client -> BOOLEAN] /\ timer' \in [Client -> BOOLEAN]
        /\ older' \in [Client -> BOOLEAN] /\ checking' \in [Client -> BOOLEAN]
        /\ up' \in [Client -> Seq(UpMsg)]
        /\ \A d \in Client : d # c => up'[d] = up[d]
    <3>1. CASE m.v # ver[c]
      BY <1>1, <2>1, <3>1, Checked
    <3>2. CASE m.v = ver[c]
      <4>1. checking' \in [Client -> BOOLEAN] /\ up' = up /\ EnableSending(c)
        BY <1>3, <2>1, <3>2
      <4> QED
        BY <1>3, <4>1, SendingTypes
    <3> QED
      BY <3>1, <3>2
  <2>9. Handled(c)
    BY <1>3, <2>1, <2>2, <2>3 DEF Handled
  <2> QED
    BY <2>9, ReadPlain
<1>7. ASSUME ConfirmDiff(c, m.rid), up' = up, checking' = checking, waiting' = waiting,
             resub' = resub, fetch' = fetch
      PROVE  StaysPlain(c)
  <2>1. /\ ver' \in [Client -> Nat] /\ text' \in [Client -> Seq(Edit)]
        /\ pend' \in [Client -> Seq(Edit)] /\ Len(pend'[c]) <= Len(pend[c])
        /\ unconf' \in [Client -> SUBSET [rid: Nat, n: Nat \ {0}]] /\ rids' = rids
        /\ KeepSending \/ EnableSending(c)
        /\ \A d \in Client : d # c => /\ ver'[d] = ver[d] /\ text'[d] = text[d]
                                      /\ pend'[d] = pend[d] /\ unconf'[d] = unconf[d]
    BY <1>7, ConfirmPlain
  <2>2. /\ await' \in [Client -> BOOLEAN] /\ timer' \in [Client -> BOOLEAN]
        /\ older' \in [Client -> BOOLEAN]
    BY <2>1, SendingTypes
  <2>9. Handled(c)
    BY <1>3, <1>7, <2>1, <2>2 DEF Handled
  <2> QED
    BY <2>9, ReadPlain
<1>8. CASE ReceiveConfirmDiff(c, m)
  BY <1>7, <1>8 DEF ReceiveConfirmDiff
<1>9. CASE ReceiveRejectDiff(c, m)
  <2>1. /\ unconf' = [unconf EXCEPT ![c] = {u \in @ : u.rid # m.rid}]
        /\ EnableSending(c)
        /\ up' = up /\ ver' = ver /\ text' = text /\ pend' = pend /\ rids' = rids
        /\ checking' = checking /\ waiting' = waiting /\ resub' = resub /\ fetch' = fetch
    BY <1>9 DEF ReceiveRejectDiff
  <2>2. /\ await' \in [Client -> BOOLEAN] /\ timer' \in [Client -> BOOLEAN]
        /\ older' \in [Client -> BOOLEAN]
    BY <2>1, SendingTypes
  <2>3. /\ unconf' \in [Client -> SUBSET [rid: Nat, n: Nat \ {0}]]
        /\ \A d \in Client : d # c => unconf'[d] = unconf[d]
    BY <1>3, <2>1
  <2>9. Handled(c)
    BY <1>3, <2>1, <2>2, <2>3 DEF Handled
  <2> QED
    BY <2>9, ReadPlain
<1>10. CASE ReceiveDiff(c, m)
  <2>1. m.type = "diff" /\ waiting' = waiting /\ resub' = resub /\ fetch' = fetch
    BY <1>10 DEF ReceiveDiff
  <2>2. CASE m.cid = c
    BY <1>7, <1>10, <2>1, <2>2 DEF ReceiveDiff
  <2>3. CASE m.cid # c /\ ~Fits(c, m)
    <3>1. /\ CheckVersion(c, FALSE)
          /\ ver' = ver /\ text' = text /\ pend' = pend /\ unconf' = unconf /\ rids' = rids
      BY <1>10, <2>3 DEF ReceiveDiff, copyVars
    <3>2. /\ await' \in [Client -> BOOLEAN] /\ timer' \in [Client -> BOOLEAN]
          /\ older' \in [Client -> BOOLEAN] /\ checking' \in [Client -> BOOLEAN]
          /\ up' \in [Client -> Seq(UpMsg)]
          /\ \A d \in Client : d # c => up'[d] = up[d]
      BY <1>1, <2>1, <3>1, Checked
    <3>9. Handled(c)
      BY <1>3, <2>1, <3>1, <3>2 DEF Handled
    <3> QED
      BY <3>9, ReadPlain
  <2>4. CASE m.cid # c /\ Fits(c, m)
    <3> DEFINE st == Applied(c, Copy(c), m)
    <3>1. /\ SetCopy(c, st) /\ KeepSending
          /\ up' = up /\ checking' = checking /\ unconf' = unconf /\ rids' = rids
      BY <1>10, <2>4 DEF ReceiveDiff
    <3>2. st \in CopyType /\ Len(st.pend) <= Len(pend[c])
      <4>1. m.edits \in Seq(Edit)
        BY <1>1, <2>1, DownTyped
      <4> QED
        BY <4>1, CopyPlain, AppliedPlain
    <3> HIDE DEF st
    <3>3. /\ ver' \in [Client -> Nat] /\ text' \in [Client -> Seq(Edit)]
          /\ pend' \in [Client -> Seq(Edit)] /\ pend'[c] = st.pend
          /\ \A d \in Client : d # c => /\ ver'[d] = ver[d] /\ text'[d] = text[d]
                                        /\ pend'[d] = pend[d]
      BY <3>1, <3>2, SetPlain
    <3>4. /\ await' \in [Client -> BOOLEAN] /\ timer' \in [Client -> BOOLEAN]
          /\ older' \in [Client -> BOOLEAN]
      BY <3>1, SendingTypes
    <3>9. Handled(c)
      BY <1>3, <2>1, <3>1, <3>2, <3>3, <3>4 DEF Handled
    <3> QED
      BY <3>9, ReadPlain
  <2> QED
    BY <2>2, <2>3, <2>4
<1>11. CASE ReceiveRefetch(c, m)
  <2>1. /\ fetch' = [fetch EXCEPT ![c] = [from |-> ver[c], row |-> -1, open |-> TRUE]]
        /\ KeepSending
        /\ up' = up /\ ver' = ver /\ text' = text /\ pend' = pend /\ unconf' = unconf
        /\ rids' = rids /\ checking' = checking /\ waiting' = waiting /\ resub' = resub
    BY <1>11 DEF ReceiveRefetch, copyVars
  <2>2. /\ fetch' \in [Client -> [from: Nat, row: Nat \cup {-1}, open: BOOLEAN]]
        /\ fetch'[c].row = -1 /\ \A d \in Client : d # c => fetch'[d] = fetch[d]
    BY <1>3, <2>1
  <2>3. /\ await' \in [Client -> BOOLEAN] /\ timer' \in [Client -> BOOLEAN]
        /\ older' \in [Client -> BOOLEAN]
    BY <2>1, SendingTypes
  <2>9. Handled(c)
    BY <1>3, <2>1, <2>2, <2>3 DEF Handled
  <2> QED
    BY <2>9, ReadPlain
<1> QED
  BY <1>2, <1>4, <1>5, <1>6, <1>8, <1>9, <1>10, <1>11

\* The diffs that come with a row are received one after the other.
Ran(c, f, g) == [v \in f.from .. f.row |->
                    IF v = f.from THEN Copy(c) ELSE Applied(c, g[v - 1], log[v])]

LEMMA RanExists ==
    ASSUME NEW c, NEW f, f.from \in Nat, f.row \in Nat, f.from <= f.row
    PROVE  \E g : g = Ran(c, f, g)
<1> DEFINE a == f.from
           Is(n, g) == g = [v \in a .. a + n |->
                              IF v = a THEN Copy(c) ELSE Applied(c, g[v - 1], log[v])]
           S == {n \in Nat : \E g : Is(n, g)}
<1>1. 0 \in S
  <2>1. Is(0, [v \in a .. a + 0 |-> Copy(c)])
    OBVIOUS
  <2> QED
    BY <2>1
<1>2. ASSUME NEW n \in Nat, n \in S
      PROVE  n + 1 \in S
  <2>1. PICK g : Is(n, g)
    BY <1>2
  <2> DEFINE w == a + (n + 1)
             h == [v \in a .. w |-> IF v = w THEN Applied(c, g[w - 1], log[w]) ELSE g[v]]
  <2>2. \A v \in a .. w : h[v] = IF v = a THEN Copy(c) ELSE Applied(c, h[v - 1], log[v])
    <3> TAKE v \in a .. w
    <3>1. CASE v = w
      <4>1. w # a /\ w - 1 \in a .. w /\ w - 1 # w
        OBVIOUS
      <4> QED
        BY <3>1, <4>1
    <3>2. CASE v # w
      <4>1. v \in a .. a + n /\ (v # a => v - 1 \in a .. w /\ v - 1 # w)
        BY <3>2
      <4>2. h[v] = g[v] /\ (v # a => h[v - 1] = g[v - 1])
        BY <3>2, <4>1
      <4>3. g[v] = IF v = a THEN Copy(c) ELSE Applied(c, g[v - 1], log[v])
        BY <2>1, <4>1
      <4> QED
        BY <4>2, <4>3
    <3> QED
      BY <3>1, <3>2
  <2>3. h = [v \in a .. w |-> h[v]]
    OBVIOUS
  <2> HIDE DEF h
  <2>4. Is(n + 1, h)
    BY <2>2, <2>3
  <2> QED
    BY <2>4
<1> HIDE DEF S
<1>3. Nat \subseteq S
  BY <1>1, <1>2, SetInduction
<1>4. f.row - f.from \in Nat /\ f.from + (f.row - f.from) = f.row
  OBVIOUS
<1>5. PICK g : Is(f.row - f.from, g)
  BY <1>3, <1>4 DEF S
<1>6. g = Ran(c, f, g)
  BY <1>4, <1>5 DEF Ran
<1> QED
  BY <1>6

LEMMA ReceivedPlain ==
    ASSUME Types, NEW c \in Client, NEW f, f.from \in Nat, f.row \in Nat, f.from <= f.row,
           f.row <= Len(log)
    PROVE  Received(c, f) \in CopyType /\ Len(Received(c, f).pend) <= Len(pend[c])
<1> DEFINE g == CHOOSE x : x = Ran(c, f, x)
           a == f.from
           S == {n \in Nat : a + n <= f.row =>
                    g[a + n] \in CopyType /\ Len(g[a + n].pend) <= Len(pend[c])}
<1>1. Received(c, f) = g[f.row]
  BY DEF Received, Ran
<1>2. g = Ran(c, f, g)
  BY RanExists
<1>3. \A v \in a .. f.row : g[v] = IF v = a THEN Copy(c) ELSE Applied(c, g[v - 1], log[v])
  <2> HIDE DEF g
  <2> QED
    BY <1>2 DEF Ran
<1> HIDE DEF g
<1>4. /\ Copy(c) \in CopyType /\ Copy(c).pend = pend[c] /\ Len(pend[c]) \in Nat
      /\ \A i \in 1 .. Len(log) : log[i].edits \in Seq(Edit)
      /\ Len(log) \in Nat
  BY CopyPlain, Typed, LogEntries
<1>5. 0 \in S
  <2>1. a + 0 = a /\ a \in a .. f.row
    OBVIOUS
  <2> QED
    BY <1>3, <1>4, <2>1
<1>6. ASSUME NEW n \in Nat, n \in S
      PROVE  n + 1 \in S
  <2> SUFFICES ASSUME a + (n + 1) <= f.row
               PROVE  /\ g[a + (n + 1)] \in CopyType
                      /\ Len(g[a + (n + 1)].pend) <= Len(pend[c])
    OBVIOUS
  <2> DEFINE w == a + (n + 1)
  <2>1. w \in a .. f.row /\ w # a /\ w - 1 = a + n /\ w \in 1 .. Len(log) /\ a + n <= f.row
    BY <1>4
  <2>2. g[w] = Applied(c, g[a + n], log[w])
    BY <1>3, <2>1
  <2>3. g[a + n] \in CopyType /\ Len(g[a + n].pend) <= Len(pend[c])
    BY <1>6, <2>1
  <2>4. log[w].edits \in Seq(Edit)
    BY <1>4, <2>1
  <2> HIDE DEF w
  <2>5. g[w] \in CopyType /\ Len(g[w].pend) <= Len(g[a + n].pend)
    BY <2>2, <2>3, <2>4, AppliedPlain
  <2>6. Len(g[w].pend) \in Nat /\ Len(g[a + n].pend) \in Nat
    BY <2>3, <2>5, LenProperties DEF CopyType
  <2>7. Len(g[w].pend) <= Len(pend[c])
    <3> HIDE DEF a
    <3> QED
      BY <1>4, <2>3, <2>5, <2>6
  <2> QED
    BY <2>5, <2>7 DEF w
<1> HIDE DEF S
<1>7. Nat \subseteq S
  BY <1>5, <1>6, SetInduction
<1>8. f.row - a \in Nat /\ a + (f.row - a) = f.row /\ f.row <= f.row
  OBVIOUS
<1>9. g[f.row] \in CopyType /\ Len(g[f.row].pend) <= Len(pend[c])
  BY <1>7, <1>8 DEF S
<1> QED
  BY <1>1, <1>9

LEMMA FetchReceivePlain ==
    ASSUME Types, NEW c \in Client, Plainly(c), FetchReceive(c)
    PROVE  StaysPlain(c)
<1> DEFINE f == fetch[c]
<1>1. /\ f.open /\ f.row # -1 /\ (FetchMerge(c, f) \/ FetchDiffs(c, f) \/ FetchReset(c, f))
      /\ fetch' = [fetch EXCEPT ![c] = NoFetch] /\ checking' = [checking EXCEPT ![c] = FALSE]
      /\ log' = log /\ saved' = saved /\ joined' = joined /\ said' = said
      /\ link' = link /\ count' = count /\ up' = up /\ down' = down /\ seen' = seen
      /\ resub' = resub /\ typed' = typed /\ late' = [late EXCEPT ![c] = FALSE]
  BY DEF FetchReceive, serverVars, wires, counters
<1>2. /\ f \in [from: Nat, row: Nat \cup {-1}, open: BOOLEAN]
      /\ log \in Seq(Diff) /\ Len(log) \in Nat /\ saved \in Nat /\ saved <= Len(log)
      /\ typed \in Nat /\ pend[c] \in Seq(Edit) /\ Len(pend[c]) \in Nat
      /\ unconf \in [Client -> SUBSET [rid: Nat, n: Nat \ {0}]]
      /\ waiting \in [Client -> BOOLEAN] /\ checking \in [Client -> BOOLEAN]
      /\ late \in [Client -> BOOLEAN]
      /\ fetch \in [Client -> [from: Nat, row: Nat \cup {-1}, open: BOOLEAN]]
  BY Typed DEF Types
<1>3. f.row \in Nat /\ f.from \in Nat /\ f.row <= Len(log)
  <2>1. f.row <= saved
    BY DEF Plainly
  <2> QED
    BY <1>1, <1>2, <2>1
<1>4. TextAt(f.row) \in Seq(Edit)
  BY <1>2, <1>3, TextType
<1> HIDE DEF f
<1>5. \E st \in CopyType : /\ SetCopy(c, st) /\ Len(st.pend) <= Len(pend[c])
                           /\ waiting' = waiting \/ waiting' = [waiting EXCEPT ![c] = FALSE]
                           /\ unconf' = unconf \/ unconf' = [unconf EXCEPT ![c] = {}]
                           /\ rids' = rids /\ (KeepSending \/ EnableSending(c))
  <2>1. CASE FetchMerge(c, f)
    <3>1. Merged(c, f) \in CopyType /\ Merged(c, f).pend = pend[c]
      BY <1>2, <1>3, <1>4 DEF Merged, CopyType
    <3> QED
      BY <1>2, <2>1, <3>1 DEF FetchMerge
  <2>2. CASE FetchDiffs(c, f)
    <3>1. f.from <= f.row
      BY <1>3, <2>2 DEF FetchDiffs, Covering
    <3>2. Received(c, f) \in CopyType /\ Len(Received(c, f).pend) <= Len(pend[c])
      BY <1>3, <3>1, ReceivedPlain
    <3> QED
      BY <2>2, <3>2 DEF FetchDiffs
  <2>3. CASE FetchReset(c, f)
    <3>1. Loaded(f) \in CopyType /\ Len(Loaded(f).pend) <= Len(pend[c])
      <4>1. <<>> \in Seq(Edit) /\ Len(<<>>) = 0
        BY EmptySeq
      <4>2. Loaded(f) \in CopyType /\ Loaded(f).pend = <<>>
        BY <1>3, <1>4, <4>1 DEF Loaded, CopyType
      <4> QED
        BY <1>2, <4>1, <4>2
    <3> QED
      BY <2>3, <3>1 DEF FetchReset
  <2> QED
    BY <1>1, <2>1, <2>2, <2>3
<1>6. PICK st \in CopyType : /\ SetCopy(c, st) /\ Len(st.pend) <= Len(pend[c])
                             /\ waiting' = waiting \/ waiting' = [waiting EXCEPT ![c] = FALSE]
                             /\ unconf' = unconf \/ unconf' = [unconf EXCEPT ![c] = {}]
                             /\ rids' = rids /\ (KeepSending \/ EnableSending(c))
  BY <1>5
<1>7. /\ ver' \in [Client -> Nat] /\ text' \in [Client -> Seq(Edit)]
      /\ pend' \in [Client -> Seq(Edit)] /\ pend'[c] = st.pend
      /\ \A d \in Client : d # c => /\ ver'[d] = ver[d] /\ text'[d] = text[d]
                                    /\ pend'[d] = pend[d]
  BY <1>6, SetPlain
<1>8. NoFetch \in [from: Nat, row: Nat \cup {-1}, open: BOOLEAN] /\ NoFetch.row = -1
  BY DEF NoFetch
<1>9. /\ fetch' \in [Client -> [from: Nat, row: Nat \cup {-1}, open: BOOLEAN]]
      /\ fetch'[c] = NoFetch /\ checking' \in [Client -> BOOLEAN]
      /\ late' \in [Client -> BOOLEAN]
      /\ \A d \in Client : d # c => fetch'[d] = fetch[d] /\ late'[d] = late[d]
  BY <1>1, <1>2, <1>8
<1>10. /\ waiting' \in [Client -> BOOLEAN] /\ (waiting'[c] => waiting[c])
       /\ unconf' \in [Client -> SUBSET [rid: Nat, n: Nat \ {0}]]
       /\ \A d \in Client : d # c => waiting'[d] = waiting[d] /\ unconf'[d] = unconf[d]
  BY <1>2, <1>6
<1>11. /\ await' \in [Client -> BOOLEAN] /\ timer' \in [Client -> BOOLEAN]
       /\ older' \in [Client -> BOOLEAN]
  BY <1>6, SendingTypes
<1>12. Types'
  BY <1>1, <1>6, <1>7, <1>9, <1>10, <1>11 DEF Types
<1>13. Linked(c)'
  BY <1>1 DEF Plainly, Linked
<1>14. Editing(c)'
  <2>1. pend'[c] \in Seq(Edit) /\ Len(pend'[c]) \in Nat /\ Len(pend'[c]) <= Len(pend[c])
    BY <1>6, <1>7, LenProperties
  <2>2. Len(pend'[c]) <= typed'
    BY <1>1, <1>2, <2>1 DEF Plainly, Editing
  <2>3. ASSUME waiting'[c]
        PROVE  pend'[c] = <<>>
    <3>1. pend[c] = <<>> /\ Len(<<>>) = 0
      BY <1>10, <2>3, EmptySeq DEF Plainly, Editing
    <3>2. Len(pend'[c]) = 0
      BY <2>1, <3>1
    <3> QED
      BY <2>1, <3>2, EmptySeq
  <2> QED
    BY <2>2, <2>3 DEF Editing
<1>15. fetch'[c].row <= saved'
  BY <1>1, <1>2, <1>8, <1>9
<1>16. Local(c)
  BY <1>1, <1>2, <1>6, <1>7, <1>9, <1>10 DEF Local, OnlyOf, Keeps
<1> QED
  BY <1>12, <1>13, <1>14, <1>15, <1>16 DEF StaysPlain, Plainly

-----------------------------------------------------------------------------
(* The invariant holds always.                                             *)

LEMMA Starts ==
    ASSUME Init
    PROVE  IInv
<1>1. Types
  <2>1. NoFetch \in [from: Nat, row: Nat \cup {-1}, open: BOOLEAN]
    BY DEF NoFetch
  <2>2. /\ <<>> \in Seq(Diff) /\ <<>> \in Seq(Edit) /\ <<>> \in Seq(UpMsg)
        /\ <<>> \in Seq(DownMsg) /\ Len(<<>>) = 0
    BY EmptySeq
  <2> QED
    BY <2>1, <2>2 DEF Init, Types
<1>2. ASSUME NEW c \in Client
      PROVE  ClientInv(c)
  <2>1. /\ link[c] = "off" /\ up[c] = <<>> /\ down[c] = <<>> /\ joined = {} /\ seen[c] = 0
        /\ said[c] = 0 /\ log = <<>> /\ saved = 0 /\ unconf[c] = {} /\ pend[c] = <<>>
        /\ ver[c] = 0 /\ text[c] = <<>> /\ rids[c] = 0 /\ fetch[c] = NoFetch /\ typed = 0
        /\ late[c] = FALSE
    BY DEF Init
  <2>2. Len(up[c]) = 0 /\ Len(down[c]) = 0 /\ Len(log) = 0 /\ Len(pend[c]) = 0
    BY <2>1, EmptySeq
  <2>3. Linked(c)
    BY <2>1 DEF Linked
  <2>4. Fresh(c) /\ Rids(c) /\ Incoming(c)
    BY <2>1, <2>2 DEF Fresh, Rids, Incoming
  <2>5. Own(c)
    BY <2>1, <2>2 DEF Own, OwnNext
  <2>6. Fetching(c) /\ Editing(c)
    BY <2>1, <2>2 DEF Fetching, Editing, NoFetch, Waits
  <2>7. [i \in 1 .. 0 |-> log[i].edits] = <<>>
    OBVIOUS
  <2>8. TextAt(0) = <<>>
    BY <2>7, EmptySeq DEF TextAt, FlattenSeq
  <2>9. Current(c)
    BY <2>1, <2>2, <2>8 DEF Current
  <2> QED
    BY <2>3, <2>4, <2>5, <2>6, <2>9 DEF ClientInv
<1>3. \A c \in Client : Plainly(c)
  BY <1>2 DEF ClientInv, Plainly, Fetching
<1>4. strayed \in SUBSET Client /\ unheard \in BOOLEAN
  BY DEF Init
<1> QED
  BY <1>1, <1>2, <1>3, <1>4 DEF IInv

LEMMA Stutters ==
    ASSUME IInv, UNCHANGED vars
    PROVE  IInv'
<1>1. /\ log' = log /\ saved' = saved /\ joined' = joined /\ said' = said
      /\ link' = link /\ count' = count /\ up' = up /\ down' = down /\ seen' = seen
      /\ ver' = ver /\ text' = text /\ pend' = pend /\ unconf' = unconf /\ rids' = rids
      /\ await' = await /\ timer' = timer /\ older' = older /\ checking' = checking
      /\ waiting' = waiting /\ resub' = resub /\ fetch' = fetch /\ typed' = typed
      /\ late' = late /\ strayed' = strayed /\ unheard' = unheard
  BY DEF vars, serverVars, wires, copyVars, flags, counters, history
<1>2. Types' /\ strayed' \in SUBSET Client /\ unheard' \in BOOLEAN
  BY <1>1 DEF IInv, Types
<1>3. \A d \in Client : Plainly(d)'
  BY <1>1 DEF IInv, Plainly, Linked, Editing
<1>4. ASSUME NEW d \in Client \ strayed
      PROVE  ClientInv(d)'
  <2>1. Apart(d)
    BY <1>1 DEF Apart, Keeps, Reads
  <2>2. saved \in Nat /\ saved <= Len(log) /\ typed \in Nat /\ Len(log) \in Nat
    BY LenProperties DEF IInv, Types
  <2> QED
    BY <1>1, <2>1, <2>2, StaysApart DEF IInv
<1> QED
  BY <1>1, <1>2, <1>3, <1>4 DEF IInv

\* A client strays by using the answer to a refetch after it went on.
LEMMA Strays ==
    ASSUME Types, strayed \in SUBSET Client, unheard \in BOOLEAN, NEW c \in Client,
           \/ Type(c) \/ Send(c) \/ SendTimeout(c) \/ CheckTimeout(c)
           \/ ServerReceive(c) \/ ClientReceive(c)
           \/ FetchServe(c) \/ FetchReceive(c)
           \/ Connect(c) \/ Drop(c)
    PROVE  /\ strayed' \in SUBSET Client /\ unheard' \in BOOLEAN
           /\ strayed \subseteq strayed'
           /\ FetchReceive(c) /\ c \notin strayed' => ~late[c]
<1>1. unheard' = unheard \/ unheard' = (unheard \/ OwnNext(c))
  BY DEF Type, Send, SendTimeout, CheckTimeout, ServerReceive, ClientReceive, FetchServe,
         FetchReceive, Connect, Drop, GoesOn, history
<1>2. \/ ~FetchReceive(c) /\ strayed' = strayed
      \/ strayed' = IF late[c] THEN strayed \cup {c} ELSE strayed
  BY DEF Type, Send, SendTimeout, CheckTimeout, ServerReceive, ClientReceive, FetchServe,
         FetchReceive, Connect, Drop, GoesOn, history
<1>3. unheard' \in BOOLEAN
  BY <1>1
<1> QED
  BY <1>2, <1>3

LEMMA NextStep ==
    ASSUME IInv, [Next]_vars
    PROVE  IInv' /\ strayed \subseteq strayed'
<1>1. CASE UNCHANGED vars
  BY <1>1, Stutters DEF vars, history
<1>2. CASE Next
  <2>1. PICK c \in Client :
           \/ Type(c) \/ Send(c) \/ SendTimeout(c) \/ CheckTimeout(c)
           \/ ServerReceive(c) \/ ClientReceive(c)
           \/ FetchServe(c) \/ FetchReceive(c)
           \/ Connect(c) \/ Drop(c)
    BY <1>2 DEF Next
  <2>2. /\ Types /\ strayed \in SUBSET Client /\ unheard \in BOOLEAN
        /\ \A d \in Client : Plainly(d)
        /\ \A d \in Client \ strayed : ClientInv(d)
    BY DEF IInv
  <2>3. /\ strayed' \in SUBSET Client /\ unheard' \in BOOLEAN /\ strayed \subseteq strayed'
        /\ FetchReceive(c) /\ c \notin strayed' => ~late[c]
    BY <2>1, <2>2, Strays
  <2>4. ASSUME c \notin strayed'
        PROVE  ClientInv(c)'
    <3>1. ClientInv(c)
      BY <2>2, <2>3, <2>4
    <3> QED
      BY <2>1, <2>2, <2>3, <2>4, <3>1, TypeStep, SendStep, TimerStep, ServerStep,
         ReceiveStep, FetchServeStep, FetchReceiveStep, ConnectStep, DropStep
  <2>5. /\ Types' /\ \A d \in Client : Plainly(d)'
        /\ \A d \in Client : d # c /\ ClientInv(d) => ClientInv(d)'
    <3>1. CASE ServerReceive(c)
      BY <2>2, <3>1, ServerPlainly
    <3>2. CASE ~ServerReceive(c)
      <4>1. StaysPlain(c)
        BY <2>1, <2>2, <3>2, TypePlain, SendPlain, TimerPlain, ReceivePlainly, FetchServePlain,
           FetchReceivePlain, ConnectPlain, DropPlain
      <4>2. Types' /\ Plainly(c)' /\ Local(c)
        BY <4>1 DEF StaysPlain
      <4>3. \A d \in Client : d # c => /\ Plainly(d) => Plainly(d)'
                                       /\ ClientInv(d) => ClientInv(d)'
        BY <2>2, <4>2, LocalOthers
      <4> QED
        BY <2>2, <4>2, <4>3
    <3> QED
      BY <3>1, <3>2
  <2>6. \A d \in Client \ strayed' : ClientInv(d)'
    BY <2>2, <2>3, <2>4, <2>5
  <2> QED
    BY <2>3, <2>5, <2>6 DEF IInv
<1> QED
  BY <1>1, <1>2

LEMMA Always == Spec => []IInv
<1>1. Init => IInv
  BY Starts
<1>2. IInv /\ [Next]_vars => IInv'
  BY NextStep
<1> QED
  BY <1>1, <1>2, PTL DEF Spec

\* The types, for any number of clients, edits and diffs, whether browsers stray
\* or not.
THEOREM TypeCorrect == Spec => []TypeOK
<1>1. ASSUME IInv
      PROVE  TypeOK
  <2>1. /\ Types /\ strayed \in SUBSET Client /\ unheard \in BOOLEAN
        /\ \A c \in Client : Plainly(c)
    BY <1>1 DEF IInv
  <2>2. saved \in 0 .. Len(log)
    BY <2>1, LenProperties DEF Types
  <2>3. <<said, seen, ver, rids>> \in [1 .. 4 -> [Client -> Nat]]
    <3> DEFINE q == <<said, seen, ver, rids>>
    <3>1. /\ q[1] \in [Client -> Nat] /\ q[2] \in [Client -> Nat]
          /\ q[3] \in [Client -> Nat] /\ q[4] \in [Client -> Nat]
          /\ q = [i \in 1 .. 4 |-> q[i]]
      BY <2>1 DEF Types
    <3> HIDE DEF q
    <3>2. \A i \in 1 .. 4 : q[i] \in [Client -> Nat]
      <4> TAKE i \in 1 .. 4
      <4>1. i = 1 \/ i = 2 \/ i = 3 \/ i = 4
        OBVIOUS
      <4> QED
        BY <3>1, <4>1
    <3>3. q \in [1 .. 4 -> [Client -> Nat]]
      BY <3>1, <3>2
    <3> QED
      BY <3>3 DEF q
  <2>4. <<text, pend>> \in [1 .. 2 -> [Client -> Seq(Edit)]]
    <3> DEFINE q == <<text, pend>>
    <3>1. /\ q[1] \in [Client -> Seq(Edit)] /\ q[2] \in [Client -> Seq(Edit)]
          /\ q = [i \in 1 .. 2 |-> q[i]]
      BY <2>1 DEF Types
    <3> HIDE DEF q
    <3>2. \A i \in 1 .. 2 : q[i] \in [Client -> Seq(Edit)]
      <4> TAKE i \in 1 .. 2
      <4>1. i = 1 \/ i = 2
        OBVIOUS
      <4> QED
        BY <3>1, <4>1
    <3>3. q \in [1 .. 2 -> [Client -> Seq(Edit)]]
      BY <3>1, <3>2
    <3> QED
      BY <3>3 DEF q
  <2>5. <<await, timer, older, checking, waiting, resub>> \in [1 .. 6 -> [Client -> BOOLEAN]]
    <3> DEFINE q == <<await, timer, older, checking, waiting, resub>>
    <3>1. /\ q[1] \in [Client -> BOOLEAN] /\ q[2] \in [Client -> BOOLEAN]
          /\ q[3] \in [Client -> BOOLEAN] /\ q[4] \in [Client -> BOOLEAN]
          /\ q[5] \in [Client -> BOOLEAN] /\ q[6] \in [Client -> BOOLEAN]
          /\ q = [i \in 1 .. 6 |-> q[i]]
      BY <2>1 DEF Types
    <3> HIDE DEF q
    <3>2. \A i \in 1 .. 6 : q[i] \in [Client -> BOOLEAN]
      <4> TAKE i \in 1 .. 6
      <4>1. i = 1 \/ i = 2 \/ i = 3 \/ i = 4 \/ i = 5 \/ i = 6
        OBVIOUS
      <4> QED
        BY <3>1, <4>1
    <3>3. q \in [1 .. 6 -> [Client -> BOOLEAN]]
      BY <3>1, <3>2
    <3> QED
      BY <3>3 DEF q
  <2>6. ASSUME NEW c \in Client
        PROVE  /\ seen[c] + Len(down[c]) <= said[c] /\ Len(pend[c]) <= typed
               /\ waiting[c] => pend[c] = <<>>
    <3>1. /\ link[c] \in {"on", "off"} /\ seen[c] \in Nat /\ said[c] \in Nat
          /\ Len(down[c]) \in Nat
      BY <2>1, Typed
    <3>2. CASE link[c] = "on"
      BY <2>1, <3>1, <3>2 DEF Plainly, Linked, Editing
    <3>3. CASE link[c] = "off"
      <4>1. down[c] = <<>> /\ seen[c] <= said[c]
        BY <2>1, <3>3 DEF Plainly, Linked
      <4>2. Len(down[c]) = 0
        BY <4>1, EmptySeq
      <4> QED
        BY <2>1, <3>1, <4>1, <4>2 DEF Plainly, Editing
    <3> QED
      BY <3>1, <3>2, <3>3
  <2> QED
    BY <2>1, <2>2, <2>3, <2>4, <2>5, <2>6 DEF TypeOK, Types
<1> QED
  BY <1>1, Always, PTL

\* Every copy of a browser that did not stray is, at its version, what the
\* server has at that version, whatever those do that strayed: what the exchange
\* of diffs, confirmations and refetched documents is for.
THEOREM CopiesConverge == Spec => []Converged
<1>1. IInv => Converged
  BY DEF IInv, ClientInv, Current, Converged
<1> QED
  BY <1>1, Always, PTL

-----------------------------------------------------------------------------
(* What a step does to the copies: it adds to the log, adds to what is     *)
(* pending, takes one copy further and loses nothing that is pending, or   *)
(* is one of a browser that strayed or strays with it.                     *)

CopyStays == ver' = ver /\ text' = text /\ pend' = pend /\ typed' = typed
LogOnly == CopyStays /\ (log' = log \/ \E l \in Diff : log' = Append(log, l))
Edits(c) == ver' = ver /\ text' = text /\ log' = log /\ Type(c)

Moves(c) ==
    /\ log' = log /\ typed' = typed
    /\ \E v \in Nat, t, p \in Seq(Edit) :
          /\ ver' = [ver EXCEPT ![c] = v]
          /\ text' = [text EXCEPT ![c] = t]
          /\ pend' = [pend EXCEPT ![c] = p]
          /\ ver[c] <= v
          /\ Range(pend[c]) \subseteq Range(p) \cup Range(t)

Turns(c) ==
    /\ log' = log /\ strayed' = strayed \cup {c}
    /\ \A d \in Client : d # c => text'[d] = text[d]

\* Edits counted as confirmed go from what is pending into the text.
LEMMA ConfirmMoves ==
    ASSUME Types, NEW c \in Client, NEW rid, ConfirmDiff(c, rid), log' = log, typed' = typed
    PROVE  LogOnly \/ Moves(c)
<1> DEFINE mine == {u \in unconf[c] : u.rid = rid}
           u == CHOOSE u \in mine : TRUE
           n == Confirmed(c, u)
           a == SubSeq(pend[c], 1, n)
           b == SubSeq(pend[c], n + 1, Len(pend[c]))
<1>1. /\ ver[c] \in Nat /\ text[c] \in Seq(Edit) /\ pend[c] \in Seq(Edit)
      /\ Len(pend[c]) \in Nat /\ unconf[c] \subseteq [rid: Nat, n: Nat \ {0}]
  BY Typed
<1>2. CASE mine = {}
  BY <1>2 DEF ConfirmDiff, copyVars, LogOnly, CopyStays
<1>3. CASE mine # {}
  <2>1. SetCopy(c, [ver |-> ver[c] + 1, text |-> text[c] \o a, pend |-> b])
    BY <1>3 DEF ConfirmDiff
  <2>2. u \in mine
    BY <1>3
  <2> HIDE DEF u
  <2>3. u.n \in Nat
    BY <1>1, <2>2
  <2>4. n \in 0 .. Len(pend[c])
    <3>1. Min({u.n, Len(pend[c])}) = IF u.n <= Len(pend[c]) THEN u.n ELSE Len(pend[c])
      BY <1>1, <2>3, MinOf
    <3> QED
      BY <1>1, <2>3, <3>1 DEF Confirmed
  <2>5. ver' = [ver EXCEPT ![c] = ver[c] + 1] /\ text' = [text EXCEPT ![c] = text[c] \o a]
        /\ pend' = [pend EXCEPT ![c] = b]
    BY <2>1 DEF SetCopy
  <2> HIDE DEF n
  <2>6. a \in Seq(Edit) /\ b \in Seq(Edit) /\ Range(pend[c]) = Range(a) \cup Range(b)
    BY <1>1, <2>4, Cut
  <2> HIDE DEF a, b
  <2>7. text[c] \o a \in Seq(Edit) /\ Range(text[c] \o a) = Range(text[c]) \cup Range(a)
    BY <1>1, <2>6, ConcatProperties, RangeConcat
  <2>8. /\ ver[c] + 1 \in Nat /\ ver[c] <= ver[c] + 1
        /\ Range(pend[c]) \subseteq Range(b) \cup Range(text[c] \o a)
    BY <1>1, <2>6, <2>7
  <2> QED
    BY <2>5, <2>6, <2>7, <2>8 DEF Moves
<1> QED
  BY <1>2, <1>3

LEMMA ReceiveMoves ==
    ASSUME Types, NEW c \in Client, Plainly(c), ClientReceive(c)
    PROVE  (LogOnly \/ Moves(c)) /\ strayed' = strayed
<1> DEFINE m == down[c][1]
<1>1. /\ Types /\ log' = log /\ typed' = typed /\ Head(down[c]) = m /\ m \in DownMsg
      /\ strayed' = strayed
  BY ReceivePlain DEF Plainly
<1>2. \/ ReceiveSubscribed(c, m) \/ ReceiveConnections(c, m)
      \/ ReceiveConfirmVersion(c, m) \/ ReceiveConfirmDiff(c, m)
      \/ ReceiveRejectDiff(c, m) \/ ReceiveDiff(c, m) \/ ReceiveRefetch(c, m)
  BY <1>1 DEF ClientReceive
<1>3. CASE ReceiveConfirmDiff(c, m)
  BY <1>1, <1>3, ConfirmMoves DEF ReceiveConfirmDiff
<1>4. CASE ReceiveDiff(c, m)
  <2>1. CASE m.cid = c
    BY <1>1, <1>4, <2>1, ConfirmMoves DEF ReceiveDiff
  <2>2. CASE m.cid # c /\ ~Fits(c, m)
    BY <1>1, <1>4, <2>2 DEF ReceiveDiff, copyVars, LogOnly, CopyStays
  <2>3. CASE m.cid # c /\ Fits(c, m)
    <3>1. SetCopy(c, [ver |-> ver[c] + 1, text |-> text[c] \o m.edits, pend |-> pend[c]])
      BY <1>4, <2>3 DEF ReceiveDiff, Applied, Copy
    <3>2. m.edits \in Seq(Edit)
      BY <1>1, <1>4, DownTyped DEF ReceiveDiff
    <3>3. ver[c] \in Nat /\ text[c] \in Seq(Edit) /\ pend[c] \in Seq(Edit)
      BY <1>1, Typed
    <3>4. /\ ver' = [ver EXCEPT ![c] = ver[c] + 1]
          /\ text' = [text EXCEPT ![c] = text[c] \o m.edits]
          /\ pend' = [pend EXCEPT ![c] = pend[c]]
      BY <3>1 DEF SetCopy
    <3> HIDE DEF m
    <3>5. text[c] \o m.edits \in Seq(Edit) /\ ver[c] + 1 \in Nat /\ ver[c] <= ver[c] + 1
      BY <3>2, <3>3, ConcatProperties
    <3> QED
      BY <1>1, <3>3, <3>4, <3>5 DEF Moves
  <2> QED
    BY <2>1, <2>2, <2>3
<1>5. CASE \/ ReceiveSubscribed(c, m) \/ ReceiveConnections(c, m)
           \/ ReceiveConfirmVersion(c, m) \/ ReceiveRejectDiff(c, m) \/ ReceiveRefetch(c, m)
  BY <1>1, <1>5 DEF ReceiveSubscribed, ReceiveConnections, ReceiveConfirmVersion,
                    ReceiveRejectDiff, ReceiveRefetch, copyVars, LogOnly, CopyStays
<1> QED
  BY <1>1, <1>2, <1>3, <1>4, <1>5

LEMMA FetchMoves ==
    ASSUME Types, NEW c \in Client, ClientInv(c), FetchReceive(c), ~late[c]
    PROVE  Moves(c) /\ strayed' = strayed
<1> DEFINE r == fetch[c].row
<1>1. Types /\ ClientInv(c)
  OBVIOUS
<1>2. /\ r \in Nat /\ r <= saved /\ ver[c] < r
      /\ ver' = [ver EXCEPT ![c] = r] /\ text' = [text EXCEPT ![c] = TextAt(r)]
      /\ pend' = pend
  BY <1>1, FetchLoads
<1>3. log' = log /\ typed' = typed /\ strayed' = strayed
  BY DEF FetchReceive, serverVars, counters
<1> HIDE DEF r
<1>4. /\ log \in Seq(Diff) /\ Len(log) \in Nat /\ saved \in Nat /\ saved <= Len(log)
      /\ ver[c] \in Nat /\ pend[c] \in Seq(Edit) /\ pend \in [Client -> Seq(Edit)]
  BY <1>1, Typed DEF Types
<1>5. TextAt(r) \in Seq(Edit)
  <2>1. r <= Len(log)
    BY <1>2, <1>4
  <2> QED
    BY <1>2, <1>4, <2>1, TextType
<1>6. pend' = [pend EXCEPT ![c] = pend[c]] /\ ver[c] <= r
  BY <1>2, <1>4
<1> QED
  BY <1>2, <1>3, <1>4, <1>5, <1>6 DEF Moves

\* The answer to a refetch is used by a browser that strays, or did before.
LEMMA FetchTurns ==
    ASSUME Types, NEW c \in Client, Plainly(c), FetchReceive(c), late[c] \/ c \in strayed
    PROVE  Turns(c)
<1>1. StaysPlain(c)
  BY FetchReceivePlain
<1>2. log' = log /\ \A d \in Client : d # c => text'[d] = text[d]
  BY <1>1 DEF StaysPlain, Local, OnlyOf, Keeps
<1>3. strayed' = IF late[c] THEN strayed \cup {c} ELSE strayed
  BY DEF FetchReceive
<1>4. strayed' = strayed \cup {c}
  BY <1>3
<1> QED
  BY <1>2, <1>4 DEF Turns

LEMMA Kinds ==
    ASSUME IInv, [Next]_vars
    PROVE  \/ strayed' = strayed /\ (LogOnly \/ \E c \in Client : Edits(c) \/ Moves(c))
           \/ \E c \in Client : Turns(c)
<1>0. Types /\ (\A c \in Client : Plainly(c)) /\ \A c \in Client \ strayed : ClientInv(c)
  BY DEF IInv
<1>1. CASE UNCHANGED vars
  BY <1>1 DEF vars, serverVars, copyVars, counters, history, LogOnly, CopyStays
<1>2. ASSUME NEW c \in Client, Type(c)
      PROVE  Edits(c) /\ strayed' = strayed
  BY <1>2 DEF Type, Edits, serverVars, history
<1>3. ASSUME NEW c \in Client, ServerReceive(c)
      PROVE  LogOnly /\ strayed' = strayed
  <2> DEFINE m == Head(up[c])
             l == [cid |-> c, rid |-> m.rid, edits |-> m.edits]
  <2>1. /\ ver' = ver /\ text' = text /\ pend' = pend /\ typed' = typed
        /\ strayed' = strayed
    BY <1>3 DEF ServerReceive, copyVars, counters, history
  <2>2. \/ log' = log
        \/ m.type = "diff" /\ log' = Append(log, l)
    BY <1>3 DEF ServerReceive, ServerCross, ServerSubscribe, ServerCheckVersion,
                ServerAccept, ServerOutdated
  <2>3. m \in UpMsg
    <3>1. up[c] \in Seq(UpMsg) /\ up[c] # <<>>
      BY <1>0, <1>3, Typed DEF ServerReceive
    <3> QED
      BY <3>1, HeadTailProperties
  <2>4. m.type = "diff" => l \in Diff
    <3> HIDE DEF m
    <3>1. m.type = "diff" => m.rid \in Nat /\ m.edits \in Seq(Edit)
      BY <2>3, UpTyped
    <3> QED
      BY <3>1 DEF Diff
  <2> QED
    BY <2>1, <2>2, <2>4 DEF LogOnly, CopyStays
<1>4. ASSUME NEW c \in Client, \/ Send(c) \/ SendTimeout(c) \/ CheckTimeout(c)
                               \/ FetchServe(c) \/ Connect(c) \/ Drop(c)
      PROVE  LogOnly /\ strayed' = strayed
  BY <1>4 DEF Send, SendTimeout, CheckTimeout, FetchServe, Connect, Drop, GoesOn, history,
              serverVars, copyVars, counters, LogOnly, CopyStays
<1>5. ASSUME NEW c \in Client, ClientReceive(c)
      PROVE  (LogOnly \/ Moves(c)) /\ strayed' = strayed
  BY <1>0, <1>5, ReceiveMoves
<1>6. ASSUME NEW c \in Client, FetchReceive(c)
      PROVE  (Moves(c) /\ strayed' = strayed) \/ Turns(c)
  <2>1. CASE late[c] \/ c \in strayed
    BY <1>0, <1>6, <2>1, FetchTurns
  <2>2. CASE ~late[c] /\ c \notin strayed
    BY <1>0, <1>6, <2>2, FetchMoves
  <2> QED
    BY <2>1, <2>2
<1>7. CASE Next
  BY <1>2, <1>3, <1>4, <1>5, <1>6, <1>7 DEF Next
<1> QED
  BY <1>1, <1>7

\* An accepted diff adds its edits to the text of the server.
LEMMA WholeAppend ==
    ASSUME log \in Seq(Diff), NEW l \in Diff, log' = Append(log, l)
    PROVE  /\ TextAt(Len(log)) \in Seq(Edit) /\ l.edits \in Seq(Edit)
           /\ TextAt(Len(log))' = TextAt(Len(log)) \o l.edits
<1>1. Len(log) \in Nat
  BY LenProperties
<1>2. PICK v \in Nat, w \in Nat : v = Len(log) /\ w = v + 1
  BY <1>1
<1> DEFINE s == [i \in 1 .. v |-> log[i].edits]
           t == [i \in 1 .. w |-> log'[i].edits]
<1>3. /\ Len(log') = w /\ log'[w] = l /\ \A i \in 1 .. v : log'[i] = log[i]
      /\ l.edits \in Seq(Edit)
  BY <1>1, <1>2, AppendProperties DEF Diff
<1>4. \A i \in 1 .. v : log[i].edits \in Seq(Edit)
  BY <1>2, LogEntries
<1>5. \A i \in 1 .. w : i \in 1 .. v \/ i = w
  BY <1>2
<1>6. \A i \in 1 .. w : log'[i].edits \in Seq(Edit)
  BY <1>3, <1>4, <1>5
<1>7. s \in Seq(Seq(Edit)) /\ Len(s) = v /\ t \in Seq(Seq(Edit)) /\ Len(t) = w
  <2>1. s \in [1 .. v -> Seq(Edit)] /\ t \in [1 .. w -> Seq(Edit)]
    BY <1>4, <1>6
  <2> HIDE DEF s, t
  <2>2. s \in Seq(Seq(Edit)) /\ Len(s) = v
    BY <2>1
  <2>3. t \in Seq(Seq(Edit)) /\ Len(t) = w
    BY <2>1
  <2> QED
    BY <2>2, <2>3
<1>8. /\ \A i \in 1 .. v : i \in 1 .. w /\ s[i] = t[i]
      /\ w \in 1 .. w
  BY <1>2, <1>3
<1>9. t[w] = l.edits
  BY <1>3, <1>8
<1>10. TextAt(Len(log)) = FlattenSeq(s) /\ TextAt(Len(log))' = FlattenSeq(t)
  BY <1>2, <1>3 DEF TextAt
<1> HIDE DEF s, t
<1>11. FlattenSeq(t) = FlattenSeq(s) \o t[w] /\ FlattenSeq(s) \in Seq(Edit)
  <2>1. v \in Nat /\ w \in Nat /\ w = v + 1 /\ \A i \in 1 .. v : s[i] = t[i]
    BY <1>2, <1>8
  <2> DEFINE T == Edit
  <2>2. s \in Seq(Seq(T)) /\ t \in Seq(Seq(T))
    BY <1>7
  <2> HIDE DEF T
  <2>3. OneMore(T, s, t, v, w)
    BY <1>7, <2>1, <2>2 DEF OneMore
  <2>4. FlattenSeq(t) = FlattenSeq(s) \o t[w] /\ FlattenSeq(s) \in Seq(T)
    BY <2>3, FlattenStep
  <2> QED
    BY <2>4 DEF T
<1> QED
  BY <1>3, <1>9, <1>10, <1>11

\* The text of the server only grows.
LEMMA WholeGrows ==
    ASSUME log \in Seq(Diff), log' = log \/ \E l \in Diff : log' = Append(log, l)
    PROVE  /\ TextAt(Len(log)) \in Seq(Edit) /\ TextAt(Len(log))' \in Seq(Edit)
           /\ IsPrefix(TextAt(Len(log)), TextAt(Len(log))')
<1>1. Len(log) \in Nat
  BY LenProperties
<1>2. TextAt(Len(log)) \in Seq(Edit)
  <2>1. Len(log) <= Len(log)
    BY <1>1
  <2> QED
    BY <1>1, <2>1, TextType
<1>3. CASE log' = log
  <2>1. TextAt(Len(log))' = TextAt(Len(log))
    BY <1>3 DEF TextAt
  <2>2. IsPrefix(TextAt(Len(log)), TextAt(Len(log)))
    BY <1>2, PrefixElements, LenProperties
  <2> QED
    BY <1>2, <2>1, <2>2
<1>4. CASE \E l \in Diff : log' = Append(log, l)
  <2>1. PICK l \in Diff : log' = Append(log, l)
    BY <1>4
  <2>2. /\ TextAt(Len(log))' = TextAt(Len(log)) \o l.edits /\ l.edits \in Seq(Edit)
        /\ TextAt(Len(log)) \o l.edits \in Seq(Edit)
    BY <1>2, <2>1, WholeAppend, ConcatProperties
  <2>3. IsPrefix(TextAt(Len(log)), TextAt(Len(log)))
    BY <1>2, PrefixElements, LenProperties
  <2> QED
    BY <1>2, <2>2, <2>3, PrefixConcat
<1> QED
  BY <1>3, <1>4

\* What a client has is a beginning of what the server has.
LEMMA CopyWithin ==
    ASSUME Types, NEW c \in Client, Current(c)
    PROVE  IsPrefix(text[c], TextAt(Len(log))) /\ TextAt(Len(log)) \in Seq(Edit)
<1>1. /\ log \in Seq(Diff) /\ ver[c] \in Nat /\ Len(log) \in Nat
      /\ ver[c] <= Len(log) /\ text[c] = TextAt(ver[c])
  BY Typed DEF Current
<1>2. Len(log) <= Len(log)
  BY <1>1
<1> QED
  BY <1>1, <1>2, TextGrows, TextType

LEMMA KeepsAll ==
    ASSUME IInv, IInv', [Next]_vars, NothingDropped, strayed = {}, strayed' = {}
    PROVE  NothingDropped'
<1>1. Types /\ Types' /\ \A c \in Client : Current(c) /\ Current(c)'
  BY DEF IInv, ClientInv
<1> DEFINE whole == TextAt(Len(log))
<1>2. log \in Seq(Diff) /\ pend \in [Client -> Seq(Edit)] /\ typed \in Nat
      /\ pend' \in [Client -> Seq(Edit)]
  BY <1>1 DEF Types
<1>3. \A e \in 1 .. typed : e \in Range(whole) \/ \E c \in Client : e \in Range(pend[c])
  BY DEF NothingDropped
<1>4. CASE LogOnly
  <2>1. whole \in Seq(Edit) /\ whole' \in Seq(Edit) /\ IsPrefix(whole, whole')
    BY <1>2, <1>4, WholeGrows DEF LogOnly
  <2>2. pend' = pend /\ typed' = typed
    BY <1>4 DEF LogOnly, CopyStays
  <2> HIDE DEF whole
  <2>3. Range(whole) \subseteq Range(whole')
    BY <2>1, RangePrefix
  <2>4. \A e \in 1 .. typed' : e \in Range(whole') \/ \E c \in Client : e \in Range(pend'[c])
    BY <1>3, <2>2, <2>3
  <2> QED
    BY <2>4 DEF NothingDropped, whole
<1>5. ASSUME NEW c \in Client, Edits(c)
      PROVE  NothingDropped'
  <2>1. whole' = whole
    BY <1>5 DEF Edits, TextAt
  <2>2. /\ pend' = [pend EXCEPT ![c] = Append(@, typed + 1)] /\ typed' = typed + 1
        /\ typed + 1 \in Edit
    BY <1>2, <1>5, NumberAssumption DEF Edits, Type, Edit
  <2>3. Range(pend'[c]) = Range(pend[c]) \cup {typed'} /\ \A d \in Client : d # c => pend'[d] = pend[d]
    BY <1>2, <2>2, RangeAppend
  <2>4. \A e \in 1 .. typed' : e \in 1 .. typed \/ e = typed'
    BY <1>2, <2>2
  <2> HIDE DEF whole
  <2>5. \A e \in 1 .. typed' : e \in Range(whole') \/ \E d \in Client : e \in Range(pend'[d])
    BY <1>3, <2>1, <2>3, <2>4
  <2> QED
    BY <2>5 DEF NothingDropped, whole
<1>6. ASSUME NEW c \in Client, Moves(c)
      PROVE  NothingDropped'
  <2>1. PICK v \in Nat, t \in Seq(Edit), p \in Seq(Edit) :
           /\ text' = [text EXCEPT ![c] = t] /\ pend' = [pend EXCEPT ![c] = p]
           /\ Range(pend[c]) \subseteq Range(p) \cup Range(t)
    BY <1>6 DEF Moves
  <2>2. log' = log /\ typed' = typed
    BY <1>6 DEF Moves
  <2>3. whole' = whole
    BY <2>2 DEF TextAt
  <2>4. text \in [Client -> Seq(Edit)]
    BY <1>1 DEF Types
  <2>5. text'[c] = t /\ pend'[c] = p /\ \A d \in Client : d # c => pend'[d] = pend[d]
    BY <1>2, <2>1, <2>4
  <2>6. PICK u \in Nat : u = ver'[c]
    BY <1>1 DEF Types
  <2>7. text'[c] = TextAt(u)' /\ u <= Len(log)
    BY <1>1, <2>2, <2>6 DEF Current
  <2>8. TextAt(u)' = TextAt(u)
    BY <2>2 DEF TextAt
  <2>9. IsPrefix(t, whole) /\ whole \in Seq(Edit)
    <3>1. Len(log) \in Nat /\ Len(log) <= Len(log)
      BY <1>2, LenProperties
    <3> QED
      BY <1>2, <2>5, <2>7, <2>8, <3>1, TextGrows, TextType
  <2> HIDE DEF whole
  <2>10. Range(t) \subseteq Range(whole)
    BY <2>9, RangePrefix
  <2>11. \A e \in 1 .. typed' : e \in Range(whole') \/ \E d \in Client : e \in Range(pend'[d])
    <3> TAKE e \in 1 .. typed'
    <3>1. CASE e \in Range(whole)
      BY <2>3, <3>1
    <3>2. CASE \E d \in Client : e \in Range(pend[d])
      <4>1. PICK d \in Client : e \in Range(pend[d])
        BY <3>2
      <4> QED
        BY <2>1, <2>3, <2>5, <2>10, <4>1
    <3> QED
      BY <1>3, <2>2, <3>1, <3>2
  <2> QED
    BY <2>11 DEF NothingDropped, whole
<1>7. ASSUME NEW c \in Client
      PROVE  ~Turns(c)
  BY DEF Turns
<1> QED
  BY <1>4, <1>5, <1>6, <1>7, Kinds

\* What was typed is in the text of the server or still pending: no rejection,
\* no refetch that is answered in time and no lost connection drops it.
THEOREM KeepsWhatIsTyped == Spec => []NothingDropped
<1>1. Init => NothingDropped
  BY DEF Init, NothingDropped
<1>2. ASSUME IInv, IInv', [Next]_vars, NothingDropped
      PROVE  NothingDropped'
  <2>1. CASE strayed' # {}
    BY <2>1 DEF NothingDropped
  <2>2. CASE strayed' = {}
    <3>1. strayed = {}
      BY <1>2, <2>2, NextStep
    <3> QED
      BY <1>2, <2>2, <3>1, KeepsAll
  <2> QED
    BY <2>1, <2>2
<1> QED
  BY <1>1, <1>2, Always, PTL DEF Spec

-----------------------------------------------------------------------------
(* One text that only grows.                                               *)

LEMMA SharedStep ==
    ASSUME IInv, IInv', [Next]_vars
    PROVE  [Shared!SharedNext]_(Shared!sharedVars)
<1>1. /\ Types /\ Types' /\ \A c \in Client \ strayed : Current(c)
      /\ \A c \in Client \ strayed' : Current(c)'
  BY DEF IInv, ClientInv
<1> DEFINE whole == TextAt(Len(log))
<1>2. log \in Seq(Diff) /\ Len(log) \in Nat /\ Len(log) <= Len(log)
      /\ text \in [Client -> Seq(Edit)]
  BY <1>1, LenProperties DEF Types
<1>3. CASE LogOnly /\ strayed' = strayed
  <2>1. whole \in Seq(Edit) /\ whole' \in Seq(Edit) /\ IsPrefix(whole, whole')
    BY <1>2, <1>3, WholeGrows DEF LogOnly
  <2>2. text' = text /\ strayed' = strayed
    BY <1>3 DEF LogOnly, CopyStays
  <2> HIDE DEF whole
  <2>3. Len(whole) <= Len(whole') /\ SubSeq(whole', 1, Len(whole)) = whole
    BY <2>1, PrefixElements, PrefixSplit
  <2> QED
    BY <2>2, <2>3 DEF Shared!SharedNext, Shared!Write, Shared!Extends, whole
<1>4. ASSUME NEW c \in Client, Edits(c), strayed' = strayed
      PROVE  UNCHANGED Shared!sharedVars
  BY <1>4 DEF Edits, TextAt, Shared!sharedVars
<1>5. ASSUME NEW c \in Client \ strayed, Moves(c), strayed' = strayed
      PROVE  Shared!SharedNext
  <2>1. PICK v \in Nat, t \in Seq(Edit) :
           /\ ver' = [ver EXCEPT ![c] = v] /\ text' = [text EXCEPT ![c] = t] /\ ver[c] <= v
    BY <1>5 DEF Moves
  <2>2. log' = log /\ whole' = whole
    BY <1>5 DEF Moves, TextAt
  <2>3. ver \in [Client -> Nat]
    BY <1>1 DEF Types
  <2>4. /\ text'[c] = t /\ ver'[c] = v
        /\ [d \in Client \ strayed' |-> text'[d]]
             = [[d \in Client \ strayed |-> text[d]] EXCEPT ![c] = t]
    BY <1>2, <1>5, <2>1, <2>3
  <2>5. t = TextAt(v)' /\ v <= Len(log)
    BY <1>1, <1>5, <2>2, <2>4 DEF Current
  <2>6. t = TextAt(v)
    BY <2>2, <2>5 DEF TextAt
  <2>7. PICK u \in Nat : u = ver[c]
    BY <2>3
  <2>8. text[c] = TextAt(u) /\ u <= v /\ u <= Len(log)
    BY <1>1, <1>5, <2>1, <2>7 DEF Current
  <2>9. /\ IsPrefix(text[c], t) /\ IsPrefix(t, whole)
        /\ text[c] \in Seq(Edit) /\ whole \in Seq(Edit)
    BY <1>2, <2>5, <2>6, <2>8, TextGrows, TextType
  <2> HIDE DEF whole
  <2>10. /\ Len(text[c]) <= Len(t) /\ SubSeq(t, 1, Len(text[c])) = text[c]
         /\ Len(t) <= Len(whole) /\ SubSeq(whole, 1, Len(t)) = t
    BY <2>9, PrefixElements, PrefixSplit
  <2>11. Shared!Read(c)
    BY <1>5, <2>1, <2>2, <2>4, <2>10 DEF Shared!Read, Shared!Extends, whole
  <2> QED
    BY <1>5, <2>11 DEF Shared!SharedNext
<1>6. ASSUME NEW c \in strayed, Moves(c), strayed' = strayed
      PROVE  UNCHANGED Shared!sharedVars
  <2>1. PICK t \in Seq(Edit) : text' = [text EXCEPT ![c] = t]
    BY <1>6 DEF Moves
  <2>2. log' = log
    BY <1>6 DEF Moves
  <2>3. [d \in Client \ strayed' |-> text'[d]] = [d \in Client \ strayed |-> text[d]]
    BY <1>2, <1>6, <2>1
  <2> QED
    BY <1>6, <2>2, <2>3 DEF TextAt, Shared!sharedVars
<1>7. ASSUME NEW c \in Client, Turns(c)
      PROVE  [Shared!SharedNext]_(Shared!sharedVars)
  <2>1. /\ whole' = whole /\ strayed' = strayed \cup {c}
        /\ \A d \in Client : d # c => text'[d] = text[d]
    BY <1>7 DEF Turns, TextAt
  <2> HIDE DEF whole
  <2>2. CASE c \in strayed
    <3>1. strayed' = strayed
      BY <2>1, <2>2
    <3>2. [d \in Client \ strayed' |-> text'[d]] = [d \in Client \ strayed |-> text[d]]
      BY <2>1, <2>2, <3>1
    <3> QED
      BY <2>1, <3>1, <3>2 DEF Shared!sharedVars, whole
  <2>3. CASE c \notin strayed
    <3> DEFINE before == [d \in Client \ strayed |-> text[d]]
    <3>1. Client \ strayed' = (Client \ strayed) \ {c}
      BY <2>1
    <3>2. [d \in Client \ strayed' |-> text'[d]] = [d \in Client \ strayed' |-> before[d]]
      BY <2>1, <3>1
    <3>3. Shared!LoseTrack(c)
      BY <2>1, <3>1, <3>2 DEF Shared!LoseTrack, whole
    <3> QED
      BY <1>7, <2>3, <3>3 DEF Shared!SharedNext
  <2> QED
    BY <2>2, <2>3
<1> QED
  BY <1>3, <1>4, <1>5, <1>6, <1>7, Kinds

\* The exchange of diffs implements one text that only grows and of which
\* every browser has a beginning: nothing confirmed is taken back or changed,
\* except in a browser that strayed, and that changes nothing for the others.
THEOREM ImplementsShared == Spec => RefinesShared
<1>1. Init => Shared!SharedInit
  <2> SUFFICES ASSUME Init PROVE Shared!SharedInit
    OBVIOUS
  <2>1. log = <<>> /\ Len(log) = 0 /\ text = [c \in Client |-> <<>>] /\ strayed = {}
    BY EmptySeq DEF Init
  <2>2. [i \in 1 .. 0 |-> log[i].edits] = <<>>
    OBVIOUS
  <2>3. TextAt(Len(log)) = <<>>
    BY <2>1, <2>2, EmptySeq DEF TextAt, FlattenSeq
  <2>4. Client \ strayed = Client
    BY <2>1
  <2>5. [c \in Client \ strayed |-> text[c]] = [c \in Client |-> <<>>]
    BY <2>1, <2>4
  <2> QED
    BY <2>3, <2>4, <2>5 DEF Shared!SharedInit
<1>2. IInv /\ IInv' /\ [Next]_vars => [Shared!SharedNext]_(Shared!sharedVars)
  BY SharedStep
<1> QED
  BY <1>1, <1>2, Always, PTL DEF Spec, RefinesShared, Shared!SharedSpec

-----------------------------------------------------------------------------
(* Unless the news of acceptance is lost, no edit gets into the text twice. *)

\* Edits are told apart by where they are: in the text once, pending with one
\* client; those in both places are in the next diff of that client.
Singles ==
    /\ Distinct(TextAt(Len(log)))
    /\ \A e \in Range(TextAt(Len(log))) : e <= typed
    /\ \A c \in Client : /\ Distinct(pend[c])
                         /\ \A e \in Range(pend[c]) : e <= typed
    /\ \A c, d \in Client : c # d => Range(pend[c]) \cap Range(pend[d]) = {}
    /\ \A c \in Client : \A e \in Range(pend[c]) :
          e \in Range(TextAt(Len(log))) => /\ OwnNext(c)
                                           /\ e \in Range(log[ver[c] + 1].edits)

\* The sender of an accepted diff is going to be told.
ToldSoon(c) == OwnNext(c) => \E i \in 1 .. Len(down[c]) : Confirms(c, down[c][i])

OnceEach == Singles /\ \A c \in Client : ToldSoon(c)
OnceInv == unheard \/ strayed # {} \/ OnceEach

\* The copy of c goes on, past its own diff if that is the next one.
Onward(c) ==
    /\ log' = log /\ typed' = typed
    /\ \A d \in Client : d # c => ver'[d] = ver[d] /\ pend'[d] = pend[d]
    /\ ~OwnNext(c)'
    /\ \/ ~OwnNext(c) /\ pend'[c] = pend[c]
       \/ LET own == log[ver[c] + 1].edits
          IN  /\ own \in Seq(Edit) /\ IsPrefix(own, pend[c])
              /\ OwnNext(c) /\ pend'[c] = SubSeq(pend[c], Len(own) + 1, Len(pend[c]))

LEMMA SinglesSame ==
    ASSUME Singles, log' = log, ver' = ver, pend' = pend, typed' = typed
    PROVE  Singles'
  BY DEF Singles, TextAt, OwnNext

LEMMA SinglesOnward ==
    ASSUME Types, Singles, NEW c \in Client, Onward(c)
    PROVE  Singles'
<1> DEFINE whole == TextAt(Len(log))
           own == log[ver[c] + 1].edits
<1>1. log' = log /\ typed' = typed /\ whole' = whole
  BY DEF Onward, TextAt
<1>2. \A d \in Client : d # c =>
          /\ ver'[d] = ver[d] /\ pend'[d] = pend[d] /\ (OwnNext(d)' <=> OwnNext(d))
  BY DEF Onward, OwnNext
<1>3. pend[c] \in Seq(Edit)
  BY Typed
<1>4. Distinct(pend[c]) /\ \A e \in Range(pend[c]) : e <= typed
  BY DEF Singles
<1>5. \A e \in Range(pend[c]) : e \in Range(whole) => OwnNext(c) /\ e \in Range(own)
  BY DEF Singles
<1> HIDE DEF whole
<1>6. /\ Distinct(pend'[c]) /\ Range(pend'[c]) \subseteq Range(pend[c])
      /\ \A e \in Range(pend'[c]) : e \notin Range(whole)
  <2>1. CASE ~OwnNext(c) /\ pend'[c] = pend[c]
    BY <1>4, <1>5, <2>1
  <2>2. CASE /\ own \in Seq(Edit) /\ IsPrefix(own, pend[c])
             /\ OwnNext(c) /\ pend'[c] = SubSeq(pend[c], Len(own) + 1, Len(pend[c]))
    <3> HIDE DEF own
    <3>1. /\ Distinct(pend'[c]) /\ Range(pend'[c]) \subseteq Range(pend[c])
          /\ Range(own) \cap Range(pend'[c]) = {}
      BY <1>3, <1>4, <2>2, DistinctSplit
    <3> QED
      BY <1>5, <3>1
  <2> QED
    BY <2>1, <2>2 DEF Onward
<1>7. Distinct(whole') /\ \A e \in Range(whole') : e <= typed'
  BY <1>1 DEF Singles, whole
<1>8. \A d \in Client : Distinct(pend'[d]) /\ \A e \in Range(pend'[d]) : e <= typed'
  BY <1>1, <1>2, <1>4, <1>6 DEF Singles
<1>9. ASSUME NEW d \in Client, NEW b \in Client, b # d
      PROVE  Range(pend'[b]) \cap Range(pend'[d]) = {}
  <2>1. Range(pend[b]) \cap Range(pend[d]) = {}
    BY <1>9 DEF Singles
  <2>2. Range(pend'[b]) \subseteq Range(pend[b]) /\ Range(pend'[d]) \subseteq Range(pend[d])
    BY <1>2, <1>6
  <2> QED
    BY <2>1, <2>2
<1>10. ASSUME NEW d \in Client, NEW e \in Range(pend'[d]), e \in Range(whole')
       PROVE  OwnNext(d)' /\ e \in Range(log'[ver'[d] + 1].edits)
  <2>1. d # c
    BY <1>1, <1>6, <1>10
  <2>2. ver'[d] = ver[d] /\ pend'[d] = pend[d] /\ (OwnNext(d)' <=> OwnNext(d))
    BY <1>2, <2>1
  <2>3. OwnNext(d) /\ e \in Range(log[ver[d] + 1].edits)
    BY <1>1, <1>10, <2>2 DEF Singles, whole
  <2> QED
    BY <1>1, <2>2, <2>3
<1> QED
  BY <1>7, <1>8, <1>9, <1>10 DEF Singles, whole

\* A new edit is nowhere yet.
LEMMA SinglesType ==
    ASSUME Types, Singles, NEW c \in Client, Edits(c)
    PROVE  Singles'
<1> DEFINE whole == TextAt(Len(log))
           n == typed + 1
<1>1. log' = log /\ ver' = ver /\ whole' = whole
  BY DEF Edits, TextAt
<1>2. /\ pend' = [pend EXCEPT ![c] = Append(@, n)] /\ typed' = n /\ n \in Edit
      /\ typed \in Nat /\ n \in Nat /\ typed < n
      /\ pend \in [Client -> Seq(Edit)] /\ pend[c] \in Seq(Edit)
  BY NumberAssumption, Typed DEF Edits, Type, Edit, Types
<1> HIDE DEF n
<1>3. /\ pend'[c] = pend[c] \o <<n>> /\ Range(pend'[c]) = Range(pend[c]) \cup {n}
      /\ \A d \in Client : d # c => pend'[d] = pend[d]
  BY <1>2, RangeAppend, AppendIsConcat
<1>4. ASSUME NEW q \in Seq(Edit)
      PROVE  \A e \in Range(q) : e \in Nat
  <2>1. DOMAIN q = 1 .. Len(q) /\ \A i \in 1 .. Len(q) : q[i] \in Edit
    BY LenProperties, ElementOfSeq
  <2>2. \A e \in Edit : e \in Nat
    BY DEF Edit
  <2> QED
    BY <2>1, <2>2 DEF Range
<1>5. whole \in Seq(Edit)
  <2>1. log \in Seq(Diff) /\ Len(log) \in Nat /\ Len(log) <= Len(log)
    BY Typed
  <2> QED
    BY <2>1, TextType
<1> HIDE DEF whole
<1>6. \A q \in Seq(Edit) : (\A e \in Range(q) : e <= typed)
          => n \notin Range(q) /\ \A e \in Range(q) : e <= n
  BY <1>2, <1>4
<1>7. \A e \in Range(whole) : e <= typed
  BY DEF Singles, whole
<1>8. n \notin Range(whole) /\ \A e \in Range(whole) : e <= n
  BY <1>5, <1>6, <1>7
<1>9. ASSUME NEW d \in Client
      PROVE  n \notin Range(pend[d]) /\ \A e \in Range(pend[d]) : e <= n
  <2>1. pend[d] \in Seq(Edit) /\ \A e \in Range(pend[d]) : e <= typed
    BY <1>2 DEF Singles
  <2> QED
    BY <1>6, <2>1
<1>10. Distinct(pend'[c])
  <2>1. <<n>> \in Seq(Edit) /\ Distinct(<<n>>) /\ Range(<<n>>) = {n}
    BY <1>2 DEF Distinct, Range
  <2>2. Distinct(pend[c])
    BY DEF Singles
  <2>3. Range(pend[c]) \cap Range(<<n>>) = {}
    BY <1>9, <2>1
  <2> QED
    <3>1. Distinct(pend[c] \o <<n>>)
      BY <1>2, <2>1, <2>2, <2>3, DistinctConcat
    <3> QED
      BY <1>3, <3>1
<1>11. Distinct(whole') /\ \A e \in Range(whole') : e <= typed'
  <2>1. Distinct(whole)
    BY DEF Singles, whole
  <2> QED
    BY <1>1, <1>2, <1>8, <2>1
<1>12. ASSUME NEW d \in Client
       PROVE  Distinct(pend'[d]) /\ \A e \in Range(pend'[d]) : e <= typed'
  <2>1. n <= n
    BY <1>2
  <2>2. Distinct(pend[d])
    BY DEF Singles
  <2> QED
    BY <1>2, <1>3, <1>9, <1>10, <2>1, <2>2
<1>13. ASSUME NEW b \in Client, NEW d \in Client, b # d
       PROVE  Range(pend'[b]) \cap Range(pend'[d]) = {}
  <2>1. Range(pend[b]) \cap Range(pend[d]) = {}
    BY <1>13 DEF Singles
  <2> QED
    BY <1>3, <1>9, <1>13, <2>1
<1>14. ASSUME NEW d \in Client, NEW e \in Range(pend'[d]), e \in Range(whole')
       PROVE  OwnNext(d)' /\ e \in Range(log'[ver'[d] + 1].edits)
  <2>1. e \in Range(pend[d])
    BY <1>1, <1>3, <1>8, <1>14
  <2>2. OwnNext(d) /\ e \in Range(log[ver[d] + 1].edits)
    BY <1>1, <1>14, <2>1 DEF Singles, whole
  <2> QED
    BY <1>1, <2>2 DEF OwnNext
<1> QED
  BY <1>11, <1>12, <1>13, <1>14 DEF Singles, whole

LEMMA SinglesAccept ==
    ASSUME Types, Singles, NEW c \in Client, NEW l \in Diff,
           \A d \in Client : ver[d] <= Len(log),
           log' = Append(log, l), ver' = ver, pend' = pend, typed' = typed,
           l.cid = c, ver[c] = Len(log), IsPrefix(l.edits, pend[c])
    PROVE  Singles'
<1> DEFINE whole == TextAt(Len(log))
<1>1. whole \in Seq(Edit) /\ l.edits \in Seq(Edit) /\ whole' = whole \o l.edits
  BY WholeAppend DEF Types
<1>2. log \in Seq(Diff) /\ Len(log) \in Nat /\ pend[c] \in Seq(Edit)
  BY Typed
<1> HIDE DEF whole
<1>3. Range(whole') = Range(whole) \cup Range(l.edits)
  BY <1>1, RangeConcat
<1>4. ~OwnNext(c)
  BY <1>2 DEF OwnNext
<1>5. Distinct(pend[c]) /\ \A e \in Range(pend[c]) : e <= typed /\ e \notin Range(whole)
  BY <1>4 DEF Singles, whole
<1>6. Distinct(l.edits) /\ Range(l.edits) \subseteq Range(pend[c])
  BY <1>1, <1>2, <1>5, DistinctSplit
<1>7. Distinct(whole)
  BY DEF Singles, whole
<1>8. Distinct(whole')
  <2>1. Range(whole) \cap Range(l.edits) = {}
    BY <1>5, <1>6
  <2>2. Distinct(whole \o l.edits)
    BY <1>1, <1>6, <1>7, <2>1, DistinctConcat
  <2> QED
    BY <1>1, <2>2
<1>9. \A e \in Range(whole') : e <= typed'
  BY <1>3, <1>5, <1>6 DEF Singles, whole
<1>10. ASSUME NEW d \in Client, NEW e \in Range(pend[d]), e \in Range(whole')
       PROVE  OwnNext(d)' /\ e \in Range(log'[ver'[d] + 1].edits)
  <2>1. /\ Len(log') = Len(log) + 1 /\ log'[Len(log) + 1] = l
        /\ \A i \in 1 .. Len(log) : log'[i] = log[i]
    BY <1>2, AppendProperties
  <2>2. ver[d] \in Nat
    BY Typed
  <2>3. CASE e \in Range(whole)
    <3>1. OwnNext(d) /\ e \in Range(log[ver[d] + 1].edits)
      BY <2>3 DEF Singles, whole
    <3>2. ver[d] + 1 \in 1 .. Len(log) /\ ver[d] < Len(log')
      BY <1>2, <2>1, <2>2, <3>1 DEF OwnNext
    <3>3. log'[ver[d] + 1] = log[ver[d] + 1]
      BY <2>1, <3>2
    <3> QED
      BY <3>1, <3>2, <3>3 DEF OwnNext
  <2>4. CASE e \in Range(l.edits)
    <3>1. d = c
      <4>1. e \in Range(pend[c])
        BY <1>6, <2>4
      <4> QED
        BY <4>1 DEF Singles
    <3>2. Len(log) < Len(log')
      BY <1>2, <2>1
    <3> QED
      BY <2>1, <2>4, <3>1, <3>2 DEF OwnNext
  <2> QED
    BY <1>3, <1>10, <2>3, <2>4
<1>11. /\ \A d \in Client : Distinct(pend'[d]) /\ \A e \in Range(pend'[d]) : e <= typed'
       /\ \A b, d \in Client : b # d => Range(pend'[b]) \cap Range(pend'[d]) = {}
  BY DEF Singles
<1>12. \A d \in Client : \A e \in Range(pend'[d]) : e \in Range(whole') =>
            OwnNext(d)' /\ e \in Range(log'[ver'[d] + 1].edits)
  BY <1>10
<1> QED
  BY <1>8, <1>9, <1>11, <1>12 DEF Singles, whole

\* Messages that are added take no confirmation away.
LEMMA TellsStill ==
    ASSUME Types, NEW d \in Client, ToldSoon(d), OwnNext(d)' => OwnNext(d),
           NEW out \in Seq(DownMsg), down'[d] = down[d] \o out
    PROVE  ToldSoon(d)'
<1>1. down[d] \in Seq(DownMsg) /\ Len(down[d]) \in Nat /\ Len(out) \in Nat
  BY Typed, LenProperties
<1>2. /\ Len(down'[d]) = Len(down[d]) + Len(out)
      /\ \A i \in 1 .. Len(down[d]) : i \in 1 .. Len(down'[d]) /\ down'[d][i] = down[d][i]
  BY <1>1, ConcatProperties
<1> QED
  BY <1>2 DEF ToldSoon, Confirms

\* The copy goes on by a diff or a confirmation.
LEMMA NotOwn ==
    ASSUME Types, NEW c \in Client, ClientInv(c), log' = log, ver'[c] = ver[c] + 1
    PROVE  ~OwnNext(c)'
<1>1. ver[c] \in Nat /\ Len(log) \in Nat
  BY Typed
<1>2. \A k \in ver[c] + 2 .. Len(log) : log[k].cid # c
  BY DEF ClientInv, Own
<1>3. ver'[c] < Len(log) => ver'[c] + 1 \in ver[c] + 2 .. Len(log)
  BY <1>1
<1> QED
  BY <1>2, <1>3 DEF OwnNext

LEMMA ReceiveOnward ==
    ASSUME Types, NEW c \in Client, ClientInv(c), ClientReceive(c)
    PROVE  \/ Onward(c)
           \/ /\ log' = log /\ ver' = ver /\ pend' = pend /\ typed' = typed
              /\ ~Confirms(c, down[c][1])
<1> DEFINE m == down[c][1]
<1>1. /\ Types /\ ClientInv(c) /\ log' = log /\ typed' = typed /\ Head(down[c]) = m
      /\ m \in DownMsg /\ 1 \in 1 .. Len(down[c])
  BY ReceiveFrame
<1>2. \/ ReceiveSubscribed(c, m) \/ ReceiveConnections(c, m)
      \/ ReceiveConfirmVersion(c, m) \/ ReceiveConfirmDiff(c, m)
      \/ ReceiveRejectDiff(c, m) \/ ReceiveDiff(c, m) \/ ReceiveRefetch(c, m)
  BY <1>1 DEF ClientReceive
<1>3. ver \in [Client -> Nat] /\ pend \in [Client -> Seq(Edit)]
  BY <1>1 DEF Types
<1>4. ASSUME Confirms(c, m), ConfirmDiff(c, m.rid)
      PROVE  Onward(c)
  <2> DEFINE own == log[ver[c] + 1].edits
             rest == SubSeq(pend[c], Len(own) + 1, Len(pend[c]))
  <2>1. /\ OwnNext(c) /\ IsPrefix(own, pend[c]) /\ own \in Seq(Edit) /\ rest \in Seq(Edit)
        /\ ver' = [ver EXCEPT ![c] = ver[c] + 1] /\ pend' = [pend EXCEPT ![c] = rest]
    BY <1>1, <1>4, ConfirmCopy
  <2> HIDE DEF own, rest
  <2>2. /\ ver'[c] = ver[c] + 1 /\ pend'[c] = rest
        /\ \A d \in Client : d # c => ver'[d] = ver[d] /\ pend'[d] = pend[d]
    BY <1>3, <2>1
  <2>3. ~OwnNext(c)'
    BY <1>1, <2>2, NotOwn
  <2> QED
    BY <1>1, <2>1, <2>2, <2>3 DEF Onward, own, rest
<1>5. CASE ReceiveConfirmDiff(c, m)
  BY <1>4, <1>5 DEF ReceiveConfirmDiff, Confirms
<1>6. CASE ReceiveDiff(c, m)
  <2>1. CASE m.cid = c
    BY <1>4, <1>6, <2>1 DEF ReceiveDiff, Confirms
  <2>2. CASE m.cid # c /\ ~Fits(c, m)
    BY <1>1, <1>6, <2>2 DEF ReceiveDiff, copyVars, Confirms
  <2>3. CASE m.cid # c /\ Fits(c, m)
    <3>1. SetCopy(c, [ver |-> ver[c] + 1, text |-> text[c] \o m.edits, pend |-> pend[c]])
      BY <1>6, <2>3 DEF ReceiveDiff, Applied, Copy
    <3>2. ver' = [ver EXCEPT ![c] = ver[c] + 1] /\ pend' = [pend EXCEPT ![c] = pend[c]]
      BY <3>1 DEF SetCopy
    <3>3. /\ ver'[c] = ver[c] + 1 /\ pend'[c] = pend[c]
          /\ \A d \in Client : d # c => ver'[d] = ver[d] /\ pend'[d] = pend[d]
      BY <1>3, <3>2
    <3>4. m.type = "diff" /\ m.v = ver[c]
      BY <1>6, <2>3 DEF ReceiveDiff, Fits
    <3>5. log[m.v + 1] = [cid |-> m.cid, rid |-> m.rid, edits |-> m.edits]
      BY <1>1, <3>4 DEF ClientInv, Incoming
    <3>6. log[ver[c] + 1].cid = m.cid
      BY <3>4, <3>5
    <3>7. ~OwnNext(c) /\ ~OwnNext(c)'
      BY <1>1, <2>3, <3>3, <3>6, NotOwn DEF OwnNext
    <3> QED
      BY <1>1, <3>3, <3>7 DEF Onward
  <2> QED
    BY <2>1, <2>2, <2>3
<1>7. CASE \/ ReceiveSubscribed(c, m) \/ ReceiveConnections(c, m)
           \/ ReceiveConfirmVersion(c, m) \/ ReceiveRejectDiff(c, m) \/ ReceiveRefetch(c, m)
  BY <1>1, <1>7 DEF ReceiveSubscribed, ReceiveConnections, ReceiveConfirmVersion,
                    ReceiveRejectDiff, ReceiveRefetch, copyVars, Confirms
<1> QED
  BY <1>2, <1>5, <1>6, <1>7

LEMMA FetchOnward ==
    ASSUME Types, NEW c \in Client, ClientInv(c), ToldSoon(c), FetchReceive(c), ~late[c]
    PROVE  Onward(c)
<1> DEFINE r == fetch[c].row
<1>1. /\ fetch[c].open /\ r \in Nat /\ r <= saved
      /\ \A k \in r + 1 .. Len(log) : log[k].cid # c
      /\ ver' = [ver EXCEPT ![c] = r] /\ pend' = pend
  BY FetchLoads
<1>2. log' = log /\ typed' = typed
  BY DEF FetchReceive, serverVars, counters
<1> HIDE DEF r
<1>3. ver \in [Client -> Nat] /\ Len(log) \in Nat
  BY Typed DEF Types
<1>4. ~OwnNext(c)
  BY <1>1 DEF ToldSoon, ClientInv, Incoming, Waits
<1>5. ver'[c] = r /\ \A d \in Client : d # c => ver'[d] = ver[d]
  BY <1>1, <1>3
<1>6. ~OwnNext(c)'
  <2>1. r < Len(log) => r + 1 \in r + 1 .. Len(log)
    BY <1>1, <1>3
  <2> QED
    BY <1>1, <1>2, <1>5, <2>1 DEF OwnNext
<1> QED
  BY <1>1, <1>2, <1>4, <1>5, <1>6 DEF Onward

LEMMA OnceReceive ==
    ASSUME Types, OnceEach, NEW c \in Client, ClientInv(c), ClientReceive(c)
    PROVE  OnceEach'
<1>1. /\ Types /\ ClientInv(c) /\ down[c] # <<>> /\ down'[c] = Tail(down[c])
      /\ \A d \in Client : d # c => down'[d] = down[d]
      /\ log' = log
  BY ReceiveFrame
<1>3. Singles'
  BY <1>1, ReceiveOnward, SinglesSame, SinglesOnward DEF OnceEach
<1>4. ASSUME NEW d \in Client
      PROVE  ToldSoon(d)'
  <2>1. CASE d # c
    <3>1. down'[d] = down[d] /\ ver'[d] = ver[d]
      BY <1>1, <2>1, ReceiveOnward DEF Onward
    <3> QED
      BY <1>1, <3>1 DEF ToldSoon, OwnNext, Confirms, OnceEach
  <2>2. CASE d = c /\ Onward(c)
    BY <2>2 DEF Onward, ToldSoon
  <2>3. CASE d = c /\ ver' = ver /\ ~Confirms(c, down[c][1])
    <3> SUFFICES ASSUME OwnNext(c)
                 PROVE  \E i \in 1 .. Len(down'[c]) : Confirms(c, down'[c][i])
      BY <1>1, <2>3 DEF ToldSoon, OwnNext, Confirms
    <3>1. PICK i \in 1 .. Len(down[c]) : Confirms(c, down[c][i])
      BY DEF OnceEach, ToldSoon
    <3>2. /\ down[c] \in Seq(DownMsg) /\ Len(down[c]) \in Nat
          /\ Len(down'[c]) = Len(down[c]) - 1
          /\ \A j \in 1 .. Len(down'[c]) : down'[c][j] = down[c][j + 1]
      BY <1>1, Typed, HeadTailProperties
    <3> DEFINE h == i - 1
    <3>3. i # 1
      BY <2>3, <3>1
    <3>4. h \in 1 .. Len(down'[c]) /\ h + 1 = i
      BY <3>2, <3>3
    <3> HIDE DEF h
    <3>5. down'[c][h] = down[c][i]
      BY <3>2, <3>4
    <3> QED
      BY <3>1, <3>4, <3>5 DEF Confirms
  <2> QED
    BY <2>1, <2>2, <2>3, ReceiveOnward
<1> QED
  BY <1>3, <1>4 DEF OnceEach

LEMMA OnceServer ==
    ASSUME Types, OnceEach, \A d \in Client : ClientInv(d), NEW c \in Client, ServerReceive(c)
    PROVE  OnceEach'
<1> DEFINE m == Head(up[c])
<1>1. Types /\ \A d \in Client : ClientInv(d)
  OBVIOUS
<1>2. /\ up[c] # <<>> /\ ver' = ver /\ pend' = pend /\ typed' = typed
      /\ \A d \in Client : Keeps(d)
  BY <1>1, ServerFrame
<1>4. \A d \in Client : down[d] \in Seq(DownMsg)
  BY <1>1, Typed
<1>5. <<>> \in Seq(DownMsg)
  BY EmptySeq
<1>6. \A d \in Client : ToldSoon(d)
  BY DEF OnceEach
<1>7. CASE Crosses(c, m)
  <2> DEFINE q == [type |-> "reject_diff", rid |-> m.rid]
             out == IF m.type = "diff" THEN <<q>> ELSE <<>>
  <2>1. log' = log /\ Say(OnlyTo(c, out))
    BY <1>7 DEF ServerReceive, ServerCross
  <2>2. m \in UpMsg
    <3>1. up[c] \in Seq(UpMsg)
      BY <1>1, Typed
    <3> QED
      BY <1>2, <3>1, HeadTailProperties
  <2> HIDE DEF m
  <2>3. m.type = "diff" => q \in DownMsg
    BY <2>2, UpTyped DEF DownMsg, AnswerDown
  <2> HIDE DEF q
  <2>4. out \in Seq(DownMsg)
    BY <1>5, <2>3
  <2> HIDE DEF out
  <2>5. \A d \in Client : \E o \in Seq(DownMsg) : down'[d] = down[d] \o o
    BY <1>5, <2>1, <2>4 DEF Say, OnlyTo
  <2>6. \A d \in Client : OwnNext(d)' => OwnNext(d)
    BY <1>2, <2>1 DEF OwnNext
  <2>7. \A d \in Client : ToldSoon(d)'
    BY <1>1, <1>6, <2>5, <2>6, TellsStill
  <2> QED
    BY <1>2, <2>1, <2>7, SinglesSame DEF OnceEach
<1>8. CASE ~Crosses(c, m)
  <2>1. /\ down[c] = <<>> /\ m \in UpMsg /\ m.v = ver[c]
        /\ m.type = "diff" => IsPrefix(m.edits, pend[c])
    BY <1>1, <1>2, <1>8, Caught
  <2>2. ~OwnNext(c)
    <3>1. Len(down[c]) = 0
      BY <2>1, EmptySeq
    <3> QED
      BY <1>6, <3>1 DEF ToldSoon
  <2>3. CASE ServerSubscribe(c, m) \/ ServerCheckVersion(c, m) \/ ServerOutdated(c, m)
    <3>1. PICK out : log' = log /\ Say(OnlyTo(c, out))
      BY <2>3 DEF ServerSubscribe, ServerCheckVersion, ServerOutdated
    <3>2. \A d \in Client : d # c => down'[d] = down[d] \o <<>>
      BY <3>1 DEF Say, OnlyTo
    <3>3. \A d \in Client : OwnNext(d)' => OwnNext(d)
      BY <1>2, <3>1 DEF OwnNext
    <3>4. \A d \in Client : d # c => ToldSoon(d)'
      BY <1>1, <1>5, <1>6, <3>2, <3>3, TellsStill
    <3>5. ToldSoon(c)'
      BY <2>2, <3>3 DEF ToldSoon
    <3> QED
      BY <1>2, <3>1, <3>4, <3>5, SinglesSame DEF OnceEach
  <2>4. CASE ServerAccept(c, m)
    <3> DEFINE l == [cid |-> c, rid |-> m.rid, edits |-> m.edits]
               q == [type |-> "confirm_diff", rid |-> m.rid]
               p == [type |-> "diff", v |-> Len(log), cid |-> c, rid |-> m.rid,
                     edits |-> m.edits]
               out == [d \in Client |-> IF d = c THEN <<q>>
                                        ELSE IF d \in joined THEN <<p>> ELSE <<>>]
    <3>1. m.type = "diff" /\ m.v = Len(log) /\ log' = Append(log, l) /\ Say(out)
      BY <2>4 DEF ServerAccept, UpToDate
    <3> HIDE DEF m
    <3>2. m.rid \in Nat /\ m.edits \in Seq(Edit)
      BY <2>1, <3>1, UpTyped
    <3>3. log \in Seq(Diff) /\ Len(log) \in Nat
      BY <1>1, Typed
    <3>4. /\ l \in Diff /\ l.cid = c /\ l.edits = m.edits
          /\ q \in DownMsg /\ q.type = "confirm_diff" /\ p \in DownMsg
      BY <3>2, <3>3 DEF Diff, DownMsg, AnswerDown, DiffDown
    <3>5. /\ \A d \in Client : d # c => out[d] = <<p>> \/ out[d] = <<>>
          /\ out[c] = <<q>>
      OBVIOUS
    <3> HIDE DEF l, p, q, out
    <3>12. <<q>> \in Seq(DownMsg) /\ <<p>> \in Seq(DownMsg)
      BY <3>4
    <3>6. \A d \in Client : out[d] \in Seq(DownMsg)
      <4> TAKE d \in Client
      <4>1. out[d] = <<q>> \/ out[d] = <<p>> \/ out[d] = <<>>
        BY <3>5
      <4> QED
        BY <1>5, <3>12, <4>1
    <3>7. \A d \in Client : down'[d] = down[d] \o out[d]
      BY <3>1 DEF Say
    <3>8. \A d \in Client : ver[d] <= Len(log) /\ Current(d)
      BY <1>1 DEF ClientInv, Current
    <3>9. Singles'
      BY <1>1, <1>2, <2>1, <3>1, <3>4, <3>8, SinglesAccept DEF OnceEach
    <3>10. ASSUME NEW d \in Client, d # c
           PROVE  ToldSoon(d)'
      <4>1. LogGrows(d)
        BY <3>1, <3>4, <3>10 DEF LogGrows
      <4>2. OwnNext(d)' <=> OwnNext(d)
        BY <1>1, <1>2, <3>8, <4>1, OwnStays
      <4> QED
        BY <1>1, <1>6, <3>6, <3>7, <4>2, TellsStill
    <3>11. ToldSoon(c)'
      <4>1. down'[c] = <<>> \o <<q>> /\ <<q>> \in Seq(DownMsg)
        <5>1. down'[c] = down[c] \o out[c]
          BY <3>7
        <5> QED
          BY <2>1, <3>5, <3>12, <5>1
      <4>2. down'[c] = <<q>>
        BY <4>1, ConcatEmptySeq
      <4>3. Len(<<q>>) = 1 /\ <<q>>[1] = q /\ 1 \in 1 .. 1
        OBVIOUS
      <4>4. 1 \in 1 .. Len(down'[c]) /\ down'[c][1] = q
        BY <4>2, <4>3
      <4> QED
        BY <3>4, <4>4 DEF ToldSoon, Confirms
    <3> QED
      BY <3>9, <3>10, <3>11 DEF OnceEach
  <2> QED
    BY <1>8, <2>3, <2>4 DEF ServerReceive
<1> QED
  BY <1>7, <1>8

LEMMA OnceDrop ==
    ASSUME Types, OnceEach, NEW c \in Client, Drop(c), ~unheard'
    PROVE  OnceEach'
<1>1. /\ log' = log /\ ver' = ver /\ pend' = pend /\ typed' = typed
      /\ down' = [down EXCEPT ![c] = <<>>] /\ unheard' = (unheard \/ OwnNext(c))
  BY DEF Drop, copyVars
<1>2. Singles'
  BY <1>1, SinglesSame DEF OnceEach
<1>3. ASSUME NEW d \in Client
      PROVE  ToldSoon(d)'
  <2>1. CASE d = c
    BY <1>1, <2>1 DEF ToldSoon, OwnNext
  <2>2. CASE d # c
    <3>1. down'[d] = down[d]
      BY <1>1, <2>2 DEF Types
    <3> QED
      BY <1>1, <3>1 DEF OnceEach, ToldSoon, OwnNext, Confirms
  <2> QED
    BY <2>1, <2>2
<1> QED
  BY <1>2, <1>3 DEF OnceEach

\* The step of a browser while none strays and no news of acceptance is lost.
LEMMA OnceEachStep ==
    ASSUME IInv, OnceEach, [Next]_vars, strayed = {}, strayed' = {}, ~unheard'
    PROVE  OnceEach'
<1>1. Types /\ \A d \in Client : ClientInv(d)
  BY DEF IInv
<1>2. ASSUME down' = down, log' = log, ver' = ver, pend' = pend, typed' = typed
      PROVE  OnceEach'
  <2>1. Singles'
    BY <1>2, SinglesSame DEF OnceEach
  <2>2. \A d \in Client : ToldSoon(d)'
    BY <1>2 DEF OnceEach, ToldSoon, OwnNext, Confirms
  <2> QED
    BY <2>1, <2>2 DEF OnceEach
<1>3. CASE UNCHANGED vars
  BY <1>2, <1>3 DEF vars, serverVars, wires, copyVars, counters
<1>4. ASSUME NEW c \in Client, Type(c)
      PROVE  OnceEach'
  <2>1. down' = down /\ log' = log /\ ver' = ver /\ Edits(c)
    BY <1>4 DEF Type, serverVars, wires, Edits
  <2>2. Singles'
    BY <1>1, <2>1, SinglesType DEF OnceEach
  <2>3. \A d \in Client : ToldSoon(d)'
    BY <2>1 DEF OnceEach, ToldSoon, OwnNext, Confirms
  <2> QED
    BY <2>2, <2>3 DEF OnceEach
<1>5. ASSUME NEW c \in Client,
             \/ Send(c) \/ SendTimeout(c) \/ CheckTimeout(c) \/ FetchServe(c) \/ Connect(c)
      PROVE  OnceEach'
  <2>1. down' = down /\ log' = log /\ ver' = ver /\ pend' = pend /\ typed' = typed
    BY <1>5 DEF Send, SendTimeout, CheckTimeout, FetchServe, Connect, serverVars, wires,
                copyVars, counters
  <2> QED
    BY <1>2, <2>1
<1>6. ASSUME NEW c \in Client, FetchReceive(c)
      PROVE  OnceEach'
  <2>1. ~late[c]
    BY <1>6 DEF FetchReceive
  <2>2. Onward(c)
    BY <1>1, <1>6, <2>1, FetchOnward DEF OnceEach
  <2>3. down' = down /\ log' = log
    BY <1>6 DEF FetchReceive, serverVars, wires
  <2>4. Singles'
    BY <1>1, <2>2, SinglesOnward DEF OnceEach
  <2>5. ASSUME NEW d \in Client
        PROVE  ToldSoon(d)'
    BY <2>2, <2>3 DEF Onward, OnceEach, ToldSoon, OwnNext, Confirms
  <2> QED
    BY <2>4, <2>5 DEF OnceEach
<1>7. CASE Next
  BY <1>1, <1>4, <1>5, <1>6, <1>7, OnceReceive, OnceServer, OnceDrop DEF Next
<1> QED
  BY <1>3, <1>7

LEMMA OnceStep ==
    ASSUME IInv, OnceInv, [Next]_vars
    PROVE  OnceInv'
<1>1. unheard => unheard'
  <2>1. CASE UNCHANGED vars
    BY <2>1 DEF vars, history
  <2>2. CASE Next
    BY <2>2 DEF Next, Type, Send, SendTimeout, CheckTimeout, ServerReceive, ClientReceive,
                FetchServe, FetchReceive, Connect, Drop, GoesOn, history
  <2> QED
    BY <2>1, <2>2
<1>2. strayed \subseteq strayed'
  BY NextStep
<1>3. CASE unheard' \/ strayed' # {}
  BY <1>3 DEF OnceInv
<1>4. CASE ~unheard' /\ strayed' = {}
  <2>1. ~unheard /\ strayed = {} /\ OnceEach
    BY <1>1, <1>2, <1>4 DEF OnceInv
  <2> QED
    BY <1>4, <2>1, OnceEachStep DEF OnceInv
<1> QED
  BY <1>3, <1>4

\* No edit gets into the document twice, however often diffs are rejected, time
\* out and are sent again, unless a connection was lost with the news that a diff
\* was accepted (then it may: the run collab_twice) or a browser strayed.
THEOREM TakenOnce == Spec => []OnceUnlessUnheard
<1>1. Init => OnceInv
  <2> SUFFICES ASSUME Init PROVE OnceEach
    BY DEF OnceInv
  <2>1. /\ log = <<>> /\ Len(log) = 0
        /\ \A c \in Client : pend[c] = <<>> /\ ver[c] = 0
    BY EmptySeq DEF Init
  <2>2. [i \in 1 .. 0 |-> log[i].edits] = <<>>
    OBVIOUS
  <2>3. TextAt(Len(log)) = <<>>
    BY <2>1, <2>2, EmptySeq DEF TextAt, FlattenSeq
  <2>4. Range(<<>>) = {} /\ Distinct(<<>>)
    BY EmptySeq DEF Range, Distinct
  <2>5. Singles
    BY <2>1, <2>3, <2>4 DEF Singles
  <2>6. \A c \in Client : ~OwnNext(c)
    BY <2>1 DEF OwnNext
  <2> QED
    BY <2>5, <2>6 DEF OnceEach, ToldSoon
<1>2. IInv /\ OnceInv /\ [Next]_vars => OnceInv'
  BY OnceStep
<1>3. OnceInv => OnceUnlessUnheard
  BY DEF OnceInv, OnceEach, Singles, Distinct, OnceOnly, OnceUnlessUnheard
<1> QED
  BY <1>1, <1>2, <1>3, Always, PTL DEF Spec
=============================================================================
