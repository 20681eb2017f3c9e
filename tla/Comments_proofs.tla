--------------------------- MODULE Comments_proofs ---------------------------
(***************************************************************************)
(* That each update of a comment is accounted for, and types: for any      *)
(* number of people, comments and updates, whatever the roles are and      *)
(* however often a diff fails half way on the server.                      *)
(***************************************************************************)
EXTENDS Comments, Concatenation, FiniteSetTheorems

-----------------------------------------------------------------------------
(* The inductive invariant.                                                *)

Pending == [rid: Nat, n: Nat \ {0}]

\* The updates in a diff.
Removal == [type: {"delete"}, id: Id]
AnswerRemoval == [type: {"delete_answer"}, id: Id, aid: Id]
OnAnswer == [type: OfAnswer, id: Id, answer: Answers]
OnComment == [type: {"create", "update"}, id: Id, note: Comment]
Update == {Ignored} \cup Removal \cup AnswerRemoval \cup OnAnswer \cup OnComment

\* A collection of comments.
Store == UNION {[D -> Comment] : D \in SUBSET Id}

Diff == [cid: Client, rid: Nat, cu: Seq(Update), acts: Seq(Act)]

\* The messages to the server and to a browser.
CheckUp == [type: {"check_version"}, v: Nat, seen: Nat]
DiffUp == [type: {"diff"}, v: Nat, rid: Nat, cu: Seq(Update), acts: Seq(Act), seen: Nat]
UpMsg == CheckUp \cup DiffUp
VersionDown == [type: {"confirm_version"}, v: Nat]
AnswerDown == [type: {"confirm_diff", "reject_diff"}, rid: Nat]
DiffDown == [type: {"diff"}, v: Nat, cid: Client, rid: Nat, cu: Seq(Update)]
DownMsg == VersionDown \cup AnswerDown \cup DiffDown

Types ==
    /\ com \in Store /\ listed \subseteq DOMAIN com
    /\ hist \in Seq(Diff)
    /\ said \in [Client -> Nat] /\ seen \in [Client -> Nat] /\ ver \in [Client -> Nat]
    /\ link \in [Client -> {"on", "off"}]
    /\ up \in [Client -> Seq(UpMsg)] /\ down \in [Client -> Seq(DownMsg)]
    /\ copy \in [Client -> Store] /\ unsent \in [Client -> Seq(Waiter)]
    /\ unconf \in [Client -> SUBSET Pending]
    /\ await \in [Client -> BOOLEAN]
    /\ done \in [Client -> Seq(Act)] /\ failed \subseteq Id

\* The numbers of what people did are used one after the other.
Numbered == \E n \in 0 .. MaxActs : Acts = 1 .. n

\* What has been said on a connection was received or is under way, and nothing
\* is under way without a connection.
Linked(c) ==
    /\ link[c] = "on" => seen[c] + Len(down[c]) = said[c]
    /\ link[c] = "off" => up[c] = <<>> /\ down[c] = <<>> /\ seen[c] <= said[c]

\* A message of c that was sent since c received something last is about the
\* version that c still has, and a diff is a beginning of what waits to be sent.
Fresh(c) ==
    \A i \in 1 .. Len(up[c]) :
        /\ up[c][i].seen <= seen[c]
        /\ up[c][i].seen = seen[c] =>
              /\ up[c][i].v = ver[c]
              /\ up[c][i].type = "diff" =>
                    /\ IsPrefix(up[c][i].acts, Waiting(c))
                    /\ [rid |-> up[c][i].rid, n |-> Len(up[c][i].acts)] \in unconf[c]

\* Diff r of c is accepted.
Taken(c, r) == \E k \in 1 .. Len(hist) : hist[k].cid = c /\ hist[k].rid = r

\* There is a number above all request ids in use.
Bounded(c) ==
    \E b \in Nat : /\ \A u \in unconf[c] : u.rid <= b
                   /\ \A k \in 1 .. Len(hist) : hist[k].cid = c => hist[k].rid <= b

\* Request ids tell the diffs of a client apart, and those under way from those
\* accepted and those rejected.
Rids(c) ==
    /\ Bounded(c)
    /\ \A u, w \in unconf[c] : u.rid = w.rid => u = w
    /\ \A i \in 1 .. Len(up[c]) : up[c][i].type = "diff" =>
          /\ \E u \in unconf[c] : u.rid = up[c][i].rid
          /\ ~Taken(c, up[c][i].rid)
          /\ \A j \in 1 .. i - 1 : up[c][j].type = "diff" => up[c][j].rid # up[c][i].rid
    /\ \A i \in 1 .. Len(down[c]) : down[c][i].type = "reject_diff" =>
          /\ ~Taken(c, down[c][i].rid)
          /\ \A j \in 1 .. Len(up[c]) : up[c][j].type = "diff" => up[c][j].rid # down[c][i].rid

\* The diff after the version of c is its own.
OwnNext(c) == ver[c] < Len(hist) /\ hist[ver[c] + 1].cid = c

\* An accepted diff that its sender does not know of is the next one, and a
\* beginning of what the sender has waiting.
Own(c) ==
    /\ \A k \in ver[c] + 2 .. Len(hist) : hist[k].cid # c
    /\ OwnNext(c) =>
          LET l == hist[ver[c] + 1]
          IN  /\ IsPrefix(l.acts, Waiting(c))
              /\ [rid |-> l.rid, n |-> Len(l.acts)] \in unconf[c]

\* m tells c that its next diff is accepted.
Confirms(c, m) == m.type = "confirm_diff" \/ (m.type = "diff" /\ m.cid = c)

\* What is on its way to c: a confirmation comes first, and is of the next diff;
\* diffs are those of the server.
Incoming(c) ==
    \A i \in 1 .. Len(down[c]) :
        LET m == down[c][i]
        IN  /\ Confirms(c, m) => i = 1 /\ OwnNext(c) /\ hist[ver[c] + 1].rid = m.rid
            /\ m.type = "diff" => /\ m.v < Len(hist)
                                  /\ hist[m.v + 1].cid = m.cid
                                  /\ hist[m.v + 1].rid = m.rid

Current(c) == ver[c] <= Len(hist) /\ done[c] = ActsOf(c, ver[c]) \o Waiting(c)

ClientInv(c) ==
    Linked(c) /\ Fresh(c) /\ Rids(c) /\ Own(c) /\ Incoming(c) /\ Current(c)

IInv == Types /\ Numbered /\ \A c \in Client : ClientInv(c)

-----------------------------------------------------------------------------
(* Stores and updates.                                                     *)

LEMMA StoreIs ==
    ASSUME NEW f
    PROVE  f \in Store <=> /\ f = [i \in DOMAIN f |-> f[i]]
                           /\ DOMAIN f \subseteq Id /\ \A i \in DOMAIN f : f[i] \in Comment
<1>1. ASSUME f \in Store
      PROVE  /\ f = [i \in DOMAIN f |-> f[i]]
             /\ DOMAIN f \subseteq Id /\ \A i \in DOMAIN f : f[i] \in Comment
  <2>1. PICK D \in SUBSET Id : f \in [D -> Comment]
    BY <1>1 DEF Store
  <2> QED
    BY <2>1
<1>2. ASSUME f = [i \in DOMAIN f |-> f[i]], DOMAIN f \subseteq Id,
             \A i \in DOMAIN f : f[i] \in Comment
      PROVE  f \in Store
  <2>1. f \in [DOMAIN f -> Comment]
    BY <1>2
  <2> QED
    BY <1>2, <2>1 DEF Store
<1> QED
  BY <1>1, <1>2

\* With one comment more, with one less, with one changed.
LEMMA StoreChanges ==
    ASSUME NEW s \in Store, NEW i \in Id, NEW x \in Comment
    PROVE  /\ Put(s, i, x) \in Store /\ DOMAIN Put(s, i, x) = DOMAIN s \cup {i}
           /\ Without(s, i) \in Store /\ DOMAIN Without(s, i) = DOMAIN s \ {i}
           /\ i \in DOMAIN s => [s EXCEPT ![i] = x] \in Store
           /\ DOMAIN [s EXCEPT ![i] = x] = DOMAIN s
<1>1. DOMAIN s \subseteq Id /\ \A j \in DOMAIN s : s[j] \in Comment
  BY StoreIs
<1> DEFINE p == Put(s, i, x)
           w == Without(s, i)
           e == [s EXCEPT ![i] = x]
<1>2. /\ p = [j \in DOMAIN p |-> p[j]] /\ DOMAIN p = DOMAIN s \cup {i}
      /\ \A j \in DOMAIN p : p[j] \in Comment
  BY <1>1 DEF Put
<1>3. /\ w = [j \in DOMAIN w |-> w[j]] /\ DOMAIN w = DOMAIN s \ {i}
      /\ \A j \in DOMAIN w : w[j] \in Comment
  BY <1>1 DEF Without
<1>4. /\ e = [j \in DOMAIN e |-> e[j]] /\ DOMAIN e = DOMAIN s
      /\ \A j \in DOMAIN e : e[j] \in Comment
  BY <1>1
<1> HIDE DEF p, w, e
<1>5. p \in Store /\ w \in Store /\ e \in Store
  <2>1. DOMAIN p \subseteq Id /\ DOMAIN w \subseteq Id /\ DOMAIN e \subseteq Id
    BY <1>1, <1>2, <1>3, <1>4
  <2>2. p \in Store
    BY <1>2, <2>1, StoreIs
  <2>3. w \in Store
    BY <1>3, <2>1, StoreIs
  <2>4. e \in Store
    BY <1>4, <2>1, StoreIs
  <2> QED
    BY <2>2, <2>3, <2>4
<1> QED
  BY <1>2, <1>3, <1>4, <1>5 DEF p, w, e
LEMMA UpdateTyped ==
    ASSUME NEW e \in Update
    PROVE  /\ e.type \in Kind \cup {"ignore"}
           /\ e.type = "ignore" <=> e = Ignored
           /\ e # Ignored => e.id \in Id
           /\ e.type = "delete_answer" => e.aid \in Id
           /\ e.type \in OfAnswer => e.answer \in Answers
           /\ e.type \in {"create", "update"} => e.note \in Comment
<1>1. CASE e = Ignored
  BY <1>1 DEF Ignored, OfAnswer
<1>2. CASE e \in Removal \cup AnswerRemoval \cup OnAnswer \cup OnComment
  BY <1>2 DEF Removal, AnswerRemoval, OnAnswer, OnComment, Ignored, OfAnswer, Kind
<1> QED
  BY <1>1, <1>2 DEF Update

LEMMA CommentTyped ==
    ASSUME NEW x \in Comment
    PROVE  /\ x.by \in Client /\ x.text \in Id /\ x.answers \in SUBSET Answers
           /\ \A as \in SUBSET Answers : [x EXCEPT !.answers = as] \in Comment
           /\ \A n \in Id : [x EXCEPT !.text = n] \in Comment
  BY DEF Comment

LEMMA AnswerTyped ==
    ASSUME NEW x \in Answers
    PROVE  /\ x.id \in Act /\ x.by \in Client /\ x.text \in Act
           /\ \A n \in Act : [x EXCEPT !.text = n] \in Answers
  BY DEF Answers

LEMMA ActIsId == Act \subseteq Id /\ 0 \in Id
  BY NumberAssumption DEF Act, Id

\* An update on its way is typed as what waits and what the store holds are.
LEMMA EntryType ==
    ASSUME NEW s \in Store, NEW e \in Waiter
    PROVE  Entry(s, e) \in Update
<1>1. e.type \in Kind /\ e.id \in Id /\ e.aid \in Id
  BY DEF Waiter
<1>2. CASE ~Sendable(s, e)
  BY <1>2 DEF Entry, Update
<1>3. CASE Sendable(s, e)
  <2>1. e.type # "delete" => e.id \in DOMAIN s /\ s[e.id] \in Comment
    BY <1>3, StoreIs DEF Sendable
  <2>2. CASE e.type = "delete"
    <3>1. Entry(s, e) = [type |-> "delete", id |-> e.id]
      BY <1>3, <2>2 DEF Entry, OfAnswer
    <3> QED
      BY <1>1, <3>1 DEF Update, Removal
  <2>3. CASE e.type = "delete_answer"
    <3>1. Entry(s, e) = [type |-> e.type, id |-> e.id, aid |-> e.aid]
      BY <1>3, <2>3 DEF Entry, OfAnswer
    <3> QED
      BY <1>1, <2>3, <3>1 DEF Update, AnswerRemoval
  <2>4. CASE e.type \in OfAnswer
    <3> DEFINE a == CHOOSE x \in Named(s[e.id].answers, e.aid) : TRUE
    <3>1. Entry(s, e) = [type |-> e.type, id |-> e.id, answer |-> a]
      BY <1>3, <2>4 DEF Entry, OfAnswer
    <3>2. Named(s[e.id].answers, e.aid) # {}
      BY <1>3, <2>4 DEF Sendable, Answered, OfAnswer
    <3>3. a \in s[e.id].answers
      BY <3>2 DEF Named
    <3>4. e.type # "delete"
      BY <2>4 DEF OfAnswer
    <3>5. a \in Answers
      BY <2>1, <3>3, <3>4, CommentTyped
    <3> HIDE DEF a
    <3> QED
      BY <1>1, <2>4, <3>1, <3>5 DEF Update, OnAnswer
  <2>5. CASE e.type \in {"create", "update"}
    <3>1. Entry(s, e) = [type |-> e.type, id |-> e.id, note |-> s[e.id]]
      BY <1>3, <2>5 DEF Entry, OfAnswer
    <3> QED
      BY <1>1, <2>1, <2>5, <3>1 DEF Update, OnComment
  <2> QED
    BY <1>1, <2>2, <2>3, <2>4, <2>5 DEF Kind, OfAnswer
<1> QED
  BY <1>2, <1>3

LEMMA UnsentType ==
    ASSUME Types, NEW c \in Client
    PROVE  /\ UnsentEvents(c) \in Seq(Update)
           /\ Waiting(c) \in Seq(Act) /\ Len(Waiting(c)) = Len(unsent[c])
           /\ \A k \in 1 .. Len(unsent[c]) : Waiting(c)[k] = unsent[c][k].act
<1>1. copy[c] \in Store /\ unsent[c] \in Seq(Waiter)
  BY DEF Types
<1>2. PICK n \in Nat : n = Len(unsent[c]) /\ DOMAIN unsent[c] = 1 .. n
  BY <1>1, LenProperties
<1>3. \A k \in 1 .. n : unsent[c][k] \in Waiter
  BY <1>1, <1>2, ElementOfSeq
<1>4. \A k \in 1 .. n : Entry(copy[c], unsent[c][k]) \in Update /\ unsent[c][k].act \in Act
  BY <1>1, <1>3, EntryType DEF Waiter
<1> DEFINE u == [k \in 1 .. n |-> Entry(copy[c], unsent[c][k])]
           w == [k \in 1 .. n |-> unsent[c][k].act]
<1>5. UnsentEvents(c) = u /\ Waiting(c) = w
  BY <1>2 DEF UnsentEvents, Waiting
<1>6. u \in [1 .. n -> Update] /\ w \in [1 .. n -> Act] /\ \A k \in 1 .. n : w[k] = unsent[c][k].act
  BY <1>4
<1> HIDE DEF u, w
<1>7. u \in Seq(Update) /\ w \in Seq(Act) /\ Len(w) = n
  BY <1>6
<1> QED
  BY <1>2, <1>5, <1>6, <1>7

-----------------------------------------------------------------------------
(* What an update does.                                                    *)

\* The comments on the server while a diff is handled.
State == [com: Store, listed: SUBSET Id, ok: BOOLEAN]
Sound == {st \in State : st.listed \subseteq DOMAIN st.com}

LEMMA SoundIs ==
    ASSUME NEW f \in Store, NEW l, l \subseteq DOMAIN f, NEW b \in BOOLEAN
    PROVE  [com |-> f, listed |-> l, ok |-> b] \in Sound
<1>1. l \in SUBSET Id
  BY StoreIs
<1> QED
  BY <1>1 DEF Sound, State

LEMMA SoundTyped ==
    ASSUME NEW st \in Sound
    PROVE  /\ st.com \in Store /\ st.listed \subseteq DOMAIN st.com /\ st.ok \in BOOLEAN
           /\ st = [com |-> st.com, listed |-> st.listed, ok |-> st.ok]
  BY DEF Sound, State
LEMMA AppliedType ==
    ASSUME NEW st \in Sound, NEW e \in Update
    PROVE  Applied(st, e) \in Sound
<1> DEFINE old == st.com[e.id].answers
           put(as) == [st EXCEPT !.com[e.id].answers = as, !.listed = @ \cup {e.id}]
           error == [st EXCEPT !.ok = FALSE]
<1>0. st \in State
  BY DEF Sound
<1>1. /\ st.com \in Store /\ st.listed \subseteq DOMAIN st.com /\ st.ok \in BOOLEAN
      /\ st = [com |-> st.com, listed |-> st.listed, ok |-> st.ok]
  BY SoundTyped
<1>2. /\ e.type \in Kind \cup {"ignore"}
      /\ e.type = "ignore" <=> e = Ignored
      /\ e # Ignored => e.id \in Id
      /\ e.type = "delete_answer" => e.aid \in Id
      /\ e.type \in OfAnswer => e.answer \in Answers
      /\ e.type \in {"create", "update"} => e.note \in Comment
  BY UpdateTyped
<1>3. error \in Sound
  <2>1. error \in State /\ error.com = st.com /\ error.listed = st.listed
    BY <1>0 DEF State
  <2> QED
    BY <1>1, <2>1 DEF Sound
<1>4. ASSUME e # Ignored, e.id \in DOMAIN st.com, NEW as \in SUBSET Answers
      PROVE  put(as) \in Sound
  <2> DEFINE x == [st.com[e.id] EXCEPT !.answers = as]
             f == [st.com EXCEPT ![e.id] = x]
             l == st.listed \cup {e.id}
  <2>1. x \in Comment
    BY <1>1, <1>4, StoreIs, CommentTyped
  <2> HIDE DEF x
  <2>2. f \in Store /\ DOMAIN f = DOMAIN st.com /\ e.id \in Id
    BY <1>1, <1>2, <1>4, <2>1, StoreChanges
  <2>3. l \in SUBSET Id /\ l \subseteq DOMAIN f
    BY <1>0, <1>1, <1>4, <2>2 DEF State
  <2>4. put(as) \in State /\ put(as).com = f /\ put(as).listed = l
    BY <1>0, <2>2, <2>3 DEF State, x
  <2> HIDE DEF put, f, l
  <2> QED
    BY <2>3, <2>4 DEF Sound
<1>5. ASSUME e # Ignored, e.id \in DOMAIN st.com
      PROVE  old \in SUBSET Answers
  BY <1>1, <1>5, StoreIs, CommentTyped
<1>6. CASE ~st.ok \/ e.type = "ignore"
  BY <1>6 DEF Applied
<1>7. CASE st.ok /\ e.type = "create"
  <2> DEFINE x == [e.note EXCEPT !.answers = {}]
             f == Put(st.com, e.id, x)
             l == st.listed \ {e.id}
  <2>1. Applied(st, e) = [com |-> f, listed |-> l, ok |-> st.ok]
    BY <1>1, <1>7 DEF Applied
  <2>2. x \in Comment
    BY <1>2, <1>7, CommentTyped
  <2> HIDE DEF x
  <2>3. f \in Store /\ DOMAIN f = DOMAIN st.com \cup {e.id}
    BY <1>1, <1>2, <1>7, <2>2, StoreChanges
  <2>4. l \subseteq DOMAIN f
    BY <1>1, <2>3
  <2> HIDE DEF f, l
  <2> QED
    BY <1>1, <2>1, <2>3, <2>4, SoundIs
<1>8. CASE st.ok /\ e.type = "delete"
  <2>1. CASE e.id \notin DOMAIN st.com
    <3>1. Applied(st, e) = error
      BY <1>8, <2>1 DEF Applied
    <3> QED
      BY <1>3, <3>1
  <2>2. CASE e.id \in DOMAIN st.com
    <3> DEFINE f == Without(st.com, e.id)
               l == st.listed \ {e.id}
    <3>1. Applied(st, e) = [com |-> f, listed |-> l, ok |-> st.ok]
      BY <1>1, <1>8, <2>2 DEF Applied
    <3>2. st.com[e.id] \in Comment /\ e.id \in Id
      BY <1>1, <2>2, StoreIs
    <3>3. f \in Store /\ DOMAIN f = DOMAIN st.com \ {e.id}
      BY <1>1, <3>2, StoreChanges
    <3>4. l \subseteq DOMAIN f
      BY <1>1, <3>3
    <3> HIDE DEF f, l
    <3> QED
      BY <1>1, <3>1, <3>3, <3>4, SoundIs
  <2> QED
    BY <2>1, <2>2
<1>9. CASE st.ok /\ e.type = "update"
  <2>1. CASE e.id \notin DOMAIN st.com
    <3>1. Applied(st, e) = error
      BY <1>9, <2>1 DEF Applied
    <3> QED
      BY <1>3, <3>1
  <2>2. CASE e.id \in DOMAIN st.com
    <3> DEFINE x == [st.com[e.id] EXCEPT !.text = e.note.text]
               f == [st.com EXCEPT ![e.id] = x]
    <3>1. Applied(st, e) = [com |-> f, listed |-> st.listed, ok |-> st.ok]
      BY <1>1, <1>9, <2>2 DEF Applied
    <3>2. x \in Comment
      <4>1. e.note.text \in Id /\ st.com[e.id] \in Comment
        BY <1>1, <1>2, <1>9, <2>2, StoreIs, CommentTyped
      <4> QED
        BY <4>1, CommentTyped
    <3> HIDE DEF x
    <3>3. f \in Store /\ DOMAIN f = DOMAIN st.com
      BY <1>1, <1>2, <1>9, <2>2, <3>2, StoreChanges
    <3> HIDE DEF f
    <3> QED
      BY <1>1, <3>1, <3>3, SoundIs
  <2> QED
    BY <2>1, <2>2
<1>10. CASE st.ok /\ e.type = "add_answer"
  <2>1. CASE e.id \notin DOMAIN st.com
    <3>1. Applied(st, e) = error
      BY <1>10, <2>1 DEF Applied
    <3> QED
      BY <1>3, <3>1
  <2>2. CASE e.id \in DOMAIN st.com
    <3>1. Applied(st, e) = put(old \cup {e.answer})
      BY <1>10, <2>2 DEF Applied
    <3>2. e # Ignored /\ e.answer \in Answers
      BY <1>2, <1>10 DEF OfAnswer
    <3>3. old \cup {e.answer} \in SUBSET Answers
      BY <1>5, <2>2, <3>2
    <3> HIDE DEF old, put
    <3> QED
      BY <1>4, <2>2, <3>1, <3>2, <3>3
  <2> QED
    BY <2>1, <2>2
<1>11. CASE st.ok /\ e.type = "delete_answer"
  <2>1. CASE ~(e.id \in DOMAIN st.com /\ e.id \in st.listed)
    <3>1. Applied(st, e) = error
      BY <1>11, <2>1 DEF Applied
    <3> QED
      BY <1>3, <3>1
  <2>2. CASE e.id \in DOMAIN st.com /\ e.id \in st.listed
    <3>1. Applied(st, e) = put(old \ Named(old, e.aid))
      BY <1>11, <2>2 DEF Applied
    <3>2. e # Ignored
      BY <1>2, <1>11
    <3>3. old \ Named(old, e.aid) \in SUBSET Answers
      BY <1>5, <2>2, <3>2
    <3> HIDE DEF old, put
    <3> QED
      BY <1>4, <2>2, <3>1, <3>2, <3>3
  <2> QED
    BY <2>1, <2>2
<1>12. CASE st.ok /\ e.type = "update_answer"
  <2>1. CASE ~(e.id \in DOMAIN st.com /\ e.id \in st.listed)
    <3>1. Applied(st, e) = error
      BY <1>12, <2>1 DEF Applied
    <3> QED
      BY <1>3, <3>1
  <2>2. CASE e.id \in DOMAIN st.com /\ e.id \in st.listed
    <3> DEFINE as == IF Named(old, e.answer.id) = {} THEN old
                     ELSE (old \ Named(old, e.answer.id)) \cup {e.answer}
    <3>1. Applied(st, e) = put(as)
      BY <1>12, <2>2 DEF Applied
    <3>2. e # Ignored /\ e.answer \in Answers
      BY <1>2, <1>12 DEF OfAnswer
    <3>3. as \in SUBSET Answers
      BY <1>5, <2>2, <3>2
    <3> HIDE DEF old, put, as
    <3> QED
      BY <1>4, <2>2, <3>1, <3>2, <3>3
  <2> QED
    BY <2>1, <2>2
<1> QED
  BY <1>1, <1>2, <1>6, <1>7, <1>8, <1>9, <1>10, <1>11, <1>12 DEF Kind
LEMMA ReceivedType ==
    ASSUME NEW s \in Store, NEW e \in Update
    PROVE  Received(s, e) \in Store
<1> DEFINE old == s[e.id].answers
           put(as) == [s EXCEPT ![e.id].answers = as]
<1>1. /\ e.type \in Kind \cup {"ignore"}
      /\ e.type = "ignore" <=> e = Ignored
      /\ e # Ignored => e.id \in Id
      /\ e.type = "delete_answer" => e.aid \in Id
      /\ e.type \in OfAnswer => e.answer \in Answers
      /\ e.type \in {"create", "update"} => e.note \in Comment
  BY UpdateTyped
<1>2. ASSUME e.id \in DOMAIN s
      PROVE  /\ old \in SUBSET Answers
             /\ \A as \in SUBSET Answers : put(as) \in Store
  <2>1. s[e.id] \in Comment /\ e.id \in Id
    BY <1>2, StoreIs
  <2>2. ASSUME NEW as \in SUBSET Answers
        PROVE  put(as) \in Store
    <3> DEFINE x == [s[e.id] EXCEPT !.answers = as]
    <3>1. x \in Comment
      BY <2>1, CommentTyped
    <3>2. put(as) = [s EXCEPT ![e.id] = x]
      OBVIOUS
    <3> HIDE DEF x
    <3>3. [s EXCEPT ![e.id] = x] \in Store
      BY <1>2, <2>1, <3>1, StoreChanges
    <3> QED
      BY <3>2, <3>3
  <2> QED
    BY <2>1, <2>2, CommentTyped
<1>3. CASE e.type = "create"
  <2>1. Received(s, e) = IF e.id \in DOMAIN s THEN s ELSE Put(s, e.id, e.note)
    BY <1>3 DEF Received
  <2>2. e.id \in Id /\ e.note \in Comment
    BY <1>1, <1>3
  <2>3. Put(s, e.id, e.note) \in Store
    BY <2>2, StoreChanges
  <2> QED
    BY <2>1, <2>3
<1>4. CASE e.type = "delete"
  <2>1. Received(s, e) = Without(s, e.id)
    BY <1>4 DEF Received
  <2>2. PICK x : x \in DOMAIN s \/ x \notin DOMAIN s
    OBVIOUS
  <2>3. Without(s, e.id) \in Store
    <3>1. e.id \in DOMAIN s => s[e.id] \in Comment
      BY StoreIs
    <3>2. CASE e.id \in DOMAIN s
      BY <1>1, <1>4, <3>1, <3>2, StoreChanges
    <3>3. CASE e.id \notin DOMAIN s
      <4>1. s = [i \in DOMAIN s |-> s[i]] /\ DOMAIN s \ {e.id} = DOMAIN s
        BY <3>3, StoreIs
      <4>2. Without(s, e.id) = s
        BY <4>1 DEF Without
      <4> QED
        BY <4>2
    <3> QED
      BY <3>2, <3>3
  <2> QED
    BY <2>1, <2>3
<1>5. CASE e.type = "update"
  <2>1. Received(s, e) = IF e.id \in DOMAIN s THEN Put(s, e.id, e.note) ELSE s
    BY <1>5 DEF Received
  <2>2. e.id \in Id /\ e.note \in Comment
    BY <1>1, <1>5
  <2>3. Put(s, e.id, e.note) \in Store
    BY <2>2, StoreChanges
  <2> QED
    BY <2>1, <2>3
<1>6. CASE e.type = "add_answer"
  <2>1. Received(s, e) = IF e.id \in DOMAIN s
                         THEN IF Named(old, e.answer.id) # {} THEN s
                              ELSE put(old \cup {e.answer})
                         ELSE s
    BY <1>6 DEF Received
  <2>2. e.answer \in Answers
    BY <1>1, <1>6 DEF OfAnswer
  <2> HIDE DEF old, put
  <2> QED
    BY <1>2, <2>1, <2>2
<1>7. CASE e.type = "delete_answer"
  <2>1. Received(s, e) = IF e.id \in DOMAIN s THEN put(old \ Named(old, e.aid)) ELSE s
    BY <1>7 DEF Received
  <2> HIDE DEF old, put
  <2> QED
    BY <1>2, <2>1
<1>8. CASE e.type = "update_answer"
  <2>1. Received(s, e) = IF e.id \in DOMAIN s
                         THEN IF Named(old, e.answer.id) = {} THEN s
                              ELSE put((old \ Named(old, e.answer.id)) \cup {e.answer})
                         ELSE s
    BY <1>8 DEF Received
  <2>2. e.answer \in Answers
    BY <1>1, <1>8 DEF OfAnswer
  <2> HIDE DEF old, put
  <2> QED
    BY <1>2, <2>1, <2>2
<1>9. CASE e.type = "ignore"
  BY <1>9 DEF Received
<1> QED
  BY <1>1, <1>3, <1>4, <1>5, <1>6, <1>7, <1>8, <1>9 DEF Kind

-----------------------------------------------------------------------------
(* What a diff does, and what is shown of it.                              *)

LEMMA AfterType ==
    ASSUME NEW b \in Sound, NEW q \in Seq(Update)
    PROVE  FoldLeft(Applied, b, q) \in Sound
<1>1. PICK n \in Nat : n = Len(q) /\ DOMAIN q = 1 .. n
  BY LenProperties
<1>2. \A x \in Sound, i \in 1 .. n : Applied(x, q[i]) \in Sound
  BY <1>1, ElementOfSeq, AppliedType
<1> DEFINE T == Sound
           G == [x \in T \X (1 .. n) |-> Applied(x[1], q[x[2]])]
           h == CHOOSE h : h = [s \in SUBSET (1 .. n) |->
                    IF s = {} THEN b ELSE Applied(h[s \ {Max(s)}], q[Max(s)])]
<1>3. FoldLeft(Applied, b, q) = h[1 .. n]
  BY <1>1 DEF FoldLeft, MapThenFoldSet
<1> HIDE DEF h, T
<1>4. b \in T /\ \A x \in T, i \in 1 .. n : Applied(x, q[i]) \in T
  BY <1>2 DEF T
<1>5. G \in [T \X (1 .. n) -> T] /\ \A x \in T, i \in 1 .. n : G[<<x, i>>] = Applied(x, q[i])
  BY <1>4
<1> HIDE DEF G
<1>6. PICK f : FoldsSets(f, T, b, n, G)
  <2>1. G \in [T \X (1 .. n) -> T]
    BY <1>5
  <2> QED
    BY <1>4, <2>1, FoldExists
<1>7. \A s \in SUBSET (1 .. n) : s # {} => s \ {Max(s)} \in SUBSET (1 .. n) /\ Max(s) \in 1 .. n
  BY LastPosition
<1>8. \A s \in SUBSET (1 .. n) :
         f[s] = IF s = {} THEN b ELSE Applied(f[s \ {Max(s)}], q[Max(s)])
  BY <1>5, <1>6, <1>7 DEF FoldsSets
<1>9. f = [s \in SUBSET (1 .. n) |-> IF s = {} THEN b ELSE Applied(f[s \ {Max(s)}], q[Max(s)])]
  <2>1. f = [s \in SUBSET (1 .. n) |-> f[s]]
    BY <1>6 DEF FoldsSets
  <2> QED
    BY <1>8, <2>1
<1>10. h = [s \in SUBSET (1 .. n) |-> IF s = {} THEN b ELSE Applied(h[s \ {Max(s)}], q[Max(s)])]
  BY <1>9 DEF h
<1>11. h[{}] \in T
  BY <1>4, <1>10
<1>12. \A s \in SUBSET (1 .. n) : s # {} /\ h[s \ {Max(s)}] \in T => h[s] \in T
  BY <1>4, <1>7, <1>10
<1>13. h[1 .. n] \in T
  BY <1>11, <1>12, FoldType
<1> QED
  BY <1>3, <1>13 DEF T

LEMMA MergedType ==
    ASSUME NEW b \in Store, NEW q \in Seq(Update)
    PROVE  FoldLeft(Received, b, q) \in Store
<1>1. PICK n \in Nat : n = Len(q) /\ DOMAIN q = 1 .. n
  BY LenProperties
<1>2. \A x \in Store, i \in 1 .. n : Received(x, q[i]) \in Store
  BY <1>1, ElementOfSeq, ReceivedType
<1> DEFINE T == Store
           G == [x \in T \X (1 .. n) |-> Received(x[1], q[x[2]])]
           h == CHOOSE h : h = [s \in SUBSET (1 .. n) |->
                    IF s = {} THEN b ELSE Received(h[s \ {Max(s)}], q[Max(s)])]
<1>3. FoldLeft(Received, b, q) = h[1 .. n]
  BY <1>1 DEF FoldLeft, MapThenFoldSet
<1> HIDE DEF h, T
<1>4. b \in T /\ \A x \in T, i \in 1 .. n : Received(x, q[i]) \in T
  BY <1>2 DEF T
<1>5. G \in [T \X (1 .. n) -> T] /\ \A x \in T, i \in 1 .. n : G[<<x, i>>] = Received(x, q[i])
  BY <1>4
<1> HIDE DEF G
<1>6. PICK f : FoldsSets(f, T, b, n, G)
  <2>1. G \in [T \X (1 .. n) -> T]
    BY <1>5
  <2> QED
    BY <1>4, <2>1, FoldExists
<1>7. \A s \in SUBSET (1 .. n) : s # {} => s \ {Max(s)} \in SUBSET (1 .. n) /\ Max(s) \in 1 .. n
  BY LastPosition
<1>8. \A s \in SUBSET (1 .. n) :
         f[s] = IF s = {} THEN b ELSE Received(f[s \ {Max(s)}], q[Max(s)])
  BY <1>5, <1>6, <1>7 DEF FoldsSets
<1>9. f = [s \in SUBSET (1 .. n) |-> IF s = {} THEN b ELSE Received(f[s \ {Max(s)}], q[Max(s)])]
  <2>1. f = [s \in SUBSET (1 .. n) |-> f[s]]
    BY <1>6 DEF FoldsSets
  <2> QED
    BY <1>8, <2>1
<1>10. h = [s \in SUBSET (1 .. n) |-> IF s = {} THEN b ELSE Received(h[s \ {Max(s)}], q[Max(s)])]
  BY <1>9 DEF h
<1>11. h[{}] \in T
  BY <1>4, <1>10
<1>12. \A s \in SUBSET (1 .. n) : s # {} /\ h[s \ {Max(s)}] \in T => h[s] \in T
  BY <1>4, <1>7, <1>10
<1>13. h[1 .. n] \in T
  BY <1>11, <1>12, FoldType
<1> QED
  BY <1>3, <1>13 DEF T

LEMMA ShownType ==
    ASSUME NEW d, NEW q \in Seq(Update)
    PROVE  ShownTo(d, q) \in Seq(Update)
<1>1. PICK n \in Nat : n = Len(q) /\ DOMAIN q = 1 .. n
  BY LenProperties
<1> DEFINE s == [k \in 1 .. n |-> IF Shown(d, q[k]) THEN <<q[k]>> ELSE <<>>]
<1>2. \A k \in 1 .. n : q[k] \in Update
  BY <1>1, ElementOfSeq
<1>3. \A k \in 1 .. n : <<q[k]>> \in Seq(Update) /\ <<>> \in Seq(Update)
  BY <1>2
<1>4. s \in [1 .. n -> Seq(Update)]
  BY <1>3
<1>5. ShownTo(d, q) = FlattenSeq(s)
  BY <1>1 DEF ShownTo
<1> HIDE DEF s
<1>6. s \in Seq(Seq(Update))
  BY <1>4
<1> QED
  BY <1>5, <1>6, FlattenType
-----------------------------------------------------------------------------
(* What the accepted diffs of a client carry.                              *)

LEMMA HistEntry ==
    ASSUME hist \in Seq(Diff), NEW k \in 1 .. Len(hist)
    PROVE  /\ hist[k] \in Diff /\ hist[k].cid \in Client /\ hist[k].rid \in Nat
           /\ hist[k].cu \in Seq(Update) /\ hist[k].acts \in Seq(Act)
<1>1. hist[k] \in Diff
  BY ElementOfSeq
<1>2. \A l \in Diff : l.cid \in Client /\ l.rid \in Nat /\ l.cu \in Seq(Update) /\ l.acts \in Seq(Act)
  BY DEF Diff
<1> QED
  BY <1>1, <1>2

\* With one diff more, they carry what this one does if it is of the client.
LEMMA ActsStep ==
    ASSUME hist \in Seq(Diff), NEW c, NEW v \in Nat, v < Len(hist)
    PROVE  /\ ActsOf(c, v) \in Seq(Act) /\ (v = 0 => ActsOf(c, v) = <<>>)
           /\ ActsOf(c, v + 1) \in Seq(Act)
           /\ hist[v + 1].cid = c => ActsOf(c, v + 1) = ActsOf(c, v) \o hist[v + 1].acts
           /\ hist[v + 1].cid # c => ActsOf(c, v + 1) = ActsOf(c, v)
<1>1. PICK w \in Nat : w = v + 1 /\ w <= Len(hist) /\ w \in 1 .. w
  BY LenProperties
<1> DEFINE s == [k \in 1 .. v |-> IF hist[k].cid = c THEN hist[k].acts ELSE <<>>]
           t == [k \in 1 .. w |-> IF hist[k].cid = c THEN hist[k].acts ELSE <<>>]
<1>2. \A k \in 1 .. w : k \in 1 .. Len(hist)
  BY <1>1, LenProperties
<1>3. \A k \in 1 .. w : hist[k].acts \in Seq(Act)
  BY <1>2, HistEntry
<1>4. s \in [1 .. v -> Seq(Act)] /\ t \in [1 .. w -> Seq(Act)] /\ \A k \in 1 .. v : s[k] = t[k]
  BY <1>1, <1>3
<1>5. t[w] = IF hist[w].cid = c THEN hist[w].acts ELSE <<>>
  BY <1>1
<1>6. ActsOf(c, v) = FlattenSeq(s) /\ ActsOf(c, v + 1) = FlattenSeq(t)
  BY <1>1 DEF ActsOf
<1> HIDE DEF s, t
<1>7. s \in Seq(Seq(Act)) /\ t \in Seq(Seq(Act)) /\ Len(s) = v /\ Len(t) = w
  BY <1>4
<1>8. /\ FlattenSeq(s) \in Seq(Act) /\ FlattenSeq(t) = FlattenSeq(s) \o t[w]
      /\ v = 0 => FlattenSeq(s) = <<>>
  <2> DEFINE A == Act
  <2>1. s \in Seq(Seq(A)) /\ t \in Seq(Seq(A))
    BY <1>7
  <2> HIDE DEF A
  <2>2. /\ FlattenSeq(s) \in Seq(A) /\ FlattenSeq(t) = FlattenSeq(s) \o t[w]
        /\ v = 0 => FlattenSeq(s) = <<>>
    <3>1. w = v + 1 /\ Len(s) = v /\ Len(t) = w /\ \A k \in 1 .. v : s[k] = t[k]
      BY <1>1, <1>4, <1>7
    <3>2. OneMore(A, s, t, v, w)
      BY <1>1, <2>1, <3>1 DEF OneMore
    <3> QED
      BY <3>2, FlattenStep
  <2> QED
    BY <2>2 DEF A
<1>9. t[w] \in Seq(Act)
  BY <1>1, <1>4
<1>10. CASE hist[w].cid = c
  <2>1. FlattenSeq(s) \o t[w] \in Seq(Act)
    BY <1>8, <1>9, ConcatProperties
  <2>2. ActsOf(c, v + 1) = ActsOf(c, v) \o hist[w].acts /\ ActsOf(c, v + 1) \in Seq(Act)
    BY <1>5, <1>6, <1>8, <1>10, <2>1
  <2> QED
    BY <1>1, <1>6, <1>8, <1>10, <2>2
<1>11. CASE hist[w].cid # c
  BY <1>1, <1>5, <1>6, <1>8, <1>9, <1>11, ConcatEmptySeq
<1> QED
  BY <1>1, <1>10, <1>11

LEMMA ActsType ==
    ASSUME hist \in Seq(Diff), NEW c, NEW v \in Nat, v <= Len(hist)
    PROVE  ActsOf(c, v) \in Seq(Act)
<1>1. CASE v < Len(hist)
  BY <1>1, ActsStep
<1>2. CASE v = 0
  <2>1. [k \in 1 .. 0 |-> IF hist[k].cid = c THEN hist[k].acts ELSE <<>>] = <<>> /\ Len(<<>>) = 0
    OBVIOUS
  <2> QED
    BY <1>2, <2>1, EmptySeq DEF ActsOf, FlattenSeq
<1>3. CASE v = Len(hist) /\ v # 0
  <2>1. v - 1 \in Nat /\ v - 1 < Len(hist) /\ v - 1 + 1 = v
    BY <1>3
  <2> QED
    BY <2>1, ActsStep
<1> QED
  BY <1>1, <1>2, <1>3, LenProperties

\* What was accepted stays.
Kept ==
    /\ Len(hist) <= Len(hist')
    /\ \A k \in 1 .. Len(hist) : hist'[k] = hist[k]

LEMMA ActsStay ==
    ASSUME hist \in Seq(Diff), Kept, NEW c, NEW v \in Nat, v <= Len(hist)
    PROVE  ActsOf(c, v)' = ActsOf(c, v)
<1>1. \A k \in 1 .. v : k \in 1 .. Len(hist)
  BY LenProperties
<1>2. \A k \in 1 .. v : hist'[k] = hist[k]
  BY <1>1 DEF Kept
<1> QED
  BY <1>2 DEF ActsOf

LEMMA KeptIf ==
    ASSUME hist \in Seq(Diff),
           hist' = hist \/ \E l \in Diff : hist' = Append(hist, l)
    PROVE  Kept
  BY LenProperties, AppendProperties DEF Kept

-----------------------------------------------------------------------------
(* Types of what is in the messages.                                       *)

LEMMA UpTyped ==
    ASSUME Types, NEW c \in Client, NEW i \in 1 .. Len(up[c])
    PROVE  /\ up[c][i] \in UpMsg
           /\ up[c][i].type \in {"check_version", "diff"}
           /\ up[c][i].v \in Nat /\ up[c][i].seen \in Nat
           /\ up[c][i].type = "diff" =>
                 /\ up[c][i].rid \in Nat /\ up[c][i].cu \in Seq(Update)
                 /\ up[c][i].acts \in Seq(Act) /\ Len(up[c][i].acts) \in Nat
<1>1. up[c] \in Seq(UpMsg)
  BY DEF Types
<1>2. up[c][i] \in UpMsg
  BY <1>1, ElementOfSeq
<1> DEFINE m == up[c][i]
<1>3. /\ m.type \in {"check_version", "diff"}
      /\ m.v \in Nat /\ m.seen \in Nat
      /\ m.type = "diff" => m.rid \in Nat /\ m.cu \in Seq(Update) /\ m.acts \in Seq(Act)
  BY <1>2 DEF UpMsg, CheckUp, DiffUp
<1> QED
  BY <1>2, <1>3, LenProperties

LEMMA DownTyped ==
    ASSUME NEW m \in DownMsg
    PROVE  /\ m.type \in {"confirm_version", "confirm_diff", "reject_diff", "diff"}
           /\ m.type = "confirm_version" => m.v \in Nat
           /\ m.type \in {"confirm_diff", "reject_diff", "diff"} => m.rid \in Nat
           /\ m.type = "diff" => m.v \in Nat /\ m.cid \in Client /\ m.cu \in Seq(Update)
  BY DEF DownMsg, VersionDown, AnswerDown, DiffDown

LEMMA HeadIs ==
    ASSUME Types, NEW c \in Client, up[c] # <<>>
    PROVE  /\ Len(up[c]) \in Nat \ {0} /\ 1 \in 1 .. Len(up[c])
           /\ Head(up[c]) = up[c][1] /\ Head(up[c]) \in UpMsg
           /\ Tail(up[c]) \in Seq(UpMsg) /\ Len(Tail(up[c])) = Len(up[c]) - 1
           /\ \A i \in 1 .. Len(up[c]) - 1 :
                 i + 1 \in 1 .. Len(up[c]) /\ Tail(up[c])[i] = up[c][i + 1]
<1>1. up[c] \in Seq(UpMsg)
  BY DEF Types
<1>2. Len(up[c]) \in Nat \ {0}
  BY <1>1, EmptySeq
<1>3. Head(up[c]) = up[c][1]
  BY <1>1, <1>2
<1>4. /\ Head(up[c]) \in UpMsg /\ Tail(up[c]) \in Seq(UpMsg)
      /\ Len(Tail(up[c])) = Len(up[c]) - 1
      /\ \A i \in 1 .. Len(Tail(up[c])) : Tail(up[c])[i] = up[c][i + 1]
  BY <1>1, HeadTailProperties
<1> QED
  BY <1>2, <1>3, <1>4
-----------------------------------------------------------------------------
(* What the server does, for a client that keeps what it has.              *)

\* The version is raised by a diff of somebody else at most.
HistFor(c) == hist' = hist \/ \E l \in Diff : l.cid # c /\ hist' = Append(hist, l)

LEMMA HistFacts ==
    ASSUME hist \in Seq(Diff), NEW c, HistFor(c), ver'[c] = ver[c], ver[c] \in Nat,
           ver[c] <= Len(hist)
    PROVE  /\ Kept /\ Len(hist) \in Nat /\ Len(hist') \in Nat
           /\ \A k \in 1 .. Len(hist') : hist'[k].cid = c => k \in 1 .. Len(hist)
           /\ \A r : Taken(c, r)' <=> Taken(c, r)
           /\ OwnNext(c)' <=> OwnNext(c)
           /\ OwnNext(c) => hist'[ver[c] + 1] = hist[ver[c] + 1]
<1>1. PICK n \in Nat : n = Len(hist)
  BY LenProperties
<1>2. /\ Len(hist') \in Nat /\ n <= Len(hist') /\ \A k \in 1 .. n : hist'[k] = hist[k]
      /\ \A k \in 1 .. Len(hist') : hist'[k].cid = c => k \in 1 .. n
  <2>1. CASE hist' = hist
    BY <1>1, <2>1
  <2>2. ASSUME NEW l \in Diff, l.cid # c, hist' = Append(hist, l)
        PROVE  /\ Len(hist') \in Nat /\ n <= Len(hist') /\ \A k \in 1 .. n : hist'[k] = hist[k]
               /\ \A k \in 1 .. Len(hist') : hist'[k].cid = c => k \in 1 .. n
    <3>1. /\ Len(hist') = n + 1 /\ \A k \in 1 .. n : hist'[k] = hist[k]
          /\ hist'[n + 1] = l
      BY <1>1, <2>2, AppendProperties
    <3>2. PICK m \in Nat : m = n + 1
      OBVIOUS
    <3>3. Len(hist') = m /\ hist'[m] = l
      BY <3>1, <3>2
    <3> QED
      BY <2>2, <3>1, <3>2, <3>3
  <2> QED
    BY <2>1, <2>2 DEF HistFor
<1>3. \A k \in 1 .. n : k \in 1 .. Len(hist')
  BY <1>1, <1>2
<1>4. PICK v \in Nat : v = ver[c] /\ v <= n
  BY <1>1
<1>5. OwnNext(c)' <=> OwnNext(c)
  <2>1. PICK w \in Nat : w = v + 1
    OBVIOUS
  <2>2. OwnNext(c) <=> w \in 1 .. n /\ hist[w].cid = c
    BY <1>1, <1>4, <2>1 DEF OwnNext
  <2>3. OwnNext(c)' <=> w \in 1 .. Len(hist') /\ hist'[w].cid = c
    BY <1>2, <1>4, <2>1 DEF OwnNext
  <2> QED
    BY <1>2, <1>3, <2>2, <2>3
<1>6. OwnNext(c) => hist'[ver[c] + 1] = hist[ver[c] + 1]
  <2>1. OwnNext(c) => v + 1 \in 1 .. n
    BY <1>1, <1>4 DEF OwnNext
  <2> QED
    BY <1>2, <1>4, <2>1
<1>7. \A r : Taken(c, r)' <=> Taken(c, r)
  BY <1>1, <1>2, <1>3 DEF Taken
<1> QED
  BY <1>1, <1>2, <1>5, <1>6, <1>7 DEF Kept

LEMMA OwnKept ==
    ASSUME Types, NEW c \in Client, HistFor(c), ver'[c] = ver[c], unsent'[c] = unsent[c],
           Current(c), Own(c), \A u \in unconf[c] : Taken(c, u.rid) => u \in unconf'[c]
    PROVE  Own(c)'
<1>1. /\ hist \in Seq(Diff) /\ ver[c] \in Nat /\ ver[c] <= Len(hist)
  BY DEF Types, Current
<1>2. /\ Kept /\ Len(hist) \in Nat /\ Len(hist') \in Nat
      /\ \A k \in 1 .. Len(hist') : hist'[k].cid = c => k \in 1 .. Len(hist)
      /\ OwnNext(c)' <=> OwnNext(c)
      /\ OwnNext(c) => hist'[ver[c] + 1] = hist[ver[c] + 1]
  BY <1>1, HistFacts
<1>3. Waiting(c)' = Waiting(c)
  BY DEF Waiting
<1>4. \A k \in ver'[c] + 2 .. Len(hist') : hist'[k].cid # c
  <2> SUFFICES ASSUME NEW k \in ver[c] + 2 .. Len(hist'), hist'[k].cid = c
               PROVE  FALSE
    OBVIOUS
  <2>1. k \in 1 .. Len(hist') /\ k \in Nat
    BY <1>1, <1>2
  <2>2. k \in 1 .. Len(hist)
    BY <1>2, <2>1
  <2>3. hist'[k] = hist[k] /\ k \in ver[c] + 2 .. Len(hist)
    BY <1>1, <1>2, <2>2 DEF Kept
  <2> QED
    BY <2>3 DEF Own
<1>5. ASSUME OwnNext(c)
      PROVE  LET l == hist'[ver'[c] + 1]
             IN  /\ IsPrefix(l.acts, Waiting(c)')
                 /\ [rid |-> l.rid, n |-> Len(l.acts)] \in unconf'[c]
  <2> DEFINE l == hist[ver[c] + 1]
             u == [rid |-> l.rid, n |-> Len(l.acts)]
  <2>1. IsPrefix(l.acts, Waiting(c)) /\ u \in unconf[c]
    BY <1>5 DEF Own
  <2>2. ver[c] + 1 \in 1 .. Len(hist) /\ l.cid = c
    BY <1>1, <1>2, <1>5 DEF OwnNext
  <2>3. Taken(c, l.rid)
    BY <2>2 DEF Taken
  <2>4. u \in unconf'[c]
    BY <2>1, <2>3
  <2> QED
    BY <1>2, <1>3, <1>5, <2>1, <2>4
<1> QED
  BY <1>2, <1>4, <1>5 DEF Own

\* ms tells c what is: a confirmation is the first message and of the next diff.
Apt(c, ms) ==
    \A i \in 1 .. Len(ms) :
        LET m == ms[i]
        IN  /\ Confirms(c, m) => /\ i = 1 /\ down[c] = <<>>
                                 /\ OwnNext(c) /\ hist[ver[c] + 1].rid = m.rid
            /\ m.type = "diff" => /\ m.v < Len(hist')
                                  /\ hist'[m.v + 1].cid = m.cid
                                  /\ hist'[m.v + 1].rid = m.rid

LEMMA IncomingTold ==
    ASSUME Types, NEW c \in Client, HistFor(c), ver'[c] = ver[c], Current(c), Incoming(c),
           NEW ms \in Seq(DownMsg), down'[c] = down[c] \o ms, Apt(c, ms)
    PROVE  Incoming(c)'
<1>1. /\ hist \in Seq(Diff) /\ ver[c] \in Nat /\ ver[c] <= Len(hist)
      /\ down[c] \in Seq(DownMsg)
  BY DEF Types, Current
<1>2. /\ Kept /\ Len(hist) \in Nat /\ Len(hist') \in Nat
      /\ OwnNext(c)' <=> OwnNext(c)
      /\ OwnNext(c) => hist'[ver[c] + 1] = hist[ver[c] + 1]
  BY <1>1, HistFacts
<1>3. PICK n \in Nat, k \in Nat : n = Len(down[c]) /\ k = Len(ms)
  BY <1>1, LenProperties
<1>4. /\ Len(down'[c]) = n + k
      /\ \A i \in 1 .. n + k : down'[c][i] = IF i <= n THEN down[c][i] ELSE ms[i - n]
  BY <1>1, <1>3, ConcatProperties
<1> SUFFICES ASSUME NEW i \in 1 .. n + k
             PROVE  LET m == down'[c][i]
                    IN  /\ Confirms(c, m) => i = 1 /\ OwnNext(c)' /\ hist'[ver'[c] + 1].rid = m.rid
                        /\ m.type = "diff" => /\ m.v < Len(hist')
                                              /\ hist'[m.v + 1].cid = m.cid
                                              /\ hist'[m.v + 1].rid = m.rid
  BY <1>4 DEF Incoming, Confirms
<1>5. CASE i <= n
  <2> DEFINE m == down[c][i]
  <2>1. i \in 1 .. n /\ down'[c][i] = m
    BY <1>4, <1>5
  <2>2. m \in DownMsg
    BY <1>1, <1>3, <2>1, ElementOfSeq
  <2>3. /\ Confirms(c, m) => i = 1 /\ OwnNext(c) /\ hist[ver[c] + 1].rid = m.rid
        /\ m.type = "diff" => /\ m.v < Len(hist) /\ m.v \in Nat
                              /\ hist[m.v + 1].cid = m.cid
                              /\ hist[m.v + 1].rid = m.rid
    BY <1>3, <2>1, <2>2, DownTyped DEF Incoming
  <2> HIDE DEF m
  <2>4. ASSUME m.type = "diff"
        PROVE  m.v < Len(hist') /\ hist'[m.v + 1] = hist[m.v + 1]
    <3>1. m.v + 1 \in 1 .. Len(hist)
      BY <1>2, <2>3, <2>4
    <3> QED
      BY <1>2, <2>3, <2>4, <3>1 DEF Kept
  <2> QED
    BY <1>2, <2>1, <2>3, <2>4
<1>6. CASE i > n
  <2> DEFINE m == ms[i - n]
  <2>1. i - n \in 1 .. k /\ down'[c][i] = m
    BY <1>4, <1>6
  <2>2. /\ Confirms(c, m) => /\ i - n = 1 /\ down[c] = <<>>
                             /\ OwnNext(c) /\ hist[ver[c] + 1].rid = m.rid
        /\ m.type = "diff" => /\ m.v < Len(hist')
                              /\ hist'[m.v + 1].cid = m.cid
                              /\ hist'[m.v + 1].rid = m.rid
    BY <1>3, <2>1 DEF Apt
  <2>3. Confirms(c, m) => n = 0
    BY <1>3, <2>2
  <2>4. Confirms(c, m) => i = 1 /\ OwnNext(c)' /\ hist'[ver'[c] + 1].rid = m.rid
    <3>1. Confirms(c, m) => i = 1
      BY <2>2, <2>3
    <3> HIDE DEF m
    <3> QED
      BY <1>2, <2>2, <3>1
  <2>5. m.type = "diff" => /\ m.v < Len(hist')
                           /\ hist'[m.v + 1].cid = m.cid
                           /\ hist'[m.v + 1].rid = m.rid
    BY <2>2
  <2>6. down'[c][i] = m
    BY <2>1
  <2> HIDE DEF m
  <2> QED
    BY <2>4, <2>5, <2>6
<1>7. i <= n \/ i > n
  OBVIOUS
<1> QED
  BY <1>5, <1>6, <1>7
\* The messages of c to the server are the same, or the first one is gone.
FewerUp(c) == up'[c] = up[c] \/ (up[c] # <<>> /\ up'[c] = Tail(up[c]))

\* Each one left was there, and their order is the same.
LEMMA LeftUp ==
    ASSUME Types, NEW c \in Client, FewerUp(c)
    PROVE  /\ Len(up'[c]) \in Nat
           /\ \E o \in {0, 1} : \A i \in 1 .. Len(up'[c]) :
                 i + o \in 1 .. Len(up[c]) /\ up'[c][i] = up[c][i + o]
<1>1. CASE up'[c] = up[c]
  <2>1. Len(up[c]) \in Nat
    BY LenProperties DEF Types
  <2>2. \A i \in 1 .. Len(up'[c]) : i + 0 \in 1 .. Len(up[c]) /\ up'[c][i] = up[c][i + 0]
    BY <1>1, <2>1
  <2> QED
    BY <1>1, <2>1, <2>2
<1>2. CASE up[c] # <<>> /\ up'[c] = Tail(up[c])
  <2>1. /\ Len(up[c]) \in Nat \ {0} /\ Len(Tail(up[c])) = Len(up[c]) - 1
        /\ \A i \in 1 .. Len(up[c]) - 1 :
              i + 1 \in 1 .. Len(up[c]) /\ Tail(up[c])[i] = up[c][i + 1]
    BY <1>2, HeadIs
  <2>2. Len(up'[c]) \in Nat /\ \A i \in 1 .. Len(up'[c]) :
           i + 1 \in 1 .. Len(up[c]) /\ up'[c][i] = up[c][i + 1]
    BY <1>2, <2>1
  <2> QED
    BY <2>2
<1> QED
  BY <1>1, <1>2 DEF FewerUp

\* What c waits for is the same, but for diffs not accepted and not under way.
Dropped(c) ==
    /\ unconf'[c] \subseteq unconf[c]
    /\ \A u \in unconf[c] \ unconf'[c] :
          /\ ~Taken(c, u.rid)
          /\ \A i \in 1 .. Len(up'[c]) : up'[c][i].type = "diff" => up'[c][i].rid # u.rid

LEMMA FreshKept ==
    ASSUME Types, NEW c \in Client, Fresh(c), FewerUp(c), Dropped(c),
           seen'[c] = seen[c], ver'[c] = ver[c], unsent'[c] = unsent[c]
    PROVE  Fresh(c)'
<1>1. Waiting(c)' = Waiting(c)
  BY DEF Waiting
<1>2. PICK o \in {0, 1} : \A i \in 1 .. Len(up'[c]) :
         i + o \in 1 .. Len(up[c]) /\ up'[c][i] = up[c][i + o]
  BY LeftUp
<1> SUFFICES ASSUME NEW i \in 1 .. Len(up'[c])
             PROVE  /\ up'[c][i].seen <= seen[c]
                    /\ up'[c][i].seen = seen[c] =>
                          /\ up'[c][i].v = ver[c]
                          /\ up'[c][i].type = "diff" =>
                                /\ IsPrefix(up'[c][i].acts, Waiting(c))
                                /\ [rid |-> up'[c][i].rid, n |-> Len(up'[c][i].acts)] \in unconf'[c]
  BY <1>1 DEF Fresh
<1> DEFINE m == up[c][i + o]
           u == [rid |-> m.rid, n |-> Len(m.acts)]
<1>3. /\ m.seen <= seen[c]
      /\ m.seen = seen[c] =>
            /\ m.v = ver[c]
            /\ m.type = "diff" => IsPrefix(m.acts, Waiting(c)) /\ u \in unconf[c]
  BY <1>2 DEF Fresh
<1>4. up'[c][i] = m
  BY <1>2
<1>5. m.type = "diff" /\ u \in unconf[c] => u \in unconf'[c]
  <2>1. u.rid = m.rid
    OBVIOUS
  <2> HIDE DEF u, m
  <2> QED
    BY <1>4, <2>1 DEF Dropped
<1> HIDE DEF m
<1> QED
  BY <1>3, <1>4, <1>5

LEMMA BoundedKept ==
    ASSUME hist \in Seq(Diff), NEW c, HistFor(c), ver'[c] = ver[c], ver[c] \in Nat,
           ver[c] <= Len(hist), Bounded(c), unconf'[c] \subseteq unconf[c]
    PROVE  Bounded(c)'
<1>1. PICK b \in Nat : /\ \A u \in unconf[c] : u.rid <= b
                       /\ \A k \in 1 .. Len(hist) : hist[k].cid = c => hist[k].rid <= b
  BY DEF Bounded
<1>2. /\ Kept /\ \A k \in 1 .. Len(hist') : hist'[k].cid = c => k \in 1 .. Len(hist)
  BY HistFacts
<1>3. \A k \in 1 .. Len(hist') : hist'[k].cid = c => hist'[k].rid <= b
  BY <1>1, <1>2 DEF Kept
<1>4. \A u \in unconf'[c] : u.rid <= b
  BY <1>1
<1> QED
  BY <1>3, <1>4 DEF Bounded

LEMMA RidsKept ==
    ASSUME Types, NEW c \in Client, Rids(c), Current(c), HistFor(c), FewerUp(c), Dropped(c),
           ver'[c] = ver[c], NEW ms \in Seq(DownMsg), down'[c] = down[c] \o ms,
           \A i \in 1 .. Len(ms) : ms[i].type = "reject_diff" =>
              /\ ~Taken(c, ms[i].rid)
              /\ \A j \in 1 .. Len(up'[c]) :
                    up'[c][j].type = "diff" => up'[c][j].rid # ms[i].rid
    PROVE  Rids(c)'
<1>1. /\ hist \in Seq(Diff) /\ ver[c] \in Nat /\ ver[c] <= Len(hist)
      /\ down[c] \in Seq(DownMsg)
  BY DEF Types, Current
<1>2. \A r : Taken(c, r)' <=> Taken(c, r)
  BY <1>1, HistFacts
<1>3. PICK o \in {0, 1} : \A i \in 1 .. Len(up'[c]) :
         i + o \in 1 .. Len(up[c]) /\ up'[c][i] = up[c][i + o]
  BY LeftUp
<1>4. Bounded(c)'
  BY <1>1, BoundedKept DEF Rids, Dropped
<1>5. \A u, w \in unconf'[c] : u.rid = w.rid => u = w
  BY DEF Rids, Dropped
<1>6. ASSUME NEW i \in 1 .. Len(up'[c]), NEW m, m = up'[c][i], m.type = "diff"
      PROVE  /\ \E u \in unconf'[c] : u.rid = m.rid
             /\ ~Taken(c, m.rid)'
             /\ \A j \in 1 .. i - 1 : up'[c][j].type = "diff" => up'[c][j].rid # m.rid
  <2>1. i + o \in 1 .. Len(up[c]) /\ m = up[c][i + o]
    BY <1>3, <1>6
  <2>2. /\ \E u \in unconf[c] : u.rid = m.rid
        /\ ~Taken(c, m.rid)
        /\ \A j \in 1 .. (i + o) - 1 :
              up[c][j].type = "diff" => up[c][j].rid # m.rid
    BY <1>6, <2>1 DEF Rids
  <2>3. \E u \in unconf'[c] : u.rid = m.rid
    BY <1>6, <2>2 DEF Dropped
  <2>4. ASSUME NEW j \in 1 .. i - 1
        PROVE  up'[c][j].type = "diff" => up'[c][j].rid # m.rid
    <3>1. j \in 1 .. Len(up'[c])
      BY LeftUp
    <3>2. j + o \in 1 .. (i + o) - 1 /\ up'[c][j] = up[c][j + o]
      BY <1>3, <3>1
    <3> QED
      BY <2>2, <3>2
  <2> QED
    BY <1>2, <2>2, <2>3, <2>4
<1>7. PICK n \in Nat, k \in Nat : n = Len(down[c]) /\ k = Len(ms)
  BY <1>1, LenProperties
<1>8. /\ Len(down'[c]) = n + k
      /\ \A i \in 1 .. n + k : down'[c][i] = IF i <= n THEN down[c][i] ELSE ms[i - n]
  BY <1>1, <1>7, ConcatProperties
<1>9. ASSUME NEW i \in 1 .. n + k, NEW m, m = down'[c][i], m.type = "reject_diff"
      PROVE  /\ ~Taken(c, m.rid)'
             /\ \A j \in 1 .. Len(up'[c]) : up'[c][j].type = "diff" => up'[c][j].rid # m.rid
  <2>1. CASE i <= n
    <3>1. i \in 1 .. n /\ m = down[c][i]
      BY <1>8, <1>9, <2>1
    <3>2. /\ ~Taken(c, m.rid)
          /\ \A j \in 1 .. Len(up[c]) : up[c][j].type = "diff" => up[c][j].rid # m.rid
      BY <1>7, <1>9, <3>1 DEF Rids
    <3> QED
      BY <1>2, <1>3, <3>2
  <2>2. CASE i > n
    <3>1. i - n \in 1 .. k /\ m = ms[i - n]
      BY <1>8, <1>9, <2>2
    <3>2. /\ ~Taken(c, m.rid)
          /\ \A j \in 1 .. Len(up'[c]) : up'[c][j].type = "diff" => up'[c][j].rid # m.rid
      BY <1>7, <1>9, <3>1
    <3> QED
      BY <1>2, <3>2
  <2>3. i <= n \/ i > n
    OBVIOUS
  <2> QED
    BY <2>1, <2>2, <2>3
<1>10. \A i \in 1 .. Len(up'[c]) : up'[c][i].type = "diff" =>
          /\ \E u \in unconf'[c] : u.rid = up'[c][i].rid
          /\ ~\E k1 \in 1 .. Len(hist') : hist'[k1].cid = c /\ hist'[k1].rid = up'[c][i].rid
          /\ \A j \in 1 .. i - 1 : up'[c][j].type = "diff" => up'[c][j].rid # up'[c][i].rid
  BY <1>6 DEF Taken
<1>11. \A i \in 1 .. Len(down'[c]) : down'[c][i].type = "reject_diff" =>
          /\ ~\E k1 \in 1 .. Len(hist') : hist'[k1].cid = c /\ hist'[k1].rid = down'[c][i].rid
          /\ \A j \in 1 .. Len(up'[c]) :
                up'[c][j].type = "diff" => up'[c][j].rid # down'[c][i].rid
  BY <1>8, <1>9 DEF Taken
<1> QED
  BY <1>4, <1>5, <1>10, <1>11 DEF Rids, Taken

LEMMA LinkedTold ==
    ASSUME Types, NEW c \in Client, Linked(c), link'[c] = link[c], seen'[c] = seen[c],
           FewerUp(c), NEW ms \in Seq(DownMsg), Len(ms) # 0 => link[c] = "on",
           down'[c] = down[c] \o ms, said'[c] = said[c] + Len(ms)
    PROVE  Linked(c)'
<1>1. down[c] \in Seq(DownMsg) /\ seen[c] \in Nat /\ said[c] \in Nat
  BY DEF Types
<1>2. PICK n \in Nat, k \in Nat : n = Len(down[c]) /\ k = Len(ms)
  BY <1>1, LenProperties
<1>3. Len(down'[c]) = n + k
  BY <1>1, <1>2, ConcatProperties
<1>4. CASE link[c] = "on"
  <2>1. seen[c] + n = said[c] /\ said'[c] = said[c] + k
    BY <1>2, <1>4 DEF Linked
  <2> QED
    BY <1>1, <1>3, <1>4, <2>1 DEF Linked
<1>5. CASE link[c] # "on"
  <2>1. ms = <<>>
    BY <1>5, EmptySeq
  <2>2. down'[c] = down[c] /\ said'[c] = said[c]
    BY <1>1, <2>1, ConcatEmptySeq
  <2> QED
    BY <1>5, <2>2 DEF Linked, FewerUp
<1> QED
  BY <1>4, <1>5

\* The invariant of c goes on for all of this.
LEMMA Onward ==
    ASSUME Types, NEW c \in Client, ClientInv(c), HistFor(c), FewerUp(c), Dropped(c),
           link'[c] = link[c], seen'[c] = seen[c], ver'[c] = ver[c],
           unsent'[c] = unsent[c], done'[c] = done[c],
           NEW ms \in Seq(DownMsg), Len(ms) # 0 => link[c] = "on", Apt(c, ms),
           down'[c] = down[c] \o ms, said'[c] = said[c] + Len(ms),
           \A i \in 1 .. Len(ms) : ms[i].type = "reject_diff" =>
              /\ ~Taken(c, ms[i].rid)
              /\ \A j \in 1 .. Len(up'[c]) :
                    up'[c][j].type = "diff" => up'[c][j].rid # ms[i].rid
    PROVE  ClientInv(c)'
<1>1. Linked(c) /\ Fresh(c) /\ Rids(c) /\ Own(c) /\ Incoming(c) /\ Current(c)
  BY DEF ClientInv
<1>2. Linked(c)'
  BY <1>1, LinkedTold
<1>3. Fresh(c)'
  BY <1>1, FreshKept
<1>4. Rids(c)'
  BY <1>1, RidsKept
<1>5. Own(c)'
  BY <1>1, OwnKept DEF Dropped
<1>6. Incoming(c)'
  BY <1>1, IncomingTold
<1>7. Current(c)'
  <2>1. hist \in Seq(Diff) /\ ver[c] \in Nat /\ ver[c] <= Len(hist)
    BY <1>1 DEF Types, Current
  <2>2. Kept /\ Len(hist) \in Nat /\ Len(hist') \in Nat
    BY <2>1, HistFacts
  <2>3. ActsOf(c, ver[c])' = ActsOf(c, ver[c])
    <3>1. PICK v \in Nat : v = ver[c]
      BY <2>1
    <3>2. ActsOf(c, v)' = ActsOf(c, v)
      BY <2>1, <2>2, <3>1, ActsStay
    <3> QED
      BY <3>1, <3>2
  <2>4. Waiting(c)' = Waiting(c)
    BY DEF Waiting
  <2> QED
    BY <1>1, <2>1, <2>2, <2>3, <2>4 DEF Current, Kept
<1> QED
  BY <1>2, <1>3, <1>4, <1>5, <1>6, <1>7 DEF ClientInv
-----------------------------------------------------------------------------
(* What the server says.                                                   *)

LEMMA DiffForIs ==
    ASSUME hist' \in Seq(Diff), NEW d, NEW v \in 1 .. Len(hist')
    PROVE  LET m == DiffFor(d, v)
           IN  /\ m \in DownMsg /\ m.type = "diff" /\ m.v = v - 1
               /\ m.cid = hist'[v].cid /\ m.rid = hist'[v].rid
<1>1. Len(hist') \in Nat
  BY LenProperties
<1>2. hist'[v] \in Diff
  BY ElementOfSeq
<1>3. hist'[v].cid \in Client /\ hist'[v].rid \in Nat /\ hist'[v].cu \in Seq(Update)
  BY <1>2 DEF Diff
<1>4. ShownTo(d, hist'[v].cu) \in Seq(Update)
  BY <1>3, ShownType
<1>5. v - 1 \in Nat
  BY <1>1
<1> QED
  BY <1>3, <1>4, <1>5 DEF DiffFor, DownMsg, DiffDown

LEMMA DiffsAfterIs ==
    ASSUME hist \in Seq(Diff), hist' = hist, NEW c, NEW v \in Nat
    PROVE  /\ DiffsAfter(c, v) \in Seq(DownMsg)
           /\ \A i \in 1 .. Len(DiffsAfter(c, v)) :
                 LET m == DiffsAfter(c, v)[i]
                 IN  /\ m.type = "diff" /\ m.v = v + i - 1 /\ m.v < Len(hist)
                     /\ m.cid = hist[v + i].cid /\ m.rid = hist[v + i].rid
                     /\ v + i \in 1 .. Len(hist)
<1>1. PICK n \in Nat : n = Len(hist)
  BY LenProperties
<1> DEFINE q == [k \in 1 .. n - v |-> DiffFor(c, v + k)]
<1>2. \A k \in 1 .. n - v : v + k \in 1 .. n
  BY <1>1
<1>3. \A k \in 1 .. n - v : LET m == DiffFor(c, v + k)
                            IN  /\ m \in DownMsg /\ m.type = "diff" /\ m.v = v + k - 1
                                /\ m.cid = hist[v + k].cid /\ m.rid = hist[v + k].rid
  BY <1>1, <1>2, DiffForIs
<1>4. q \in [1 .. n - v -> DownMsg] /\ \A k \in 1 .. n - v : q[k] = DiffFor(c, v + k)
  BY <1>3
<1>5. DiffsAfter(c, v) = q
  BY <1>1 DEF DiffsAfter
<1> HIDE DEF q
<1>6. q \in Seq(DownMsg) /\ \A k \in 1 .. Len(q) : k \in 1 .. n - v
  <2>1. CASE v <= n
    <3>1. PICK j \in Nat : j = n - v
      BY <2>1
    <3>2. q \in [1 .. j -> DownMsg]
      BY <1>4, <3>1
    <3>3. q \in Seq(DownMsg) /\ Len(q) = j
      BY <3>2
    <3> QED
      BY <3>1, <3>3
  <2>2. CASE v > n
    <3>1. 1 .. n - v = 1 .. 0
      BY <2>2
    <3>2. q \in [1 .. 0 -> DownMsg]
      BY <1>4, <3>1
    <3>3. q \in Seq(DownMsg) /\ Len(q) = 0
      BY <3>2
    <3> QED
      BY <3>3
  <2>3. v <= n \/ v > n
    OBVIOUS
  <2> QED
    BY <2>1, <2>2, <2>3
<1>7. ASSUME NEW i \in 1 .. Len(q)
      PROVE  /\ q[i].type = "diff" /\ q[i].v = v + i - 1 /\ q[i].v < n
             /\ q[i].cid = hist[v + i].cid /\ q[i].rid = hist[v + i].rid
             /\ v + i \in 1 .. n
  <2>1. i \in 1 .. n - v
    BY <1>6
  <2>2. v + i - 1 < n
    BY <2>1
  <2> QED
    BY <1>2, <1>3, <1>4, <2>1, <2>2
<1> QED
  BY <1>1, <1>5, <1>6, <1>7

\* The diffs after the version of c are apt for c when nothing is under way.
LEMMA DiffsApt ==
    ASSUME Types, NEW c \in Client, hist' = hist, Own(c), ver[c] <= Len(hist), down[c] = <<>>
    PROVE  Apt(c, DiffsAfter(c, ver[c]))
<1>1. hist \in Seq(Diff) /\ ver[c] \in Nat
  BY DEF Types
<1>2. PICK v \in Nat, n \in Nat : v = ver[c] /\ n = Len(hist)
  BY <1>1, LenProperties
<1> DEFINE q == DiffsAfter(c, ver[c])
<1>3. \A i \in 1 .. Len(q) :
         /\ q[i].type = "diff" /\ q[i].v = v + i - 1 /\ q[i].v < n
         /\ q[i].cid = hist[v + i].cid /\ q[i].rid = hist[v + i].rid
         /\ v + i \in 1 .. n
  BY <1>1, <1>2, DiffsAfterIs
<1> HIDE DEF q
<1>4. ASSUME NEW i \in 1 .. Len(q), q[i].cid = c
      PROVE  i = 1 /\ OwnNext(c) /\ hist[ver[c] + 1].rid = q[i].rid
  <2>1. v + i \in 1 .. n /\ hist[v + i].cid = c /\ hist[v + i].rid = q[i].rid
    BY <1>3, <1>4
  <2>2. ~(v + i \in v + 2 .. n)
    BY <1>2, <2>1 DEF Own
  <2>3. i = 1
    BY <2>1, <2>2
  <2> QED
    BY <1>2, <2>1, <2>3 DEF OwnNext
<1>5. ASSUME NEW i \in 1 .. Len(q)
      PROVE  /\ q[i].v < Len(hist') /\ hist'[q[i].v + 1].cid = q[i].cid
             /\ hist'[q[i].v + 1].rid = q[i].rid /\ q[i].type = "diff"
  <2>1. q[i].v + 1 = v + i
    BY <1>3
  <2> QED
    BY <1>2, <1>3, <2>1
<1> QED
  BY <1>4, <1>5 DEF Apt, Confirms, q

LEMMA AptAppend ==
    ASSUME NEW c, NEW q \in Seq(DownMsg), Apt(c, q), NEW m \in VersionDown
    PROVE  Apt(c, Append(q, m)) /\ Append(q, m) \in Seq(DownMsg)
<1>1. m \in DownMsg /\ m.type = "confirm_version"
  BY DEF DownMsg, VersionDown
<1>2. PICK n \in Nat : n = Len(q)
  BY LenProperties
<1>3. /\ Append(q, m) \in Seq(DownMsg) /\ Len(Append(q, m)) = n + 1
      /\ \A i \in 1 .. n : Append(q, m)[i] = q[i]
      /\ Append(q, m)[n + 1] = m
  BY <1>1, <1>2, AppendProperties
<1> DEFINE a == Append(q, m)
<1> HIDE DEF a
<1>4. \A i \in 1 .. n + 1 : i \in 1 .. n \/ i = n + 1
  OBVIOUS
<1>5. a[n + 1].type = "confirm_version"
  BY <1>1, <1>3 DEF a
<1>6. \A i \in 1 .. n : a[i] = q[i]
  BY <1>3 DEF a
<1>7. ASSUME NEW i \in 1 .. n + 1
      PROVE  /\ Confirms(c, a[i]) => /\ i = 1 /\ down[c] = <<>>
                                     /\ OwnNext(c) /\ hist[ver[c] + 1].rid = a[i].rid
             /\ a[i].type = "diff" => /\ a[i].v < Len(hist')
                                      /\ hist'[a[i].v + 1].cid = a[i].cid
                                      /\ hist'[a[i].v + 1].rid = a[i].rid
  <2>1. CASE i = n + 1
    BY <1>5, <2>1 DEF Confirms
  <2>2. CASE i \in 1 .. n
    <3>1. a[i] = q[i]
      BY <1>6, <2>2
    <3> QED
      BY <1>2, <2>2, <3>1 DEF Apt
  <2> QED
    BY <1>4, <2>1, <2>2
<1> QED
  BY <1>3, <1>7 DEF Apt, a

LEMMA SayIs ==
    ASSUME Types, NEW out \in [Client -> Seq(DownMsg)], Say(out)
    PROVE  /\ down' \in [Client -> Seq(DownMsg)] /\ said' \in [Client -> Nat]
           /\ \A d \in Client : down'[d] = down[d] \o out[d] /\ said'[d] = said[d] + Len(out[d])
<1>1. \A d \in Client : /\ down[d] \in Seq(DownMsg) /\ out[d] \in Seq(DownMsg)
                        /\ said[d] \in Nat /\ Len(out[d]) \in Nat
  BY LenProperties DEF Types
<1>2. \A d \in Client : down[d] \o out[d] \in Seq(DownMsg)
  BY <1>1, ConcatProperties
<1> QED
  BY <1>1, <1>2 DEF Say

LEMMA OnlyToIs ==
    ASSUME NEW c \in Client, NEW ms \in Seq(DownMsg)
    PROVE  /\ OnlyTo(c, ms) \in [Client -> Seq(DownMsg)] /\ OnlyTo(c, ms)[c] = ms
           /\ \A d \in Client \ {c} : OnlyTo(c, ms)[d] = <<>>
<1>1. <<>> \in Seq(DownMsg)
  BY EmptySeq
<1> QED
  BY <1>1 DEF OnlyTo

\* A client that hears nothing, while the version stays or is raised by another.
LEMMA Unheard ==
    ASSUME Types, NEW d \in Client, ClientInv(d), HistFor(d),
           link'[d] = link[d], seen'[d] = seen[d], up'[d] = up[d], ver'[d] = ver[d],
           unsent'[d] = unsent[d], unconf'[d] = unconf[d], done'[d] = done[d],
           down'[d] = down[d], said'[d] = said[d]
    PROVE  ClientInv(d)'
<1> DEFINE ms == <<>>
<1>1. ms \in Seq(DownMsg) /\ Len(ms) = 0
  BY EmptySeq
<1>2. down[d] \in Seq(DownMsg) /\ said[d] \in Nat
  BY DEF Types
<1>3. down'[d] = down[d] \o ms /\ said'[d] = said[d] + Len(ms)
  BY <1>1, <1>2, ConcatEmptySeq
<1> HIDE DEF ms
<1>4. Apt(d, ms) /\ \A i \in 1 .. Len(ms) : FALSE
  BY <1>1 DEF Apt
<1>5. FewerUp(d) /\ Dropped(d)
  BY DEF FewerUp, Dropped
<1> QED
  BY <1>1, <1>3, <1>4, <1>5, Onward
-----------------------------------------------------------------------------
(* The steps of the server.                                                *)

\* The first message of c that the server handles.
LEMMA FirstUp ==
    ASSUME Types, NEW c \in Client, ClientInv(c), up[c] # <<>>, NEW m, m = Head(up[c])
    PROVE  /\ m \in UpMsg /\ m = up[c][1] /\ link[c] = "on" /\ m.type \in {"check_version", "diff"}
           /\ m.v \in Nat
           /\ m.type = "diff" =>
                 /\ m.rid \in Nat /\ m.cu \in Seq(Update) /\ m.acts \in Seq(Act)
                 /\ ~Taken(c, m.rid)
                 /\ \A i \in 1 .. Len(Tail(up[c])) :
                       Tail(up[c])[i].type = "diff" => Tail(up[c])[i].rid # m.rid
<1>1. /\ Len(up[c]) \in Nat \ {0} /\ 1 \in 1 .. Len(up[c]) /\ m = up[c][1]
      /\ Len(Tail(up[c])) = Len(up[c]) - 1
      /\ \A i \in 1 .. Len(up[c]) - 1 :
            i + 1 \in 1 .. Len(up[c]) /\ Tail(up[c])[i] = up[c][i + 1]
  BY HeadIs
<1>2. /\ m \in UpMsg /\ m.type \in {"check_version", "diff"} /\ m.v \in Nat
      /\ m.type = "diff" => m.rid \in Nat /\ m.cu \in Seq(Update) /\ m.acts \in Seq(Act)
  BY <1>1, UpTyped
<1>3. link[c] = "on"
  BY DEF ClientInv, Linked, Types
<1>4. ASSUME m.type = "diff"
      PROVE  /\ ~Taken(c, m.rid)
             /\ \A i \in 1 .. Len(Tail(up[c])) :
                   Tail(up[c])[i].type = "diff" => Tail(up[c])[i].rid # m.rid
  <2>1. ~Taken(c, m.rid)
    BY <1>1, <1>4 DEF ClientInv, Rids
  <2>2. ASSUME NEW i \in 1 .. Len(Tail(up[c])), Tail(up[c])[i].type = "diff"
        PROVE  Tail(up[c])[i].rid # m.rid
    <3> DEFINE h == i + 1
    <3>1. h \in 1 .. Len(up[c]) /\ Tail(up[c])[i] = up[c][h] /\ 1 \in 1 .. h - 1
      BY <1>1
    <3> HIDE DEF h
    <3> QED
      BY <1>1, <1>4, <2>2, <3>1 DEF ClientInv, Rids
  <2> QED
    BY <2>1, <2>2
<1> QED
  BY <1>1, <1>2, <1>3, <1>4

\* If it does not cross a message, nothing is under way to c.
LEMMA FirstFresh ==
    ASSUME Types, NEW c \in Client, ClientInv(c), up[c] # <<>>, NEW m, m = Head(up[c]),
           ~(m.seen < said[c])
    PROVE  /\ down[c] = <<>> /\ seen[c] = said[c] /\ m.v = ver[c]
           /\ m.type = "diff" => /\ IsPrefix(m.acts, Waiting(c))
                                 /\ [rid |-> m.rid, n |-> Len(m.acts)] \in unconf[c]
<1>1. m = up[c][1] /\ 1 \in 1 .. Len(up[c]) /\ link[c] = "on"
  BY FirstUp, HeadIs
<1>2. m.seen \in Nat /\ said[c] \in Nat /\ seen[c] \in Nat /\ down[c] \in Seq(DownMsg)
  BY <1>1, UpTyped DEF Types
<1>3. PICK n \in Nat : n = Len(down[c])
  BY <1>2, LenProperties
<1>4. m.seen <= seen[c] /\ seen[c] + n = said[c]
  BY <1>1, <1>3 DEF ClientInv, Fresh, Linked
<1>5. n = 0 /\ m.seen = seen[c] /\ seen[c] = said[c]
  BY <1>2, <1>4
<1>6. down[c] = <<>>
  BY <1>2, <1>3, <1>5, EmptySeq
<1> QED
  BY <1>1, <1>5, <1>6 DEF ClientInv, Fresh

LEMMA NumberedStays ==
    ASSUME Numbered, done' = done
    PROVE  Numbered'
  BY DEF Numbered, Acts

\* The server answers c, or does not; the version stays.
LEMMA AnswerStep ==
    ASSUME IInv, NEW c \in Client, up[c] # <<>>, up' = [up EXCEPT ![c] = Tail(@)],
           UNCHANGED <<com, listed, hist, link, failed, seen, ver, storeVars, await, done>>,
           unconf' \in [Client -> SUBSET Pending], Dropped(c),
           \A d \in Client \ {c} : unconf'[d] = unconf[d],
           NEW ms \in Seq(DownMsg), Say(OnlyTo(c, ms)), Apt(c, ms),
           \A i \in 1 .. Len(ms) : ms[i].type = "reject_diff" =>
              /\ ~Taken(c, ms[i].rid)
              /\ \A j \in 1 .. Len(up'[c]) :
                    up'[c][j].type = "diff" => up'[c][j].rid # ms[i].rid
    PROVE  IInv'
<1>1. Types /\ Numbered /\ \A d \in Client : ClientInv(d)
  BY DEF IInv
<1>2. /\ OnlyTo(c, ms) \in [Client -> Seq(DownMsg)] /\ OnlyTo(c, ms)[c] = ms
      /\ \A d \in Client \ {c} : OnlyTo(c, ms)[d] = <<>>
  BY OnlyToIs
<1>3. /\ down' \in [Client -> Seq(DownMsg)] /\ said' \in [Client -> Nat]
      /\ \A d \in Client : /\ down'[d] = down[d] \o OnlyTo(c, ms)[d]
                           /\ said'[d] = said[d] + Len(OnlyTo(c, ms)[d])
  BY <1>1, <1>2, SayIs
<1>4. /\ Tail(up[c]) \in Seq(UpMsg) /\ link[c] = "on"
      /\ up'[c] = Tail(up[c]) /\ \A d \in Client \ {c} : up'[d] = up[d]
      /\ up' \in [Client -> Seq(UpMsg)]
  <2>1. Tail(up[c]) \in Seq(UpMsg) /\ link[c] = "on"
    BY <1>1, HeadIs, FirstUp
  <2>2. up \in [Client -> Seq(UpMsg)]
    BY <1>1 DEF Types
  <2> QED
    BY <2>1, <2>2
<1>5. Types'
  BY <1>1, <1>3, <1>4 DEF Types, storeVars
<1>6. HistFor(c) /\ FewerUp(c)
  BY <1>4 DEF HistFor, FewerUp
<1>7. ClientInv(c)'
  BY ZenonT(30), <1>1, <1>2, <1>3, <1>4, <1>6, Onward DEF storeVars
<1>8. ASSUME NEW d \in Client \ {c}
      PROVE  ClientInv(d)'
  <2>1. down[d] \in Seq(DownMsg) /\ said[d] \in Nat
    BY <1>1 DEF Types
  <2>2. down'[d] = down[d] /\ said'[d] = said[d]
    <3>1. down'[d] = down[d] \o <<>> /\ said'[d] = said[d] + Len(<<>>) /\ Len(<<>>) = 0
      BY <1>2, <1>3
    <3> QED
      BY <2>1, <3>1, ConcatEmptySeq
  <2>3. HistFor(d)
    BY DEF HistFor
  <2> QED
    BY <1>1, <1>4, <2>2, <2>3, Unheard DEF storeVars
<1>9. Numbered'
  BY <1>1, NumberedStays
<1> QED
  BY <1>5, <1>7, <1>8, <1>9 DEF IInv

LEMMA CrossStep ==
    ASSUME IInv, NEW c \in Client, up[c] # <<>>, ServerCross(c, Head(up[c])),
           up' = [up EXCEPT ![c] = Tail(@)],
           UNCHANGED <<seen, ver, storeVars, await, done>>
    PROVE  IInv'
<1>0. PICK m : m = Head(up[c])
  OBVIOUS
<1> DEFINE ms == IF m.type = "diff" THEN <<[type |-> "reject_diff", rid |-> m.rid]>> ELSE <<>>
<1>1. Types /\ ClientInv(c)
  BY DEF IInv
<1>2. /\ m.type = "diff" =>
            /\ m.rid \in Nat /\ ~Taken(c, m.rid)
            /\ \A i \in 1 .. Len(Tail(up[c])) :
                  Tail(up[c])[i].type = "diff" => Tail(up[c])[i].rid # m.rid
  BY <1>0, <1>1, FirstUp
<1>3. up'[c] = Tail(up[c])
  BY <1>1 DEF Types
<1>4. /\ Say(OnlyTo(c, ms)) /\ unconf' = unconf
      /\ UNCHANGED <<com, listed, hist, link, failed, seen, ver, storeVars, await, done>>
  BY <1>0 DEF ServerCross
<1>5. /\ ms \in Seq(DownMsg)
      /\ \A i \in 1 .. Len(ms) : m.type = "diff" /\ ms[i].type = "reject_diff" /\ ms[i].rid = m.rid
  <2>1. CASE m.type = "diff"
    <3> DEFINE r == [type |-> "reject_diff", rid |-> m.rid]
    <3>1. r \in DownMsg
      BY <1>2, <2>1 DEF DownMsg, AnswerDown
    <3>2. r.type = "reject_diff" /\ r.rid = m.rid /\ ms = <<r>>
      BY <2>1
    <3> HIDE DEF r, ms
    <3>3. <<r>> \in Seq(DownMsg) /\ Len(<<r>>) = 1 /\ <<r>>[1] = r
      BY <3>1
    <3> QED
      BY <2>1, <3>2, <3>3
  <2>2. CASE m.type # "diff"
    BY <2>2, EmptySeq
  <2> QED
    BY <2>1, <2>2
<1> HIDE DEF ms
<1>6. Apt(c, ms)
  BY <1>5 DEF Apt, Confirms
<1>7. \A i \in 1 .. Len(ms) : ms[i].type = "reject_diff" =>
              /\ ~Taken(c, ms[i].rid)
              /\ \A j \in 1 .. Len(up'[c]) :
                    up'[c][j].type = "diff" => up'[c][j].rid # ms[i].rid
  BY <1>2, <1>3, <1>5
<1>8. unconf' \in [Client -> SUBSET Pending] /\ Dropped(c)
  BY <1>1, <1>4 DEF Types, Dropped
<1> QED
  BY <1>4, <1>5, <1>6, <1>7, <1>8, AnswerStep

\* A diff of c is dropped: c no longer waits for it.
LEMMA DiffDropped ==
    ASSUME IInv, NEW c \in Client, up[c] # <<>>, NEW m, m = Head(up[c]), m.type = "diff",
           up' = [up EXCEPT ![c] = Tail(@)],
           unconf' = [unconf EXCEPT ![c] = {u \in @ : u.rid # m.rid}]
    PROVE  /\ unconf' \in [Client -> SUBSET Pending] /\ Dropped(c)
           /\ \A d \in Client \ {c} : unconf'[d] = unconf[d]
<1>1. Types /\ ClientInv(c)
  BY DEF IInv
<1>2. /\ ~Taken(c, m.rid)
      /\ \A i \in 1 .. Len(Tail(up[c])) :
            Tail(up[c])[i].type = "diff" => Tail(up[c])[i].rid # m.rid
  <2>1. m.type = "diff"
    OBVIOUS
  <2> QED
    BY <1>1, <2>1, FirstUp
<1>3. up'[c] = Tail(up[c]) /\ unconf \in [Client -> SUBSET Pending]
  BY <1>1 DEF Types
<1>4. unconf'[c] = {u \in unconf[c] : u.rid # m.rid}
  BY <1>3
<1>5. Dropped(c)
  BY <1>2, <1>3, <1>4 DEF Dropped
<1> QED
  BY <1>3, <1>5

LEMMA DiscardStep ==
    ASSUME IInv, NEW c \in Client, up[c] # <<>>, ServerDiscard(c, Head(up[c])),
           up' = [up EXCEPT ![c] = Tail(@)],
           UNCHANGED <<seen, ver, storeVars, await, done>>
    PROVE  IInv'
<1> DEFINE ms == <<>>
<1>1. Types
  BY DEF IInv
<1>2. /\ unconf' \in [Client -> SUBSET Pending] /\ Dropped(c)
      /\ \A d \in Client \ {c} : unconf'[d] = unconf[d]
  BY DiffDropped DEF ServerDiscard
<1>3. ms \in Seq(DownMsg) /\ Len(ms) = 0
  BY EmptySeq
<1>4. \A d \in Client : down[d] \o <<>> = down[d] /\ said[d] + 0 = said[d]
  <2>1. \A d \in Client : down[d] \in Seq(DownMsg) /\ said[d] \in Nat
    BY <1>1 DEF Types
  <2> QED
    BY <2>1, ConcatEmptySeq
<1>5. Say(OnlyTo(c, ms))
  <2>1. /\ OnlyTo(c, ms) = [d \in Client |-> <<>>]
    BY DEF OnlyTo
  <2>2. down' = [d \in Client |-> down[d]] /\ said' = [d \in Client |-> said[d]]
    BY <1>1 DEF ServerDiscard, serverVars, Types
  <2> QED
    BY <1>3, <1>4, <2>1, <2>2 DEF Say
<1> HIDE DEF ms
<1>6. Apt(c, ms) /\ \A i \in 1 .. Len(ms) : FALSE
  BY <1>3 DEF Apt
<1> QED
  BY <1>2, <1>3, <1>5, <1>6, AnswerStep DEF ServerDiscard, serverVars

LEMMA OutdatedStep ==
    ASSUME IInv, NEW c \in Client, up[c] # <<>>, ServerOutdated(c, Head(up[c])),
           ~(Head(up[c]).seen < said[c]), up' = [up EXCEPT ![c] = Tail(@)],
           UNCHANGED <<seen, ver, storeVars, await, done>>
    PROVE  IInv'
<1>0. PICK m : m = Head(up[c])
  OBVIOUS
<1> DEFINE ms == DiffsAfter(c, m.v)
<1>1. Types /\ ClientInv(c) /\ Own(c) /\ ver[c] <= Len(hist)
  BY DEF IInv, ClientInv, Current
<1>2. hist \in Seq(Diff) /\ m.v \in Nat
  BY <1>0, <1>1, FirstUp DEF Types
<1>3. /\ unconf' \in [Client -> SUBSET Pending] /\ Dropped(c)
      /\ \A d \in Client \ {c} : unconf'[d] = unconf[d]
  BY DiffDropped DEF ServerOutdated
<1>4. /\ Say(OnlyTo(c, ms))
      /\ UNCHANGED <<com, listed, hist, link, failed>>
  BY <1>0 DEF ServerOutdated
<1>5. m.v = ver[c] /\ down[c] = <<>>
  BY <1>0, <1>1, FirstFresh
<1>6. /\ ms \in Seq(DownMsg) /\ \A i \in 1 .. Len(ms) : ms[i].type = "diff"
  BY <1>2, <1>4, DiffsAfterIs
<1>7. Apt(c, ms)
  BY <1>1, <1>4, <1>5, DiffsApt
<1> HIDE DEF ms
<1> QED
  BY <1>3, <1>4, <1>6, <1>7, AnswerStep

LEMMA CheckedStep ==
    ASSUME IInv, NEW c \in Client, up[c] # <<>>, ServerCheckVersion(c, Head(up[c])),
           ~(Head(up[c]).seen < said[c]), up' = [up EXCEPT ![c] = Tail(@)],
           UNCHANGED <<seen, ver, storeVars, await, done>>
    PROVE  IInv'
<1>0. PICK m : m = Head(up[c])
  OBVIOUS
<1> DEFINE q == DiffsAfter(c, m.v)
           v == [type |-> "confirm_version", v |-> Len(hist)]
           ms == Append(q, v)
<1>1. Types /\ ClientInv(c) /\ Own(c) /\ ver[c] <= Len(hist)
  BY DEF IInv, ClientInv, Current
<1>2. hist \in Seq(Diff) /\ m.v \in Nat
  BY <1>0, <1>1, FirstUp DEF Types
<1>3. /\ Say(OnlyTo(c, ms)) /\ unconf' = unconf
      /\ UNCHANGED <<com, listed, hist, link, failed>>
  BY <1>0 DEF ServerCheckVersion
<1>4. m.v = ver[c] /\ down[c] = <<>>
  BY <1>0, <1>1, FirstFresh
<1>5. /\ q \in Seq(DownMsg) /\ \A i \in 1 .. Len(q) : q[i].type = "diff"
  BY <1>2, <1>3, DiffsAfterIs
<1>6. Apt(c, q)
  BY <1>1, <1>3, <1>4, DiffsApt
<1>7. v \in VersionDown /\ v.type = "confirm_version"
  BY <1>2, LenProperties DEF VersionDown
<1> HIDE DEF q, v
<1>8. Apt(c, ms) /\ ms \in Seq(DownMsg)
  BY <1>5, <1>6, <1>7, AptAppend
<1>9. \A i \in 1 .. Len(ms) : ms[i].type # "reject_diff"
  <2>1. v \in DownMsg
    BY <1>7 DEF DownMsg
  <2>2. /\ Len(q) \in Nat /\ Len(ms) = Len(q) + 1
        /\ \A i \in 1 .. Len(q) : ms[i] = q[i]
        /\ ms[Len(q) + 1] = v
    BY <1>5, <2>1, AppendProperties, LenProperties
  <2> HIDE DEF ms
  <2>3. \A i \in 1 .. Len(ms) : i \in 1 .. Len(q) \/ i = Len(q) + 1
    BY <2>2
  <2> QED
    BY <1>5, <1>7, <2>2, <2>3
<1> HIDE DEF ms
<1>10. unconf' \in [Client -> SUBSET Pending] /\ Dropped(c)
  BY <1>1, <1>3 DEF Types, Dropped
<1> QED
  BY <1>3, <1>8, <1>9, <1>10, AnswerStep
\* The diff that c sent last is accepted; c does not know yet.
LEMMA OwnAccepted ==
    ASSUME Types, NEW c \in Client, ClientInv(c), NEW l \in Diff, l.cid = c,
           hist' = Append(hist, l), ver[c] = Len(hist), IsPrefix(l.acts, Waiting(c)),
           [rid |-> l.rid, n |-> Len(l.acts)] \in unconf[c],
           UNCHANGED <<ver, unsent, unconf, done>>
    PROVE  /\ Own(c)' /\ OwnNext(c)' /\ hist'[ver'[c] + 1] = l /\ Current(c)' /\ Bounded(c)'
           /\ \A k \in 1 .. Len(hist') : hist'[k].cid = c => hist'[k].rid = l.rid \/ Taken(c, hist'[k].rid)
<1>1. hist \in Seq(Diff)
  BY DEF Types
<1>2. PICK n \in Nat, w \in Nat : n = Len(hist) /\ w = n + 1
  BY <1>1, LenProperties
<1>3. /\ Len(hist') = w /\ hist'[w] = l /\ \A k \in 1 .. n : hist'[k] = hist[k]
  BY <1>1, <1>2, AppendProperties
<1>4. ver'[c] = n /\ ver'[c] + 1 = w /\ ver[c] = n
  BY <1>2
<1>5. OwnNext(c)' /\ hist'[ver'[c] + 1] = l
  BY <1>2, <1>3, <1>4 DEF OwnNext
<1>6. Waiting(c)' = Waiting(c)
  BY DEF Waiting
<1>7. Own(c)'
  <2>1. \A k \in ver'[c] + 2 .. Len(hist') : FALSE
    BY <1>2, <1>3, <1>4
  <2> QED
    BY <1>5, <1>6, <2>1 DEF Own
<1>8. Current(c)'
  <2>1. Kept
    BY <1>1, KeptIf
  <2>2. ActsOf(c, n)' = ActsOf(c, n)
    BY <1>1, <1>2, <2>1, ActsStay
  <2>3. done[c] = ActsOf(c, n) \o Waiting(c)
    BY <1>4 DEF ClientInv, Current
  <2>4. ActsOf(c, ver[c])' = ActsOf(c, n)'
    BY <1>4 DEF ActsOf
  <2>5. done'[c] = ActsOf(c, ver[c])' \o Waiting(c)'
    BY <1>6, <2>2, <2>3, <2>4
  <2>6. ver'[c] <= Len(hist')
    <3>1. n <= w
      BY <1>2
    <3> QED
      BY <1>3, <1>4, <3>1
  <2> QED
    BY <2>5, <2>6 DEF Current
<1>9. ASSUME NEW k \in 1 .. Len(hist'), hist'[k].cid = c
      PROVE  hist'[k].rid = l.rid \/ Taken(c, hist'[k].rid)
  <2>1. CASE k = w
    BY <1>3, <2>1
  <2>2. CASE k # w
    <3>1. k \in 1 .. n
      BY <1>2, <1>3, <2>2
    <3> QED
      BY <1>2, <1>3, <1>9, <3>1 DEF Taken
  <2> QED
    BY <2>1, <2>2
<1>10. Bounded(c)'
  <2>1. PICK b \in Nat : /\ \A u \in unconf[c] : u.rid <= b
                         /\ \A k \in 1 .. Len(hist) : hist[k].cid = c => hist[k].rid <= b
    BY DEF ClientInv, Rids, Bounded
  <2>2. l.rid <= b
    BY <2>1
  <2>3. \A k \in 1 .. Len(hist') : hist'[k].cid = c => hist'[k].rid <= b
    BY <1>9, <2>1, <2>2 DEF Taken
  <2> QED
    BY <2>1, <2>3 DEF Bounded
<1> QED
  BY <1>5, <1>7, <1>8, <1>9, <1>10

\* What Accept and both of its outcomes share.
LEMMA AcceptFacts ==
    ASSUME IInv, NEW c \in Client, up[c] # <<>>, NEW m, m = Head(up[c]), Accept(c, m),
           ~(m.seen < said[c]), com' = After(m).com, listed' = After(m).listed
    PROVE  /\ m.rid \in Nat
           /\ com' \in Store /\ listed' \subseteq DOMAIN com' /\ hist' \in Seq(Diff)
           /\ ver[c] = Len(hist) /\ down[c] = <<>> /\ ~Taken(c, m.rid)
           /\ \E l \in Diff : /\ l.cid = c /\ l.rid = m.rid /\ hist' = Append(hist, l)
                              /\ IsPrefix(l.acts, Waiting(c))
                              /\ [rid |-> l.rid, n |-> Len(l.acts)] \in unconf[c]
<1>1. Types /\ ClientInv(c) /\ m.type = "diff"
  BY DEF IInv, Accept
<1>2. /\ m.rid \in Nat /\ m.cu \in Seq(Update) /\ m.acts \in Seq(Act) /\ ~Taken(c, m.rid)
  BY <1>1, FirstUp
<1>3. /\ down[c] = <<>> /\ m.v = ver[c]
      /\ IsPrefix(m.acts, Waiting(c)) /\ [rid |-> m.rid, n |-> Len(m.acts)] \in unconf[c]
  BY <1>1, FirstFresh
<1> DEFINE l == [cid |-> c, rid |-> m.rid, cu |-> m.cu, acts |-> m.acts]
<1>4. l \in Diff
  BY <1>2 DEF Diff
<1>5. hist' = Append(hist, l) /\ m.v = Len(hist) /\ hist \in Seq(Diff)
  BY <1>1 DEF Accept, Types
<1>6. hist' \in Seq(Diff)
  <2> HIDE DEF l
  <2> QED
    BY <1>4, <1>5, AppendProperties
<1>7. com' \in Store /\ listed' \subseteq DOMAIN com'
  <2> DEFINE b == [com |-> com, listed |-> listed, ok |-> TRUE]
  <2>1. b \in Sound
    BY <1>1, SoundIs DEF Types
  <2>2. After(m) = FoldLeft(Applied, b, m.cu)
    BY DEF After
  <2> HIDE DEF b
  <2>3. After(m) \in Sound
    BY <1>2, <2>1, <2>2, AfterType
  <2> QED
    BY <2>3, SoundTyped
<1>8. l.cid = c /\ l.rid = m.rid /\ l.acts = m.acts
  OBVIOUS
<1> HIDE DEF l
<1> QED
  BY <1>2, <1>3, <1>4, <1>5, <1>6, <1>7, <1>8

LEMMA AcceptStep ==
    ASSUME IInv, NEW c \in Client, up[c] # <<>>, ServerAccept(c, Head(up[c])),
           ~(Head(up[c]).seen < said[c]), up' = [up EXCEPT ![c] = Tail(@)],
           UNCHANGED <<seen, ver, storeVars, await, done>>
    PROVE  IInv'
<1>0. PICK m : m = Head(up[c])
  OBVIOUS
<1> DEFINE r == [type |-> "confirm_diff", rid |-> m.rid]
           o(d) == IF link[d] = "on" THEN <<DiffFor(d, Len(hist'))>> ELSE <<>>
           out == [d \in Client |-> IF d = c THEN <<r>> ELSE o(d)]
<1>1. Types /\ Numbered /\ ClientInv(c) /\ \A d \in Client : ClientInv(d)
  BY DEF IInv
<1>2. /\ Accept(c, m) /\ com' = After(m).com /\ listed' = After(m).listed
      /\ Say(out) /\ UNCHANGED <<link, unconf, failed>>
  BY <1>0 DEF ServerAccept
<1>3. /\ m.rid \in Nat
      /\ com' \in Store /\ listed' \subseteq DOMAIN com' /\ hist' \in Seq(Diff)
      /\ ver[c] = Len(hist) /\ down[c] = <<>> /\ ~Taken(c, m.rid)
  BY <1>0, <1>2, AcceptFacts
<1>4. PICK l \in Diff : /\ l.cid = c /\ l.rid = m.rid /\ hist' = Append(hist, l)
                        /\ IsPrefix(l.acts, Waiting(c))
                        /\ [rid |-> l.rid, n |-> Len(l.acts)] \in unconf[c]
  BY <1>0, <1>2, AcceptFacts
<1>5. PICK n \in Nat, w \in Nat : n = Len(hist) /\ w = n + 1
  BY <1>1, LenProperties DEF Types
<1>6. Len(hist') = w /\ hist'[w] = l /\ w \in 1 .. Len(hist')
  BY <1>1, <1>4, <1>5, AppendProperties DEF Types
<1>7. ASSUME NEW d \in Client
      PROVE  /\ DiffFor(d, w) \in DownMsg /\ DiffFor(d, w).type = "diff"
             /\ DiffFor(d, w).v = n /\ DiffFor(d, w).cid = c /\ DiffFor(d, w).rid = l.rid
  BY <1>3, <1>4, <1>5, <1>6, DiffForIs
<1>8. r \in DownMsg /\ r.type = "confirm_diff" /\ r.rid = m.rid
  BY <1>3 DEF DownMsg, AnswerDown
<1> HIDE DEF r
<1>9. \A d \in Client : out[d] = IF d = c THEN <<r>> ELSE
                                 IF link[d] = "on" THEN <<DiffFor(d, w)>> ELSE <<>>
  BY <1>6
<1>10. out \in [Client -> Seq(DownMsg)]
  <2>1. \A d \in Client : <<r>> \in Seq(DownMsg) /\ <<DiffFor(d, w)>> \in Seq(DownMsg)
                          /\ <<>> \in Seq(DownMsg)
    <3> TAKE d \in Client
    <3>1. PICK x \in DownMsg : x = DiffFor(d, w)
      BY <1>7
    <3>2. <<r>> \in Seq(DownMsg) /\ <<x>> \in Seq(DownMsg)
      BY <1>8
    <3> QED
      BY <3>1, <3>2, EmptySeq
  <2>2. \A d \in Client : out[d] \in Seq(DownMsg)
    BY <1>9, <2>1
  <2> HIDE DEF o
  <2> QED
    BY <2>2
<1> HIDE DEF out, o
<1>11. /\ down' \in [Client -> Seq(DownMsg)] /\ said' \in [Client -> Nat]
       /\ \A d \in Client : down'[d] = down[d] \o out[d] /\ said'[d] = said[d] + Len(out[d])
  BY <1>1, <1>2, <1>10, SayIs
<1>12. /\ up'[c] = Tail(up[c]) /\ \A d \in Client \ {c} : up'[d] = up[d]
       /\ up' \in [Client -> Seq(UpMsg)]
  BY <1>1, HeadIs DEF Types
<1>13. Types'
  BY <1>1, <1>2, <1>3, <1>11, <1>12 DEF Types, storeVars
<1>14. Numbered'
  BY <1>1, NumberedStays
<1>15. ClientInv(c)'
  <2>1. /\ Own(c)' /\ OwnNext(c)' /\ hist'[ver'[c] + 1] = l /\ Current(c)' /\ Bounded(c)'
        /\ \A k \in 1 .. Len(hist') :
              hist'[k].cid = c => hist'[k].rid = l.rid \/ Taken(c, hist'[k].rid)
    BY <1>1, <1>2, <1>3, <1>4, OwnAccepted DEF storeVars
  <2>2. FewerUp(c) /\ Dropped(c)
    BY <1>2, <1>12 DEF FewerUp, Dropped
  <2>3. Fresh(c)'
    BY <1>1, <2>2, FreshKept DEF ClientInv, storeVars
  <2>4. <<r>> \in Seq(DownMsg) /\ Len(<<r>>) = 1 /\ <<r>>[1] = r
    BY <1>8
  <2>5. down'[c] = <<r>> /\ said'[c] = said[c] + Len(<<r>>)
        /\ down'[c] = down[c] \o <<r>>
    <3>1. out[c] = <<r>>
      BY <1>9
    <3> QED
      BY <1>3, <1>11, <2>4, <3>1, ConcatEmptySeq
  <2>6. Linked(c)'
    BY <1>1, <1>2, <2>2, <2>4, <2>5, FirstUp, LinkedTold DEF ClientInv
  <2>7. Incoming(c)'
    BY <1>4, <1>8, <2>1, <2>4, <2>5 DEF Incoming
  <2>8. Rids(c)'
    <3>1. PICK p \in {0, 1} : \A i \in 1 .. Len(up'[c]) :
             i + p \in 1 .. Len(up[c]) /\ up'[c][i] = up[c][i + p]
      BY <1>1, <2>2, LeftUp
    <3>2. m.type = "diff"
      BY <1>2 DEF Accept
    <3>3. \A i \in 1 .. Len(up'[c]) : up'[c][i].type = "diff" => up'[c][i].rid # m.rid
      BY SMTT(20), <1>0, <1>1, <1>12, <3>2, FirstUp
    <3>4. ASSUME NEW i \in 1 .. Len(up'[c]), NEW x, x = up'[c][i], x.type = "diff"
          PROVE  /\ \E u \in unconf'[c] : u.rid = x.rid
                 /\ ~\E k \in 1 .. Len(hist') : hist'[k].cid = c /\ hist'[k].rid = x.rid
                 /\ \A j \in 1 .. i - 1 : up'[c][j].type = "diff" => up'[c][j].rid # x.rid
      <4>1. i + p \in 1 .. Len(up[c]) /\ x = up[c][i + p]
        BY <3>1, <3>4
      <4>2. /\ \E u \in unconf[c] : u.rid = x.rid
            /\ ~Taken(c, x.rid)
            /\ \A j \in 1 .. (i + p) - 1 : up[c][j].type = "diff" => up[c][j].rid # x.rid
        BY <1>1, <3>4, <4>1 DEF ClientInv, Rids
      <4>3. x.rid # l.rid
        BY <1>4, <3>3, <3>4
      <4>4. ASSUME NEW j \in 1 .. i - 1
            PROVE  up'[c][j].type = "diff" => up'[c][j].rid # x.rid
        <5>1. j \in 1 .. Len(up'[c])
          BY <1>1, <2>2, LeftUp
        <5>2. j + p \in 1 .. (i + p) - 1 /\ up'[c][j] = up[c][j + p]
          BY <3>1, <5>1
        <5> QED
          BY <4>2, <5>2
      <4> QED
        BY <1>2, <2>1, <4>2, <4>3, <4>4
    <3>5. \A i \in 1 .. Len(down'[c]) : down'[c][i].type # "reject_diff"
      BY <1>8, <2>4, <2>5
    <3>6. \A u, v \in unconf'[c] : u.rid = v.rid => u = v
      BY <1>1, <1>2 DEF ClientInv, Rids
    <3>7. \A i \in 1 .. Len(up'[c]) : up'[c][i].type = "diff" =>
             /\ \E u \in unconf'[c] : u.rid = up'[c][i].rid
             /\ ~\E k \in 1 .. Len(hist') : hist'[k].cid = c /\ hist'[k].rid = up'[c][i].rid
             /\ \A j \in 1 .. i - 1 : up'[c][j].type = "diff" => up'[c][j].rid # up'[c][i].rid
      BY <3>4
    <3> QED
      BY <2>1, <3>5, <3>6, <3>7 DEF Rids, Taken
  <2> QED
    BY <2>1, <2>3, <2>6, <2>7, <2>8 DEF ClientInv
<1>16. ASSUME NEW d \in Client \ {c}
       PROVE  ClientInv(d)'
  <2>1. HistFor(d)
    BY <1>4 DEF HistFor
  <2>2. FewerUp(d) /\ Dropped(d)
    BY <1>2, <1>12 DEF FewerUp, Dropped
  <2>3. PICK ms \in Seq(DownMsg) : ms = out[d]
    BY <1>10
  <2>4. /\ Len(ms) # 0 => link[d] = "on"
        /\ \A i \in 1 .. Len(ms) : ms[i] = DiffFor(d, w)
    <3>1. CASE link[d] = "on"
      <4>1. PICK x : x = DiffFor(d, w)
        OBVIOUS
      <4>2. ms = <<x>> /\ Len(<<x>>) = 1 /\ <<x>>[1] = x
        BY <1>9, <2>3, <3>1, <4>1
      <4> QED
        BY <3>1, <4>1, <4>2
    <3>2. CASE link[d] # "on"
      <4>1. ms = <<>> /\ Len(<<>>) = 0
        BY <1>9, <2>3, <3>2
      <4> QED
        BY <4>1
    <3> QED
      BY <3>1, <3>2
  <2>5. Apt(d, ms) /\ \A i \in 1 .. Len(ms) : ms[i].type # "reject_diff"
    BY <1>4, <1>5, <1>6, <1>7, <2>4 DEF Apt, Confirms
  <2> QED
    BY <1>1, <1>2, <1>11, <2>1, <2>2, <2>3, <2>4, <2>5, Onward DEF storeVars
<1> QED
  BY <1>13, <1>14, <1>15, <1>16 DEF IInv

\* The version is raised, but an update fails and the connection ends.
LEMMA FailStep ==
    ASSUME IInv, NEW c \in Client, up[c] # <<>>, ServerFail(c, Head(up[c])),
           ~(Head(up[c]).seen < said[c]), up' = [up EXCEPT ![c] = <<>>],
           UNCHANGED <<seen, ver, storeVars, await, done>>
    PROVE  IInv'
<1>0. PICK m : m = Head(up[c])
  OBVIOUS
<1>1. Types /\ Numbered /\ ClientInv(c) /\ \A d \in Client : ClientInv(d)
  BY DEF IInv
<1>2. /\ Accept(c, m) /\ com' = After(m).com /\ listed' = After(m).listed
      /\ failed' = failed \cup {m.cu[k].id : k \in {j \in DOMAIN m.cu : m.cu[j] # Ignored}}
      /\ link' = [link EXCEPT ![c] = "off"] /\ down' = [down EXCEPT ![c] = <<>>]
      /\ UNCHANGED <<said, unconf>>
  BY <1>0 DEF ServerFail
<1>3. /\ com' \in Store /\ listed' \subseteq DOMAIN com' /\ hist' \in Seq(Diff)
      /\ ver[c] = Len(hist) /\ down[c] = <<>>
  BY <1>0, <1>2, AcceptFacts
<1>4. PICK l \in Diff : /\ l.cid = c /\ l.rid = m.rid /\ hist' = Append(hist, l)
                        /\ IsPrefix(l.acts, Waiting(c))
                        /\ [rid |-> l.rid, n |-> Len(l.acts)] \in unconf[c]
  BY <1>0, <1>2, AcceptFacts
<1>5. <<>> \in Seq(UpMsg) /\ <<>> \in Seq(DownMsg) /\ Len(<<>>) = 0
  BY EmptySeq
<1>6. /\ up \in [Client -> Seq(UpMsg)] /\ down \in [Client -> Seq(DownMsg)]
      /\ link \in [Client -> {"on", "off"}]
  BY <1>1 DEF Types
<1>7. /\ up'[c] = <<>> /\ down'[c] = <<>> /\ link'[c] = "off"
      /\ \A d \in Client \ {c} : up'[d] = up[d] /\ down'[d] = down[d] /\ link'[d] = link[d]
      /\ up' \in [Client -> Seq(UpMsg)] /\ down' \in [Client -> Seq(DownMsg)]
      /\ link' \in [Client -> {"on", "off"}]
  BY <1>2, <1>5, <1>6
<1>8. failed' \subseteq Id
  <2>1. m.cu \in Seq(Update)
    BY <1>0, <1>1, <1>2, FirstUp DEF Accept
  <2>2. \A k \in DOMAIN m.cu : m.cu[k] \in Update
    BY <2>1, ElementOfSeq, LenProperties
  <2> QED
    BY <1>1, <1>2, <2>2, UpdateTyped DEF Types
<1>9. Types'
  BY <1>1, <1>2, <1>3, <1>7, <1>8 DEF Types, storeVars
<1>10. Numbered'
  BY <1>1, NumberedStays
<1>11. ClientInv(c)'
  <2>1. Own(c)' /\ Current(c)' /\ Bounded(c)'
    BY <1>1, <1>2, <1>3, <1>4, OwnAccepted DEF storeVars
  <2>2. Fresh(c)' /\ Incoming(c)'
    BY <1>5, <1>7 DEF Fresh, Incoming
  <2>3. Rids(c)'
    BY <1>1, <1>2, <1>5, <1>7, <2>1 DEF ClientInv, Rids
  <2>4. Linked(c)'
    <3>1. link[c] = "on" /\ seen[c] = said[c] /\ seen[c] \in Nat
      BY <1>0, <1>1, FirstUp, FirstFresh DEF Types
    <3> QED
      BY <1>2, <1>7, <3>1 DEF Linked
  <2> QED
    BY <2>1, <2>2, <2>3, <2>4 DEF ClientInv
<1>12. ASSUME NEW d \in Client \ {c}
       PROVE  ClientInv(d)'
  <2>1. HistFor(d)
    BY <1>4 DEF HistFor
  <2> QED
    BY <1>1, <1>2, <1>7, <2>1, Unheard DEF storeVars
<1> QED
  BY <1>9, <1>10, <1>11, <1>12 DEF IInv

LEMMA ServerStep ==
    ASSUME IInv, NEW c \in Client, ServerReceive(c)
    PROVE  IInv'
<1>0. PICK m : m = Head(up[c])
  OBVIOUS
<1>1. /\ up[c] # <<>> /\ UNCHANGED <<seen, ver, storeVars, await, done>>
      /\ up' = [up EXCEPT ![c] = IF link'[c] = "on" THEN Tail(@) ELSE <<>>]
  BY DEF ServerReceive
<1>2. /\ Types /\ link[c] = "on" /\ link \in [Client -> {"on", "off"}]
  BY <1>0, <1>1, FirstUp DEF IInv, Types
<1>3. link'[c] = "on" => up' = [up EXCEPT ![c] = Tail(@)]
  BY <1>1
<1>4. CASE m.seen < said[c]
  <2>1. ServerCross(c, m)
    BY <1>0, <1>4 DEF ServerReceive
  <2> QED
    BY <1>0, <1>1, <1>2, <1>3, <2>1, CrossStep DEF ServerCross
<1>5. CASE ~(m.seen < said[c])
  <2>1. \/ ServerDiscard(c, m) \/ ServerAccept(c, m) \/ ServerFail(c, m)
        \/ ServerOutdated(c, m) \/ ServerCheckVersion(c, m)
    BY <1>0, <1>5 DEF ServerReceive
  <2>2. CASE ServerDiscard(c, m)
    BY <1>0, <1>1, <1>2, <1>3, <2>2, DiscardStep DEF ServerDiscard
  <2>3. CASE ServerAccept(c, m)
    BY <1>0, <1>1, <1>2, <1>3, <1>5, <2>3, AcceptStep DEF ServerAccept
  <2>4. CASE ServerFail(c, m)
    <3>1. link'[c] = "off"
      BY <1>2, <2>4 DEF ServerFail
    <3>2. up' = [up EXCEPT ![c] = <<>>]
      BY <1>1, <3>1
    <3> QED
      BY <1>0, <1>1, <1>5, <2>4, <3>2, FailStep
  <2>5. CASE ServerOutdated(c, m)
    BY <1>0, <1>1, <1>2, <1>3, <1>5, <2>5, OutdatedStep DEF ServerOutdated
  <2>6. CASE ServerCheckVersion(c, m)
    BY <1>0, <1>1, <1>2, <1>3, <1>5, <2>6, CheckedStep DEF ServerCheckVersion
  <2> QED
    BY <2>1, <2>2, <2>3, <2>4, <2>5, <2>6
<1> QED
  BY <1>4, <1>5
-----------------------------------------------------------------------------
(* What a client has waiting.                                              *)

Acted(q) == [k \in DOMAIN q |-> q[k].act]

LEMMA ActedIs ==
    ASSUME NEW q \in Seq(Waiter)
    PROVE  /\ Acted(q) \in Seq(Act) /\ Len(Acted(q)) = Len(q)
           /\ \A k \in 1 .. Len(q) : Acted(q)[k] = q[k].act
<1>1. PICK n \in Nat : n = Len(q) /\ DOMAIN q = 1 .. n
  BY LenProperties
<1>2. \A k \in 1 .. n : q[k].act \in Act
  <2>1. \A k \in 1 .. n : q[k] \in Waiter
    BY <1>1, ElementOfSeq
  <2> QED
    BY <2>1 DEF Waiter
<1> DEFINE w == [k \in 1 .. n |-> q[k].act]
<1>3. w \in [1 .. n -> Act] /\ \A k \in 1 .. n : w[k] = q[k].act
  BY <1>2
<1>4. Acted(q) = w
  BY <1>1 DEF Acted
<1> HIDE DEF w
<1>5. w \in Seq(Act) /\ Len(w) = n
  BY <1>3
<1> QED
  BY <1>1, <1>3, <1>4, <1>5

LEMMA ActedMore ==
    ASSUME NEW q \in Seq(Waiter), NEW e \in Waiter
    PROVE  /\ Acted(Append(q, e)) = Append(Acted(q), e.act)
           /\ Append(q, e) \in Seq(Waiter) /\ e.act \in Act
<1> DEFINE r == Append(q, e)
           s == Append(Acted(q), e.act)
<1>1. PICK n \in Nat : n = Len(q)
  BY LenProperties
<1>2. e.act \in Act
  BY DEF Waiter
<1>3. /\ r \in Seq(Waiter) /\ Len(r) = n + 1
      /\ \A k \in 1 .. n : r[k] = q[k]
      /\ r[n + 1] = e
  BY <1>1, AppendProperties
<1>4. /\ Acted(q) \in Seq(Act) /\ Len(Acted(q)) = n
      /\ \A k \in 1 .. n : Acted(q)[k] = q[k].act
  BY <1>1, ActedIs
<1>5. /\ s \in Seq(Act) /\ Len(s) = n + 1
      /\ \A k \in 1 .. n : s[k] = Acted(q)[k]
      /\ s[n + 1] = e.act
  BY <1>2, <1>4, AppendProperties
<1> HIDE DEF r, s
<1>6. /\ Acted(r) \in Seq(Act) /\ Len(Acted(r)) = n + 1
      /\ \A k \in 1 .. n + 1 : Acted(r)[k] = r[k].act
  BY <1>3, ActedIs
<1>7. \A k \in 1 .. n + 1 : Acted(r)[k] = s[k]
  <2> TAKE k \in 1 .. n + 1
  <2>1. k \in 1 .. n \/ k = n + 1
    OBVIOUS
  <2> QED
    BY <1>3, <1>4, <1>5, <1>6, <2>1
<1>8. Acted(r) = s
  BY <1>5, <1>6, <1>7, SeqEqual
<1> QED
  BY <1>2, <1>3, <1>8 DEF r, s

LEMMA ActedLess ==
    ASSUME NEW q \in Seq(Waiter), NEW p \in Seq(Act), IsPrefix(p, Acted(q))
    PROVE  /\ EventsSent(q, Len(p)) \in Seq(Waiter)
           /\ p \o Acted(EventsSent(q, Len(p))) = Acted(q)
           /\ Acted(EventsSent(q, Len(p))) \in Seq(Act)
<1> DEFINE a == Acted(q)
           r == SubSeq(q, Len(p) + 1, Len(q))
           s == SubSeq(a, Len(p) + 1, Len(a))
<1>1. PICK n \in Nat, k \in Nat : n = Len(q) /\ k = Len(p)
  BY LenProperties
<1>2. a \in Seq(Act) /\ Len(a) = n /\ \A i \in 1 .. n : a[i] = q[i].act
  BY <1>1, ActedIs
<1> HIDE DEF a
<1>3. /\ SubSeq(a, 1, k) = p /\ s \in Seq(Act) /\ Len(s) = n - k /\ k <= n
      /\ \A i \in 1 .. n - k : s[i] = a[k + i]
  <2>1. IsPrefix(p, a)
    BY DEF a
  <2> QED
    BY <1>1, <1>2, <2>1, PrefixSplit, PrefixElements
<1>4. \A i \in k + 1 .. n : q[i] \in Waiter
  BY <1>1, ElementOfSeq
<1>5. r \in Seq(Waiter) /\ Len(r) = n - k /\ \A i \in 1 .. n - k : r[i] = q[k + i]
  <2>1. /\ SubSeq(q, k + 1, n) \in Seq(Waiter)
        /\ Len(SubSeq(q, k + 1, n)) = IF k + 1 <= n THEN n - (k + 1) + 1 ELSE 0
        /\ \A i \in 1 .. n - (k + 1) + 1 : SubSeq(q, k + 1, n)[i] = q[(k + 1) + i - 1]
    BY <1>4, SubSeqProperties
  <2>2. \A i \in 1 .. n - k : i \in 1 .. n - (k + 1) + 1 /\ (k + 1) + i - 1 = k + i
    OBVIOUS
  <2>3. (IF k + 1 <= n THEN n - (k + 1) + 1 ELSE 0) = n - k
    BY <1>3
  <2>4. r = SubSeq(q, k + 1, n)
    BY <1>1
  <2> QED
    BY <2>1, <2>2, <2>3, <2>4
<1> HIDE DEF r, s
<1>6. /\ Acted(r) \in Seq(Act) /\ Len(Acted(r)) = n - k
      /\ \A i \in 1 .. n - k : Acted(r)[i] = r[i].act
  BY <1>5, ActedIs
<1>7. \A i \in 1 .. n - k : k + i \in 1 .. n
  BY <1>3
<1>8. Acted(r) = s
  <2>1. \A i \in 1 .. n - k : Acted(r)[i] = s[i]
    BY <1>2, <1>3, <1>5, <1>6, <1>7
  <2> QED
    BY <1>3, <1>6, <2>1, SeqEqual
<1>9. p \o s = a
  <2>1. SubSeq(a, 1, k) \o SubSeq(a, k + 1, n) = SubSeq(a, 1, n)
    <3>1. 1 \in 1 .. Len(a) + 1 /\ k \in 1 - 1 .. Len(a) /\ n \in k .. Len(a)
      BY <1>2, <1>3
    <3> QED
      BY <1>2, <3>1, ConcatAdjacentSubSeq
  <2>2. SubSeq(a, 1, n) = a
    BY <1>2, SubSeqFull
  <2> QED
    BY <1>1, <1>2, <1>3, <2>1, <2>2 DEF s
<1> QED
  BY <1>5, <1>6, <1>8, <1>9 DEF EventsSent, r, a

LEMMA WaitingIs ==
    ASSUME Types, NEW c \in Client
    PROVE  /\ unsent[c] \in Seq(Waiter) /\ Waiting(c) = Acted(unsent[c])
           /\ Waiting(c)' = Acted(unsent'[c]) /\ Waiting(c) \in Seq(Act)
  BY ActedIs DEF Waiting, Acted, Types

-----------------------------------------------------------------------------
(* The client receives.                                                    *)

\* A message that asks for a version is put at the end, or none is.
Asks(c) ==
    \/ up'[c] = up[c]
    \/ \E x \in CheckUp : x.seen = seen'[c] /\ x.v = ver'[c] /\ up'[c] = Append(up[c], x)

LEMMA AsksIs ==
    ASSUME Types, NEW c \in Client, Asks(c)
    PROVE  /\ up'[c] \in Seq(UpMsg)
           /\ \A i \in 1 .. Len(up'[c]) :
                 \/ i \in 1 .. Len(up[c]) /\ up'[c][i] = up[c][i]
                 \/ /\ up'[c][i].type = "check_version"
                    /\ up'[c][i].seen = seen'[c] /\ up'[c][i].v = ver'[c]
<1>1. up[c] \in Seq(UpMsg)
  BY DEF Types
<1>2. CASE up'[c] = up[c]
  BY <1>1, <1>2
<1>3. ASSUME NEW x \in CheckUp, x.seen = seen'[c], x.v = ver'[c], up'[c] = Append(up[c], x)
      PROVE  /\ up'[c] \in Seq(UpMsg)
             /\ \A i \in 1 .. Len(up'[c]) :
                   \/ i \in 1 .. Len(up[c]) /\ up'[c][i] = up[c][i]
                   \/ /\ up'[c][i].type = "check_version"
                      /\ up'[c][i].seen = seen'[c] /\ up'[c][i].v = ver'[c]
  <2>1. PICK n \in Nat : n = Len(up[c])
    BY <1>1, LenProperties
  <2>2. x \in UpMsg /\ x.type = "check_version"
    BY DEF UpMsg, CheckUp
  <2>3. /\ up'[c] \in Seq(UpMsg) /\ Len(up'[c]) = n + 1
        /\ \A i \in 1 .. n : up'[c][i] = up[c][i]
        /\ up'[c][n + 1] = x
    BY <1>1, <1>3, <2>1, <2>2, AppendProperties
  <2>4. \A i \in 1 .. n + 1 : i \in 1 .. n \/ i = n + 1
    OBVIOUS
  <2> QED
    BY <1>3, <2>1, <2>2, <2>3, <2>4
<1> QED
  BY <1>2, <1>3 DEF Asks

\* What holds of the messages after c has received one.
LEMMA ReceiveFrame ==
    ASSUME Types, NEW c \in Client, ClientInv(c), down[c] # <<>>, down'[c] = Tail(down[c]),
           seen'[c] = seen[c] + 1, hist' = hist, link'[c] = link[c], said'[c] = said[c], Asks(c),
           unconf'[c] \subseteq unconf[c],
           \A u \in unconf[c] \ unconf'[c] : \A i \in 1 .. Len(up[c]) :
              up[c][i].type = "diff" => up[c][i].rid # u.rid
    PROVE  Linked(c)' /\ Fresh(c)' /\ Rids(c)' /\ Incoming(c)'
<1>0. /\ Linked(c) /\ Fresh(c) /\ Rids(c) /\ Incoming(c)
      /\ down[c] \in Seq(DownMsg) /\ seen[c] \in Nat /\ said[c] \in Nat
      /\ link[c] \in {"on", "off"}
  BY DEF ClientInv, Types
<1>1. PICK n \in Nat : /\ Len(down[c]) = n + 1 /\ Len(down'[c]) = n
                       /\ \A i \in 1 .. n : down'[c][i] = down[c][i + 1]
                                            /\ i + 1 \in 1 .. Len(down[c])
  <2>1. Len(down[c]) \in Nat \ {0}
    BY <1>0, EmptySeq
  <2>2. PICK n \in Nat : Len(down[c]) = n + 1
    <3>1. Len(down[c]) - 1 \in Nat /\ Len(down[c]) = (Len(down[c]) - 1) + 1
      BY <2>1
    <3> QED
      BY <3>1
  <2>3. Len(down'[c]) = n /\ \A i \in 1 .. n : down'[c][i] = down[c][i + 1]
    BY <1>0, <2>2, HeadTailProperties
  <2> QED
    BY <2>2, <2>3
<1>2. /\ up'[c] \in Seq(UpMsg)
      /\ \A i \in 1 .. Len(up'[c]) :
            \/ i \in 1 .. Len(up[c]) /\ up'[c][i] = up[c][i]
            \/ /\ up'[c][i].type = "check_version"
               /\ up'[c][i].seen = seen'[c] /\ up'[c][i].v = ver'[c]
  BY AsksIs
<1>3. Linked(c)'
  <2>1. link[c] = "on"
    BY <1>0 DEF Linked
  <2>2. seen[c] + (n + 1) = said[c]
    BY <1>0, <1>1, <2>1 DEF Linked
  <2>3. seen'[c] + n = said'[c]
    <3>1. PICK a \in Nat : a = seen[c]
      BY <1>0
    <3> QED
      BY <2>2, <3>1
  <2> QED
    BY <1>1, <2>1, <2>3 DEF Linked
<1>4. Fresh(c)'
  <2> SUFFICES ASSUME NEW i \in 1 .. Len(up'[c])
               PROVE  /\ up'[c][i].seen <= seen'[c]
                      /\ up'[c][i].seen = seen'[c] =>
                            up'[c][i].v = ver'[c] /\ up'[c][i].type # "diff"
    BY DEF Fresh
  <2>1. CASE i \in 1 .. Len(up[c]) /\ up'[c][i] = up[c][i]
    <3>1. up[c][i].seen <= seen[c] /\ up[c][i].seen \in Nat
      BY <1>0, <2>1, UpTyped DEF Fresh
    <3> QED
      BY <1>0, <2>1, <3>1
  <2>2. CASE /\ up'[c][i].type = "check_version"
             /\ up'[c][i].seen = seen'[c] /\ up'[c][i].v = ver'[c]
    BY <1>0, <2>2
  <2> QED
    BY <1>2, <2>1, <2>2
<1>5. Rids(c)'
  <2>1. Bounded(c)'
    BY <1>0 DEF Rids, Bounded
  <2>2. \A u, w \in unconf'[c] : u.rid = w.rid => u = w
    BY <1>0 DEF Rids
  <2>3. \A i \in 1 .. Len(up'[c]) : up'[c][i].type = "diff" =>
           i \in 1 .. Len(up[c]) /\ up'[c][i] = up[c][i]
    BY <1>2
  <2>4. \A i \in 1 .. Len(up'[c]) : up'[c][i].type = "diff" =>
           \E u \in unconf'[c] : u.rid = up'[c][i].rid
    BY <1>0, <2>3 DEF Rids
  <2>5. \A i \in 1 .. Len(up'[c]) : up'[c][i].type = "diff" =>
           ~\E k \in 1 .. Len(hist') : hist'[k].cid = c /\ hist'[k].rid = up'[c][i].rid
    <3>1. \A i \in 1 .. Len(up[c]) : up[c][i].type = "diff" => ~Taken(c, up[c][i].rid)
      BY <1>0 DEF Rids
    <3>2. \A r : ~Taken(c, r) =>
             ~\E k \in 1 .. Len(hist') : hist'[k].cid = c /\ hist'[k].rid = r
      BY <1>0 DEF Taken
    <3> QED
      BY <2>3, <3>1, <3>2
  <2>6. \A i \in 1 .. Len(up'[c]) : up'[c][i].type = "diff" =>
           \A j \in 1 .. i - 1 : up'[c][j].type = "diff" => up'[c][j].rid # up'[c][i].rid
    <3> SUFFICES ASSUME NEW i \in 1 .. Len(up'[c]), NEW j \in 1 .. i - 1,
                        up'[c][i].type = "diff", up'[c][j].type = "diff"
                 PROVE  up'[c][j].rid # up'[c][i].rid
      OBVIOUS
    <3>1. j \in 1 .. Len(up'[c])
      BY <1>2, LenProperties
    <3> QED
      BY SMTT(20), <1>0, <2>3, <3>1 DEF Rids
  <2>7. \A i \in 1 .. Len(down'[c]) : down'[c][i].type = "reject_diff" =>
           /\ ~\E k \in 1 .. Len(hist') : hist'[k].cid = c /\ hist'[k].rid = down'[c][i].rid
           /\ \A j \in 1 .. Len(up'[c]) :
                 up'[c][j].type = "diff" => up'[c][j].rid # down'[c][i].rid
    <3> SUFFICES ASSUME NEW i \in 1 .. n, down'[c][i].type = "reject_diff"
                 PROVE  /\ ~\E k \in 1 .. Len(hist') : hist'[k].cid = c
                                                       /\ hist'[k].rid = down'[c][i].rid
                        /\ \A j \in 1 .. Len(up'[c]) :
                              up'[c][j].type = "diff" => up'[c][j].rid # down'[c][i].rid
      BY <1>1
    <3> DEFINE h == i + 1
    <3>1. h \in 1 .. Len(down[c]) /\ down'[c][i] = down[c][h]
      BY <1>1
    <3> HIDE DEF h
    <3>2. /\ ~Taken(c, down[c][h].rid)
          /\ \A j \in 1 .. Len(up[c]) : up[c][j].type = "diff" => up[c][j].rid # down[c][h].rid
      BY <1>0, <3>1 DEF Rids
    <3>3. \A j \in 1 .. Len(up'[c]) :
             up'[c][j].type = "diff" => up'[c][j].rid # down'[c][i].rid
      BY <2>3, <3>1, <3>2
    <3> QED
      BY <3>1, <3>2, <3>3 DEF Taken
  <2> QED
    BY <2>1, <2>2, <2>4, <2>5, <2>6, <2>7 DEF Rids, Taken
<1>6. Incoming(c)'
  <2> SUFFICES ASSUME NEW i \in 1 .. n
               PROVE  LET m == down'[c][i]
                      IN  /\ ~Confirms(c, m)
                          /\ m.type = "diff" => /\ m.v < Len(hist)
                                                /\ hist[m.v + 1].cid = m.cid
                                                /\ hist[m.v + 1].rid = m.rid
    BY <1>1 DEF Incoming, Confirms
  <2> DEFINE h == i + 1
  <2>1. h \in 1 .. Len(down[c]) /\ down'[c][i] = down[c][h] /\ h # 1
    BY <1>1
  <2> HIDE DEF h
  <2> QED
    BY <1>0, <2>1 DEF Incoming
<1> QED
  BY <1>3, <1>4, <1>5, <1>6
LEMMA Stands ==
    ASSUME Types, NEW c \in Client, ClientInv(c), hist' = hist, ver'[c] = ver[c],
           unsent'[c] = unsent[c], done'[c] = done[c],
           \A u \in unconf[c] : Taken(c, u.rid) => u \in unconf'[c]
    PROVE  Own(c)' /\ Current(c)'
<1>1. Own(c)'
  BY OwnKept DEF ClientInv, HistFor
<1>2. ActsOf(c, ver[c])' = ActsOf(c, ver[c])
  BY DEF ActsOf
<1>3. Current(c)'
  BY <1>2 DEF ClientInv, Current, Waiting
<1> QED
  BY <1>1, <1>3

\* c goes on to the diff after its version.
LEMMA Advances ==
    ASSUME Types, NEW c \in Client, ClientInv(c), hist' = hist, ver'[c] = ver[c] + 1,
           ver[c] < Len(hist), done'[c] = done[c],
           LET l == hist[ver[c] + 1]
           IN  unsent'[c] = IF l.cid = c THEN EventsSent(unsent[c], Len(l.acts)) ELSE unsent[c]
    PROVE  Own(c)' /\ Current(c)'
<1>1. /\ hist \in Seq(Diff) /\ ver[c] \in Nat /\ done[c] = ActsOf(c, ver[c]) \o Waiting(c)
      /\ Own(c)
  BY DEF Types, ClientInv, Current
<1>2. PICK v \in Nat, w \in Nat, n \in Nat : v = ver[c] /\ w = v + 1 /\ n = Len(hist)
  <2>1. ver[c] + 1 \in Nat /\ Len(hist) \in Nat
    BY <1>1, LenProperties
  <2> QED
    BY <1>1, <2>1
<1>3. w \in 1 .. n /\ ver'[c] = w
  BY <1>2
<1> DEFINE l == hist[w]
           a == ActsOf(c, v)
<1>4. /\ a \in Seq(Act)
      /\ l.cid = c => ActsOf(c, w) = a \o l.acts
      /\ l.cid # c => ActsOf(c, w) = a
  BY <1>1, <1>2, ActsStep
<1>5. /\ unsent[c] \in Seq(Waiter) /\ Waiting(c) = Acted(unsent[c])
      /\ Waiting(c)' = Acted(unsent'[c])
  BY WaitingIs
<1>6. ActsOf(c, w) \o Waiting(c)' = a \o Waiting(c)
  <2>1. CASE l.cid = c
    <3>1. OwnNext(c)
      BY <1>2, <2>1 DEF OwnNext
    <3>2. IsPrefix(l.acts, Acted(unsent[c]))
      BY <1>1, <1>2, <1>5, <3>1 DEF Own
    <3>3. l.acts \in Seq(Act)
      BY <1>1, <1>2, <1>3, HistEntry
    <3> DEFINE r == Acted(EventsSent(unsent[c], Len(l.acts)))
    <3>4. l.acts \o r = Acted(unsent[c]) /\ r \in Seq(Act)
      BY <1>5, <3>2, <3>3, ActedLess
    <3>5. Waiting(c)' = r /\ ActsOf(c, w) = a \o l.acts
      BY <1>2, <1>4, <1>5, <2>1
    <3> HIDE DEF r, l, a
    <3>6. (a \o l.acts) \o r = a \o (l.acts \o r)
      <4>1. PICK x, y, z : x = a /\ y = l.acts /\ z = r
        OBVIOUS
      <4>2. x \in Seq(Act) /\ y \in Seq(Act) /\ z \in Seq(Act)
        BY <1>4, <3>3, <3>4, <4>1
      <4>3. (x \o y) \o z = x \o (y \o z)
        BY <4>2, ConcatAssociative
      <4> QED
        BY <4>1, <4>3
    <3> QED
      BY <1>5, <3>4, <3>5, <3>6
  <2>2. CASE l.cid # c
    <3>1. unsent'[c] = unsent[c]
      BY <1>2, <2>2
    <3> QED
      BY <1>4, <1>5, <2>2, <3>1
  <2> QED
    BY <2>1, <2>2
<1>7. Current(c)'
  <2>1. ActsOf(c, w)' = ActsOf(c, w)
    BY DEF ActsOf
  <2>2. done'[c] = ActsOf(c, w) \o Waiting(c)'
    BY <1>1, <1>2, <1>6
  <2>3. ActsOf(c, ver[c])' = ActsOf(c, w)
    BY <1>3, <2>1 DEF ActsOf
  <2> QED
    BY SMTT(20), <1>2, <1>3, <2>2, <2>3 DEF Current
<1>8. Own(c)'
  <2>1. \A k \in v + 2 .. n : hist[k].cid # c
    BY <1>1, <1>2 DEF Own
  <2>2. \A k \in ver'[c] + 2 .. Len(hist') : hist'[k].cid # c
    BY <1>2, <1>3, <2>1
  <2>3. ~OwnNext(c)'
    <3>1. w + 1 = v + 2
      BY <1>2
    <3>2. OwnNext(c)' => w < n /\ hist[w + 1].cid = c
      BY <1>2, <1>3 DEF OwnNext
    <3>3. w < n => w + 1 \in v + 2 .. n
      BY <1>2
    <3> QED
      BY <2>1, <3>2, <3>3
  <2> QED
    BY <2>2, <2>3 DEF Own
<1> QED
  BY <1>7, <1>8

\* What is left to show of a step in which c receives a message.
LEMMA ReceiveEnds ==
    ASSUME IInv, NEW c \in Client, down[c] # <<>>, down' = [down EXCEPT ![c] = Tail(@)],
           seen' = [seen EXCEPT ![c] = @ + 1], UNCHANGED <<serverVars, link, ghosts>>,
           Asks(c), unconf'[c] \subseteq unconf[c],
           \A u \in unconf[c] \ unconf'[c] : \A i \in 1 .. Len(up[c]) :
              up[c][i].type = "diff" => up[c][i].rid # u.rid,
           \A d \in Client \ {c} : /\ up'[d] = up[d] /\ ver'[d] = ver[d]
                                   /\ unsent'[d] = unsent[d] /\ unconf'[d] = unconf[d],
           up' \in [Client -> Seq(UpMsg)], ver' \in [Client -> Nat],
           copy' \in [Client -> Store], unsent' \in [Client -> Seq(Waiter)],
           unconf' \in [Client -> SUBSET Pending], await' \in [Client -> BOOLEAN],
           Own(c)', Current(c)'
    PROVE  IInv'
<1>1. Types /\ Numbered /\ \A d \in Client : ClientInv(d)
  BY DEF IInv
<1>2. /\ down \in [Client -> Seq(DownMsg)] /\ seen \in [Client -> Nat]
      /\ Tail(down[c]) \in Seq(DownMsg)
  BY <1>1, HeadTailProperties DEF Types
<1>3. /\ down'[c] = Tail(down[c]) /\ seen'[c] = seen[c] + 1
      /\ \A d \in Client \ {c} : down'[d] = down[d] /\ seen'[d] = seen[d]
      /\ down' \in [Client -> Seq(DownMsg)] /\ seen' \in [Client -> Nat]
  BY <1>2
<1>4. Types'
  BY <1>1, <1>3 DEF Types, serverVars, ghosts
<1>5. ClientInv(c)'
  BY <1>1, <1>3, ReceiveFrame DEF ClientInv, serverVars
<1>6. ASSUME NEW d \in Client \ {c}
      PROVE  ClientInv(d)'
  BY <1>1, <1>3, Unheard DEF serverVars, ghosts, HistFor
<1>7. Numbered'
  BY <1>1, NumberedStays DEF ghosts
<1> QED
  BY <1>4, <1>5, <1>6, <1>7 DEF IInv

LEMMA CheckIs ==
    ASSUME Types, NEW c \in Client, CheckVersion(c), ver' = ver, seen' \in [Client -> Nat]
    PROVE  /\ Asks(c) /\ up' \in [Client -> Seq(UpMsg)] /\ await' \in [Client -> BOOLEAN]
           /\ \A d \in Client \ {c} : up'[d] = up[d]
<1>1. /\ up \in [Client -> Seq(UpMsg)] /\ await \in [Client -> BOOLEAN] /\ ver'[c] \in Nat
      /\ seen'[c] \in Nat
  BY DEF Types
<1>2. await' \in [Client -> BOOLEAN]
  BY <1>1 DEF CheckVersion
<1>3. CASE UNCHANGED up
  BY <1>1, <1>2, <1>3 DEF Asks
<1>4. CASE Upload(c, [type |-> "check_version", v |-> ver'[c], seen |-> 0])
  <2> DEFINE x == [type |-> "check_version", v |-> ver'[c], seen |-> seen'[c]]
  <2>1. x \in CheckUp /\ x.seen = seen'[c] /\ x.v = ver'[c]
    BY <1>1 DEF CheckUp
  <2>2. up' = [up EXCEPT ![c] = Append(@, x)]
    <3> DEFINE m == [type |-> "check_version", v |-> ver'[c], seen |-> 0]
    <3>1. [m EXCEPT !.seen = seen'[c]] = x
      OBVIOUS
    <3> HIDE DEF x
    <3> QED
      BY <1>4, <3>1 DEF Upload
  <2> HIDE DEF x
  <2>3. Append(up[c], x) \in Seq(UpMsg)
    BY <1>1, <2>1, AppendProperties DEF UpMsg
  <2>4. up'[c] = Append(up[c], x) /\ \A d \in Client \ {c} : up'[d] = up[d]
    BY <1>1, <2>2
  <2>5. up' \in [Client -> Seq(UpMsg)]
    BY <1>1, <2>2, <2>3
  <2> QED
    BY <1>2, <2>1, <2>4, <2>5 DEF Asks
<1> QED
  BY <1>3, <1>4 DEF CheckVersion

\* The first message under way to c.
LEMMA FirstDown ==
    ASSUME Types, NEW c \in Client, ClientInv(c), down[c] # <<>>, NEW m, m = Head(down[c])
    PROVE  /\ m \in DownMsg
           /\ Confirms(c, m) => OwnNext(c) /\ hist[ver[c] + 1].rid = m.rid
           /\ m.type = "diff" => /\ m.v < Len(hist)
                                 /\ hist[m.v + 1].cid = m.cid /\ hist[m.v + 1].rid = m.rid
           /\ m.type = "reject_diff" =>
                 /\ ~Taken(c, m.rid)
                 /\ \A j \in 1 .. Len(up[c]) : up[c][j].type = "diff" => up[c][j].rid # m.rid
<1>1. down[c] \in Seq(DownMsg)
  BY DEF Types
<1>2. 1 \in 1 .. Len(down[c]) /\ m = down[c][1] /\ m \in DownMsg
  BY <1>1, EmptySeq, HeadTailProperties
<1> QED
  BY <1>2 DEF ClientInv, Incoming, Rids

\* The next diff of c is confirmed.
LEMMA ConfirmIs ==
    ASSUME IInv, NEW c \in Client, NEW r, ConfirmDiff(c, r), OwnNext(c),
           hist[ver[c] + 1].rid = r, hist' = hist, done' = done
    PROVE  /\ Own(c)' /\ Current(c)' /\ unconf'[c] \subseteq unconf[c]
           /\ ver'[c] = ver[c] + 1
           /\ unsent'[c] = EventsSent(unsent[c], Len(hist[ver[c] + 1].acts))
           /\ \A u \in unconf[c] \ unconf'[c] : \A i \in 1 .. Len(up[c]) :
                 up[c][i].type = "diff" => up[c][i].rid # u.rid
           /\ \A d \in Client \ {c} : /\ ver'[d] = ver[d] /\ unsent'[d] = unsent[d]
                                      /\ unconf'[d] = unconf[d]
           /\ ver' \in [Client -> Nat] /\ unsent' \in [Client -> Seq(Waiter)]
           /\ unconf' \in [Client -> SUBSET Pending] /\ await' \in [Client -> BOOLEAN]
<1>1. Types /\ ClientInv(c) /\ Own(c) /\ Rids(c)
  BY DEF IInv, ClientInv
<1>2. /\ ver \in [Client -> Nat] /\ unsent \in [Client -> Seq(Waiter)]
      /\ unconf \in [Client -> SUBSET Pending] /\ await \in [Client -> BOOLEAN]
      /\ hist \in Seq(Diff)
  BY <1>1 DEF Types
<1> DEFINE mine == {u \in unconf[c] : u.rid = r}
<1>3. PICK l : l = hist[ver[c] + 1]
  OBVIOUS
<1>4. PICK u0 : u0 = [rid |-> l.rid, n |-> Len(l.acts)]
  OBVIOUS
<1>5. /\ u0 \in unconf[c] /\ u0.rid = r /\ u0.n = Len(l.acts) /\ l.cid = c
      /\ IsPrefix(l.acts, Waiting(c)) /\ ver[c] < Len(hist)
  BY <1>1, <1>3, <1>4 DEF Own, OwnNext
<1>6. mine = {u0}
  BY <1>1, <1>5 DEF Rids
<1>7. /\ ver' = [ver EXCEPT ![c] = @ + 1]
      /\ unsent' = [unsent EXCEPT ![c] = EventsSent(@, u0.n)]
      /\ unconf' = [unconf EXCEPT ![c] = @ \ mine]
      /\ await' = [await EXCEPT ![c] = FALSE]
  BY <1>6 DEF ConfirmDiff
<1>8. ver[c] + 1 \in 1 .. Len(hist)
  BY <1>2, <1>5, LenProperties
<1>9. EventsSent(unsent[c], u0.n) \in Seq(Waiter)
  <2>1. l.acts \in Seq(Act)
    BY <1>2, <1>3, <1>8, HistEntry
  <2>2. unsent[c] \in Seq(Waiter) /\ Waiting(c) = Acted(unsent[c])
    BY <1>1, WaitingIs
  <2>3. EventsSent(unsent[c], Len(l.acts)) \in Seq(Waiter)
    BY <1>5, <2>1, <2>2, ActedLess
  <2> QED
    BY <1>5, <2>3
<1>10. /\ unsent' \in [Client -> Seq(Waiter)] /\ unsent'[c] = EventsSent(unsent[c], Len(l.acts))
       /\ ver' \in [Client -> Nat] /\ ver'[c] = ver[c] + 1
  BY <1>2, <1>5, <1>7, <1>9
<1>11. Taken(c, r)
  BY <1>3, <1>4, <1>5, <1>8 DEF Taken
<1>12. /\ unconf'[c] = unconf[c] \ mine /\ unconf' \in [Client -> SUBSET Pending]
       /\ await' \in [Client -> BOOLEAN]
  BY <1>2, <1>7
<1>13. \A i \in 1 .. Len(up[c]) : up[c][i].type = "diff" => up[c][i].rid # r
  BY <1>1, <1>11 DEF Rids
<1>14. Own(c)' /\ Current(c)'
  BY <1>1, <1>3, <1>5, <1>10, Advances
<1> HIDE DEF mine
<1>15. \A d \in Client \ {c} : /\ ver'[d] = ver[d] /\ unsent'[d] = unsent[d]
                               /\ unconf'[d] = unconf[d]
  BY <1>2, <1>7
<1> QED
  BY <1>3, <1>10, <1>12, <1>13, <1>14, <1>15 DEF mine

LEMMA ReceiveStep ==
    ASSUME IInv, NEW c \in Client, ClientReceive(c)
    PROVE  IInv'
<1>0. PICK m : m = Head(down[c])
  OBVIOUS
<1>1. /\ Types /\ ClientInv(c) /\ Current(c)
  BY DEF IInv, ClientInv
<1>2. /\ down[c] # <<>> /\ down' = [down EXCEPT ![c] = Tail(@)]
      /\ seen' = [seen EXCEPT ![c] = @ + 1] /\ UNCHANGED <<serverVars, link, ghosts>>
      /\ \/ ReceiveConfirmDiff(c, m) \/ ReceiveRejectDiff(c, m)
         \/ ReceiveDiff(c, m) \/ ReceiveConfirmVersion(c, m)
  BY <1>0 DEF ClientReceive
<1>3. /\ m \in DownMsg
      /\ Confirms(c, m) => OwnNext(c) /\ hist[ver[c] + 1].rid = m.rid
      /\ m.type = "diff" => /\ m.v < Len(hist)
                            /\ hist[m.v + 1].cid = m.cid /\ hist[m.v + 1].rid = m.rid
      /\ m.type = "reject_diff" =>
            /\ ~Taken(c, m.rid)
            /\ \A j \in 1 .. Len(up[c]) : up[c][j].type = "diff" => up[c][j].rid # m.rid
  BY <1>0, <1>1, <1>2, FirstDown
<1>4. /\ up \in [Client -> Seq(UpMsg)] /\ ver \in [Client -> Nat]
      /\ copy \in [Client -> Store] /\ unsent \in [Client -> Seq(Waiter)]
      /\ unconf \in [Client -> SUBSET Pending] /\ await \in [Client -> BOOLEAN]
      /\ seen \in [Client -> Nat] /\ hist \in Seq(Diff)
  BY <1>1 DEF Types
<1>5. seen' \in [Client -> Nat] /\ hist' = hist /\ done' = done
  BY <1>2, <1>4 DEF serverVars, ghosts
<1>6. ASSUME up' = up
      PROVE  Asks(c)
  BY <1>6 DEF Asks
<1>7. ASSUME ConfirmDiff(c, m.rid), Confirms(c, m), UNCHANGED <<up, copy>>
      PROVE  IInv'
  <2>1. /\ Own(c)' /\ Current(c)' /\ unconf'[c] \subseteq unconf[c]
        /\ \A u \in unconf[c] \ unconf'[c] : \A i \in 1 .. Len(up[c]) :
              up[c][i].type = "diff" => up[c][i].rid # u.rid
        /\ \A d \in Client \ {c} : /\ ver'[d] = ver[d] /\ unsent'[d] = unsent[d]
                                   /\ unconf'[d] = unconf[d]
        /\ ver' \in [Client -> Nat] /\ unsent' \in [Client -> Seq(Waiter)]
        /\ unconf' \in [Client -> SUBSET Pending] /\ await' \in [Client -> BOOLEAN]
    BY <1>3, <1>5, <1>7, ConfirmIs
  <2>2. Asks(c) /\ up' \in [Client -> Seq(UpMsg)] /\ copy' \in [Client -> Store]
        /\ \A d \in Client : up'[d] = up[d]
    BY <1>4, <1>6, <1>7
  <2> QED
    BY <1>2, <2>1, <2>2, ReceiveEnds
<1>8. ASSUME ver' = ver, UNCHANGED <<storeVars, unconf>>, Asks(c),
             up' \in [Client -> Seq(UpMsg)], await' \in [Client -> BOOLEAN],
             \A d \in Client \ {c} : up'[d] = up[d]
      PROVE  IInv'
  <2>1. Own(c)' /\ Current(c)'
    BY <1>1, <1>5, <1>8, Stands DEF storeVars
  <2> QED
    BY <1>2, <1>4, <1>8, <2>1, ReceiveEnds DEF storeVars
<1>9. CASE ReceiveConfirmDiff(c, m)
  BY <1>7, <1>9 DEF ReceiveConfirmDiff, Confirms
<1>10. CASE ReceiveRejectDiff(c, m)
  <2>1. /\ m.type = "reject_diff" /\ unconf' = [unconf EXCEPT ![c] = {u \in @ : u.rid # m.rid}]
        /\ await' = [await EXCEPT ![c] = FALSE] /\ UNCHANGED <<up, ver, copy, unsent>>
    BY <1>10 DEF ReceiveRejectDiff, storeVars
  <2>2. /\ unconf'[c] = {u \in unconf[c] : u.rid # m.rid}
        /\ \A d \in Client \ {c} : unconf'[d] = unconf[d]
        /\ unconf' \in [Client -> SUBSET Pending] /\ await' \in [Client -> BOOLEAN]
    BY <1>4, <2>1
  <2>3. \A u \in unconf[c] \ unconf'[c] : \A i \in 1 .. Len(up[c]) :
           up[c][i].type = "diff" => up[c][i].rid # u.rid
    BY <1>3, <2>1, <2>2
  <2>4. Own(c)' /\ Current(c)'
    BY <1>1, <1>3, <1>5, <2>1, <2>2, Stands
  <2> QED
    BY <1>2, <1>4, <1>6, <2>1, <2>2, <2>3, <2>4, ReceiveEnds
<1>11. CASE ReceiveDiff(c, m)
  <2>1. CASE m.cid = c
    BY <1>7, <1>11, <2>1 DEF ReceiveDiff, Confirms
  <2>2. CASE m.cid # c /\ m.v # ver[c]
    <3>1. ver' = ver /\ CheckVersion(c) /\ UNCHANGED <<storeVars, unconf>>
      BY <1>11, <2>2 DEF ReceiveDiff
    <3> QED
      BY <1>1, <1>5, <1>8, <3>1, CheckIs
  <2>3. CASE m.cid # c /\ m.v = ver[c]
    <3>1. /\ ver' = [ver EXCEPT ![c] = @ + 1]
          /\ copy' = [copy EXCEPT ![c] = FoldLeft(Received, @, m.cu)]
          /\ UNCHANGED <<up, unsent, unconf, await>>
      BY <1>11, <2>3 DEF ReceiveDiff
    <3>2. m.cu \in Seq(Update) /\ m.type = "diff"
      BY <1>3, <1>11, DownTyped DEF ReceiveDiff
    <3>3. FoldLeft(Received, copy[c], m.cu) \in Store
      BY <1>4, <3>2, MergedType
    <3>4. copy' \in [Client -> Store]
      BY <1>4, <3>1, <3>3
    <3>5. /\ ver'[c] = ver[c] + 1 /\ ver' \in [Client -> Nat]
          /\ \A d \in Client \ {c} : ver'[d] = ver[d]
      BY <1>4, <3>1
    <3>6. ver[c] < Len(hist) /\ hist[ver[c] + 1].cid # c
      BY <1>3, <2>3, <3>2
    <3>7. Own(c)' /\ Current(c)'
      BY <1>1, <1>5, <3>1, <3>5, <3>6, Advances
    <3> QED
      BY <1>2, <1>4, <1>6, <3>1, <3>4, <3>5, <3>7, ReceiveEnds
  <2> QED
    BY <2>1, <2>2, <2>3
<1>12. CASE ReceiveConfirmVersion(c, m)
  <2>1. CASE m.v # ver[c]
    <3>1. ver' = ver /\ CheckVersion(c) /\ UNCHANGED <<storeVars, unconf>>
      BY <1>12, <2>1 DEF ReceiveConfirmVersion
    <3> QED
      BY <1>1, <1>5, <1>8, <3>1, CheckIs
  <2>2. CASE m.v = ver[c]
    <3>1. /\ await' = [await EXCEPT ![c] = FALSE] /\ UNCHANGED <<up, ver, storeVars, unconf>>
      BY <1>12, <2>2 DEF ReceiveConfirmVersion
    <3>2. await' \in [Client -> BOOLEAN]
      BY <1>4, <3>1
    <3> QED
      BY <1>4, <1>6, <1>8, <3>1, <3>2
  <2> QED
    BY <2>1, <2>2
<1> QED
  BY <1>2, <1>9, <1>10, <1>11, <1>12
-----------------------------------------------------------------------------
(* Sending.                                                                *)

\* The next request id is above all in use.
LEMMA NextRidIs ==
    ASSUME Types, NEW c \in Client, Rids(c)
    PROVE  /\ NextRid(c) \in Nat /\ ~Taken(c, NextRid(c))
           /\ \A u \in unconf[c] : u.rid < NextRid(c)
           /\ \E b \in Nat : /\ NextRid(c) <= b /\ \A u \in unconf[c] : u.rid <= b
                             /\ \A k \in 1 .. Len(hist) : hist[k].cid = c => hist[k].rid <= b
<1> DEFINE V == {w \in DOMAIN hist : hist[w].cid = c}
           S == {0} \cup {u.rid : u \in unconf[c]} \cup {hist[v].rid : v \in V}
<1>1. hist \in Seq(Diff) /\ unconf[c] \in SUBSET Pending
  BY DEF Types
<1>2. DOMAIN hist = 1 .. Len(hist)
  BY <1>1, LenProperties
<1>3. PICK b \in Nat : /\ \A u \in unconf[c] : u.rid <= b
                       /\ \A k \in 1 .. Len(hist) : hist[k].cid = c => hist[k].rid <= b
  BY DEF Rids, Bounded
<1>4. \A u \in unconf[c] : u.rid \in 0 .. b /\ u.rid \in S
  <2>1. \A u \in unconf[c] : u.rid \in Nat
    BY <1>1 DEF Pending
  <2> QED
    BY <1>3, <2>1
<1>5. \A v \in V : hist[v].rid \in 0 .. b /\ hist[v].rid \in S
  <2>1. \A v \in V : hist[v].rid \in Nat
    BY <1>1, <1>2, HistEntry
  <2> QED
    BY <1>2, <1>3, <2>1
<1>6. S \subseteq 0 .. b /\ 0 \in S
  BY <1>3, <1>4, <1>5
<1>7. NextRid(c) = 1 + Max(S)
  BY DEF NextRid
<1>8. \A k \in 1 .. Len(hist) : hist[k].cid = c => k \in V
  BY <1>2
<1> HIDE DEF S, V
<1>9. Max(S) \in S /\ \A x \in S : x <= Max(S)
  BY <1>6, MaxIs
<1>10. PICK r \in 0 .. b : r = Max(S)
  BY <1>6, <1>9
<1>11. NextRid(c) = r + 1 /\ \A x \in S : x <= r
  BY <1>7, <1>9, <1>10
<1>12. \A u \in unconf[c] : u.rid < r + 1
  BY <1>4, <1>11
<1>13. ~Taken(c, r + 1)
  <2> SUFFICES ASSUME NEW k \in 1 .. Len(hist), hist[k].cid = c
               PROVE  hist[k].rid # r + 1
    BY DEF Taken
  <2>1. hist[k].rid \in S /\ hist[k].rid \in 0 .. b
    BY <1>5, <1>8
  <2> QED
    BY <1>11, <2>1
<1>14. PICK e \in Nat : e = b + 1
  OBVIOUS
<1>15. /\ r + 1 <= e /\ \A u \in unconf[c] : u.rid <= e
       /\ \A k \in 1 .. Len(hist) : hist[k].cid = c => hist[k].rid <= e
  <2>1. \A x \in 0 .. b : x <= e
    BY <1>14
  <2>2. \A u \in unconf[c] : u.rid <= e
    BY <1>4, <2>1
  <2>3. \A k \in 1 .. Len(hist) : hist[k].cid = c => hist[k].rid <= e
    BY <1>5, <1>8, <2>1
  <2> QED
    BY <1>14, <2>2, <2>3
<1> QED
  BY <1>11, <1>12, <1>13, <1>15

LEMMA SendStep ==
    ASSUME IInv, NEW c \in Client, Send(c)
    PROVE  IInv'
<1>1. Types /\ Numbered /\ ClientInv(c) /\ Linked(c) /\ Fresh(c) /\ Rids(c) /\ Own(c)
      /\ \A d \in Client : ClientInv(d)
  BY DEF IInv, ClientInv
<1>2. PICK r \in Nat, e \in Nat :
         /\ r = NextRid(c) /\ ~Taken(c, r) /\ \A u \in unconf[c] : u.rid < r
         /\ r <= e /\ \A u \in unconf[c] : u.rid <= e
         /\ \A k \in 1 .. Len(hist) : hist[k].cid = c => hist[k].rid <= e
  BY <1>1, NextRidIs
<1>3. PICK w : w = Waiting(c)
  OBVIOUS
<1>4. /\ UnsentEvents(c) \in Seq(Update) /\ w \in Seq(Act) /\ Len(w) = Len(unsent[c])
  BY <1>1, <1>3, UnsentType
<1> DEFINE x == [type |-> "diff", v |-> ver[c], rid |-> r, cu |-> UnsentEvents(c),
                 acts |-> w, seen |-> seen[c]]
           u0 == [rid |-> r, n |-> Len(w)]
<1>5. /\ up \in [Client -> Seq(UpMsg)] /\ unconf \in [Client -> SUBSET Pending]
      /\ await \in [Client -> BOOLEAN] /\ seen[c] \in Nat /\ ver[c] \in Nat
      /\ unsent[c] \in Seq(Waiter)
  BY <1>1 DEF Types
<1>6. x \in UpMsg
  BY <1>4, <1>5 DEF UpMsg, DiffUp
<1>7. /\ x.type = "diff" /\ x.seen = seen[c] /\ x.v = ver[c] /\ x.acts = w /\ x.rid = r
      /\ u0 = [rid |-> x.rid, n |-> Len(x.acts)]
  OBVIOUS
<1>8. /\ up' = [up EXCEPT ![c] = Append(@, x)]
      /\ unconf' = [unconf EXCEPT ![c] = @ \cup {u0}]
      /\ await' = [await EXCEPT ![c] = TRUE]
      /\ UNCHANGED <<serverVars, link, down, ver, storeVars, ghosts, seen>>
      /\ link[c] = "on" /\ down[c] = <<>> /\ unsent[c] # <<>>
  <2> DEFINE y == [type |-> "diff", v |-> ver[c], rid |-> NextRid(c), cu |-> UnsentEvents(c),
                   acts |-> [k \in DOMAIN unsent[c] |-> unsent[c][k].act], seen |-> 0]
  <2>1. seen' = seen /\ w = [k \in DOMAIN unsent[c] |-> unsent[c][k].act]
    BY <1>3 DEF Send, Waiting
  <2>2. [y EXCEPT !.seen = seen'[c]] = x
    <3>1. y = [type |-> "diff", v |-> ver[c], rid |-> r, cu |-> UnsentEvents(c),
               acts |-> w, seen |-> 0]
      BY <1>2, <2>1
    <3> HIDE DEF y
    <3> QED
      BY <2>1, <3>1
  <2>3. Upload(c, y)
    BY DEF Send
  <2> HIDE DEF x, y
  <2>4. up' = [up EXCEPT ![c] = Append(@, x)]
    BY <2>2, <2>3 DEF Upload
  <2> QED
    BY <1>2, <1>4, <2>1, <2>4 DEF Send
<1>9. u0 \in Pending /\ u0.rid = r
  <2>1. Len(w) \in Nat \ {0}
    BY <1>4, <1>5, <1>8, EmptySeq
  <2> QED
    BY <1>2, <2>1 DEF Pending
<1> HIDE DEF x, u0
<1>10. PICK n \in Nat : n = Len(up[c])
  BY <1>5, LenProperties
<1>11. /\ Append(up[c], x) \in Seq(UpMsg) /\ Len(Append(up[c], x)) = n + 1
       /\ \A i \in 1 .. n : Append(up[c], x)[i] = up[c][i]
       /\ Append(up[c], x)[n + 1] = x
  BY <1>5, <1>6, <1>10, AppendProperties
<1>12. /\ up' \in [Client -> Seq(UpMsg)] /\ unconf' \in [Client -> SUBSET Pending]
       /\ await' \in [Client -> BOOLEAN]
       /\ up'[c] = Append(up[c], x) /\ unconf'[c] = unconf[c] \cup {u0}
       /\ \A d \in Client \ {c} : up'[d] = up[d] /\ unconf'[d] = unconf[d]
  BY <1>5, <1>8, <1>9, <1>11
<1>13. /\ hist' = hist /\ said' = said /\ com' = com /\ listed' = listed /\ copy' = copy
       /\ unsent' = unsent /\ done' = done /\ failed' = failed /\ seen' = seen
       /\ ver' = ver /\ link' = link /\ down' = down
  BY <1>8 DEF serverVars, storeVars, ghosts
<1>14. Types'
  BY <1>1, <1>12, <1>13 DEF Types
<1>15. \A i \in 1 .. Len(up'[c]) : \/ i \in 1 .. n /\ up'[c][i] = up[c][i]
                                   \/ i = n + 1 /\ up'[c][i] = x
  BY <1>11, <1>12
<1>16. ClientInv(c)'
  <2>1. Linked(c)'
    BY <1>1, <1>8, <1>13 DEF Linked
  <2>2. Waiting(c)' = w
    BY <1>3, <1>13 DEF Waiting
  <2>3. Fresh(c)'
    <3> SUFFICES ASSUME NEW i \in 1 .. Len(up'[c])
                 PROVE  /\ up'[c][i].seen <= seen[c]
                        /\ up'[c][i].seen = seen[c] =>
                              /\ up'[c][i].v = ver[c]
                              /\ up'[c][i].type = "diff" =>
                                    /\ IsPrefix(up'[c][i].acts, w)
                                    /\ [rid |-> up'[c][i].rid, n |-> Len(up'[c][i].acts)]
                                          \in unconf'[c]
      BY <1>13, <2>2 DEF Fresh
    <3>1. CASE i \in 1 .. n /\ up'[c][i] = up[c][i]
      BY <1>1, <1>3, <1>10, <1>12, <3>1 DEF Fresh
    <3>2. CASE i = n + 1 /\ up'[c][i] = x
      <4>1. IsPrefix(w, w)
        BY <1>4, PrefixElements, LenProperties
      <4> QED
        BY <1>5, <1>7, <1>12, <3>2, <4>1
    <3> QED
      BY <1>15, <3>1, <3>2
  <2>4. Own(c)'
    BY <1>1, <1>12, <1>13 DEF Own, OwnNext, Waiting
  <2>5. Incoming(c)'
    BY <1>8, <1>13, EmptySeq DEF Incoming
  <2>6. Current(c)'
    BY <1>1, <1>13 DEF ClientInv, Current, Waiting, ActsOf
  <2>7. Rids(c)'
    <3>1. Bounded(c)'
      BY <1>2, <1>9, <1>12, <1>13 DEF Bounded
    <3>2. \A u, v \in unconf'[c] : u.rid = v.rid => u = v
      <4>1. \A u \in unconf[c] : u.rid # r
        <5>1. \A u \in unconf[c] : u.rid \in Nat
          BY <1>5 DEF Pending
        <5> QED
          BY <1>2, <5>1
      <4> QED
        BY <1>1, <1>9, <1>12, <4>1 DEF Rids
    <3>3. \A i \in 1 .. n : up[c][i].type = "diff" => up[c][i].rid # r
      BY <1>1, <1>2, <1>10, <1>5 DEF Rids, Pending
    <3>4. ASSUME NEW i \in 1 .. Len(up'[c]), NEW m, m = up'[c][i], m.type = "diff"
          PROVE  /\ \E u \in unconf'[c] : u.rid = m.rid
                 /\ ~Taken(c, m.rid)
                 /\ \A j \in 1 .. i - 1 : up'[c][j].type = "diff" => up'[c][j].rid # m.rid
      <4>1. \A j \in 1 .. i - 1 : j \in 1 .. n /\ up'[c][j] = up[c][j]
        BY <1>11, <1>12
      <4>2. CASE i \in 1 .. n /\ m = up[c][i]
        BY <1>1, <1>10, <1>12, <3>4, <4>1, <4>2 DEF Rids
      <4>3. CASE i = n + 1 /\ m = x
        BY <1>2, <1>7, <1>9, <1>12, <3>3, <4>1, <4>3
      <4> QED
        BY <1>15, <3>4, <4>2, <4>3
    <3>5. \A i \in 1 .. Len(up'[c]) : up'[c][i].type = "diff" =>
             /\ \E u \in unconf'[c] : u.rid = up'[c][i].rid
             /\ ~\E k \in 1 .. Len(hist) : hist[k].cid = c /\ hist[k].rid = up'[c][i].rid
             /\ \A j \in 1 .. i - 1 : up'[c][j].type = "diff" => up'[c][j].rid # up'[c][i].rid
      BY <3>4 DEF Taken
    <3>6. Len(down'[c]) = 0
      BY <1>8, <1>13, EmptySeq
    <3> QED
      BY <1>13, <3>1, <3>2, <3>5, <3>6 DEF Rids, Taken
  <2> QED
    BY <2>1, <2>3, <2>4, <2>5, <2>6, <2>7 DEF ClientInv
<1>17. ASSUME NEW d \in Client \ {c}
       PROVE  ClientInv(d)'
  BY <1>1, <1>12, <1>13, Unheard DEF HistFor
<1>18. Numbered'
  BY <1>1, <1>13, NumberedStays
<1> QED
  BY <1>14, <1>16, <1>17, <1>18 DEF IInv

LEMMA TimeoutStep ==
    ASSUME IInv, NEW c \in Client, SendTimeout(c)
    PROVE  IInv'
<1>1. Types /\ Numbered /\ \A d \in Client : ClientInv(d)
  BY DEF IInv
<1>2. /\ await' = [await EXCEPT ![c] = FALSE]
      /\ hist' = hist /\ said' = said /\ com' = com /\ listed' = listed /\ copy' = copy
      /\ unsent' = unsent /\ done' = done /\ failed' = failed /\ seen' = seen /\ up' = up
      /\ ver' = ver /\ link' = link /\ down' = down /\ unconf' = unconf
  BY DEF SendTimeout, serverVars, wires, storeVars, ghosts
<1>3. Types'
  BY <1>1, <1>2 DEF Types
<1>4. ASSUME NEW d \in Client
      PROVE  ClientInv(d)'
  BY <1>1, <1>2, Unheard DEF HistFor
<1> QED
  BY <1>1, <1>2, <1>3, <1>4, NumberedStays DEF IInv
-----------------------------------------------------------------------------
(* What people do, and a new connection.                                   *)

LEMMA NextActIs ==
    ASSUME Numbered
    PROVE  \E n \in 0 .. MaxActs : Acts = 1 .. n /\ NextAct = n + 1
<1>1. PICK n \in 0 .. MaxActs : Acts = 1 .. n
  BY DEF Numbered
<1>2. Cardinality(1 .. n) = n
  BY NumberAssumption, FS_Interval
<1> QED
  BY <1>1, <1>2 DEF NextAct

LEMMA DoStep ==
    ASSUME IInv, NEW c \in Client, NextAct <= MaxActs, NEW type \in Kind, NEW i \in Id,
           NEW a \in Id, NEW s \in Store, Do(c, type, i, a, s)
    PROVE  IInv'
<1>1. Types /\ Numbered /\ ClientInv(c) /\ \A d \in Client : ClientInv(d)
  BY DEF IInv
<1>2. PICK n \in 0 .. MaxActs, k \in Act : Acts = 1 .. n /\ NextAct = k /\ k = n + 1
  <2>1. PICK n \in 0 .. MaxActs : Acts = 1 .. n /\ NextAct = n + 1
    BY <1>1, NextActIs
  <2>2. n + 1 \in Act
    BY <2>1, NumberAssumption DEF Act
  <2> QED
    BY <2>1, <2>2
<1> DEFINE e == [type |-> type, id |-> i, aid |-> a, act |-> k]
<1>3. e \in Waiter /\ e.act = k
  BY DEF Waiter
<1>4. /\ copy' = [copy EXCEPT ![c] = s]
      /\ unsent' = [unsent EXCEPT ![c] = Append(@, e)]
      /\ done' = [done EXCEPT ![c] = Append(@, k)]
      /\ hist' = hist /\ said' = said /\ com' = com /\ listed' = listed
      /\ failed' = failed /\ seen' = seen /\ up' = up /\ await' = await
      /\ ver' = ver /\ link' = link /\ down' = down /\ unconf' = unconf
  BY <1>2 DEF Do, serverVars, wires
<1> HIDE DEF e
<1>5. /\ copy \in [Client -> Store] /\ unsent \in [Client -> Seq(Waiter)]
      /\ done \in [Client -> Seq(Act)] /\ hist \in Seq(Diff) /\ up[c] \in Seq(UpMsg)
      /\ ver[c] \in Nat
  BY <1>1 DEF Types
<1>6. /\ Acted(Append(unsent[c], e)) = Append(Acted(unsent[c]), k)
      /\ Append(unsent[c], e) \in Seq(Waiter) /\ Append(done[c], k) \in Seq(Act)
  BY <1>3, <1>5, ActedMore, AppendProperties
<1>7. /\ copy' \in [Client -> Store] /\ unsent' \in [Client -> Seq(Waiter)]
      /\ done' \in [Client -> Seq(Act)]
      /\ unsent'[c] = Append(unsent[c], e) /\ done'[c] = Append(done[c], k)
      /\ \A d \in Client \ {c} : unsent'[d] = unsent[d] /\ done'[d] = done[d]
  BY <1>4, <1>5, <1>6
<1>8. Types'
  BY <1>1, <1>4, <1>7 DEF Types
<1>9. ASSUME NEW d \in Client \ {c}
      PROVE  ClientInv(d)'
  BY <1>1, <1>4, <1>7, Unheard DEF HistFor
<1>10. PICK w \in Seq(Act) : w = Waiting(c) /\ Waiting(c)' = Append(w, k)
  <2>1. /\ Waiting(c) = Acted(unsent[c]) /\ Waiting(c)' = Acted(unsent'[c])
        /\ Waiting(c) \in Seq(Act)
    BY <1>1, WaitingIs
  <2> QED
    BY <1>6, <1>7, <2>1
<1>11. \A p \in Seq(Act) : IsPrefix(p, w) => IsPrefix(p, Append(w, k))
  <2>1. <<k>> \in Seq(Act) /\ Append(w, k) = w \o <<k>>
    BY AppendIsConcat
  <2> QED
    BY <2>1, PrefixConcat
<1>12. ClientInv(c)'
  <2>1. Linked(c)'
    BY <1>1, <1>4 DEF ClientInv, Linked
  <2>2. Rids(c)'
    <3>1. hist' = hist /\ unconf'[c] = unconf[c] /\ up'[c] = up[c] /\ down'[c] = down[c]
      BY <1>4
    <3>2. Rids(c) /\ Bounded(c)'
      BY <1>1, <3>1 DEF ClientInv, Rids, Bounded
    <3> QED
      BY SMTT(20), <3>1, <3>2 DEF Rids, Taken
  <2>3. Incoming(c)'
    BY <1>1, <1>4 DEF ClientInv, Incoming, OwnNext
  <2>4. Fresh(c)'
    <3>1. \A j \in 1 .. Len(up[c]) : up[c][j].type = "diff" => up[c][j].acts \in Seq(Act)
      BY <1>1, UpTyped
    <3> QED
      BY <1>1, <1>4, <1>10, <1>11, <3>1 DEF ClientInv, Fresh
  <2>5. Own(c)'
    <3>1. OwnNext(c) => hist[ver[c] + 1].acts \in Seq(Act)
      <4>1. OwnNext(c) => ver[c] + 1 \in 1 .. Len(hist)
        BY <1>5, LenProperties DEF OwnNext
      <4> QED
        BY <1>5, <4>1, HistEntry
    <3> QED
      BY <1>1, <1>4, <1>10, <1>11, <3>1 DEF ClientInv, Own, OwnNext
  <2>6. Current(c)'
    <3>1. /\ ver[c] <= Len(hist) /\ done[c] = ActsOf(c, ver[c]) \o w
      BY <1>1, <1>10 DEF ClientInv, Current
    <3>2. ActsOf(c, ver[c]) \in Seq(Act)
      BY <1>5, <3>1, ActsType
    <3>3. PICK h \in Seq(Act) : h = ActsOf(c, ver[c])
      BY <3>2
    <3>4. Append(h \o w, k) = h \o Append(w, k)
      <4>1. h \o w \in Seq(Act) /\ <<k>> \in Seq(Act)
        BY ConcatProperties
      <4>2. Append(h \o w, k) = (h \o w) \o <<k>> /\ Append(w, k) = w \o <<k>>
        BY <4>1, AppendIsConcat
      <4>3. (h \o w) \o <<k>> = h \o (w \o <<k>>)
        BY <4>1, ConcatAssociative
      <4> QED
        BY <4>2, <4>3
    <3>5. ActsOf(c, ver[c])' = h
      BY <1>4, <3>3 DEF ActsOf
    <3> QED
      BY <1>4, <1>7, <1>10, <3>1, <3>3, <3>4, <3>5 DEF Current
  <2> QED
    BY <2>1, <2>2, <2>3, <2>4, <2>5, <2>6 DEF ClientInv
<1>13. Numbered'
  <2>1. \A d \in Client : Range(done'[d]) = IF d = c THEN Range(done[c]) \cup {k}
                                            ELSE Range(done[d])
    <3>1. done[c] \in Seq(Act)
      BY <1>5
    <3>2. Range(done'[c]) = Range(done[c]) \cup {k}
      BY <1>7, <3>1, RangeAppend
    <3> QED
      BY <1>7, <3>2
  <2>2. Acts' = Acts \cup {k}
    BY <2>1 DEF Acts
  <2>3. k \in 0 .. MaxActs /\ Acts' = 1 .. k
    BY <1>2, <2>2 DEF Act
  <2> QED
    BY <2>3 DEF Numbered
<1> QED
  BY <1>8, <1>9, <1>12, <1>13 DEF IInv

LEMMA ActingStep ==
    ASSUME IInv, NEW c \in Client, Acting(c)
    PROVE  IInv'
<1>1. copy[c] \in Store /\ NextAct <= MaxActs /\ Numbered
  BY DEF IInv, Types, Acting
<1>2. PICK n \in Act : n = NextAct
  <2>1. PICK n \in 0 .. MaxActs : NextAct = n + 1
    BY <1>1, NextActIs
  <2>2. n + 1 \in Act
    BY <1>1, <2>1, NumberAssumption DEF Act
  <2> QED
    BY <2>1, <2>2
<1>3. n \in Id /\ 0 \in Id /\ Act \subseteq Id
  BY ActIsId
<1>4. /\ DOMAIN copy[c] \subseteq Id /\ \A i \in DOMAIN copy[c] : copy[c][i] \in Comment
  BY <1>1, StoreIs
<1>5. \A type \in {"create", "update", "delete", "add_answer", "update_answer", "delete_answer"} :
         type \in Kind
  BY DEF Kind
<1>6. CASE AddComment(c)
  <2> DEFINE x == [by |-> c, text |-> n, answers |-> {}]
             s == Put(copy[c], n, x)
  <2>1. x \in Comment
    BY <1>3 DEF Comment
  <2> HIDE DEF x
  <2>2. s \in Store
    BY <1>1, <1>3, <2>1, StoreChanges
  <2>3. Do(c, "create", n, 0, s)
    BY <1>2, <1>6 DEF AddComment, x
  <2> HIDE DEF s
  <2> QED
    BY <1>1, <1>3, <1>5, <2>2, <2>3, DoStep
<1>7. ASSUME NEW i \in DOMAIN copy[c], NEW x \in Comment, NEW s, s = [copy[c] EXCEPT ![i] = x]
      PROVE  s \in Store
  <2>1. i \in Id
    BY <1>4
  <2> QED
    BY <1>1, <1>7, <2>1, StoreChanges
<1>8. ASSUME NEW i \in DOMAIN copy[c], UpdateComment(c, i)
      PROVE  IInv'
  <2> DEFINE x == [copy[c][i] EXCEPT !.text = n]
             s == [copy[c] EXCEPT ![i] = x]
  <2>1. x \in Comment /\ i \in Id
    BY <1>3, <1>4, CommentTyped
  <2>2. s = [copy[c] EXCEPT ![i].text = n]
    OBVIOUS
  <2> HIDE DEF x
  <2>3. s \in Store
    BY <1>7, <2>1
  <2>4. Do(c, "update", i, 0, s)
    BY <1>2, <1>8, <2>2 DEF UpdateComment
  <2> HIDE DEF s
  <2> QED
    BY <1>1, <1>3, <1>5, <2>1, <2>3, <2>4, DoStep
<1>9. ASSUME NEW i \in DOMAIN copy[c], DeleteComment(c, i)
      PROVE  IInv'
  <2> DEFINE s == Without(copy[c], i)
  <2>1. i \in Id /\ copy[c][i] \in Comment
    BY <1>4
  <2>2. s \in Store
    BY <1>1, <2>1, StoreChanges
  <2>3. Do(c, "delete", i, 0, s)
    BY <1>9 DEF DeleteComment
  <2> HIDE DEF s
  <2> QED
    BY <1>1, <1>3, <1>5, <2>1, <2>2, <2>3, DoStep
<1>10. ASSUME NEW i \in DOMAIN copy[c], NEW as \in SUBSET Answers
       PROVE  [copy[c] EXCEPT ![i].answers = as] \in Store
  <2> DEFINE x == [copy[c][i] EXCEPT !.answers = as]
  <2>1. x \in Comment
    BY <1>4, CommentTyped
  <2>2. [copy[c] EXCEPT ![i].answers = as] = [copy[c] EXCEPT ![i] = x]
    OBVIOUS
  <2> HIDE DEF x
  <2> QED
    BY <1>7, <2>1, <2>2
<1>11. ASSUME NEW i \in DOMAIN copy[c], AddAnswer(c, i)
       PROVE  IInv'
  <2> DEFINE x == [id |-> n, by |-> c, text |-> n]
             as == copy[c][i].answers \cup {x}
             s == [copy[c] EXCEPT ![i].answers = as]
  <2>1. x \in Answers /\ i \in Id /\ copy[c][i].answers \in SUBSET Answers
    BY <1>4, CommentTyped DEF Answers
  <2>2. Do(c, "add_answer", i, n, s)
    BY <1>2, <1>11 DEF AddAnswer
  <2> HIDE DEF x
  <2>3. as \in SUBSET Answers
    BY <2>1
  <2> HIDE DEF as
  <2>4. s \in Store
    BY <1>10, <2>3
  <2> HIDE DEF s
  <2> QED
    BY <1>1, <1>3, <1>5, <2>1, <2>2, <2>4, DoStep
<1>12. ASSUME NEW i \in DOMAIN copy[c], NEW x \in copy[c][i].answers, UpdateAnswer(c, i, x)
       PROVE  IInv'
  <2> DEFINE y == [x EXCEPT !.text = n]
             as == (copy[c][i].answers \ {x}) \cup {y}
             s == [copy[c] EXCEPT ![i].answers = as]
  <2>1. i \in Id /\ copy[c][i].answers \in SUBSET Answers
    BY <1>4, CommentTyped
  <2>2. x \in Answers
    BY <2>1
  <2>3. y \in Answers /\ x.id \in Id
    BY <1>3, <2>2, AnswerTyped
  <2>4. Do(c, "update_answer", i, x.id, s)
    BY <1>2, <1>12 DEF UpdateAnswer
  <2> HIDE DEF y
  <2>5. as \in SUBSET Answers
    BY <2>1, <2>3
  <2> HIDE DEF as
  <2>6. s \in Store
    BY <1>10, <2>5
  <2> HIDE DEF s
  <2> QED
    BY <1>1, <1>3, <1>5, <2>1, <2>3, <2>4, <2>6, DoStep
<1>13. ASSUME NEW i \in DOMAIN copy[c], NEW x \in copy[c][i].answers, DeleteAnswer(c, i, x)
       PROVE  IInv'
  <2> DEFINE as == copy[c][i].answers \ {x}
             s == [copy[c] EXCEPT ![i].answers = as]
  <2>1. i \in Id /\ copy[c][i].answers \in SUBSET Answers
    BY <1>4, CommentTyped
  <2>2. x \in Answers
    BY <2>1
  <2>3. x.id \in Id
    BY <1>3, <2>2, AnswerTyped
  <2>4. Do(c, "delete_answer", i, x.id, s)
    BY <1>13 DEF DeleteAnswer
  <2>5. as \in SUBSET Answers
    BY <2>1
  <2> HIDE DEF as
  <2>6. s \in Store
    BY <1>10, <2>5
  <2> HIDE DEF s
  <2> QED
    BY <1>1, <1>3, <1>5, <2>1, <2>3, <2>4, <2>6, DoStep
<1> QED
  BY <1>6, <1>8, <1>9, <1>11, <1>12, <1>13 DEF Acting

LEMMA ReconnectStep ==
    ASSUME IInv, NEW c \in Client, Reconnect(c)
    PROVE  IInv'
<1>1. Types /\ Numbered /\ ClientInv(c) /\ \A d \in Client : ClientInv(d)
  BY DEF IInv
<1>2. /\ link[c] = "off" /\ link' = [link EXCEPT ![c] = "on"]
      /\ said' = [said EXCEPT ![c] = 0] /\ seen' = [seen EXCEPT ![c] = 0]
      /\ ver' = ver /\ com' = com /\ listed' = listed /\ hist' = hist /\ down' = down
      /\ copy' = copy /\ unsent' = unsent /\ unconf' = unconf /\ done' = done
      /\ failed' = failed
      /\ IF c \in OwnOnly
         THEN await' = [await EXCEPT ![c] = TRUE] /\ UNCHANGED up
         ELSE CheckVersion(c)
  BY DEF Reconnect, storeVars, ghosts
<1>3. /\ link \in [Client -> {"on", "off"}] /\ said \in [Client -> Nat]
      /\ seen \in [Client -> Nat] /\ await \in [Client -> BOOLEAN]
      /\ up \in [Client -> Seq(UpMsg)]
  BY <1>1 DEF Types
<1>4. /\ link' \in [Client -> {"on", "off"}] /\ said' \in [Client -> Nat]
      /\ seen' \in [Client -> Nat] /\ said'[c] = 0 /\ seen'[c] = 0 /\ link'[c] = "on"
      /\ \A d \in Client \ {c} : said'[d] = said[d] /\ seen'[d] = seen[d] /\ link'[d] = link[d]
  BY <1>2, <1>3
<1>5. /\ Asks(c) /\ up' \in [Client -> Seq(UpMsg)] /\ await' \in [Client -> BOOLEAN]
      /\ \A d \in Client \ {c} : up'[d] = up[d]
  <2>1. CASE c \in OwnOnly
    BY <1>2, <1>3, <2>1 DEF Asks
  <2>2. CASE c \notin OwnOnly
    BY <1>1, <1>2, <1>4, <2>2, CheckIs
  <2> QED
    BY <2>1, <2>2
<1>6. Types'
  BY <1>1, <1>2, <1>4, <1>5 DEF Types
<1>7. up[c] = <<>> /\ down[c] = <<>> /\ Len(up[c]) = 0 /\ Len(down[c]) = 0
  BY <1>1, <1>2, EmptySeq DEF ClientInv, Linked
<1>8. \A i \in 1 .. Len(up'[c]) : /\ up'[c][i].type = "check_version"
                                  /\ up'[c][i].seen = seen'[c] /\ up'[c][i].v = ver'[c]
  BY <1>1, <1>5, <1>7, AsksIs
<1>9. ClientInv(c)'
  <2>1. Linked(c)'
    BY <1>2, <1>4, <1>7 DEF Linked
  <2>2. Fresh(c)'
    BY <1>4, <1>8 DEF Fresh
  <2>3. Rids(c)'
    BY <1>1, <1>2, <1>7, <1>8 DEF ClientInv, Rids, Bounded, Taken
  <2>4. Incoming(c)'
    BY <1>2, <1>7 DEF Incoming
  <2>5. Own(c)' /\ Current(c)'
    BY <1>1, <1>2, Stands
  <2> QED
    BY <2>1, <2>2, <2>3, <2>4, <2>5 DEF ClientInv
<1>10. ASSUME NEW d \in Client \ {c}
       PROVE  ClientInv(d)'
  BY <1>1, <1>2, <1>4, <1>5, Unheard DEF HistFor
<1> QED
  BY <1>1, <1>2, <1>6, <1>9, <1>10, NumberedStays DEF IInv
-----------------------------------------------------------------------------
(* The theorems.                                                           *)

LEMMA Starts ==
    ASSUME Init
    PROVE  IInv
<1> DEFINE x == [by |-> First, text |-> 0, answers |-> {}]
<1>1. x \in Comment /\ 0 \in Id
  BY ClientAssumption, ActIsId DEF Comment
<1>2. StartComments \in Store /\ <<>> \in Store
  <2> HIDE DEF x
  <2>1. StartComments = [i \in {0} |-> x]
    BY DEF StartComments, x
  <2>2. StartComments \in [{0} -> Comment] /\ {0} \in SUBSET Id
    BY <1>1, <2>1
  <2>3. <<>> \in [{} -> Comment]
    OBVIOUS
  <2> QED
    BY <2>2, <2>3 DEF Store
<1>3. /\ <<>> \in Seq(Diff) /\ <<>> \in Seq(UpMsg) /\ <<>> \in Seq(DownMsg)
      /\ <<>> \in Seq(Waiter) /\ <<>> \in Seq(Act) /\ Len(<<>>) = 0
  BY EmptySeq
<1> HIDE DEF x
<1>4. Types
  <2>1. copy \in [Client -> Store]
    BY <1>2 DEF Init
  <2> QED
    BY <1>2, <1>3, <2>1 DEF Init, Types
<1>5. Numbered
  <2>1. \A c \in Client : Range(done[c]) = {}
    BY DEF Init, Range
  <2>2. Acts = {} /\ 1 .. 0 = {} /\ 0 \in 0 .. MaxActs
    BY <2>1, NumberAssumption DEF Acts
  <2> QED
    BY <2>2 DEF Numbered
<1>6. ASSUME NEW c \in Client
      PROVE  ClientInv(c)
  <2>1. /\ link[c] = "on" /\ up[c] = <<>> /\ down[c] = <<>> /\ seen[c] = 0 /\ said[c] = 0
        /\ hist = <<>> /\ unconf[c] = {} /\ unsent[c] = <<>> /\ ver[c] = 0 /\ done[c] = <<>>
    BY DEF Init
  <2>2. Len(up[c]) = 0 /\ Len(down[c]) = 0 /\ Len(hist) = 0
    BY <1>3, <2>1
  <2>3. Linked(c) /\ Fresh(c) /\ Incoming(c)
    BY <2>1, <2>2 DEF Linked, Fresh, Incoming
  <2>4. Rids(c)
    <3>1. Bounded(c)
      BY <2>1, <2>2 DEF Bounded
    <3> QED
      BY <2>1, <2>2, <3>1 DEF Rids
  <2>5. Own(c)
    BY <2>1, <2>2 DEF Own, OwnNext
  <2>6. Current(c)
    <3>1. [k \in 1 .. 0 |-> IF hist[k].cid = c THEN hist[k].acts ELSE <<>>] = <<>>
      OBVIOUS
    <3>2. ActsOf(c, 0) = <<>>
      BY <1>3, <3>1 DEF ActsOf, FlattenSeq
    <3>3. Waiting(c) = <<>>
      BY <2>1 DEF Waiting
    <3>4. <<>> \o <<>> = <<>>
      BY <1>3, ConcatEmptySeq
    <3> QED
      BY <2>1, <2>2, <3>2, <3>3, <3>4 DEF Current
  <2> QED
    BY <2>3, <2>4, <2>5, <2>6 DEF ClientInv
<1> QED
  BY <1>4, <1>5, <1>6 DEF IInv

LEMMA NextStep ==
    ASSUME IInv, [Next]_vars
    PROVE  IInv'
<1>1. CASE UNCHANGED vars
  <2>1. /\ hist' = hist /\ said' = said /\ com' = com /\ listed' = listed /\ copy' = copy
        /\ unsent' = unsent /\ done' = done /\ failed' = failed /\ seen' = seen /\ up' = up
        /\ ver' = ver /\ link' = link /\ down' = down /\ unconf' = unconf /\ await' = await
    BY <1>1 DEF vars, serverVars, wires, storeVars, ghosts
  <2>2. Types'
    BY <2>1 DEF IInv, Types
  <2>3. ASSUME NEW d \in Client
        PROVE  ClientInv(d)'
    BY <2>1, Unheard DEF IInv, HistFor
  <2> QED
    BY <2>1, <2>2, <2>3, NumberedStays DEF IInv
<1>2. CASE Next
  <2>1. PICK c \in Client : \/ Acting(c) \/ Send(c) \/ SendTimeout(c)
                            \/ ServerReceive(c) \/ ClientReceive(c) \/ Reconnect(c)
    BY <1>2 DEF Next
  <2> QED
    BY <2>1, ActingStep, SendStep, TimeoutStep, ServerStep, ReceiveStep, ReconnectStep
<1> QED
  BY <1>1, <1>2

LEMMA Always == Spec => []IInv
<1>1. Init => IInv
  BY Starts
<1>2. IInv /\ [Next]_vars => IInv'
  BY NextStep
<1> QED
  BY <1>1, <1>2, PTL DEF Spec

\* The types, for any number of people and updates and whatever their roles:
\* folding the updates of a diff into the comments, on the server (handle_diff)
\* and in a browser (receive), leaves them what they are.
THEOREM TypeCorrect == Spec => []TypeOK
<1>1. ASSUME IInv
      PROVE  TypeOK
  <2>1. Types /\ \A c \in Client : ClientInv(c)
    BY <1>1 DEF IInv
  <2>2. DOMAIN com \subseteq Id /\ \A i \in DOMAIN com : com[i] \in Comment
    BY <2>1, StoreIs DEF Types
  <2>3. /\ link \in [Client -> {"on", "off"}] /\ await \in [Client -> BOOLEAN]
        /\ listed \subseteq DOMAIN com /\ failed \subseteq Id
        /\ unconf \in [Client -> SUBSET [rid: Nat, n: Nat \ {0}]]
    BY <2>1 DEF Types, Pending
  <2>4. <<said, seen, ver>> \in [1 .. 3 -> [Client -> Nat]]
    <3>1. said \in [Client -> Nat] /\ seen \in [Client -> Nat] /\ ver \in [Client -> Nat]
      BY <2>1 DEF Types
    <3> QED
      BY <3>1
  <2>5. ASSUME NEW c \in Client
        PROVE  /\ DOMAIN copy[c] \subseteq Id
               /\ \A i \in DOMAIN copy[c] : copy[c][i] \in Comment
               /\ seen[c] + Len(down[c]) <= said[c]
    <3>1. copy[c] \in Store /\ link[c] \in {"on", "off"} /\ seen[c] \in Nat /\ said[c] \in Nat
      BY <2>1 DEF Types
    <3>2. seen[c] + Len(down[c]) <= said[c]
      BY <2>1, <3>1, EmptySeq DEF ClientInv, Linked
    <3> QED
      BY <3>1, <3>2, StoreIs
  <2>6. unsent \in [Client -> Seq(Waiter)]
    BY <2>1 DEF Types
  <2> QED
    BY <2>2, <2>3, <2>4, <2>5, <2>6 DEF TypeOK
<1>2. IInv => TypeOK
  BY <1>1
<1> QED
  BY <1>2, Always, PTL

\* No update of a comment is lost, sent twice or put out of order on its way
\* from the queue of a browser (unsentEvents, eventsSent) into the accepted
\* diffs, whatever is rejected, dropped for lack of a right, outdated or ended
\* by an exception after the version was raised.
THEOREM EachAccounted == Spec => []Accounted
<1>1. IInv => Accounted
  BY DEF IInv, ClientInv, Current, Accounted
<1> QED
  BY <1>1, Always, PTL
=============================================================================
