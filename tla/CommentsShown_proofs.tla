----------------------- MODULE CommentsShown_proofs -----------------------
(***************************************************************************)
(* That browsers show the comments that the server has, for any number of  *)
(* browsers, comments and answers, any roles, and connections that fail at *)
(* any moment: a browser with nothing that waits shows every comment it is *)
(* allowed to see, with the text it has on the server; and one that was    *)
(* shown everything shows the answers too.                                 *)
(*                                                                         *)
(* A version number says nothing of what the comments were at the time, so *)
(* the invariant, SInv, says that there is a history of them, st, and that *)
(* each browser agrees with st at the version it has.  Two browsers at one *)
(* version then agree with each other.                                     *)
(***************************************************************************)
EXTENDS Comments_proofs

-----------------------------------------------------------------------------
(* That a browser shows what the server has.  The invariant speaks of the  *)
(* comments that the server had after each diff: st[v] is what version v   *)
(* had.  With the updates that wait left out, the store of a browser       *)
(* mirrors the comments of the version it has; au has the author of each   *)
(* comment and answer.                                                     *)

\* Act n is in one of the first v diffs; c knows of it; a diff that carries acts
\* and is about version v may speak of it.
HeardBy(v, n) == \E k \in 1 .. v : n \in Range(hist[k].acts)
Knows(c, n) == n = 0 \/ n \in Range(done[c]) \/ HeardBy(ver[c], n)
Told(v, acts, n) == n = 0 \/ n \in Range(acts) \/ HeardBy(v, n)

Authored(au) == au[0] = First /\ \A c \in Client : \A n \in Range(done[c]) : au[n] = c

\* c is shown comment i; and its answers.
Sees(au, c, i) == c \notin OwnOnly \/ au[i] = c
Open(au, c, i) == c \notin OwnOnly /\ au[i] \notin OwnOnly

\* The updates of c that wait, without the first p; those of some kinds about i;
\* the answers to i that those of one kind are about.
Rest(c, p) == {unsent[c][k] : k \in p + 1 .. Len(unsent[c])}
Has(W, kinds, i) == \E w \in W : w.type \in kinds /\ w.id = i
Waits(W, kind, i) == {w.aid : w \in {x \in W : x.type = kind /\ x.id = i}}

\* The same for the updates in a diff.
Concerns(cu, i) == \E k \in 1 .. Len(cu) : cu[k] # Ignored /\ cu[k].id = i
Dels(cu, p, i) ==
    {cu[k].aid : k \in {j \in p + 1 .. Len(cu) : cu[j].type = "delete_answer" /\ cu[j].id = i}}
Upds(cu, p, i) ==
    {cu[k].answer.id : k \in {j \in p + 1 .. Len(cu) : cu[j].type = "update_answer" /\ cu[j].id = i}}

\* The answers bs are all among as, once those in D are deleted and those in U
\* are updated with what as has.
Covers(as, bs, D, U) ==
    \A x \in bs : x \in as \/ x.id \in D \/ (x.id \in U /\ Named(as, x.id) # {})

\* Comment i in store s of c is what it will be among the comments t when the
\* updates in W have been applied.
Shows(W, s, t, i) ==
    /\ i \notin DOMAIN s /\ ~Has(W, {"delete"}, i) => i \notin DOMAIN t
    /\ Has(W, {"delete"}, i) => i \notin DOMAIN s
    /\ i \in DOMAIN s /\ ~Has(W, {"create", "update"}, i) =>
          i \in DOMAIN t /\ t[i].text = s[i].text

Mirror(au, c, W, s, t, i) ==
    /\ Shows(W, s, t, i)
    /\ Open(au, c, i) /\ i \in DOMAIN s /\ i \in DOMAIN t =>
          Covers(s[i].answers, t[i].answers,
                 Waits(W, "delete_answer", i), Waits(W, "update_answer", i))

\* What the server makes of a diff.
Ready(t) == [com |-> t.com, listed |-> t.listed, ok |-> TRUE]
Run(t, cu) == FoldLeft(Applied, Ready(t), cu)

\* Where the updates of a diff of c come from.
Sourced(au, c, cu, acts, v) ==
    /\ Len(cu) = Len(acts)
    /\ \A j \in 1 .. Len(acts) : /\ acts[j] \in Range(done[c])
                                 /\ \A k \in 1 .. Len(acts) : acts[k] = acts[j] => k = j
    /\ \A j \in 1 .. Len(cu) :
          LET e == cu[j]
          IN  /\ e.type = "create" => e.id = acts[j]
              /\ e.type = "add_answer" => e.answer.id = acts[j]
              /\ e # Ignored => Told(v, acts, e.id) /\ (c \in OwnOnly => au[e.id] = c)
              /\ e.type \in OfAnswer => Told(v, acts, e.answer.id)
              /\ e.type \in {"create", "update"} =>
                    e.note.by = au[e.id] /\ \A x \in e.note.answers : Told(v, acts, x.id)

\* They are all from one store.
Coherent(cu) ==
    \A j, k \in 1 .. Len(cu) :
        cu[k].type \in OfAnswer /\ cu[j] # Ignored /\ cu[j].id = cu[k].id =>
            /\ cu[j].type \in {"create", "update"} => cu[k].answer \in cu[j].note.answers
            /\ cu[j].type \in OfAnswer /\ cu[j].answer.id = cu[k].answer.id =>
                  cu[j].answer = cu[k].answer

\* The comment that an update in them brings has all answers of the server, once
\* the diff is handled.
Fits(t, cu, i) ==
    i \in DOMAIN t => \A j \in 1 .. Len(cu) : cu[j].type = "update" /\ cu[j].id = i =>
        Covers(cu[j].note.answers, t[i].answers, Dels(cu, 0, i), Upds(cu, 0, i))

Sane(au, c, cu, acts, v, t) ==
    /\ Sourced(au, c, cu, acts, v) /\ Coherent(cu)
    /\ \A i \in Id \ failed : au[i] \notin OwnOnly => Fits(t.com, cu, i)

\* The comments on the server after each diff.
Entered(st, au, k) ==
    /\ st[k] = Run(st[k - 1], hist[k].cu)
    /\ st[k].ok = TRUE \/ \A i \in Id : Concerns(hist[k].cu, i) => i \in failed
    /\ Sane(au, hist[k].cid, hist[k].cu, hist[k].acts, k - 1, st[k - 1])
    /\ \A j \in 1 .. Len(hist) : Range(hist[j].acts) \cap Range(hist[k].acts) # {} => j = k

Past(st, au) ==
    /\ st[Len(hist)].com = com /\ st[Len(hist)].listed = listed
    /\ \A k \in 1 .. Len(hist) : Entered(st, au, k)
    /\ \A k \in 0 .. Len(hist) : \A i \in DOMAIN st[k].com :
          st[k].com[i].by = au[i] /\ i \in Acts \cup {0}

\* What c knows of, and what waits.
Shelf(au, c) ==
    \A i \in DOMAIN copy[c] :
        /\ Knows(c, i) /\ copy[c][i].by = au[i] /\ (c \in OwnOnly => au[i] = c)
        /\ \A x \in copy[c][i].answers : Knows(c, x.id)

Queue(au, c) ==
    \A k \in 1 .. Len(unsent[c]) :
        LET w == unsent[c][k]
        IN  /\ Knows(c, w.id) /\ (c \in OwnOnly => au[w.id] = c)
            /\ w.act \in Range(done[c]) /\ ~HeardBy(ver[c], w.act)
            /\ w.type = "create" => w.id = w.act
            /\ w.type = "add_answer" => w.aid = w.act
            /\ \A j \in 1 .. Len(unsent[c]) : unsent[c][j].act = w.act => j = k

\* What somebody did was accepted or waits.
Complete(c) ==
    \A n \in Range(done[c]) :
        HeardBy(ver[c], n) \/ \E k \in 1 .. Len(unsent[c]) : unsent[c][k].act = n

\* The store of c mirrors version v, the first p updates being in it.
Mirrors(au, c, p, t) ==
    \A i \in Id \ failed : Sees(au, c, i) => Mirror(au, c, Rest(c, p), copy[c], t, i)

Faithful(st, au, c) ==
    /\ Mirrors(au, c, 0, st[ver[c]].com)
    /\ OwnNext(c) => Mirrors(au, c, Len(hist[ver[c] + 1].acts), st[ver[c] + 1].com)

\* A diff that c has sent: accepted now, it leaves what c shows.
Carries(au, c, m, t) ==
    /\ Sane(au, c, m.cu, m.acts, ver[c], t)
    /\ \A i \in Id \ failed :
          Sees(au, c, i) /\ (Run(t, m.cu).ok = TRUE \/ ~Concerns(m.cu, i)) =>
              Mirror(au, c, Rest(c, Len(m.acts)), copy[c], Run(t, m.cu).com, i)

Sending(st, au, c) ==
    \A k \in 1 .. Len(up[c]) :
        up[c][k].type = "diff" /\ up[c][k].seen = seen[c] => Carries(au, c, up[c][k], st[ver[c]])

\* What the filter may keep from d, and what it may let pass.
MayMiss(au, d, e) ==
    d \in OwnOnly /\ ~(e.type \in {"create", "update", "delete"} /\ au[e.id] = d)
MayGet(au, d, e) ==
    d \in OwnOnly /\ e.type \in {"create", "update"} => au[e.id] = d

\* mu is what d gets of the updates cu: the first pos[k] of mu are of the first k.
Passes(au, d, cu, mu) ==
    \E pos \in [Nat -> Nat] :
        /\ pos[0] = 0 /\ pos[Len(cu)] = Len(mu)
        /\ \A k \in 1 .. Len(cu) :
              \/ pos[k] = pos[k - 1] /\ MayMiss(au, d, cu[k])
              \/ /\ pos[k] = pos[k - 1] + 1 /\ pos[k] \in 1 .. Len(mu)
                 /\ mu[pos[k]] = cu[k] /\ MayGet(au, d, cu[k])

Hearing(au, c) ==
    \A k \in 1 .. Len(down[c]) :
        down[c][k].type = "diff" /\ down[c][k].cid # c =>
            Passes(au, c, hist[down[c][k].v + 1].cu, down[c][k].cu)

Reader(st, au, c) ==
    /\ Shelf(au, c) /\ Queue(au, c) /\ Complete(c)
    /\ Faithful(st, au, c) /\ Sending(st, au, c) /\ Hearing(au, c)

Shared(st, au) == Authored(au) /\ Past(st, au) /\ \A c \in Client : Reader(st, au, c)

SInv == \E st \in [Nat -> Sound], au \in [Id -> Client] : Shared(st, au)

-----------------------------------------------------------------------------
(* What becomes of one comment.                                            *)

Same(s, t, i) == (i \in DOMAIN s <=> i \in DOMAIN t) /\ (i \in DOMAIN s => s[i] = t[i])

\* Put and Without do what they say.
LEMMA PutIs ==
    ASSUME NEW s, NEW i, NEW x, NEW t, t = Put(s, i, x)
    PROVE  i \in DOMAIN t /\ t[i] = x
  BY DEF Put

LEMMA WithoutIs ==
    ASSUME NEW s, NEW i, NEW t, t = Without(s, i)
    PROVE  i \notin DOMAIN t
  BY DEF Without

\* They leave every other comment alone.
LEMMA OthersSame ==
    ASSUME NEW s, NEW j, NEW i, i # j
    PROVE  /\ Same(s, s, i) /\ Same(s, Without(s, j), i)
           /\ \A x : Same(s, Put(s, j, x), i) /\ Same(s, [s EXCEPT ![j] = x], i)
  BY DEF Put, Without, Same

\* A step of the server, as long as no update fails.
LEMMA AppliedIs ==
    ASSUME NEW st \in Sound, NEW e \in Update
    PROVE  LET s == st.com
               r == Applied(st, e)
               old == s[e.id].answers
           IN  /\ r.ok = TRUE => st.ok = TRUE
               /\ r.ok = TRUE \/ r.com = s
               /\ e.type = "ignore" => r = st
               /\ r.ok = TRUE /\ e.type = "create" =>
                     r.com = Put(s, e.id, [e.note EXCEPT !.answers = {}])
               /\ r.ok = TRUE /\ e.type = "delete" =>
                     e.id \in DOMAIN s /\ r.com = Without(s, e.id)
               /\ r.ok = TRUE /\ e.type = "update" =>
                     e.id \in DOMAIN s /\ r.com = [s EXCEPT ![e.id].text = e.note.text]
               /\ r.ok = TRUE /\ e.type = "add_answer" =>
                     e.id \in DOMAIN s /\ r.com = [s EXCEPT ![e.id].answers = old \cup {e.answer}]
               /\ r.ok = TRUE /\ e.type = "delete_answer" =>
                     /\ e.id \in DOMAIN s
                     /\ r.com = [s EXCEPT ![e.id].answers = old \ Named(old, e.aid)]
               /\ r.ok = TRUE /\ e.type = "update_answer" =>
                     /\ e.id \in DOMAIN s
                     /\ r.com = [s EXCEPT ![e.id].answers =
                                   IF Named(old, e.answer.id) = {} THEN old
                                   ELSE (old \ Named(old, e.answer.id)) \cup {e.answer}]
<1> DEFINE s == st.com
           r == Applied(st, e)
           old == s[e.id].answers
           put(as) == [st EXCEPT !.com[e.id].answers = as, !.listed = @ \cup {e.id}]
           error == [st EXCEPT !.ok = FALSE]
<1>1. /\ st = [com |-> st.com, listed |-> st.listed, ok |-> st.ok]
      /\ st.ok \in BOOLEAN
  BY SoundTyped
<1>2. /\ e.type \in Kind \cup {"ignore"}
      /\ e.type = "ignore" <=> e = Ignored
  BY UpdateTyped
<1>3. error.com = s /\ error.ok = FALSE
  <2>1. PICK f, l, b : st = [com |-> f, listed |-> l, ok |-> b]
    BY <1>1
  <2> QED
    BY <2>1
<1>4. \A as : put(as).com = [s EXCEPT ![e.id].answers = as] /\ put(as).ok = st.ok
  <2>1. PICK f, l, b : st = [com |-> f, listed |-> l, ok |-> b]
    BY <1>1
  <2> QED
    BY <2>1
<1>5. CASE ~st.ok
  <2>1. r = st
    BY <1>5 DEF Applied
  <2> QED
    BY <1>5, <2>1, <1>1
<1>6. CASE e.type = "ignore"
  <2>1. r = st
    BY <1>6 DEF Applied
  <2> QED
    BY <1>6, <2>1, <1>1
<1>7. CASE st.ok /\ e.type = "create"
  <2>1. r = [st EXCEPT !.com = Put(@, e.id, [e.note EXCEPT !.answers = {}]),
                       !.listed = @ \ {e.id}]
    BY <1>7 DEF Applied
  <2>2. r.com = Put(s, e.id, [e.note EXCEPT !.answers = {}]) /\ r.ok = st.ok
    BY <1>1, <2>1
  <2> QED
    BY <1>1, <1>7, <2>2
<1>8. CASE st.ok /\ e.type = "delete"
  <2>1. r = IF e.id \in DOMAIN s
            THEN [st EXCEPT !.com = Without(@, e.id), !.listed = @ \ {e.id}] ELSE error
    BY <1>8 DEF Applied
  <2> HIDE DEF error
  <2>2. /\ e.id \in DOMAIN s => r.com = Without(s, e.id) /\ r.ok = st.ok
        /\ e.id \notin DOMAIN s => r.com = s /\ r.ok = FALSE
    BY <1>1, <1>3, <2>1
  <2> QED
    BY <1>1, <1>8, <2>2
<1>9. CASE st.ok /\ e.type = "update"
  <2>1. r = IF e.id \in DOMAIN s THEN [st EXCEPT !.com[e.id].text = e.note.text] ELSE error
    BY <1>9 DEF Applied
  <2> HIDE DEF error
  <2>2. /\ e.id \in DOMAIN s => r.com = [s EXCEPT ![e.id].text = e.note.text] /\ r.ok = st.ok
        /\ e.id \notin DOMAIN s => r.com = s /\ r.ok = FALSE
    BY <1>1, <1>3, <2>1
  <2> QED
    BY <1>1, <1>9, <2>2
<1>10. CASE st.ok /\ e.type = "add_answer"
  <2>1. r = IF e.id \in DOMAIN s THEN put(old \cup {e.answer}) ELSE error
    BY <1>10 DEF Applied
  <2> HIDE DEF error, put
  <2>2. /\ e.id \in DOMAIN s => /\ r.com = [s EXCEPT ![e.id].answers = old \cup {e.answer}]
                                /\ r.ok = st.ok
        /\ e.id \notin DOMAIN s => r.com = s /\ r.ok = FALSE
    BY <1>3, <1>4, <2>1
  <2> QED
    BY <1>1, <1>10, <2>2
<1>11. CASE st.ok /\ e.type = "delete_answer"
  <2>1. r = IF e.id \in DOMAIN s /\ e.id \in st.listed
            THEN put(old \ Named(old, e.aid)) ELSE error
    BY <1>11 DEF Applied
  <2> HIDE DEF error, put
  <2>2. \/ /\ e.id \in DOMAIN s /\ r.ok = st.ok
           /\ r.com = [s EXCEPT ![e.id].answers = old \ Named(old, e.aid)]
        \/ r.com = s /\ r.ok = FALSE
    BY <1>3, <1>4, <2>1
  <2> QED
    BY <1>1, <1>11, <2>2
<1>12. CASE st.ok /\ e.type = "update_answer"
  <2> DEFINE new == IF Named(old, e.answer.id) = {} THEN old
                    ELSE (old \ Named(old, e.answer.id)) \cup {e.answer}
  <2>1. r = IF e.id \in DOMAIN s /\ e.id \in st.listed THEN put(new) ELSE error
    BY <1>12 DEF Applied
  <2> HIDE DEF error, put, new
  <2>2. \/ /\ e.id \in DOMAIN s /\ r.ok = st.ok
           /\ r.com = [s EXCEPT ![e.id].answers = new]
        \/ r.com = s /\ r.ok = FALSE
    BY <1>3, <1>4, <2>1
  <2> QED
    BY <1>1, <1>12, <2>2 DEF new
<1> HIDE DEF s, r
<1>13. st.ok => e.type \in {"ignore", "create", "delete", "update", "add_answer", "delete_answer",
                            "update_answer"}
  BY <1>2 DEF Kind
<1> QED
  BY <1>5, <1>6, <1>7, <1>8, <1>9, <1>10, <1>11, <1>12, <1>13 DEF s, r

\* On another comment it has no effect, and none when it fails.
LEMMA AppliedElsewhere ==
    ASSUME NEW st \in Sound, NEW e \in Update, NEW i, e = Ignored \/ e.id # i
    PROVE  Same(st.com, Applied(st, e).com, i)
<1>0. Same(st.com, st.com, i)
  BY DEF Same
<1>1. CASE e = Ignored
  <2>1. Applied(st, e) = st
    BY <1>1 DEF Applied, Ignored
  <2> QED
    BY <1>0, <2>1
<1>2. CASE e.id # i
  <2>1. /\ Same(st.com, Without(st.com, e.id), i)
        /\ \A x : /\ Same(st.com, Put(st.com, e.id, x), i)
                  /\ Same(st.com, [st.com EXCEPT ![e.id] = x], i)
    BY <1>2, OthersSame
  <2>3. /\ e.type \in Kind \cup {"ignore"}
        /\ e.type = "ignore" => Applied(st, e) = st
    BY UpdateTyped DEF Applied
  <2>4. ASSUME Applied(st, e).ok = TRUE, e.type # "ignore"
        PROVE  Same(st.com, Applied(st, e).com, i)
    <3> DEFINE s == st.com
               r == Applied(st, e)
               old == s[e.id].answers
    <3>1. CASE e.type = "create"
      <4>1. r.com = Put(s, e.id, [e.note EXCEPT !.answers = {}])
        BY <2>4, <3>1, AppliedIs
      <4> QED
        BY <2>1, <4>1
    <3>2. CASE e.type = "delete"
      BY <2>1, <2>4, <3>2, AppliedIs
    <3>3. CASE e.type = "update"
      <4>1. r.com = [s EXCEPT ![e.id].text = e.note.text]
        BY <2>4, <3>3, AppliedIs
      <4>2. r.com = [s EXCEPT ![e.id] = [s[e.id] EXCEPT !.text = e.note.text]]
        BY <4>1
      <4> QED
        BY <2>1, <4>2
    <3>4. ASSUME NEW as, r.com = [s EXCEPT ![e.id].answers = as]
          PROVE  Same(s, r.com, i)
      <4>1. r.com = [s EXCEPT ![e.id] = [s[e.id] EXCEPT !.answers = as]]
        BY <3>4
      <4> QED
        BY <2>1, <4>1
    <3>5. CASE e.type = "add_answer"
      <4>1. r.com = [s EXCEPT ![e.id].answers = old \cup {e.answer}]
        BY <2>4, <3>5, AppliedIs
      <4> QED
        BY <3>4, <4>1
    <3>6. CASE e.type = "delete_answer"
      <4>1. r.com = [s EXCEPT ![e.id].answers = old \ Named(old, e.aid)]
        BY <2>4, <3>6, AppliedIs
      <4> QED
        BY <3>4, <4>1
    <3>7. CASE e.type = "update_answer"
      <4>1. r.com = [s EXCEPT ![e.id].answers =
                      IF Named(old, e.answer.id) = {} THEN old
                      ELSE (old \ Named(old, e.answer.id)) \cup {e.answer}]
        BY <2>4, <3>7, AppliedIs
      <4> QED
        BY <3>4, <4>1
    <3> QED
      BY <2>3, <2>4, <3>1, <3>2, <3>3, <3>5, <3>6, <3>7 DEF Kind
  <2>5. Applied(st, e).ok = TRUE \/ Applied(st, e).com = st.com
    BY AppliedIs
  <2> QED
    BY <1>0, <2>3, <2>4, <2>5
<1> QED
  BY <1>1, <1>2

\* What it does to the comment.
LEMMA AppliedHere ==
    ASSUME NEW st \in Sound, NEW e \in Update, e # Ignored, Applied(st, e).ok = TRUE
    PROVE  LET s == st.com
               t == Applied(st, e).com
               i == e.id
           IN
           /\ e.type = "create" =>
                 /\ i \in DOMAIN t /\ t[i].text = e.note.text /\ t[i].by = e.note.by
                 /\ t[i].answers = {}
           /\ e.type = "delete" => i \notin DOMAIN t
           /\ e.type \notin {"create", "delete"} =>
                 i \in DOMAIN s /\ i \in DOMAIN t /\ t[i].by = s[i].by
           /\ e.type = "update" => t[i].text = e.note.text /\ t[i].answers = s[i].answers
           /\ e.type \in {"add_answer", "delete_answer", "update_answer"} => t[i].text = s[i].text
           /\ e.type = "add_answer" => t[i].answers = s[i].answers \cup {e.answer}
           /\ e.type = "delete_answer" =>
                 t[i].answers = s[i].answers \ Named(s[i].answers, e.aid)
           /\ e.type = "update_answer" =>
                 t[i].answers = IF Named(s[i].answers, e.answer.id) = {} THEN s[i].answers
                                ELSE (s[i].answers \ Named(s[i].answers, e.answer.id))
                                        \cup {e.answer}
<1> DEFINE s == st.com
           t == Applied(st, e).com
           i == e.id
<1>1. /\ e.type \in Kind /\ s \in Store
      /\ e.type \in {"create", "update"} => e.note \in Comment
  BY UpdateTyped, SoundTyped
<1>2. \A j \in DOMAIN s : s[j] \in Comment
  BY <1>1, StoreIs
<1>3. CASE e.type = "create"
  <2>1. PICK x : x = [e.note EXCEPT !.answers = {}]
    OBVIOUS
  <2>2. t = Put(s, i, x)
    BY <1>3, <2>1, AppliedIs
  <2>3. i \in DOMAIN t /\ t[i] = x
    BY <2>2, PutIs
  <2>4. x.text = e.note.text /\ x.by = e.note.by /\ x.answers = {}
    BY <1>1, <1>3, <2>1 DEF Comment
  <2> QED
    BY <1>3, <2>3, <2>4
<1>4. CASE e.type = "delete"
  <2>1. t = Without(s, i)
    BY <1>4, AppliedIs
  <2>2. i \notin DOMAIN t
    BY <2>1, WithoutIs
  <2> QED
    BY <1>4, <2>2
<1>5. CASE e.type = "update"
  <2>1. i \in DOMAIN s /\ t = [s EXCEPT ![i].text = e.note.text]
    BY <1>5, AppliedIs
  <2>2. i \in DOMAIN t /\ t[i] = [s[i] EXCEPT !.text = e.note.text] /\ s[i] \in Comment
    BY <1>2, <2>1
  <2> QED
    BY <1>5, <2>1, <2>2 DEF Comment
<1>6. ASSUME NEW as, i \in DOMAIN s, t = [s EXCEPT ![i].answers = as]
      PROVE  /\ i \in DOMAIN t /\ t[i].by = s[i].by /\ t[i].text = s[i].text
             /\ t[i].answers = as
  <2>1. i \in DOMAIN t /\ t[i] = [s[i] EXCEPT !.answers = as] /\ s[i] \in Comment
    BY <1>2, <1>6
  <2> QED
    BY <2>1 DEF Comment
<1>7. CASE e.type = "add_answer"
  <2>1. i \in DOMAIN s /\ t = [s EXCEPT ![i].answers = s[i].answers \cup {e.answer}]
    BY <1>7, AppliedIs
  <2> QED
    BY <1>6, <1>7, <2>1
<1>8. CASE e.type = "delete_answer"
  <2>1. /\ i \in DOMAIN s
        /\ t = [s EXCEPT ![i].answers = s[i].answers \ Named(s[i].answers, e.aid)]
    BY <1>8, AppliedIs
  <2> QED
    BY <1>6, <1>8, <2>1
<1>9. CASE e.type = "update_answer"
  <2>1. /\ i \in DOMAIN s
        /\ t = [s EXCEPT ![i].answers =
                  IF Named(s[i].answers, e.answer.id) = {} THEN s[i].answers
                  ELSE (s[i].answers \ Named(s[i].answers, e.answer.id)) \cup {e.answer}]
    BY <1>9, AppliedIs
  <2> DEFINE as == IF Named(s[i].answers, e.answer.id) = {} THEN s[i].answers
                   ELSE (s[i].answers \ Named(s[i].answers, e.answer.id)) \cup {e.answer}
  <2>2. i \in DOMAIN s /\ t = [s EXCEPT ![i].answers = as]
    BY <2>1
  <2> HIDE DEF as
  <2>3. /\ i \in DOMAIN t /\ t[i].by = s[i].by /\ t[i].text = s[i].text
        /\ t[i].answers = as
    BY <1>6, <2>2
  <2> QED
    BY <1>9, <2>2, <2>3 DEF as
<1> HIDE DEF s, t, i
<1> QED
  BY <1>1, <1>3, <1>4, <1>5, <1>7, <1>8, <1>9 DEF Kind, s, t, i

\* No comment changes its author, and none comes but with the update that creates it.
LEMMA AppliedBy ==
    ASSUME NEW st \in Sound, NEW e \in Update, NEW i, i \in DOMAIN Applied(st, e).com
    PROVE  \/ i \in DOMAIN st.com /\ Applied(st, e).com[i].by = st.com[i].by
           \/ /\ e.type = "create" /\ e # Ignored /\ e.id = i
              /\ Applied(st, e).com[i].by = e.note.by
<1>1. CASE e = Ignored \/ e.id # i
  BY <1>1, AppliedElsewhere DEF Same
<1>2. CASE Applied(st, e).ok # TRUE
  <2>1. Applied(st, e).com = st.com
    BY <1>2, AppliedIs
  <2> QED
    BY <2>1
<1>3. CASE e # Ignored /\ e.id = i /\ Applied(st, e).ok = TRUE
  <2> DEFINE s == st.com
             t == Applied(st, e).com
  <2>1. e # Ignored /\ i = e.id /\ Applied(st, e).ok = TRUE
    BY <1>3
  <2>2. CASE e.type = "create"
    <3>1. t[e.id].by = e.note.by
      BY <2>1, <2>2, AppliedHere
    <3> QED
      BY <1>3, <2>2, <3>1
  <2>3. CASE e.type = "delete"
    <3>1. e.id \notin DOMAIN t
      BY <2>1, <2>3, AppliedHere
    <3> QED
      BY <2>1, <3>1
  <2>4. CASE e.type \notin {"create", "delete"}
    <3>1. e.id \in DOMAIN s /\ t[e.id].by = s[e.id].by
      BY <2>1, <2>4, AppliedHere
    <3> QED
      BY <2>1, <3>1
  <2> QED
    BY <2>2, <2>3, <2>4
<1> QED
  BY <1>1, <1>2, <1>3

\* A step of a browser.
LEMMA ReceivedElsewhere ==
    ASSUME NEW s, NEW e \in Update, NEW i, e = Ignored \/ e.id # i
    PROVE  Same(s, Received(s, e), i)
<1>0. Same(s, s, i)
  BY DEF Same
<1>1. CASE e = Ignored
  <2>1. Received(s, e) = s
    BY <1>1 DEF Received, Ignored
  <2> QED
    BY <1>0, <2>1
<1>2. CASE e.id # i
  <2> DEFINE r == Received(s, e)
             old == s[e.id].answers
  <2>1. /\ Same(s, Without(s, e.id), i)
        /\ \A x : /\ Same(s, Put(s, e.id, x), i)
                  /\ Same(s, [s EXCEPT ![e.id] = x], i)
    BY <1>2, OthersSame
  <2>2. ASSUME NEW as, r = [s EXCEPT ![e.id].answers = as]
        PROVE  Same(s, r, i)
    <3>1. r = [s EXCEPT ![e.id] = [s[e.id] EXCEPT !.answers = as]]
      BY <2>2
    <3> QED
      BY <2>1, <3>1
  <2>3. e.type \in Kind \cup {"ignore"}
    BY UpdateTyped
  <2>4. CASE e.type = "create"
    <3>1. r = s \/ r = Put(s, e.id, e.note)
      BY <2>4 DEF Received
    <3> QED
      BY <1>0, <2>1, <3>1
  <2>5. CASE e.type = "delete"
    <3>1. r = Without(s, e.id)
      BY <2>5 DEF Received
    <3> QED
      BY <2>1, <3>1
  <2>6. CASE e.type = "update"
    <3>1. r = s \/ r = Put(s, e.id, e.note)
      BY <2>6 DEF Received
    <3> QED
      BY <1>0, <2>1, <3>1
  <2>7. CASE e.type = "add_answer"
    <3>1. r = s \/ r = [s EXCEPT ![e.id].answers = old \cup {e.answer}]
      BY <2>7 DEF Received
    <3> QED
      BY <1>0, <2>2, <3>1
  <2>8. CASE e.type = "delete_answer"
    <3>1. r = s \/ r = [s EXCEPT ![e.id].answers = old \ Named(old, e.aid)]
      BY <2>8 DEF Received
    <3> QED
      BY <1>0, <2>2, <3>1
  <2>9. CASE e.type = "update_answer"
    <3>1. \/ r = s
          \/ r = [s EXCEPT ![e.id].answers = (old \ Named(old, e.answer.id)) \cup {e.answer}]
      BY <2>9 DEF Received
    <3> QED
      BY <1>0, <2>2, <3>1
  <2>10. CASE e.type = "ignore"
    BY <1>0, <2>10 DEF Received
  <2> QED
    BY <2>3, <2>4, <2>5, <2>6, <2>7, <2>8, <2>9, <2>10 DEF Kind
<1> QED
  BY <1>1, <1>2

\* What an update of another does to the comment it is about, in a browser.
LEMMA ReceivedHere ==
    ASSUME NEW s \in Store, NEW e \in Update, e # Ignored
    PROVE  LET r == Received(s, e)
               i == e.id
               old == s[i].answers
           IN
           /\ e.type = "create" =>
                 /\ i \in DOMAIN r
                 /\ r[i] = IF i \in DOMAIN s THEN s[i] ELSE e.note
           /\ e.type = "delete" => i \notin DOMAIN r
           /\ e.type \notin {"create", "delete"} => (i \in DOMAIN r <=> i \in DOMAIN s)
           /\ e.type = "update" /\ i \in DOMAIN s => r[i] = e.note
           /\ e.type \in {"add_answer", "delete_answer", "update_answer"} /\ i \in DOMAIN s =>
                 r[i].text = s[i].text /\ r[i].by = s[i].by
           /\ e.type = "add_answer" /\ i \in DOMAIN s =>
                 r[i].answers = IF Named(old, e.answer.id) = {} THEN old \cup {e.answer} ELSE old
           /\ e.type = "delete_answer" /\ i \in DOMAIN s =>
                 r[i].answers = old \ Named(old, e.aid)
           /\ e.type = "update_answer" /\ i \in DOMAIN s =>
                 r[i].answers = IF Named(old, e.answer.id) = {} THEN old
                                ELSE (old \ Named(old, e.answer.id)) \cup {e.answer}
<1> DEFINE r == Received(s, e)
           i == e.id
           old == s[i].answers
<1>1. /\ e.type \in Kind /\ \A j \in DOMAIN s : s[j] \in Comment
  BY UpdateTyped, StoreIs
<1>2. ASSUME NEW as, i \in DOMAIN s, r = [s EXCEPT ![i].answers = as]
      PROVE  /\ i \in DOMAIN r /\ r[i].by = s[i].by /\ r[i].text = s[i].text
             /\ r[i].answers = as
  <2>1. i \in DOMAIN r /\ r[i] = [s[i] EXCEPT !.answers = as] /\ s[i] \in Comment
    BY <1>1, <1>2
  <2> QED
    BY <2>1 DEF Comment
<1>3. CASE e.type = "create"
  <2>1. r = IF i \in DOMAIN s THEN s ELSE Put(s, i, e.note)
    BY <1>3 DEF Received
  <2>2. CASE i \in DOMAIN s
    BY <1>3, <2>1, <2>2
  <2>3. CASE i \notin DOMAIN s
    <3>1. i \in DOMAIN r /\ r[i] = e.note
      BY <2>1, <2>3, PutIs
    <3> QED
      BY <1>3, <2>3, <3>1
  <2> QED
    BY <2>2, <2>3
<1>4. CASE e.type = "delete"
  <2>1. r = Without(s, i)
    BY <1>4 DEF Received
  <2>2. i \notin DOMAIN r
    BY <2>1, WithoutIs
  <2> QED
    BY <1>4, <2>2
<1>5. CASE e.type = "update"
  <2>1. r = IF i \in DOMAIN s THEN Put(s, i, e.note) ELSE s
    BY <1>5 DEF Received
  <2>2. CASE i \in DOMAIN s
    <3>1. i \in DOMAIN r /\ r[i] = e.note
      BY <2>1, <2>2, PutIs
    <3> QED
      BY <1>5, <2>2, <3>1
  <2>3. CASE i \notin DOMAIN s
    BY <1>5, <2>1, <2>3
  <2> QED
    BY <2>2, <2>3
<1>6. CASE i \notin DOMAIN s /\ e.type \in {"add_answer", "delete_answer", "update_answer"}
  <2>1. r = s
    BY <1>6 DEF Received
  <2> QED
    BY <1>6, <2>1
<1>7. CASE i \in DOMAIN s /\ e.type = "add_answer"
  <2> DEFINE as == IF Named(old, e.answer.id) = {} THEN old \cup {e.answer} ELSE old
  <2>1. \/ r = [s EXCEPT ![i].answers = as]
        \/ r = s /\ as = old
    BY <1>7 DEF Received
  <2> HIDE DEF as
  <2>2. /\ i \in DOMAIN r /\ r[i].by = s[i].by /\ r[i].text = s[i].text /\ r[i].answers = as
    <3>1. CASE r = [s EXCEPT ![i].answers = as]
      BY <1>2, <1>7, <3>1
    <3>2. CASE r = s /\ as = old
      BY <1>7, <3>2
    <3> QED
      BY <2>1, <3>1, <3>2
  <2> QED
    BY <1>7, <2>2 DEF as
<1>8. CASE i \in DOMAIN s /\ e.type = "delete_answer"
  <2> DEFINE as == old \ Named(old, e.aid)
  <2>1. r = [s EXCEPT ![i].answers = as]
    BY <1>8 DEF Received
  <2> HIDE DEF as
  <2>2. /\ i \in DOMAIN r /\ r[i].by = s[i].by /\ r[i].text = s[i].text /\ r[i].answers = as
    BY <1>2, <1>8, <2>1
  <2> QED
    BY <1>8, <2>2 DEF as
<1>9. CASE i \in DOMAIN s /\ e.type = "update_answer"
  <2> DEFINE as == IF Named(old, e.answer.id) = {} THEN old
                   ELSE (old \ Named(old, e.answer.id)) \cup {e.answer}
  <2>1. \/ r = [s EXCEPT ![i].answers = as]
        \/ r = s /\ as = old
    BY <1>9 DEF Received
  <2> HIDE DEF as
  <2>2. /\ i \in DOMAIN r /\ r[i].by = s[i].by /\ r[i].text = s[i].text /\ r[i].answers = as
    <3>1. CASE r = [s EXCEPT ![i].answers = as]
      BY <1>2, <1>9, <3>1
    <3>2. CASE r = s /\ as = old
      BY <1>9, <3>2
    <3> QED
      BY <2>1, <3>1, <3>2
  <2> QED
    BY <1>9, <2>2 DEF as
<1>10. e.type \in {"create", "delete", "update", "add_answer", "delete_answer", "update_answer"}
  BY <1>1 DEF Kind
<1> HIDE DEF r, i
<1> QED
  BY <1>3, <1>4, <1>5, <1>6, <1>7, <1>8, <1>9, <1>10 DEF r, i

\* What is sent for an update that waits.
LEMMA EntryIs ==
    ASSUME NEW s \in Store, NEW w \in Waiter
    PROVE  LET e == Entry(s, w)
           IN  /\ e \in Update
               /\ e # Ignored => e.type = w.type /\ e.id = w.id
               /\ w.type = "delete" => e # Ignored
               /\ w.type # "delete" /\ w.id \notin DOMAIN s => e = Ignored
               /\ e # Ignored /\ w.type # "delete" => w.id \in DOMAIN s
               /\ w.type \in {"create", "update"} /\ w.id \in DOMAIN s =>
                     e # Ignored /\ e.note = s[w.id]
               /\ w.type = "delete_answer" /\ w.id \in DOMAIN s => e # Ignored /\ e.aid = w.aid
               /\ w.type \in OfAnswer /\ w.id \in DOMAIN s =>
                     IF Named(s[w.id].answers, w.aid) = {} THEN e = Ignored
                     ELSE /\ e # Ignored
                          /\ e.answer = CHOOSE x \in Named(s[w.id].answers, w.aid) : TRUE
                          /\ e.answer \in s[w.id].answers /\ e.answer.id = w.aid
<1> DEFINE e == Entry(s, w)
           a == CHOOSE x \in Named(s[w.id].answers, w.aid) : TRUE
<1>1. e \in Update /\ w.type \in Kind
  BY EntryType DEF Waiter
<1>2. CASE w.type = "delete"
  <2>1. e = [type |-> "delete", id |-> w.id]
    BY <1>2 DEF Entry, Sendable, OfAnswer
  <2>2. e # Ignored
    BY <2>1 DEF Ignored
  <2> QED
    BY <1>1, <1>2, <2>1, <2>2 DEF OfAnswer
<1>3. CASE w.type # "delete" /\ w.id \notin DOMAIN s
  <2>1. e = Ignored
    BY <1>3 DEF Entry, Sendable
  <2> QED
    BY <1>1, <1>3, <2>1
<1>4. CASE w.type = "delete_answer" /\ w.id \in DOMAIN s
  <2>1. e = [type |-> w.type, id |-> w.id, aid |-> w.aid]
    BY <1>4 DEF Entry, Sendable, OfAnswer
  <2>2. e # Ignored
    BY <1>4, <2>1 DEF Ignored
  <2> QED
    BY <1>1, <1>4, <2>1, <2>2 DEF OfAnswer
<1>5. CASE w.type \in {"create", "update"} /\ w.id \in DOMAIN s
  <2>1. e = [type |-> w.type, id |-> w.id, note |-> s[w.id]]
    BY <1>5 DEF Entry, Sendable, OfAnswer
  <2>2. e # Ignored
    BY <1>5, <2>1 DEF Ignored
  <2> QED
    BY <1>1, <1>5, <2>1, <2>2 DEF OfAnswer
<1>6. CASE w.type \in OfAnswer /\ w.id \in DOMAIN s /\ Named(s[w.id].answers, w.aid) = {}
  <2>1. e = Ignored
    BY <1>6 DEF Entry, Sendable, OfAnswer, Answered
  <2> QED
    BY <1>1, <1>6, <2>1 DEF OfAnswer
<1>7. CASE w.type \in OfAnswer /\ w.id \in DOMAIN s /\ Named(s[w.id].answers, w.aid) # {}
  <2>1. e = [type |-> w.type, id |-> w.id, answer |-> a]
    BY <1>7 DEF Entry, Sendable, OfAnswer, Answered
  <2>2. e # Ignored
    BY <1>7, <2>1 DEF Ignored, OfAnswer
  <2>3. a \in Named(s[w.id].answers, w.aid)
    BY <1>7
  <2> HIDE DEF a
  <2>4. a \in s[w.id].answers /\ a.id = w.aid
    BY <2>3 DEF Named
  <2> QED
    BY <1>1, <1>7, <2>1, <2>2, <2>4 DEF OfAnswer, a
<1> HIDE DEF e
<1>8. w.type \in {"create", "delete", "update", "delete_answer"} \cup OfAnswer
  BY <1>1 DEF Kind, OfAnswer
<1> QED
  BY <1>2, <1>3, <1>4, <1>5, <1>6, <1>7, <1>8 DEF e

-----------------------------------------------------------------------------
(* Answers.                                                                *)

\* The server adds, deletes or updates an answer that the store as has.
LEMMA CoversAdd ==
    ASSUME NEW as, NEW bs, NEW D, NEW U, NEW y \in as, Covers(as, bs, D, U)
    PROVE  Covers(as, bs \cup {y}, D, U)
  BY DEF Covers

\* The server deletes an answer that a diff was known to delete.
LEMMA CoversDelete ==
    ASSUME NEW as, NEW bs, NEW D, NEW U, NEW a, Covers(as, bs, D \cup {a}, U)
    PROVE  Covers(as, bs \ Named(bs, a), D, U)
  BY DEF Covers, Named

\* An update of an answer that the store does not have changes nothing.
LEMMA CoversNone ==
    ASSUME NEW as, NEW bs, NEW D, NEW U, NEW a, Covers(as, bs, D, U \cup {a}), Named(as, a) = {}
    PROVE  Covers(as, bs, D, U)
  BY DEF Covers, Named

\* The server updates an answer to what the store already has.
LEMMA CoversUpdate ==
    ASSUME NEW as, NEW bs, NEW D, NEW U, NEW y \in as, NEW a, y.id = a,
           Covers(as, bs, D, U \cup {a})
    PROVE  Covers(as, IF Named(bs, a) = {} THEN bs ELSE (bs \ Named(bs, a)) \cup {y}, D, U)
  BY DEF Covers, Named

\* Both do.
LEMMA CoversAddBoth ==
    ASSUME NEW as, NEW bs, NEW D, NEW U, NEW y, Covers(as, bs, D, U),
           Named(as, y.id) = {} \/ y \in as
    PROVE  Covers(IF Named(as, y.id) = {} THEN as \cup {y} ELSE as, bs \cup {y}, D, U)
  BY DEF Covers, Named

\* Both sides update, or delete, the same answer.
LEMMA CoversUpdateBoth ==
    ASSUME NEW as, NEW bs, NEW D, NEW U, NEW y, Covers(as, bs, D, U \cup {y.id})
    PROVE  Covers(IF Named(as, y.id) = {} THEN as ELSE (as \ Named(as, y.id)) \cup {y},
                  IF Named(bs, y.id) = {} THEN bs ELSE (bs \ Named(bs, y.id)) \cup {y}, D, U)
<1>1. CASE Named(bs, y.id) = {}
  BY <1>1 DEF Covers, Named
<1>2. CASE Named(bs, y.id) # {} /\ Named(as, y.id) = {}
  BY <1>2 DEF Covers, Named
<1>3. CASE Named(bs, y.id) # {} /\ Named(as, y.id) # {}
  BY <1>3 DEF Covers, Named
<1> QED
  BY <1>1, <1>2, <1>3

LEMMA CoversDeleteBoth ==
    ASSUME NEW as, NEW bs, NEW D, NEW U, NEW a, Covers(as, bs, D \cup {a}, U)
    PROVE  Covers(as \ Named(as, a), bs \ Named(bs, a), D, U)
  BY DEF Covers, Named

\* More answers may be excused.
LEMMA CoversMore ==
    ASSUME NEW as, NEW bs, NEW D, NEW U, NEW E, NEW V, Covers(as, bs, D, U),
           D \subseteq E, U \subseteq V
    PROVE  Covers(as, bs, E, V)
  BY DEF Covers

-----------------------------------------------------------------------------
(* One comment in the store of a browser.                                  *)

\* One update more that waits.
LEMMA HasMore ==
    ASSUME NEW W, NEW w, NEW kinds, NEW i
    PROVE  Has(W \cup {w}, kinds, i) <=> Has(W, kinds, i) \/ (w.type \in kinds /\ w.id = i)
  BY DEF Has

LEMMA WaitsOther ==
    ASSUME NEW W, NEW w, NEW kind, NEW i, w.type # kind \/ w.id # i
    PROVE  Waits(W \cup {w}, kind, i) = Waits(W, kind, i)
  BY DEF Waits

\* Of the updates that wait, the server handles the first as it is sent: the
\* store mirrors what comes of it with the others.
LEMMA MirrorSent ==
    ASSUME NEW au, NEW c, NEW W, NEW w \in Waiter, NEW s \in Store, NEW st \in Sound, NEW i \in Id,
           Mirror(au, c, W \cup {w}, s, st.com, i),
           \/ Entry(s, w) = Ignored \/ Entry(s, w).id # i
           \/ Applied(st, Entry(s, w)).ok = TRUE
    PROVE  Mirror(au, c, W, s, Applied(st, Entry(s, w)).com, i)
<1>0. PICK e \in Update : e = Entry(s, w)
  BY EntryIs
<1> DEFINE t == st.com
           u == Applied(st, e).com
<1>3. /\ e # Ignored => e.type = w.type /\ e.id = w.id
      /\ w.type = "delete" => e # Ignored
      /\ w.type # "delete" /\ w.id \notin DOMAIN s => e = Ignored
      /\ e # Ignored /\ w.type # "delete" => w.id \in DOMAIN s
      /\ w.type \in {"create", "update"} /\ w.id \in DOMAIN s =>
            e # Ignored /\ e.note = s[w.id]
      /\ w.type = "delete_answer" /\ w.id \in DOMAIN s => e # Ignored /\ e.aid = w.aid
      /\ w.type \in OfAnswer /\ w.id \in DOMAIN s =>
            IF Named(s[w.id].answers, w.aid) = {} THEN e = Ignored
            ELSE e # Ignored /\ e.answer \in s[w.id].answers /\ e.answer.id = w.aid
  BY <1>0, EntryIs
<1>1. PICK X, Y, X1, Y1 : /\ X = Waits(W, "delete_answer", i) /\ X1 = Waits(W \cup {w}, "delete_answer", i)
                          /\ Y = Waits(W, "update_answer", i) /\ Y1 = Waits(W \cup {w}, "update_answer", i)
  OBVIOUS
<1>2. PICK d, d1, f, f1 \in BOOLEAN :
         /\ d = Has(W, {"delete"}, i) /\ d1 = Has(W \cup {w}, {"delete"}, i)
         /\ f = Has(W, {"create", "update"}, i) /\ f1 = Has(W \cup {w}, {"create", "update"}, i)
  BY DEF Has
<1>4. /\ d1 <=> d \/ (w.type = "delete" /\ w.id = i)
      /\ f1 <=> f \/ (w.type \in {"create", "update"} /\ w.id = i)
      /\ w.type = "delete_answer" /\ w.id = i => X1 = X \cup {w.aid}
      /\ ~(w.type = "delete_answer" /\ w.id = i) => X1 = X
      /\ w.type = "update_answer" /\ w.id = i => Y1 = Y \cup {w.aid}
      /\ ~(w.type = "update_answer" /\ w.id = i) => Y1 = Y
  <2>1. /\ d1 <=> d \/ (w.type = "delete" /\ w.id = i)
        /\ f1 <=> f \/ (w.type \in {"create", "update"} /\ w.id = i)
    BY <1>2, HasMore
  <2>2. /\ w.type = "delete_answer" /\ w.id = i => X1 = X \cup {w.aid}
        /\ ~(w.type = "delete_answer" /\ w.id = i) => X1 = X
    <3>1. CASE w.type = "delete_answer" /\ w.id = i
      <4>1. Waits(W \cup {w}, "delete_answer", i) = Waits(W, "delete_answer", i) \cup {w.aid}
        BY <3>1 DEF Waits
      <4> QED
        BY <1>1, <3>1, <4>1
    <3>2. CASE ~(w.type = "delete_answer" /\ w.id = i)
      <4>1. Waits(W \cup {w}, "delete_answer", i) = Waits(W, "delete_answer", i)
        BY <3>2, WaitsOther
      <4> QED
        BY <1>1, <3>2, <4>1
    <3> QED
      BY <3>1, <3>2
  <2>3. /\ w.type = "update_answer" /\ w.id = i => Y1 = Y \cup {w.aid}
        /\ ~(w.type = "update_answer" /\ w.id = i) => Y1 = Y
    <3>1. CASE w.type = "update_answer" /\ w.id = i
      <4>1. Waits(W \cup {w}, "update_answer", i) = Waits(W, "update_answer", i) \cup {w.aid}
        BY <3>1 DEF Waits
      <4> QED
        BY <1>1, <3>1, <4>1
    <3>2. CASE ~(w.type = "update_answer" /\ w.id = i)
      <4>1. Waits(W \cup {w}, "update_answer", i) = Waits(W, "update_answer", i)
        BY <3>2, WaitsOther
      <4> QED
        BY <1>1, <3>2, <4>1
    <3> QED
      BY <3>1, <3>2
  <2> QED
    BY <2>1, <2>2, <2>3
<1>5. /\ i \notin DOMAIN s /\ ~d1 => i \notin DOMAIN t
      /\ d1 => i \notin DOMAIN s
      /\ i \in DOMAIN s /\ ~f1 => i \in DOMAIN t /\ t[i].text = s[i].text
      /\ Open(au, c, i) /\ i \in DOMAIN s /\ i \in DOMAIN t =>
            Covers(s[i].answers, t[i].answers, X1, Y1)
  BY <1>1, <1>2 DEF Mirror, Shows
<1>6. w.type \in Kind
  BY DEF Waiter
<1>9. ASSUME /\ i \notin DOMAIN s /\ ~d => i \notin DOMAIN u
             /\ d => i \notin DOMAIN s
             /\ i \in DOMAIN s /\ ~f => i \in DOMAIN u /\ u[i].text = s[i].text
             /\ Open(au, c, i) /\ i \in DOMAIN s /\ i \in DOMAIN u =>
                   Covers(s[i].answers, u[i].answers, X, Y)
      PROVE  Mirror(au, c, W, s, Applied(st, Entry(s, w)).com, i)
  BY <1>0, <1>1, <1>2, <1>9 DEF Mirror, Shows
<1>7. CASE e = Ignored \/ e.id # i
  <2>1. (i \in DOMAIN t <=> i \in DOMAIN u) /\ (i \in DOMAIN t => t[i] = u[i])
    BY <1>7, AppliedElsewhere DEF Same
  <2> HIDE DEF t, u
  <2>2. w.id = i => e = Ignored /\ w.type # "delete"
    BY <1>3, <1>7
  <2>3. w.id = i /\ i \in DOMAIN s => w.type \in OfAnswer /\ Named(s[i].answers, w.aid) = {}
    BY <1>3, <1>6, <2>2 DEF Kind, OfAnswer
  <2>4. i \notin DOMAIN s /\ ~d => i \notin DOMAIN u
    BY <1>4, <1>5, <2>1, <2>2
  <2>5. d => i \notin DOMAIN s
    BY <1>4, <1>5
  <2>6. i \in DOMAIN s /\ ~f => i \in DOMAIN u /\ u[i].text = s[i].text
    BY <1>4, <1>5, <2>1, <2>3 DEF OfAnswer
  <2>7. ASSUME Open(au, c, i), i \in DOMAIN s, i \in DOMAIN u
        PROVE  Covers(s[i].answers, u[i].answers, X, Y)
    <3>1. Covers(s[i].answers, u[i].answers, X1, Y1)
      BY <1>5, <2>1, <2>7
    <3>2. X1 = X
      BY <1>4, <2>3, <2>7 DEF OfAnswer
    <3>3. CASE w.type = "update_answer" /\ w.id = i
      <4>1. Y1 = Y \cup {w.aid} /\ Named(s[i].answers, w.aid) = {}
        BY <1>4, <2>3, <2>7, <3>3
      <4> QED
        BY <3>1, <3>2, <4>1, CoversNone
    <3>4. CASE ~(w.type = "update_answer" /\ w.id = i)
      BY <1>4, <3>1, <3>2, <3>4
    <3> QED
      BY <3>3, <3>4
  <2> QED
    BY <1>9, <2>4, <2>5, <2>6, <2>7 DEF t, u
<1>8. CASE e # Ignored /\ e.id = i
  <2>0. /\ Applied(st, e).ok = TRUE /\ w.id = i /\ w.type = e.type
        /\ w.type # "delete" => i \in DOMAIN s
    BY <1>0, <1>3, <1>8
  <2>1. /\ w.type = "create" =>
              i \in DOMAIN u /\ u[i].text = e.note.text /\ u[i].answers = {}
        /\ w.type = "delete" => i \notin DOMAIN u
        /\ w.type \notin {"create", "delete"} => i \in DOMAIN t /\ i \in DOMAIN u
        /\ w.type = "update" => u[i].text = e.note.text /\ u[i].answers = t[i].answers
        /\ w.type \in {"add_answer", "delete_answer", "update_answer"} => u[i].text = t[i].text
        /\ w.type = "add_answer" => u[i].answers = t[i].answers \cup {e.answer}
        /\ w.type = "delete_answer" => u[i].answers = t[i].answers \ Named(t[i].answers, e.aid)
        /\ w.type = "update_answer" =>
              u[i].answers = IF Named(t[i].answers, e.answer.id) = {} THEN t[i].answers
                             ELSE (t[i].answers \ Named(t[i].answers, e.answer.id)) \cup {e.answer}
    <3> DEFINE j == e.id
    <3>1. /\ e.type = "create" => j \in DOMAIN u /\ u[j].text = e.note.text /\ u[j].answers = {}
          /\ e.type = "delete" => j \notin DOMAIN u
          /\ e.type \notin {"create", "delete"} => j \in DOMAIN t /\ j \in DOMAIN u
          /\ e.type = "update" => u[j].text = e.note.text /\ u[j].answers = t[j].answers
          /\ e.type \in {"add_answer", "delete_answer", "update_answer"} => u[j].text = t[j].text
          /\ e.type = "add_answer" => u[j].answers = t[j].answers \cup {e.answer}
          /\ e.type = "delete_answer" => u[j].answers = t[j].answers \ Named(t[j].answers, e.aid)
          /\ e.type = "update_answer" =>
                u[j].answers = IF Named(t[j].answers, e.answer.id) = {} THEN t[j].answers
                               ELSE (t[j].answers \ Named(t[j].answers, e.answer.id)) \cup {e.answer}
      BY <1>8, <2>0, AppliedHere
    <3>2. j = i /\ e.type = w.type
      BY <1>8, <2>0
    <3> HIDE DEF j, t, u
    <3> QED
      BY <3>1, <3>2
  <2> HIDE DEF t, u
  <2>2. CASE w.type = "delete"
    <3>1. i \notin DOMAIN s /\ i \notin DOMAIN u
      BY <1>4, <1>5, <2>0, <2>1, <2>2
    <3> QED
      BY <1>9, <3>1 DEF t, u
  <2>3. CASE w.type # "delete"
    <3>0. i \in DOMAIN s
      BY <2>0, <2>3
    <3>1. ~d
      BY <1>4, <1>5, <3>0
    <3>2. i \in DOMAIN u /\ (~f => u[i].text = s[i].text)
      <4>1. CASE w.type \in {"create", "update"}
        BY <1>3, <2>0, <2>1, <3>0, <4>1
      <4>2. CASE w.type \notin {"create", "update"}
        <5>2. w.type \in {"add_answer", "delete_answer", "update_answer"}
          BY <1>6, <2>3, <4>2 DEF Kind
        <5> QED
          BY <1>4, <1>5, <2>1, <3>0, <4>2, <5>2
      <4> QED
        BY <4>1, <4>2
    <3>3. ASSUME Open(au, c, i)
          PROVE  Covers(s[i].answers, u[i].answers, X, Y)
      <4>1. i \in DOMAIN t => Covers(s[i].answers, t[i].answers, X1, Y1)
        BY <1>5, <3>0, <3>3
      <4>2. CASE w.type = "create"
        <5>1. u[i].answers = {}
          BY <2>1, <4>2
        <5> QED
          BY <5>1 DEF Covers
      <4>3. CASE w.type = "update"
        BY <1>4, <2>1, <4>1, <4>3
      <4>4. CASE w.type = "add_answer"
        <5>2. e.answer \in s[i].answers
          BY <1>3, <1>8, <2>0, <3>0, <4>4 DEF OfAnswer
        <5>3. Covers(s[i].answers, t[i].answers, X, Y) /\ u[i].answers = t[i].answers \cup {e.answer}
          BY <1>4, <2>1, <4>1, <4>4
        <5> QED
          BY <5>2, <5>3, CoversAdd
      <4>5. CASE w.type = "delete_answer"
        <5>2. Covers(s[i].answers, t[i].answers, X \cup {w.aid}, Y)
          BY <1>4, <2>0, <2>1, <4>1, <4>5
        <5>3. u[i].answers = t[i].answers \ Named(t[i].answers, w.aid)
          BY <1>3, <2>0, <2>1, <3>0, <4>5
        <5> QED
          BY <5>2, <5>3, CoversDelete
      <4>6. CASE w.type = "update_answer"
        <5>2. Covers(s[i].answers, t[i].answers, X, Y \cup {w.aid})
          BY <1>4, <2>0, <2>1, <4>1, <4>6
        <5>3. e.answer \in s[i].answers /\ e.answer.id = w.aid
          BY <1>3, <1>8, <2>0, <3>0, <4>6 DEF OfAnswer
        <5>4. u[i].answers = IF Named(t[i].answers, w.aid) = {} THEN t[i].answers
                             ELSE (t[i].answers \ Named(t[i].answers, w.aid)) \cup {e.answer}
          BY <2>1, <4>6, <5>3
        <5> DEFINE bs == t[i].answers
                   a == w.aid
                   y == e.answer
        <5>5. Covers(s[i].answers, IF Named(bs, a) = {} THEN bs ELSE (bs \ Named(bs, a)) \cup {y}, X, Y)
          <6>1. y \in s[i].answers /\ y.id = a /\ Covers(s[i].answers, bs, X, Y \cup {a})
            BY <5>2, <5>3
          <6> HIDE DEF bs, a, y
          <6> QED
            BY Zenon, <6>1, CoversUpdate
        <5> QED
          BY <5>4, <5>5
      <4> QED
        BY <1>6, <2>3, <4>2, <4>3, <4>4, <4>5, <4>6 DEF Kind
    <3> QED
      BY <1>9, <3>0, <3>1, <3>2, <3>3 DEF t, u
  <2> QED
    BY <2>2, <2>3
<1> QED
  BY <1>7, <1>8

-----------------------------------------------------------------------------
(* The updates of a diff, one after the other.                             *)

\* What the server makes of a diff, and a browser, update by update.
LEMMA AppliedTrace ==
    ASSUME NEW b \in Sound, NEW q \in Seq(Update)
    PROVE  \E f \in [Nat -> Sound] :
              /\ f[0] = b /\ f[Len(q)] = FoldLeft(Applied, b, q)
              /\ \A j \in 1 .. Len(q) : f[j] = Applied(f[j - 1], q[j])
<1>1. PICK n \in Nat : n = Len(q) /\ DOMAIN q = 1 .. n
  BY LenProperties
<1>2. \A x \in Sound, i \in 1 .. n : Applied(x, q[i]) \in Sound
  BY <1>1, ElementOfSeq, AppliedType
<1> DEFINE T == Sound
           G == [x \in T \X (1 .. n) |-> Applied(x[1], q[x[2]])]
           h == CHOOSE h : h = [s \in SUBSET (1 .. n) |->
                    IF s = {} THEN b ELSE Applied(h[s \ {Max(s)}], q[Max(s)])]
<1>3. FoldLeft(Applied, b, q) = h[1 .. n]
  BY <1>1 DEF FoldLeft, MapThenFoldSet
<1> HIDE DEF h, T
<1>4. b \in T /\ \A x \in T, i \in 1 .. n : Applied(x, q[i]) \in T
  BY <1>2 DEF T
<1>5. G \in [T \X (1 .. n) -> T] /\ \A x \in T, i \in 1 .. n : G[<<x, i>>] = Applied(x, q[i])
  BY <1>4
<1> HIDE DEF G
<1>6. PICK g : FoldsSets(g, T, b, n, G)
  <2>1. G \in [T \X (1 .. n) -> T]
    BY <1>5
  <2> QED
    BY <1>4, <2>1, FoldExists
<1>7. \A s \in SUBSET (1 .. n) : s # {} => s \ {Max(s)} \in SUBSET (1 .. n) /\ Max(s) \in 1 .. n
  BY LastPosition
<1>8. \A s \in SUBSET (1 .. n) :
         g[s] = IF s = {} THEN b ELSE Applied(g[s \ {Max(s)}], q[Max(s)])
  BY <1>5, <1>6, <1>7 DEF FoldsSets
<1>9. g = [s \in SUBSET (1 .. n) |-> IF s = {} THEN b ELSE Applied(g[s \ {Max(s)}], q[Max(s)])]
  <2>1. g = [s \in SUBSET (1 .. n) |-> g[s]]
    BY <1>6 DEF FoldsSets
  <2> QED
    BY <1>8, <2>1
<1>10. h = [s \in SUBSET (1 .. n) |-> IF s = {} THEN b ELSE Applied(h[s \ {Max(s)}], q[Max(s)])]
  BY <1>9 DEF h
<1>11. h[{}] = b
  BY <1>4, <1>10
<1>12. \A s \in SUBSET (1 .. n) : s # {} /\ h[s \ {Max(s)}] \in T => h[s] \in T
  BY <1>4, <1>7, <1>10
<1>13. \A j \in 0 .. n : h[1 .. j] \in T
  <2> TAKE j \in 0 .. n
  <2>1. j \in Nat /\ h[{}] \in T
    BY <1>4, <1>11
  <2>2. \A s \in SUBSET (1 .. j) : s # {} /\ h[s \ {Max(s)}] \in T => h[s] \in T
    <3>1. SUBSET (1 .. j) \subseteq SUBSET (1 .. n)
      OBVIOUS
    <3> QED
      BY <1>12, <3>1
  <2> QED
    BY <2>1, <2>2, FoldType
<1>14. \A j \in 1 .. n : h[1 .. j] = Applied(h[1 .. j - 1], q[j])
  <2> TAKE j \in 1 .. n
  <2>1. 1 .. j \in SUBSET (1 .. n) /\ 1 .. j # {} /\ j \in Nat /\ 1 .. j \subseteq 0 .. j
    <3>1. j \in Nat /\ j \in 1 .. j /\ 1 .. j \subseteq 1 .. n /\ 1 .. j \subseteq 0 .. j
      OBVIOUS
    <3>2. 1 .. j \in SUBSET (1 .. n) /\ 1 .. j # {}
      BY Zenon, <3>1
    <3> QED
      BY <3>1, <3>2
  <2>2. Max(1 .. j) \in 1 .. j /\ \A x \in 1 .. j : x <= Max(1 .. j)
    BY <2>1, MaxIs
  <2>3. Max(1 .. j) = j /\ (1 .. j) \ {j} = 1 .. j - 1
    <3>1. PICK y \in 1 .. j : y = Max(1 .. j)
      BY <2>2
    <3> QED
      BY <2>2, <3>1
  <2>4. h[1 .. j] = Applied(h[(1 .. j) \ {Max(1 .. j)}], q[Max(1 .. j)])
    BY <1>10, <2>1
  <2> QED
    BY <2>3, <2>4
<1> DEFINE f == [j \in Nat |-> IF j \in 0 .. n THEN h[1 .. j] ELSE b]
<1>15. f \in [Nat -> T]
  BY <1>4, <1>13
<1>16. /\ f[0] = b /\ f[n] = h[1 .. n]
       /\ \A j \in 1 .. n : f[j] = Applied(f[j - 1], q[j])
  <2>1. 1 .. 0 = {}
    OBVIOUS
  <2>2. \A j \in 0 .. n : f[j] = h[1 .. j]
    OBVIOUS
  <2>3. \A j \in 1 .. n : j - 1 \in 0 .. n /\ j \in 0 .. n
    OBVIOUS
  <2>4. f[0] = b /\ f[n] = h[1 .. n]
    BY <1>11, <2>1, <2>2
  <2> HIDE DEF f
  <2> QED
    BY <1>14, <2>2, <2>3, <2>4
<1> HIDE DEF f
<1> QED
  BY <1>1, <1>3, <1>15, <1>16 DEF T

LEMMA ReceivedTrace ==
    ASSUME NEW b \in Store, NEW q \in Seq(Update)
    PROVE  \E f \in [Nat -> Store] :
              /\ f[0] = b /\ f[Len(q)] = FoldLeft(Received, b, q)
              /\ \A j \in 1 .. Len(q) : f[j] = Received(f[j - 1], q[j])
<1>1. PICK n \in Nat : n = Len(q) /\ DOMAIN q = 1 .. n
  BY LenProperties
<1>2. \A x \in Store, i \in 1 .. n : Received(x, q[i]) \in Store
  BY <1>1, ElementOfSeq, ReceivedType
<1> DEFINE T == Store
           G == [x \in T \X (1 .. n) |-> Received(x[1], q[x[2]])]
           h == CHOOSE h : h = [s \in SUBSET (1 .. n) |->
                    IF s = {} THEN b ELSE Received(h[s \ {Max(s)}], q[Max(s)])]
<1>3. FoldLeft(Received, b, q) = h[1 .. n]
  BY <1>1 DEF FoldLeft, MapThenFoldSet
<1> HIDE DEF h, T
<1>4. b \in T /\ \A x \in T, i \in 1 .. n : Received(x, q[i]) \in T
  BY <1>2 DEF T
<1>5. G \in [T \X (1 .. n) -> T] /\ \A x \in T, i \in 1 .. n : G[<<x, i>>] = Received(x, q[i])
  BY <1>4
<1> HIDE DEF G
<1>6. PICK g : FoldsSets(g, T, b, n, G)
  <2>1. G \in [T \X (1 .. n) -> T]
    BY <1>5
  <2> QED
    BY <1>4, <2>1, FoldExists
<1>7. \A s \in SUBSET (1 .. n) : s # {} => s \ {Max(s)} \in SUBSET (1 .. n) /\ Max(s) \in 1 .. n
  BY LastPosition
<1>8. \A s \in SUBSET (1 .. n) :
         g[s] = IF s = {} THEN b ELSE Received(g[s \ {Max(s)}], q[Max(s)])
  BY <1>5, <1>6, <1>7 DEF FoldsSets
<1>9. g = [s \in SUBSET (1 .. n) |-> IF s = {} THEN b ELSE Received(g[s \ {Max(s)}], q[Max(s)])]
  <2>1. g = [s \in SUBSET (1 .. n) |-> g[s]]
    BY <1>6 DEF FoldsSets
  <2> QED
    BY <1>8, <2>1
<1>10. h = [s \in SUBSET (1 .. n) |-> IF s = {} THEN b ELSE Received(h[s \ {Max(s)}], q[Max(s)])]
  BY <1>9 DEF h
<1>11. h[{}] = b
  BY <1>4, <1>10
<1>12. \A s \in SUBSET (1 .. n) : s # {} /\ h[s \ {Max(s)}] \in T => h[s] \in T
  BY <1>4, <1>7, <1>10
<1>13. \A j \in 0 .. n : h[1 .. j] \in T
  <2> TAKE j \in 0 .. n
  <2>1. j \in Nat /\ h[{}] \in T
    BY <1>4, <1>11
  <2>2. \A s \in SUBSET (1 .. j) : s # {} /\ h[s \ {Max(s)}] \in T => h[s] \in T
    <3>1. SUBSET (1 .. j) \subseteq SUBSET (1 .. n)
      OBVIOUS
    <3> QED
      BY <1>12, <3>1
  <2> QED
    BY <2>1, <2>2, FoldType
<1>14. \A j \in 1 .. n : h[1 .. j] = Received(h[1 .. j - 1], q[j])
  <2> TAKE j \in 1 .. n
  <2>1. 1 .. j \in SUBSET (1 .. n) /\ 1 .. j # {} /\ j \in Nat /\ 1 .. j \subseteq 0 .. j
    <3>1. j \in Nat /\ j \in 1 .. j /\ 1 .. j \subseteq 1 .. n /\ 1 .. j \subseteq 0 .. j
      OBVIOUS
    <3>2. 1 .. j \in SUBSET (1 .. n) /\ 1 .. j # {}
      BY Zenon, <3>1
    <3> QED
      BY <3>1, <3>2
  <2>2. Max(1 .. j) \in 1 .. j /\ \A x \in 1 .. j : x <= Max(1 .. j)
    BY <2>1, MaxIs
  <2>3. Max(1 .. j) = j /\ (1 .. j) \ {j} = 1 .. j - 1
    <3>1. PICK y \in 1 .. j : y = Max(1 .. j)
      BY <2>2
    <3> QED
      BY <2>2, <3>1
  <2>4. h[1 .. j] = Received(h[(1 .. j) \ {Max(1 .. j)}], q[Max(1 .. j)])
    BY <1>10, <2>1
  <2> QED
    BY <2>3, <2>4
<1> DEFINE f == [j \in Nat |-> IF j \in 0 .. n THEN h[1 .. j] ELSE b]
<1>15. f \in [Nat -> T]
  BY <1>4, <1>13
<1>16. /\ f[0] = b /\ f[n] = h[1 .. n]
       /\ \A j \in 1 .. n : f[j] = Received(f[j - 1], q[j])
  <2>1. 1 .. 0 = {}
    OBVIOUS
  <2>2. \A j \in 0 .. n : f[j] = h[1 .. j]
    OBVIOUS
  <2>3. \A j \in 1 .. n : j - 1 \in 0 .. n /\ j \in 0 .. n
    OBVIOUS
  <2>4. f[0] = b /\ f[n] = h[1 .. n]
    BY <1>11, <2>1, <2>2
  <2> HIDE DEF f
  <2> QED
    BY <1>14, <2>2, <2>3, <2>4
<1> HIDE DEF f
<1> QED
  BY <1>1, <1>3, <1>15, <1>16 DEF T

\* What is deleted from position p on is what the update there deletes, and the rest.
LEMMA DelsStep ==
    ASSUME NEW cu, Len(cu) \in Nat, NEW p \in Nat, p < Len(cu), NEW i, NEW e, e = cu[p + 1]
    PROVE  /\ e.type = "delete_answer" /\ e.id = i => Dels(cu, p, i) = Dels(cu, p + 1, i) \cup {e.aid}
           /\ ~(e.type = "delete_answer" /\ e.id = i) => Dels(cu, p, i) = Dels(cu, p + 1, i)
<1> DEFINE P(j) == cu[j].type = "delete_answer" /\ cu[j].id = i
           J == {j \in p + 1 .. Len(cu) : P(j)}
           K == {j \in (p + 1) + 1 .. Len(cu) : P(j)}
<1>1. p + 1 .. Len(cu) = {p + 1} \cup ((p + 1) + 1 .. Len(cu))
  OBVIOUS
<1>2. Dels(cu, p, i) = {cu[k].aid : k \in J} /\ Dels(cu, p + 1, i) = {cu[k].aid : k \in K}
  BY DEF Dels
<1>3. (P(p + 1) => J = K \cup {p + 1}) /\ (~P(p + 1) => J = K)
  BY <1>1
<1> HIDE DEF J, K
<1> QED
  BY <1>2, <1>3

\* One update of the diff, or of those that wait, has been handled.
LEMMA UpdsStep ==
    ASSUME NEW cu, Len(cu) \in Nat, NEW p \in Nat, p < Len(cu), NEW i, NEW e, e = cu[p + 1]
    PROVE  /\ e.type = "update_answer" /\ e.id = i =>
                 Upds(cu, p, i) = Upds(cu, p + 1, i) \cup {e.answer.id}
           /\ ~(e.type = "update_answer" /\ e.id = i) => Upds(cu, p, i) = Upds(cu, p + 1, i)
<1> DEFINE P(j) == cu[j].type = "update_answer" /\ cu[j].id = i
           J == {j \in p + 1 .. Len(cu) : P(j)}
           K == {j \in (p + 1) + 1 .. Len(cu) : P(j)}
<1>1. p + 1 .. Len(cu) = {p + 1} \cup ((p + 1) + 1 .. Len(cu))
  OBVIOUS
<1>2. Upds(cu, p, i) = {cu[k].answer.id : k \in J} /\ Upds(cu, p + 1, i) = {cu[k].answer.id : k \in K}
  BY DEF Upds
<1>3. (P(p + 1) => J = K \cup {p + 1}) /\ (~P(p + 1) => J = K)
  BY <1>1
<1> HIDE DEF J, K
<1> QED
  BY <1>2, <1>3

LEMMA RestStep ==
    ASSUME NEW c, Len(unsent[c]) \in Nat, NEW p \in Nat, p < Len(unsent[c])
    PROVE  Rest(c, p) = Rest(c, p + 1) \cup {unsent[c][p + 1]}
<1>1. p + 1 .. Len(unsent[c]) = {p + 1} \cup ((p + 1) + 1 .. Len(unsent[c]))
  OBVIOUS
<1> QED
  BY <1>1 DEF Rest

\* A diff that was handled to its end was handled without an error all along.
LEMMA AllOk ==
    ASSUME NEW n \in Nat, NEW q, \A j \in 1 .. n : q[j] \in Update,
           NEW f \in [Nat -> Sound], \A j \in 1 .. n : f[j] = Applied(f[j - 1], q[j]),
           f[n].ok = TRUE
    PROVE  \A j \in 0 .. n : f[j].ok = TRUE
<1> DEFINE S == {k \in Nat : \A j \in 0 .. n : j + k = n => f[j].ok = TRUE}
<1>1. 0 \in S
  OBVIOUS
<1>2. ASSUME NEW k \in Nat, k \in S
      PROVE  k + 1 \in S
  <2>1. ASSUME NEW j \in 0 .. n, j + (k + 1) = n
        PROVE  f[j].ok = TRUE
    <3>1. PICK m \in 1 .. n : m = j + 1 /\ m - 1 = j /\ m \in 0 .. n /\ m + k = n
      BY <2>1
    <3>2. f[m].ok = TRUE
      BY <1>2, <3>1
    <3>3. PICK st \in Sound, e \in Update : st = f[j] /\ e = q[m]
      BY <3>1
    <3>4. f[m] = Applied(st, e)
      BY <3>1, <3>3
    <3>5. Applied(st, e).ok = TRUE => st.ok = TRUE
      BY AppliedIs
    <3> QED
      BY <3>2, <3>3, <3>4, <3>5
  <2>2. k + 1 \in Nat
    OBVIOUS
  <2> QED
    BY <2>1, <2>2
<1> HIDE DEF S
<1>3. Nat \subseteq S
  BY <1>1, <1>2, SetInduction
<1> QED
  <2> TAKE j \in 0 .. n
  <2>1. PICK k \in Nat : j + k = n
    <3>1. n - j \in Nat /\ j + (n - j) = n
      OBVIOUS
    <3> QED
      BY <3>1
  <2> QED
    BY <1>3, <2>1 DEF S

\* What a browser sends leaves what it shows, if the server handles it now.
LEMMA SentMirrors ==
    ASSUME Types, NEW c \in Client, NEW au, NEW b \in Sound, NEW i \in Id,
           Mirror(au, c, Rest(c, 0), copy[c], b.com, i),
           LET r == FoldLeft(Applied, b, UnsentEvents(c))
           IN  r.ok = TRUE \/ ~Concerns(UnsentEvents(c), i)
    PROVE  Mirror(au, c, Rest(c, Len(unsent[c])), copy[c],
                  FoldLeft(Applied, b, UnsentEvents(c)).com, i)
<1>0. PICK n \in Nat : n = Len(unsent[c])
  BY LenProperties DEF Types
<1>1. PICK s, q : n = Len(unsent[c]) /\ s = copy[c] /\ q = UnsentEvents(c)
  BY <1>0
<1>2. /\ s \in Store /\ q \in Seq(Update) /\ Len(q) = n
      /\ \A j \in 1 .. n : /\ unsent[c][j] \in Waiter
                           /\ q[j] = Entry(s, unsent[c][j]) /\ q[j] \in Update
  <2>1. unsent[c] \in Seq(Waiter) /\ copy[c] \in Store
    BY DEF Types
  <2>2. DOMAIN unsent[c] = 1 .. n /\ \A j \in 1 .. n : unsent[c][j] \in Waiter
    BY <1>1, <2>1, ElementOfSeq, LenProperties
  <2>3. q = [k \in 1 .. n |-> Entry(s, unsent[c][k])]
    BY <1>1, <2>2 DEF UnsentEvents
  <2>4. q \in Seq(Update) /\ Len(q) = n
    <3>1. q \in Seq(Update)
      BY <1>1, UnsentType
    <3>2. Len([k \in 1 .. n |-> Entry(s, unsent[c][k])]) = n
      OBVIOUS
    <3> QED
      BY <2>3, <3>1, <3>2
  <2> QED
    BY <1>1, <2>1, <2>2, <2>3, <2>4, ElementOfSeq
<1>3. PICK f \in [Nat -> Sound] : /\ f[0] = b /\ f[n] = FoldLeft(Applied, b, q)
                                  /\ \A j \in 1 .. n : f[j] = Applied(f[j - 1], q[j])
  BY <1>2, AppliedTrace
<1>4. \A j \in 1 .. n : f[j].ok = TRUE \/ q[j] = Ignored \/ q[j].id # i
  <2>1. CASE f[n].ok = TRUE
    <3>1. \A j \in 0 .. n : f[j].ok = TRUE
      BY <1>2, <1>3, <2>1, AllOk
    <3> QED
      BY <3>1
  <2>2. CASE ~Concerns(q, i)
    BY <1>2, <2>2 DEF Concerns
  <2> QED
    BY <1>1, <1>3, <2>1, <2>2
<1> DEFINE S == {p \in Nat : p <= n => Mirror(au, c, Rest(c, p), s, f[p].com, i)}
<1>5. 0 \in S
  BY <1>1, <1>3
<1>6. ASSUME NEW p \in Nat, p \in S
      PROVE  p + 1 \in S
  <2>1. CASE p + 1 <= n
    <3>1. PICK j \in Nat : j = p + 1 /\ j \in 1 .. n /\ j - 1 = p
      BY <2>1
    <3>2. PICK w \in Waiter : w = unsent[c][j]
      BY <1>2, <3>1
    <3>3. Rest(c, p) = Rest(c, j) \cup {w}
      BY <1>1, <2>1, <3>1, <3>2, RestStep
    <3>4. PICK W : W = Rest(c, j)
      OBVIOUS
    <3>5. PICK st \in Sound : st = f[p]
      OBVIOUS
    <3>6. Mirror(au, c, W \cup {w}, s, st.com, i)
      <4>1. p <= n /\ Mirror(au, c, Rest(c, p), s, f[p].com, i)
        BY <1>6, <2>1
      <4> QED
        BY <3>3, <3>4, <3>5, <4>1
    <3>7. q[j] = Entry(s, w) /\ f[j] = Applied(st, Entry(s, w))
      BY <1>2, <1>3, <3>1, <3>2, <3>5
    <3>8. \/ Entry(s, w) = Ignored \/ Entry(s, w).id # i
          \/ Applied(st, Entry(s, w)).ok = TRUE
      BY <1>4, <3>1, <3>7
    <3>9. Mirror(au, c, W, s, Applied(st, Entry(s, w)).com, i)
      BY <1>2, <3>6, <3>8, MirrorSent
    <3> QED
      BY <3>1, <3>4, <3>7, <3>9
  <2> QED
    BY <2>1
<1> HIDE DEF S
<1>7. Nat \subseteq S
  BY <1>5, <1>6, SetInduction
<1> QED
  BY <1>1, <1>3, <1>7 DEF S

-----------------------------------------------------------------------------
(* A browser handles a diff of another as the server did.                  *)

\* When p of the updates cu have been handled on both sides: comment i in store
\* s, with the updates W waiting, and in t on the server.
Later(cu, p, kind, i) == {k \in p + 1 .. Len(cu) : cu[k].type = kind /\ cu[k].id = i}

Meets(au, c, W, cu, p, s, t, i) ==
    /\ Shows(W, s, t, i)
    /\ Later(cu, p, "create", i) # {} => i \notin DOMAIN s /\ ~Has(W, {"delete"}, i)
    /\ Open(au, c, i) =>
          /\ i \in DOMAIN s /\ i \in DOMAIN t =>
                Covers(s[i].answers, t[i].answers,
                       Waits(W, "delete_answer", i) \cup Dels(cu, p, i),
                       Waits(W, "update_answer", i) \cup Upds(cu, p, i))
          /\ i \in DOMAIN t => \A k \in Later(cu, p, "update", i) :
                Covers(cu[k].note.answers, t[i].answers, Dels(cu, p, i), Upds(cu, p, i))
          /\ i \in DOMAIN s => \A k \in Later(cu, p, "add_answer", i) :
                Named(s[i].answers, cu[k].answer.id) = {} \/ cu[k].answer \in s[i].answers

\* Fewer updates are left.
LEMMA LaterLess ==
    ASSUME NEW cu, Len(cu) \in Nat, NEW p \in Nat, NEW kind, NEW i
    PROVE  Later(cu, p + 1, kind, i) \subseteq Later(cu, p, kind, i)
  BY DEF Later

\* An update of another comment.
LEMMA MeetsElsewhere ==
    ASSUME NEW au, NEW c, NEW W, NEW cu, Len(cu) \in Nat, NEW p \in Nat, p < Len(cu), NEW i,
           NEW e, e = cu[p + 1], e = Ignored \/ e.id # i,
           NEW s, NEW t, NEW r, NEW u, Same(s, r, i), Same(t, u, i),
           Meets(au, c, W, cu, p, s, t, i)
    PROVE  Meets(au, c, W, cu, p + 1, r, u, i)
<1>1. /\ Later(cu, p + 1, "create", i) \subseteq Later(cu, p, "create", i)
      /\ Later(cu, p + 1, "update", i) \subseteq Later(cu, p, "update", i)
      /\ Later(cu, p + 1, "add_answer", i) \subseteq Later(cu, p, "add_answer", i)
  BY LaterLess
<1>2. ~(e.type = "delete_answer" /\ e.id = i) /\ ~(e.type = "update_answer" /\ e.id = i)
  BY DEF Ignored
<1>3. Dels(cu, p, i) = Dels(cu, p + 1, i) /\ Upds(cu, p, i) = Upds(cu, p + 1, i)
  BY <1>2, DelsStep, UpdsStep
<1>4. /\ (i \in DOMAIN s <=> i \in DOMAIN r) /\ (i \in DOMAIN s => s[i] = r[i])
      /\ (i \in DOMAIN t <=> i \in DOMAIN u) /\ (i \in DOMAIN t => t[i] = u[i])
  BY DEF Same
<1>5. Shows(W, r, u, i)
  BY <1>4 DEF Meets, Shows
<1>6. Later(cu, p + 1, "create", i) # {} => i \notin DOMAIN r /\ ~Has(W, {"delete"}, i)
  BY <1>1, <1>4 DEF Meets
<1>7. ASSUME Open(au, c, i)
      PROVE  /\ i \in DOMAIN r /\ i \in DOMAIN u =>
                   Covers(r[i].answers, u[i].answers,
                          Waits(W, "delete_answer", i) \cup Dels(cu, p + 1, i),
                          Waits(W, "update_answer", i) \cup Upds(cu, p + 1, i))
             /\ i \in DOMAIN u => \A k \in Later(cu, p + 1, "update", i) :
                   Covers(cu[k].note.answers, u[i].answers, Dels(cu, p + 1, i), Upds(cu, p + 1, i))
             /\ i \in DOMAIN r => \A k \in Later(cu, p + 1, "add_answer", i) :
                   Named(r[i].answers, cu[k].answer.id) = {} \/ cu[k].answer \in r[i].answers
  <2>1. /\ i \in DOMAIN s /\ i \in DOMAIN t =>
              Covers(s[i].answers, t[i].answers,
                     Waits(W, "delete_answer", i) \cup Dels(cu, p, i),
                     Waits(W, "update_answer", i) \cup Upds(cu, p, i))
        /\ i \in DOMAIN t => \A k \in Later(cu, p, "update", i) :
              Covers(cu[k].note.answers, t[i].answers, Dels(cu, p, i), Upds(cu, p, i))
        /\ i \in DOMAIN s => \A k \in Later(cu, p, "add_answer", i) :
              Named(s[i].answers, cu[k].answer.id) = {} \/ cu[k].answer \in s[i].answers
    BY <1>7 DEF Meets
  <2> QED
    BY <1>1, <1>3, <1>4, <2>1
<1> QED
  BY <1>5, <1>6, <1>7 DEF Meets

\* Shows, and the updates that create, where both handle the update.
LEMMA ShowsHere ==
    ASSUME NEW W, NEW i, NEW s \in Store, NEW st \in Sound, NEW e \in Update,
           e # Ignored, e.id = i, Applied(st, e).ok = TRUE,
           Shows(W, s, st.com, i),
           e.type = "create" => i \notin DOMAIN s /\ ~Has(W, {"delete"}, i)
    PROVE  Shows(W, Received(s, e), Applied(st, e).com, i)
<1> DEFINE r == Received(s, e)
           t == st.com
           u == Applied(st, e).com
           d == Has(W, {"delete"}, i)
           f == Has(W, {"create", "update"}, i)
<1>1. /\ e.type \in Kind
      /\ e.type \in {"create", "update"} => e.note \in Comment
  BY UpdateTyped
<1>2. /\ i \notin DOMAIN s /\ ~d => i \notin DOMAIN t
      /\ d => i \notin DOMAIN s
      /\ i \in DOMAIN s /\ ~f => i \in DOMAIN t /\ t[i].text = s[i].text
      /\ e.type = "create" => i \notin DOMAIN s /\ ~d
  BY DEF Shows
<1>3. /\ e.type = "create" => i \in DOMAIN u /\ u[i].text = e.note.text
      /\ e.type = "delete" => i \notin DOMAIN u
      /\ e.type \notin {"create", "delete"} => i \in DOMAIN t /\ i \in DOMAIN u
      /\ e.type = "update" => u[i].text = e.note.text
      /\ e.type \in {"add_answer", "delete_answer", "update_answer"} => u[i].text = t[i].text
  <2>1. LET j == e.id
        IN  /\ e.type = "create" => j \in DOMAIN u /\ u[j].text = e.note.text
            /\ e.type = "delete" => j \notin DOMAIN u
            /\ e.type \notin {"create", "delete"} => j \in DOMAIN t /\ j \in DOMAIN u
            /\ e.type = "update" => u[j].text = e.note.text
            /\ e.type \in {"add_answer", "delete_answer", "update_answer"} => u[j].text = t[j].text
    BY AppliedHere
  <2> HIDE DEF t, u
  <2> QED
    BY <2>1
<1>4. /\ e.type = "create" => i \in DOMAIN r /\ (i \notin DOMAIN s => r[i] = e.note)
      /\ e.type = "delete" => i \notin DOMAIN r
      /\ e.type \notin {"create", "delete"} => (i \in DOMAIN r <=> i \in DOMAIN s)
      /\ e.type = "update" /\ i \in DOMAIN s => r[i] = e.note
      /\ e.type \in {"add_answer", "delete_answer", "update_answer"} /\ i \in DOMAIN s =>
            r[i].text = s[i].text
  <2>1. e.type = "create" =>
              /\ e.id \in DOMAIN r
              /\ r[e.id] = IF e.id \in DOMAIN s THEN s[e.id] ELSE e.note
    BY ReceivedHere
  <2>2. ASSUME e.type = "delete"
        PROVE  e.id \notin DOMAIN r
    <3>1. r = Without(s, e.id)
      BY <2>2 DEF Received
    <3> QED
      BY <3>1, WithoutIs
  <2>3. e.type \notin {"create", "delete"} => (e.id \in DOMAIN r <=> e.id \in DOMAIN s)
    BY ReceivedHere
  <2>4. e.type = "update" /\ e.id \in DOMAIN s => r[e.id] = e.note
    BY ReceivedHere
  <2>5. e.type \in {"add_answer", "delete_answer", "update_answer"} /\ e.id \in DOMAIN s =>
              r[e.id].text = s[e.id].text
    BY ReceivedHere
  <2> HIDE DEF r
  <2> QED
    BY <2>1, <2>2, <2>3, <2>4, <2>5
<1> HIDE DEF r, t, u, d, f
<1>5. /\ i \notin DOMAIN r /\ ~d => i \notin DOMAIN u
      /\ d => i \notin DOMAIN r
      /\ i \in DOMAIN r /\ ~f => i \in DOMAIN u /\ u[i].text = r[i].text
  <2>1. CASE e.type = "create"
    BY <1>2, <1>3, <1>4, <2>1
  <2>2. CASE e.type = "delete"
    BY <1>2, <1>3, <1>4, <2>2
  <2>3. CASE e.type = "update"
    BY <1>2, <1>3, <1>4, <2>3
  <2>4. CASE e.type \in {"add_answer", "delete_answer", "update_answer"}
    BY <1>2, <1>3, <1>4, <2>4
  <2> QED
    BY <1>1, <2>1, <2>2, <2>3, <2>4 DEF Kind
<1> QED
  BY <1>5 DEF Shows, r, u, d, f

\* It is not shown to a browser that has the comment: one of an answer.
LEMMA ShowsMissed ==
    ASSUME NEW W, NEW i, NEW s \in Store, NEW st \in Sound, NEW e \in Update,
           e # Ignored, e.id = i, Applied(st, e).ok = TRUE,
           Shows(W, s, st.com, i), e.type \notin {"create", "update", "delete"}
    PROVE  Shows(W, s, Applied(st, e).com, i)
<1> DEFINE t == st.com
           u == Applied(st, e).com
<1>1. e.type \in {"add_answer", "delete_answer", "update_answer"}
  BY UpdateTyped DEF Kind
<1>2. i \in DOMAIN t /\ i \in DOMAIN u /\ u[i].text = t[i].text
  <2>1. LET j == e.id
        IN  j \in DOMAIN t /\ j \in DOMAIN u /\ u[j].text = t[j].text
    BY <1>1, AppliedHere
  <2> HIDE DEF t, u
  <2> QED
    BY <2>1
<1> HIDE DEF u
<1> QED
  BY <1>2 DEF Shows, u

\* The answers that it has then, on the server and in the browser.
LEMMA AnswersThere ==
    ASSUME NEW st \in Sound, NEW e \in Update, NEW i,
           e # Ignored, e.id = i, Applied(st, e).ok = TRUE
    PROVE  LET t == st.com
               u == Applied(st, e).com
           IN  /\ e.type = "create" => u[i].answers = {}
               /\ e.type = "delete" => i \notin DOMAIN u
               /\ e.type \notin {"create", "delete"} => i \in DOMAIN t
               /\ e.type = "update" => u[i].answers = t[i].answers
               /\ e.type = "add_answer" => u[i].answers = t[i].answers \cup {e.answer}
               /\ e.type = "delete_answer" =>
                     u[i].answers = t[i].answers \ Named(t[i].answers, e.aid)
               /\ e.type = "update_answer" =>
                     u[i].answers = IF Named(t[i].answers, e.answer.id) = {} THEN t[i].answers
                                    ELSE (t[i].answers \ Named(t[i].answers, e.answer.id))
                                            \cup {e.answer}
<1> DEFINE t == st.com
           u == Applied(st, e).com
<1>1. e.type = "create" => u[e.id].answers = {}
  BY AppliedHere
<1>2. e.type = "delete" => e.id \notin DOMAIN u
  <2>1. e.type = "delete" => u = Without(t, e.id)
    BY AppliedIs
  <2> QED
    BY <2>1, WithoutIs
<1>3. e.type \notin {"create", "delete"} => e.id \in DOMAIN t
  BY AppliedHere
<1>4. e.type = "update" => u[e.id].answers = t[e.id].answers
  BY AppliedHere
<1>5. e.type = "add_answer" => u[e.id].answers = t[e.id].answers \cup {e.answer}
  BY AppliedHere
<1>6. e.type = "delete_answer" => u[e.id].answers = t[e.id].answers \ Named(t[e.id].answers, e.aid)
  BY AppliedHere
<1>7. e.type = "update_answer" =>
         u[e.id].answers = IF Named(t[e.id].answers, e.answer.id) = {} THEN t[e.id].answers
                           ELSE (t[e.id].answers \ Named(t[e.id].answers, e.answer.id)) \cup {e.answer}
  BY AppliedHere
<1> HIDE DEF t, u
<1>8. i = e.id
  OBVIOUS
<1>9. /\ e.type = "create" => u[i].answers = {}
      /\ e.type = "delete" => i \notin DOMAIN u
      /\ e.type \notin {"create", "delete"} => i \in DOMAIN t
      /\ e.type = "update" => u[i].answers = t[i].answers
      /\ e.type = "add_answer" => u[i].answers = t[i].answers \cup {e.answer}
  BY <1>1, <1>2, <1>3, <1>4, <1>5, <1>8
<1>10. e.type = "delete_answer" => u[i].answers = t[i].answers \ Named(t[i].answers, e.aid)
  BY <1>6, <1>8
<1>11. e.type = "update_answer" =>
         u[i].answers = IF Named(t[i].answers, e.answer.id) = {} THEN t[i].answers
                        ELSE (t[i].answers \ Named(t[i].answers, e.answer.id)) \cup {e.answer}
  BY <1>7, <1>8
<1> QED
  BY Zenon, <1>9, <1>10, <1>11 DEF t, u

\* The same in the terms of answers only.
LEMMA AnswersHere ==
    ASSUME NEW s \in Store, NEW e \in Update, NEW i, e # Ignored, e.id = i
    PROVE  LET r == Received(s, e)
               old == s[i].answers
           IN  /\ e.type = "create" /\ i \notin DOMAIN s => r[i] = e.note
               /\ e.type = "delete" => i \notin DOMAIN r
               /\ e.type \notin {"create", "delete"} => (i \in DOMAIN r <=> i \in DOMAIN s)
               /\ e.type = "update" /\ i \in DOMAIN s => r[i] = e.note
               /\ e.type = "add_answer" /\ i \in DOMAIN s =>
                     r[i].answers = IF Named(old, e.answer.id) = {} THEN old \cup {e.answer} ELSE old
               /\ e.type = "delete_answer" /\ i \in DOMAIN s =>
                     r[i].answers = old \ Named(old, e.aid)
               /\ e.type = "update_answer" /\ i \in DOMAIN s =>
                     r[i].answers = IF Named(old, e.answer.id) = {} THEN old
                                    ELSE (old \ Named(old, e.answer.id)) \cup {e.answer}
<1> DEFINE r == Received(s, e)
           old == s[e.id].answers
<1>1. e.type = "create" => r[e.id] = IF e.id \in DOMAIN s THEN s[e.id] ELSE e.note
  BY ReceivedHere
<1>2. e.type = "delete" => e.id \notin DOMAIN r
  <2>1. e.type = "delete" => r = Without(s, e.id)
    BY DEF Received
  <2> QED
    BY <2>1, WithoutIs
<1>3. e.type \notin {"create", "delete"} => (e.id \in DOMAIN r <=> e.id \in DOMAIN s)
  BY ReceivedHere
<1>4. e.type = "update" /\ e.id \in DOMAIN s => r[e.id] = e.note
  BY ReceivedHere
<1>5. e.type = "add_answer" /\ e.id \in DOMAIN s =>
         r[e.id].answers = IF Named(old, e.answer.id) = {} THEN old \cup {e.answer} ELSE old
  BY ReceivedHere
<1>6. e.type = "delete_answer" /\ e.id \in DOMAIN s =>
         r[e.id].answers = old \ Named(old, e.aid)
  BY ReceivedHere
<1>7. e.type = "update_answer" /\ e.id \in DOMAIN s =>
         r[e.id].answers = IF Named(old, e.answer.id) = {} THEN old
                           ELSE (old \ Named(old, e.answer.id)) \cup {e.answer}
  BY ReceivedHere
<1> HIDE DEF r
<1>8. i = e.id
  OBVIOUS
<1> DEFINE was == s[i].answers
<1>9. /\ e.type = "create" /\ i \notin DOMAIN s => r[i] = e.note
      /\ e.type = "delete" => i \notin DOMAIN r
      /\ e.type \notin {"create", "delete"} => (i \in DOMAIN r <=> i \in DOMAIN s)
      /\ e.type = "update" /\ i \in DOMAIN s => r[i] = e.note
  BY <1>1, <1>2, <1>3, <1>4, <1>8
<1>10. e.type = "add_answer" /\ i \in DOMAIN s =>
         r[i].answers = IF Named(was, e.answer.id) = {} THEN was \cup {e.answer} ELSE was
  BY <1>5, <1>8
<1>11. e.type = "delete_answer" /\ i \in DOMAIN s => r[i].answers = was \ Named(was, e.aid)
  BY <1>6, <1>8
<1>12. e.type = "update_answer" /\ i \in DOMAIN s =>
         r[i].answers = IF Named(was, e.answer.id) = {} THEN was
                        ELSE (was \ Named(was, e.answer.id)) \cup {e.answer}
  BY <1>7, <1>8
<1> QED
  BY Zenon, <1>9, <1>10, <1>11, <1>12 DEF r

\* Once e has been applied, the answers that the rest of the diff deletes and
\* updates are D and U; with e they were D1 and U1.
Lifts(e, D, U, D1, U1) ==
    /\ e.type = "delete_answer" => D1 = D \cup {e.aid}
    /\ e.type # "delete_answer" => D1 = D
    /\ e.type = "update_answer" => U1 = U \cup {e.answer.id}
    /\ e.type # "update_answer" => U1 = U

\* The browser has the answers that the server has, but for those that are still
\* deleted or updated.
LEMMA CoversHere ==
    ASSUME NEW i, NEW s \in Store, NEW st \in Sound, NEW e \in Update,
           e # Ignored, e.id = i, Applied(st, e).ok = TRUE,
           e.type = "create" => i \notin DOMAIN s,
           NEW D, NEW U, NEW D1, NEW U1,
           Lifts(e, D, U, D1, U1),
           i \in DOMAIN s /\ i \in DOMAIN st.com =>
              Covers(s[i].answers, st.com[i].answers, D1, U1),
           e.type = "update" => Covers(e.note.answers, st.com[i].answers, D, U),
           e.type = "add_answer" /\ i \in DOMAIN s =>
              Named(s[i].answers, e.answer.id) = {} \/ e.answer \in s[i].answers,
           i \in DOMAIN Received(s, e), i \in DOMAIN Applied(st, e).com
    PROVE  Covers(Received(s, e)[i].answers, Applied(st, e).com[i].answers, D, U)
<1> DEFINE r == Received(s, e)
           t == st.com
           u == Applied(st, e).com
           old == s[i].answers
           was == t[i].answers
<1>0. /\ e.type = "delete_answer" => D1 = D \cup {e.aid}
      /\ e.type # "delete_answer" => D1 = D
      /\ e.type = "update_answer" => U1 = U \cup {e.answer.id}
      /\ e.type # "update_answer" => U1 = U
  BY DEF Lifts
<1>1. /\ e.type = "create" => u[i].answers = {}
      /\ e.type = "delete" => i \notin DOMAIN u
      /\ e.type \notin {"create", "delete"} => i \in DOMAIN t
      /\ e.type = "update" => u[i].answers = was
      /\ e.type = "add_answer" => u[i].answers = was \cup {e.answer}
      /\ e.type = "delete_answer" => u[i].answers = was \ Named(was, e.aid)
      /\ e.type = "update_answer" =>
            u[i].answers = IF Named(was, e.answer.id) = {} THEN was
                           ELSE (was \ Named(was, e.answer.id)) \cup {e.answer}
  BY AnswersThere
<1>2. /\ e.type \notin {"create", "delete"} => i \in DOMAIN s
      /\ e.type = "update" /\ i \in DOMAIN s => r[i] = e.note
      /\ e.type = "add_answer" /\ i \in DOMAIN s =>
            r[i].answers = IF Named(old, e.answer.id) = {} THEN old \cup {e.answer} ELSE old
      /\ e.type = "delete_answer" /\ i \in DOMAIN s => r[i].answers = old \ Named(old, e.aid)
      /\ e.type = "update_answer" /\ i \in DOMAIN s =>
            r[i].answers = IF Named(old, e.answer.id) = {} THEN old
                           ELSE (old \ Named(old, e.answer.id)) \cup {e.answer}
  BY AnswersHere
<1>3. e.type \in Kind
  BY UpdateTyped
<1>4. i \in DOMAIN s /\ i \in DOMAIN t => Covers(old, was, D1, U1)
  OBVIOUS
<1>5. e.type = "update" => Covers(e.note.answers, was, D, U)
  OBVIOUS
<1>6. i \in DOMAIN r /\ i \in DOMAIN u
  OBVIOUS
<1> HIDE DEF r, t, u, old, was
<1>7. CASE e.type = "create"
  <2>1. Covers(r[i].answers, u[i].answers, D, U)
    BY <1>1, <1>7 DEF Covers
  <2> QED
    BY <2>1 DEF r, u
<1>8. CASE e.type = "delete"
  BY <1>1, <1>6, <1>8
<1>9. CASE e.type = "update"
  <2>1. Covers(r[i].answers, u[i].answers, D, U)
    BY <1>1, <1>2, <1>5, <1>9
  <2> QED
    BY <2>1 DEF r, u
<1>10. CASE e.type = "add_answer"
  <2>1. Covers(old, was, D, U)
    BY <1>0, <1>1, <1>2, <1>4, <1>10
  <2>2. Named(old, e.answer.id) = {} \/ e.answer \in old
    BY <1>2, <1>10 DEF old
  <2>3. Covers(IF Named(old, e.answer.id) = {} THEN old \cup {e.answer} ELSE old,
               was \cup {e.answer}, D, U)
    BY <2>1, <2>2, CoversAddBoth
  <2>4. Covers(r[i].answers, u[i].answers, D, U)
    BY <1>1, <1>2, <1>10, <2>3
  <2> QED
    BY <2>4 DEF r, u
<1>11. CASE e.type = "delete_answer"
  <2>1. Covers(old, was, D \cup {e.aid}, U)
    BY <1>0, <1>1, <1>2, <1>4, <1>11
  <2>2. Covers(old \ Named(old, e.aid), was \ Named(was, e.aid), D, U)
    BY <2>1, CoversDeleteBoth
  <2>3. Covers(r[i].answers, u[i].answers, D, U)
    BY <1>1, <1>2, <1>11, <2>2
  <2> QED
    BY <2>3 DEF r, u
<1>12. CASE e.type = "update_answer"
  <2>1. Covers(old, was, D, U \cup {e.answer.id})
    BY <1>0, <1>1, <1>2, <1>4, <1>12
  <2>2. Covers(IF Named(old, e.answer.id) = {} THEN old
               ELSE (old \ Named(old, e.answer.id)) \cup {e.answer},
               IF Named(was, e.answer.id) = {} THEN was
               ELSE (was \ Named(was, e.answer.id)) \cup {e.answer}, D, U)
    BY <2>1, CoversUpdateBoth
  <2>3. Covers(r[i].answers, u[i].answers, D, U)
    BY <1>1, <1>2, <1>12, <2>2
  <2> QED
    BY <2>3 DEF r, u
<1> QED
  BY <1>3, <1>7, <1>8, <1>9, <1>10, <1>11, <1>12 DEF Kind

\* So has the comment that a later update brings.
LEMMA NoteHere ==
    ASSUME NEW i, NEW st \in Sound, NEW e \in Update,
           e # Ignored, e.id = i, Applied(st, e).ok = TRUE,
           NEW as, e.type \in OfAnswer => e.answer \in as,
           NEW D, NEW U, NEW D1, NEW U1,
           Lifts(e, D, U, D1, U1),
           i \in DOMAIN st.com => Covers(as, st.com[i].answers, D1, U1),
           i \in DOMAIN Applied(st, e).com
    PROVE  Covers(as, Applied(st, e).com[i].answers, D, U)
<1> DEFINE t == st.com
           u == Applied(st, e).com
           was == t[i].answers
<1>0. /\ e.type = "delete_answer" => D1 = D \cup {e.aid}
      /\ e.type # "delete_answer" => D1 = D
      /\ e.type = "update_answer" => U1 = U \cup {e.answer.id}
      /\ e.type # "update_answer" => U1 = U
  BY DEF Lifts
<1>1. /\ e.type = "create" => u[i].answers = {}
      /\ e.type = "delete" => i \notin DOMAIN u
      /\ e.type \notin {"create", "delete"} => i \in DOMAIN t
      /\ e.type = "update" => u[i].answers = was
      /\ e.type = "add_answer" => u[i].answers = was \cup {e.answer}
      /\ e.type = "delete_answer" => u[i].answers = was \ Named(was, e.aid)
      /\ e.type = "update_answer" =>
            u[i].answers = IF Named(was, e.answer.id) = {} THEN was
                           ELSE (was \ Named(was, e.answer.id)) \cup {e.answer}
  BY AnswersThere
<1>3. e.type \in Kind
  BY UpdateTyped
<1>4. i \in DOMAIN t => Covers(as, was, D1, U1)
  OBVIOUS
<1>6. i \in DOMAIN u
  OBVIOUS
<1> HIDE DEF t, u, was
<1>7. CASE e.type = "create"
  <2>1. Covers(as, u[i].answers, D, U)
    BY <1>1, <1>7 DEF Covers
  <2> QED
    BY <2>1 DEF u
<1>8. CASE e.type = "delete"
  BY <1>1, <1>6, <1>8
<1>9. CASE e.type = "update"
  <2>1. Covers(as, u[i].answers, D, U)
    BY <1>0, <1>1, <1>4, <1>9
  <2> QED
    BY <2>1 DEF u
<1>10. CASE e.type = "add_answer"
  <2>1. Covers(as, was, D, U) /\ e.answer \in as
    BY <1>0, <1>1, <1>4, <1>10 DEF OfAnswer
  <2>2. Covers(as, was \cup {e.answer}, D, U)
    BY <2>1, CoversAdd
  <2>3. Covers(as, u[i].answers, D, U)
    BY <1>1, <1>10, <2>2
  <2> QED
    BY <2>3 DEF u
<1>11. CASE e.type = "delete_answer"
  <2>1. Covers(as, was, D \cup {e.aid}, U)
    BY <1>0, <1>1, <1>4, <1>11
  <2>2. Covers(as, was \ Named(was, e.aid), D, U)
    BY <2>1, CoversDelete
  <2>3. Covers(as, u[i].answers, D, U)
    BY <1>1, <1>11, <2>2
  <2> QED
    BY <2>3 DEF u
<1>12. CASE e.type = "update_answer"
  <2> DEFINE a == e.answer.id
             y == e.answer
  <2>1. Covers(as, was, D, U \cup {a}) /\ y \in as /\ y.id = a
    BY <1>0, <1>1, <1>4, <1>12 DEF OfAnswer
  <2> HIDE DEF a, y
  <2>2. Covers(as, IF Named(was, a) = {} THEN was ELSE (was \ Named(was, a)) \cup {y}, D, U)
    BY Zenon, <2>1, CoversUpdate
  <2>3. Covers(as, u[i].answers, D, U)
    BY <1>1, <1>12, <2>2 DEF a, y
  <2> QED
    BY <2>3 DEF u
<1> QED
  BY <1>3, <1>7, <1>8, <1>9, <1>10, <1>11, <1>12 DEF Kind

\* An answer y that is added later is not there, or is as it is there.
LEMMA AnswerStill ==
    ASSUME NEW i, NEW s \in Store, NEW e \in Update, e # Ignored, e.id = i,
           e.type = "create" => i \notin DOMAIN s,
           NEW y,
           e.type \in {"create", "update"} => y \in e.note.answers,
           e.type \in OfAnswer /\ e.answer.id = y.id => e.answer = y,
           i \in DOMAIN s => Named(s[i].answers, y.id) = {} \/ y \in s[i].answers,
           i \in DOMAIN Received(s, e)
    PROVE  LET as == Received(s, e)[i].answers IN Named(as, y.id) = {} \/ y \in as
<1> DEFINE r == Received(s, e)
           old == s[i].answers
<1>1. e.type = "create" \/ i \in DOMAIN s
  BY UpdateTyped, AnswersHere DEF Kind
<1>2. /\ e.type = "create" => r[i] = e.note
      /\ e.type = "delete" => i \notin DOMAIN r
      /\ e.type = "update" => r[i] = e.note
      /\ e.type = "add_answer" =>
            r[i].answers = IF Named(old, e.answer.id) = {} THEN old \cup {e.answer} ELSE old
      /\ e.type = "delete_answer" => r[i].answers = old \ Named(old, e.aid)
      /\ e.type = "update_answer" =>
            r[i].answers = IF Named(old, e.answer.id) = {} THEN old
                           ELSE (old \ Named(old, e.answer.id)) \cup {e.answer}
  BY <1>1, AnswersHere
<1>3. e.type \in Kind
  BY UpdateTyped
<1>4. i \in DOMAIN s => Named(old, y.id) = {} \/ y \in old
  OBVIOUS
<1>5. i \in DOMAIN r
  OBVIOUS
<1> HIDE DEF r, old
<1>6. Named(r[i].answers, y.id) = {} \/ y \in r[i].answers
  <2>1. CASE e.type \in {"create", "update"}
    BY <1>2, <2>1
  <2>2. CASE e.type = "delete"
    BY <1>2, <1>5, <2>2
  <2>3. CASE e.type = "add_answer"
    <3>1. Named(old, y.id) = {} \/ y \in old
      BY <1>1, <1>4, <2>3
    <3>2. e.answer.id = y.id => e.answer = y
      BY <2>3 DEF OfAnswer
    <3>3. CASE Named(old, e.answer.id) = {}
      <4>1. r[i].answers = old \cup {e.answer}
        BY <1>2, <2>3, <3>3
      <4> QED
        BY <3>1, <3>2, <4>1 DEF Named
    <3>4. CASE Named(old, e.answer.id) # {}
      <4>1. r[i].answers = old
        BY <1>2, <2>3, <3>4
      <4> QED
        BY <3>1, <4>1
    <3> QED
      BY <3>3, <3>4
  <2>4. CASE e.type = "delete_answer"
    <3>1. Named(old, y.id) = {} \/ y \in old
      BY <1>1, <1>4, <2>4
    <3>2. r[i].answers = old \ Named(old, e.aid)
      BY <1>2, <2>4
    <3> QED
      BY <3>1, <3>2 DEF Named
  <2>5. CASE e.type = "update_answer"
    <3>1. Named(old, y.id) = {} \/ y \in old
      BY <1>1, <1>4, <2>5
    <3>2. e.answer.id = y.id => e.answer = y
      BY <2>5 DEF OfAnswer
    <3>3. CASE Named(old, e.answer.id) = {}
      <4>1. r[i].answers = old
        BY <1>2, <2>5, <3>3
      <4> QED
        BY <3>1, <4>1
    <3>4. CASE Named(old, e.answer.id) # {}
      <4>1. r[i].answers = (old \ Named(old, e.answer.id)) \cup {e.answer}
        BY <1>2, <2>5, <3>4
      <4> QED
        BY <3>1, <3>2, <4>1 DEF Named
    <3> QED
      BY <3>3, <3>4
  <2> QED
    BY <1>3, <2>1, <2>2, <2>3, <2>4, <2>5 DEF Kind
<1> QED
  BY <1>6 DEF r

\* An update of the comment.
LEMMA MeetsHere ==
    ASSUME NEW au, NEW c, NEW W, NEW cu \in Seq(Update), Coherent(cu),
           NEW p \in Nat, p < Len(cu), NEW i,
           NEW e \in Update, e = cu[p + 1], e # Ignored, e.id = i,
           \A j, k \in Later(cu, p, "create", i) : j = k,
           NEW s \in Store, NEW st \in Sound, Applied(st, e).ok = TRUE,
           Meets(au, c, W, cu, p, s, st.com, i)
    PROVE  Meets(au, c, W, cu, p + 1, Received(s, e), Applied(st, e).com, i)
<1> DEFINE r == Received(s, e)
           t == st.com
           u == Applied(st, e).com
           q == p + 1
<1>0. Len(cu) \in Nat
  BY LenProperties
<1>1. /\ Later(cu, q, "create", i) \subseteq Later(cu, p, "create", i)
      /\ Later(cu, q, "update", i) \subseteq Later(cu, p, "update", i)
      /\ Later(cu, q, "add_answer", i) \subseteq Later(cu, p, "add_answer", i)
  BY <1>0, LaterLess
<1>2. \A kind : e.type = kind => q \in Later(cu, p, kind, i)
  BY <1>0 DEF Later
<1>3. \A kind : q \notin Later(cu, q, kind, i)
  BY DEF Later
<1>4. e.type = "create" => i \notin DOMAIN s /\ ~Has(W, {"delete"}, i)
  BY <1>2 DEF Meets
<1>5. Shows(W, r, u, i)
  BY <1>4, ShowsHere DEF Meets
<1>6. ASSUME Later(cu, q, "create", i) # {}
      PROVE  i \notin DOMAIN r /\ ~Has(W, {"delete"}, i)
  <2>1. i \notin DOMAIN s /\ ~Has(W, {"delete"}, i)
    BY <1>1, <1>6 DEF Meets
  <2>2. e.type # "create"
    BY <1>1, <1>2, <1>3, <1>6
  <2>3. i \notin DOMAIN r
    BY <2>1, <2>2, AnswersHere
  <2> QED
    BY <2>1, <2>3
<1>7. ASSUME Open(au, c, i)
      PROVE  /\ i \in DOMAIN r /\ i \in DOMAIN u =>
                   Covers(r[i].answers, u[i].answers,
                          Waits(W, "delete_answer", i) \cup Dels(cu, q, i),
                          Waits(W, "update_answer", i) \cup Upds(cu, q, i))
             /\ i \in DOMAIN u => \A k \in Later(cu, q, "update", i) :
                   Covers(cu[k].note.answers, u[i].answers, Dels(cu, q, i), Upds(cu, q, i))
             /\ i \in DOMAIN r => \A k \in Later(cu, q, "add_answer", i) :
                   Named(r[i].answers, cu[k].answer.id) = {} \/ cu[k].answer \in r[i].answers
  <2>1. /\ i \in DOMAIN s /\ i \in DOMAIN t =>
              Covers(s[i].answers, t[i].answers,
                     Waits(W, "delete_answer", i) \cup Dels(cu, p, i),
                     Waits(W, "update_answer", i) \cup Upds(cu, p, i))
        /\ i \in DOMAIN t => \A k \in Later(cu, p, "update", i) :
              Covers(cu[k].note.answers, t[i].answers, Dels(cu, p, i), Upds(cu, p, i))
        /\ i \in DOMAIN s => \A k \in Later(cu, p, "add_answer", i) :
              Named(s[i].answers, cu[k].answer.id) = {} \/ cu[k].answer \in s[i].answers
    BY <1>7 DEF Meets
  <2>2. PICK D, D1, U, U1 : /\ D = Dels(cu, q, i) /\ D1 = Dels(cu, p, i)
                            /\ U = Upds(cu, q, i) /\ U1 = Upds(cu, p, i)
    OBVIOUS
  <2>3. /\ e.type = "delete_answer" => D1 = D \cup {e.aid}
        /\ e.type # "delete_answer" => D1 = D
    BY <1>0, <2>2, DelsStep
  <2>4. /\ e.type = "update_answer" => U1 = U \cup {e.answer.id}
        /\ e.type # "update_answer" => U1 = U
    BY <1>0, <2>2, UpdsStep
  <2>5. PICK X, X1, Y, Y1 : /\ X = Waits(W, "delete_answer", i) \cup D
                            /\ X1 = Waits(W, "delete_answer", i) \cup D1
                            /\ Y = Waits(W, "update_answer", i) \cup U
                            /\ Y1 = Waits(W, "update_answer", i) \cup U1
    OBVIOUS
  <2>6. /\ e.type = "delete_answer" => X1 = X \cup {e.aid}
        /\ e.type # "delete_answer" => X1 = X
        /\ e.type = "update_answer" => Y1 = Y \cup {e.answer.id}
        /\ e.type # "update_answer" => Y1 = Y
        /\ D \subseteq X /\ U \subseteq Y
    BY <2>3, <2>4, <2>5
  <2>7. ASSUME i \in DOMAIN r, i \in DOMAIN u
        PROVE  Covers(r[i].answers, u[i].answers, X, Y)
    <3>1. i \in DOMAIN s /\ i \in DOMAIN t => Covers(s[i].answers, t[i].answers, X1, Y1)
      BY <2>1, <2>2, <2>5
    <3>2. ASSUME e.type = "update"
          PROVE  Covers(e.note.answers, t[i].answers, X, Y)
      <4>1. i \in DOMAIN t
        BY <3>2, AnswersThere
      <4>2. Covers(cu[q].note.answers, t[i].answers, D1, U1)
        BY <1>2, <2>1, <2>2, <3>2, <4>1
      <4>3. Covers(e.note.answers, t[i].answers, D, U)
        BY <2>3, <2>4, <3>2, <4>2
      <4> QED
        BY <2>6, <4>3, CoversMore
    <3>3. e.type = "add_answer" /\ i \in DOMAIN s =>
             Named(s[i].answers, e.answer.id) = {} \/ e.answer \in s[i].answers
      BY <1>2, <2>1
    <3>4. Lifts(e, X, Y, X1, Y1)
      BY <2>6 DEF Lifts
    <3>5. e.type = "create" => i \notin DOMAIN s
      BY <1>4
    <3>6. e.type = "update" => Covers(e.note.answers, t[i].answers, X, Y)
      BY <3>2
    <3> QED
      BY <2>7, <3>1, <3>3, <3>4, <3>5, <3>6, CoversHere
  <2>8. ASSUME i \in DOMAIN u, NEW k \in Later(cu, q, "update", i)
        PROVE  Covers(cu[k].note.answers, u[i].answers, D, U)
    <3>1. PICK as : as = cu[k].note.answers
      OBVIOUS
    <3>2. e.type \in OfAnswer => e.answer \in as
      BY <1>0, <2>8, <3>1 DEF Later, Coherent, Ignored
    <3>3. i \in DOMAIN t => Covers(as, t[i].answers, D1, U1)
      BY <1>1, <2>1, <2>2, <2>8, <3>1
    <3>4. Lifts(e, D, U, D1, U1)
      BY <2>3, <2>4 DEF Lifts
    <3>5. Covers(as, u[i].answers, D, U)
      BY <2>8, <3>2, <3>3, <3>4, NoteHere
    <3> QED
      BY <3>1, <3>5
  <2>9. ASSUME i \in DOMAIN r, NEW k \in Later(cu, q, "add_answer", i)
        PROVE  Named(r[i].answers, cu[k].answer.id) = {} \/ cu[k].answer \in r[i].answers
    <3>1. PICK y : y = cu[k].answer
      OBVIOUS
    <3>2. k \in 1 .. Len(cu) /\ cu[k].type \in OfAnswer /\ cu[k] # Ignored /\ cu[k].id = i
      BY <1>0, <2>9 DEF Later, Ignored, OfAnswer
    <3>3. q \in 1 .. Len(cu) /\ e = cu[q]
      BY <1>0
    <3>4. /\ e.type \in {"create", "update"} => y \in e.note.answers
          /\ e.type \in OfAnswer /\ e.answer.id = y.id => e.answer = y
      BY <3>1, <3>2, <3>3 DEF Coherent
    <3>5. i \in DOMAIN s => Named(s[i].answers, y.id) = {} \/ y \in s[i].answers
      BY <1>1, <2>1, <2>9, <3>1
    <3>6. Named(r[i].answers, y.id) = {} \/ y \in r[i].answers
      BY <1>4, <2>9, <3>4, <3>5, AnswerStill
    <3> QED
      BY <3>1, <3>6
  <2> QED
    BY <2>2, <2>5, <2>7, <2>8, <2>9
<1> HIDE DEF r, u, q
<1>8. Meets(au, c, W, cu, q, r, u, i)
  BY <1>5, <1>6, <1>7 DEF Meets
<1> QED
  BY <1>8 DEF r, u, q

\* It is not shown.
LEMMA MeetsMissed ==
    ASSUME NEW au, NEW c, NEW W, NEW cu \in Seq(Update),
           NEW p \in Nat, p < Len(cu), NEW i,
           NEW e \in Update, e = cu[p + 1], e # Ignored, e.id = i,
           e.type \notin {"create", "update", "delete"}, ~Open(au, c, i),
           NEW s \in Store, NEW st \in Sound, Applied(st, e).ok = TRUE,
           Meets(au, c, W, cu, p, s, st.com, i)
    PROVE  Meets(au, c, W, cu, p + 1, s, Applied(st, e).com, i)
<1>0. Len(cu) \in Nat
  BY LenProperties
<1>1. Later(cu, p + 1, "create", i) \subseteq Later(cu, p, "create", i)
  BY <1>0, LaterLess
<1>2. Shows(W, s, Applied(st, e).com, i)
  BY ShowsMissed DEF Meets
<1>3. Later(cu, p + 1, "create", i) # {} => i \notin DOMAIN s /\ ~Has(W, {"delete"}, i)
  BY <1>1 DEF Meets
<1> QED
  BY <1>2, <1>3 DEF Meets

\* When all updates have been handled, the browser mirrors the server.
LEMMA MeetsOver ==
    ASSUME NEW au, NEW c, NEW W, NEW cu, Len(cu) \in Nat, NEW s, NEW t, NEW i,
           Meets(au, c, W, cu, Len(cu), s, t, i)
    PROVE  Mirror(au, c, W, s, t, i)
<1>1. Len(cu) + 1 .. Len(cu) = {}
  OBVIOUS
<1>2. Dels(cu, Len(cu), i) = {} /\ Upds(cu, Len(cu), i) = {}
  BY <1>1 DEF Dels, Upds
<1>3. ASSUME Open(au, c, i), i \in DOMAIN s, i \in DOMAIN t
      PROVE  Covers(s[i].answers, t[i].answers,
                    Waits(W, "delete_answer", i), Waits(W, "update_answer", i))
  <2>1. Covers(s[i].answers, t[i].answers,
               Waits(W, "delete_answer", i) \cup Dels(cu, Len(cu), i),
               Waits(W, "update_answer", i) \cup Upds(cu, Len(cu), i))
    BY <1>3 DEF Meets
  <2>2. \A X : X \cup {} = X
    OBVIOUS
  <2> QED
    BY <1>2, <2>1, <2>2
<1> QED
  BY <1>3 DEF Meets, Mirror

\* What comes to a browser leaves it as the server is, but for what it waits to send.
LEMMA ReceivedMirrors ==
    ASSUME NEW au, NEW c, NEW W, NEW cu \in Seq(Update), NEW mu \in Seq(Update),
           Passes(au, c, cu, mu), Coherent(cu),
           NEW b \in Sound, NEW s \in Store, NEW i \in Id, Sees(au, c, i),
           \A j, k \in Later(cu, 0, "create", i) : j = k,
           FoldLeft(Applied, b, cu).ok = TRUE \/ ~Concerns(cu, i),
           Meets(au, c, W, cu, 0, s, b.com, i)
    PROVE  Mirror(au, c, W, FoldLeft(Received, s, mu), FoldLeft(Applied, b, cu).com, i)
<1>1. PICK n \in Nat, m \in Nat : n = Len(cu) /\ m = Len(mu)
  BY LenProperties
<1>2. (\A j \in 1 .. n : cu[j] \in Update) /\ \A j \in 1 .. m : mu[j] \in Update
  BY <1>1, ElementOfSeq
<1>3. PICK f \in [Nat -> Sound] : /\ f[0] = b /\ f[n] = FoldLeft(Applied, b, cu)
                                  /\ \A j \in 1 .. n : f[j] = Applied(f[j - 1], cu[j])
  <2>1. \E f \in [Nat -> Sound] :
           /\ f[0] = b /\ f[Len(cu)] = FoldLeft(Applied, b, cu)
           /\ \A j \in 1 .. Len(cu) : f[j] = Applied(f[j - 1], cu[j])
    BY Zenon, AppliedTrace
  <2> QED
    BY Zenon, <1>1, <2>1
<1>4. PICK g \in [Nat -> Store] : /\ g[0] = s /\ g[m] = FoldLeft(Received, s, mu)
                                  /\ \A j \in 1 .. m : g[j] = Received(g[j - 1], mu[j])
  <2>1. \E g \in [Nat -> Store] :
           /\ g[0] = s /\ g[Len(mu)] = FoldLeft(Received, s, mu)
           /\ \A j \in 1 .. Len(mu) : g[j] = Received(g[j - 1], mu[j])
    BY Zenon, ReceivedTrace
  <2> QED
    BY Zenon, <1>1, <2>1
<1>5. PICK pos \in [Nat -> Nat] :
         /\ pos[0] = 0 /\ pos[n] = m
         /\ \A k \in 1 .. n :
               \/ pos[k] = pos[k - 1] /\ MayMiss(au, c, cu[k])
               \/ /\ pos[k] = pos[k - 1] + 1 /\ pos[k] \in 1 .. m
                  /\ mu[pos[k]] = cu[k] /\ MayGet(au, c, cu[k])
  BY <1>1 DEF Passes
<1>6. \A j \in 1 .. n : f[j].ok = TRUE \/ cu[j] = Ignored \/ cu[j].id # i
  <2>1. CASE f[n].ok = TRUE
    <3>1. \A j \in 0 .. n : f[j].ok = TRUE
      BY <1>2, <1>3, <2>1, AllOk
    <3> QED
      BY <3>1
  <2>2. CASE ~Concerns(cu, i)
    BY <1>1, <2>2 DEF Concerns
  <2> QED
    BY <1>3, <2>1, <2>2
<1> DEFINE S == {p \in Nat : p <= n => Meets(au, c, W, cu, p, g[pos[p]], f[p].com, i)}
<1>7. 0 \in S
  BY <1>3, <1>4, <1>5
<1>8. ASSUME NEW p \in Nat, p \in S
      PROVE  p + 1 \in S
  <2>1. CASE p + 1 <= n
    <3>1. PICK j \in Nat : j = p + 1 /\ j \in 1 .. n /\ j - 1 = p
      BY <2>1
    <3>2. PICK e \in Update : e = cu[j]
      BY <1>2, <3>1
    <3>3. PICK st \in Sound, v \in Store : st = f[p] /\ v = g[pos[p]]
      OBVIOUS
    <3>4. Meets(au, c, W, cu, p, v, st.com, i)
      <4>1. p <= n /\ Meets(au, c, W, cu, p, g[pos[p]], f[p].com, i)
        BY <1>8, <2>1
      <4> QED
        BY <3>3, <4>1
    <3>5. f[j] = Applied(st, e)
      BY <1>3, <3>1, <3>2, <3>3
    <3>6. e = Ignored \/ e.id # i \/ Applied(st, e).ok = TRUE
      BY <1>6, <3>1, <3>2, <3>5
    <3>7. p < Len(cu) /\ e = cu[p + 1] /\ Len(cu) \in Nat
      BY <1>1, <2>1, <3>1, <3>2
    <3>8. \/ g[pos[j]] = v /\ MayMiss(au, c, e)
          \/ g[pos[j]] = Received(v, e)
      <4>1. CASE pos[j] = pos[p] /\ MayMiss(au, c, e)
        BY <3>3, <4>1
      <4>2. CASE pos[j] = pos[p] + 1 /\ pos[j] \in 1 .. m /\ mu[pos[j]] = e
        <5>1. PICK k \in 1 .. m : k = pos[j]
          BY <4>2
        <5>2. g[k] = Received(g[pos[p]], mu[k])
          <6>1. PICK z \in Nat : z = pos[p]
            OBVIOUS
          <6>2. k = z + 1 /\ k - 1 = z
            BY <4>2, <5>1, <6>1
          <6>3. g[k] = Received(g[k - 1], mu[k])
            BY <1>4
          <6>4. g[k] = Received(g[z], mu[k])
            BY <6>2, <6>3
          <6> QED
            BY <6>1, <6>4
        <5> QED
          BY <3>3, <4>2, <5>1, <5>2
      <4> QED
        BY <1>5, <3>1, <3>2, <4>1, <4>2
    <3>9. Meets(au, c, W, cu, p + 1, g[pos[j]], Applied(st, e).com, i)
      <4>1. CASE e = Ignored \/ e.id # i
        <5>1. Same(v, v, i) /\ Same(v, Received(v, e), i)
          BY <4>1, ReceivedElsewhere DEF Same
        <5>2. Same(st.com, Applied(st, e).com, i)
          BY <4>1, AppliedElsewhere
        <5>3. Same(v, g[pos[j]], i)
          BY <3>8, <5>1
        <5>4. PICK r, t, u : r = g[pos[j]] /\ t = st.com /\ u = Applied(st, e).com
          OBVIOUS
        <5>5. Meets(au, c, W, cu, p + 1, r, u, i)
          BY <3>4, <3>7, <4>1, <5>2, <5>3, <5>4, MeetsElsewhere
        <5> QED
          BY <5>4, <5>5
      <4>2. CASE e # Ignored /\ e.id = i /\ Applied(st, e).ok = TRUE
        <5>1. CASE g[pos[j]] = Received(v, e)
          <6>1. Later(cu, p, "create", i) \subseteq Later(cu, 0, "create", i)
            <7>1. p + 1 .. Len(cu) \subseteq 0 + 1 .. Len(cu)
              BY <3>7
            <7> QED
              BY <7>1 DEF Later
          <6>2. \A k, l \in Later(cu, p, "create", i) : k = l
            BY <6>1
          <6>3. Meets(au, c, W, cu, p + 1, Received(v, e), Applied(st, e).com, i)
            BY <3>4, <3>7, <4>2, <6>2, MeetsHere
          <6> QED
            BY <5>1, <6>3
        <5>2. CASE g[pos[j]] = v /\ MayMiss(au, c, e)
          <6>1. e.type \notin {"create", "update", "delete"} /\ ~Open(au, c, i)
            BY <4>2, <5>2 DEF MayMiss, Sees, Open
          <6>2. Meets(au, c, W, cu, p + 1, v, Applied(st, e).com, i)
            BY <3>4, <3>7, <4>2, <6>1, MeetsMissed
          <6> QED
            BY <5>2, <6>2
        <5> QED
          BY <3>8, <5>1, <5>2
      <4> QED
        BY <3>6, <4>1, <4>2
    <3> QED
      BY <3>1, <3>5, <3>9
  <2> QED
    BY <2>1
<1> HIDE DEF S
<1>9. Nat \subseteq S
  BY <1>7, <1>8, SetInduction
<1>10. Meets(au, c, W, cu, n, g[m], f[n].com, i)
  <2>1. n \in S
    BY <1>9
  <2> QED
    BY <1>5, <2>1 DEF S
<1> QED
  BY <1>1, <1>3, <1>4, <1>10, MeetsOver

\* Before the first update.
LEMMA MeetsFirst ==
    ASSUME NEW au, NEW c, NEW W, NEW cu \in Seq(Update), NEW s, NEW t, NEW i,
           Mirror(au, c, W, s, t, i), Open(au, c, i) => Fits(t, cu, i),
           Later(cu, 0, "create", i) # {} => i \notin DOMAIN s /\ ~Has(W, {"delete"}, i),
           i \in DOMAIN s => \A k \in Later(cu, 0, "add_answer", i) :
              Named(s[i].answers, cu[k].answer.id) = {}
    PROVE  Meets(au, c, W, cu, 0, s, t, i)
<1>1. ASSUME Open(au, c, i), i \in DOMAIN s, i \in DOMAIN t
      PROVE  Covers(s[i].answers, t[i].answers,
                    Waits(W, "delete_answer", i) \cup Dels(cu, 0, i),
                    Waits(W, "update_answer", i) \cup Upds(cu, 0, i))
  <2>1. Covers(s[i].answers, t[i].answers,
               Waits(W, "delete_answer", i), Waits(W, "update_answer", i))
    BY <1>1 DEF Mirror
  <2> QED
    BY <2>1, CoversMore
<1>2. ASSUME Open(au, c, i), i \in DOMAIN t, NEW k \in Later(cu, 0, "update", i)
      PROVE  Covers(cu[k].note.answers, t[i].answers, Dels(cu, 0, i), Upds(cu, 0, i))
  <2>1. k \in 1 .. Len(cu) /\ cu[k].type = "update" /\ cu[k].id = i
    BY <1>2 DEF Later
  <2> QED
    BY <1>2, <2>1 DEF Fits
<1> QED
  BY <1>1, <1>2 DEF Meets, Mirror

-----------------------------------------------------------------------------
(* What is shown of a diff.                                                *)

\* What ShownTo keeps of a diff is what the filter passes, if each update is judged
\* as the filter judges it.
LEMMA ShownPasses ==
    ASSUME NEW au, NEW d, NEW cu \in Seq(Update),
           \A k \in 1 .. Len(cu) : IF Shown(d, cu[k]) THEN MayGet(au, d, cu[k])
                                                      ELSE MayMiss(au, d, cu[k])
    PROVE  Passes(au, d, cu, ShownTo(d, cu))
<1>1. PICK n \in Nat : n = Len(cu) /\ DOMAIN cu = 1 .. n
  BY LenProperties
<1> DEFINE part(k) == IF Shown(d, cu[k]) THEN <<cu[k]>> ELSE <<>>
           begin(k) == [j \in 1 .. k |-> part(j)]
           F == [k \in 0 .. n |-> FlattenSeq(begin(k))]
<1>2. \A k \in 1 .. n : part(k) \in Seq(Update)
  <2>1. \A k \in 1 .. n : <<cu[k]>> \in Seq(Update) /\ <<>> \in Seq(Update)
    BY <1>1, ElementOfSeq
  <2> QED
    BY <2>1
<1>3. ShownTo(d, cu) = F[n] /\ DOMAIN F = 0 .. n
  BY <1>1 DEF ShownTo
<1> HIDE DEF part
<1>4. \A k \in 0 .. n : /\ begin(k) \in Seq(Seq(Update)) /\ Len(begin(k)) = k
                        /\ \A j \in 1 .. k : begin(k)[j] = part(j)
  <2> TAKE k \in 0 .. n
  <2>1. begin(k) \in [1 .. k -> Seq(Update)]
    BY <1>2
  <2>2. begin(k) \in Seq(Seq(Update))
    BY <2>1
  <2> QED
    BY <2>1, <2>2
<1>5. \A k \in 0 .. n : F[k] = FlattenSeq(begin(k))
  OBVIOUS
<1> HIDE DEF begin, F
<1>6. \A k \in 1 .. n : /\ k - 1 \in 0 .. n /\ k \in 0 .. n /\ F[k] = F[k - 1] \o part(k)
                        /\ F[k - 1] \in Seq(Update)
  <2> TAKE k \in 1 .. n
  <2>1. PICK j \in Nat : j = k - 1 /\ k = j + 1 /\ j \in 0 .. n /\ k \in 0 .. n /\ k \in Nat /\ k \in 1 .. k
    OBVIOUS
  <2>2. PICK s \in Seq(Seq(Update)), t \in Seq(Seq(Update)) : s = begin(j) /\ t = begin(k)
    BY <1>4, <2>1
  <2>3. /\ Len(s) = j /\ Len(t) = k /\ t[k] = part(k)
        /\ \A i \in 1 .. j : s[i] = t[i]
    <3>1. Len(begin(j)) = j /\ \A i \in 1 .. j : begin(j)[i] = part(i)
      BY <1>4, <2>1
    <3>2. Len(begin(k)) = k /\ \A i \in 1 .. k : begin(k)[i] = part(i)
      BY <1>4, <2>1
    <3>3. Len(s) = j /\ \A i \in 1 .. j : s[i] = part(i)
      BY Zenon, <2>2, <3>1
    <3>4. Len(t) = k /\ \A i \in 1 .. k : t[i] = part(i)
      BY Zenon, <2>2, <3>2
    <3>5. 1 .. j \subseteq 1 .. k
      BY <2>1
    <3>6. \A i \in 1 .. j : s[i] = t[i]
      BY Zenon, <3>3, <3>4, <3>5
    <3> QED
      BY Zenon, <2>1, <3>3, <3>4, <3>6
  <2>4. FlattenSeq(s) \in Seq(Update) /\ FlattenSeq(t) = FlattenSeq(s) \o t[k]
    <3> DEFINE T == Update
    <3>1. s \in Seq(Seq(T)) /\ t \in Seq(Seq(T)) /\ j \in Nat /\ k \in Nat
      BY <2>1
    <3> HIDE DEF T
    <3>2. OneMore(T, s, t, j, k)
      BY <2>1, <2>3, <3>1 DEF OneMore
    <3>3. FlattenSeq(s) \in Seq(T) /\ FlattenSeq(t) = FlattenSeq(s) \o t[k]
      BY <3>2, FlattenStep
    <3> QED
      BY <2>1, <3>3 DEF T
  <2> QED
    BY <1>5, <2>1, <2>2, <2>3, <2>4
<1>7. F[0] = <<>>
  <2>1. begin(0) = <<>>
    BY DEF begin
  <2>2. FlattenSeq(<<>>) = <<>>
    <3>1. Len(<<>>) = 0
      OBVIOUS
    <3> QED
      BY <3>1, EmptySeq DEF FlattenSeq
  <2> QED
    BY <1>5, <2>1, <2>2
<1>8. \A k \in 0 .. n : F[k] \in Seq(Update)
  <2> TAKE k \in 0 .. n
  <2>1. CASE k = 0
    <3>1. <<>> \in Seq(Update)
      OBVIOUS
    <3> QED
      BY <1>7, <2>1, <3>1
  <2>2. CASE k \in 1 .. n
    <3>0. F[k - 1] \in Seq(Update) /\ part(k) \in Seq(Update)
      <4>1. F[k - 1] \in Seq(Update)
        BY <1>6, <2>2
      <4>2. part(k) \in Seq(Update)
        BY <1>2, <2>2
      <4> QED
        BY <4>1, <4>2
    <3>1. PICK G \in Seq(Update), y \in Seq(Update) : G = F[k - 1] /\ y = part(k)
      BY Zenon, <3>0
    <3>2. G \o y \in Seq(Update)
      BY ConcatProperties
    <3>3. F[k] = F[k - 1] \o part(k)
      BY <1>6, <2>2
    <3>4. F[k] = G \o y
      BY Zenon, <3>1, <3>3
    <3> QED
      BY <3>2, <3>4
  <2> QED
    BY <2>1, <2>2
<1> DEFINE pos == [k \in Nat |-> IF k \in 0 .. n THEN Len(F[k]) ELSE 0]
<1>9. pos \in [Nat -> Nat] /\ \A k \in 0 .. n : pos[k] = Len(F[k])
  BY <1>8, LenProperties
<1> HIDE DEF pos
<1>10. \A k \in 1 .. n : IF Shown(d, cu[k])
                         THEN /\ pos[k] = pos[k - 1] + 1 /\ F[k][pos[k]] = cu[k]
                              /\ \A i \in 1 .. pos[k - 1] : F[k][i] = F[k - 1][i]
                         ELSE F[k] = F[k - 1]
  <2> TAKE k \in 1 .. n
  <2>1. PICK G \in Seq(Update), l \in Nat : G = F[k - 1] /\ l = Len(G) /\ pos[k - 1] = l
    BY <1>6, <1>9, LenProperties
  <2>2. F[k] = G \o part(k) /\ pos[k] = Len(F[k])
    BY <1>6, <1>9, <2>1
  <2>3. CASE Shown(d, cu[k])
    <3>1. part(k) = <<cu[k]>> /\ <<cu[k]>> \in Seq(Update)
      BY <1>2, <2>3 DEF part
    <3>2. PICK y \in Seq(Update) : y = <<cu[k]>> /\ Len(y) = 1 /\ y[1] = cu[k]
      BY <3>1
    <3>3. /\ Len(G \o y) = l + 1 /\ (G \o y)[l + 1] = y[1]
          /\ \A i \in 1 .. l : (G \o y)[i] = G[i]
      BY <2>1, <3>2, ConcatProperties
    <3> QED
      BY <2>1, <2>2, <2>3, <3>1, <3>2, <3>3
  <2>4. CASE ~Shown(d, cu[k])
    <3>1. F[k] = G \o <<>>
      BY <2>2, <2>4 DEF part
    <3>2. F[k] = G
      BY <3>1, ConcatEmptySeq
    <3> QED
      BY <2>1, <2>4, <3>2
  <2> QED
    BY <2>3, <2>4
\* What has been taken stays where it is.
<1>11. \A k \in 0 .. n : pos[k] <= pos[n] /\ \A i \in 1 .. pos[k] : F[n][i] = F[k][i]
  <2> DEFINE S == {m \in Nat : \A k \in 0 .. n : k + m = n =>
                      pos[k] <= pos[n] /\ \A i \in 1 .. pos[k] : F[n][i] = F[k][i]}
  <2>1. 0 \in S
    <3>1. pos[n] \in Nat
      BY <1>9
    <3> QED
      BY <3>1
  <2>2. ASSUME NEW m \in Nat, m \in S
        PROVE  m + 1 \in S
    <3>1. ASSUME NEW k \in 0 .. n, k + (m + 1) = n
          PROVE  pos[k] <= pos[n] /\ \A i \in 1 .. pos[k] : F[n][i] = F[k][i]
      <4>1. PICK j \in 1 .. n : j = k + 1 /\ j - 1 = k /\ j \in 0 .. n /\ j + m = n
        BY <3>1
      <4>2. pos[j] <= pos[n] /\ \A i \in 1 .. pos[j] : F[n][i] = F[j][i]
        BY <2>2, <4>1
      <4>3. PICK a, b, z \in Nat : a = pos[k] /\ b = pos[j] /\ z = pos[n]
        BY <1>9
      <4>4. \/ b = a + 1 /\ \A i \in 1 .. a : F[j][i] = F[k][i]
            \/ F[j] = F[k] /\ b = a
        <5>1. pos[j] = Len(F[j]) /\ pos[k] = Len(F[k])
          BY <1>9, <4>1
        <5> QED
          BY <1>10, <4>1, <4>3, <5>1
      <4>5. b <= z /\ \A i \in 1 .. b : F[n][i] = F[j][i]
        BY <4>2, <4>3
      <4>6. a <= z /\ \A i \in 1 .. a : F[n][i] = F[k][i]
        BY <4>4, <4>5
      <4> QED
        BY <4>3, <4>6
    <3>2. m + 1 \in Nat
      OBVIOUS
    <3> QED
      BY <3>1, <3>2
  <2> HIDE DEF S
  <2>3. Nat \subseteq S
    BY <2>1, <2>2, SetInduction
  <2> QED
    <3> TAKE k \in 0 .. n
    <3>1. PICK m \in Nat : k + m = n
      <4>1. n - k \in Nat /\ k + (n - k) = n
        OBVIOUS
      <4> QED
        BY <4>1
    <3> QED
      BY <2>3, <3>1 DEF S
<1>12. /\ pos[0] = 0 /\ pos[n] = Len(F[n])
       /\ \A k \in 1 .. n :
             \/ pos[k] = pos[k - 1] /\ MayMiss(au, d, cu[k])
             \/ /\ pos[k] = pos[k - 1] + 1 /\ pos[k] \in 1 .. Len(F[n])
                /\ F[n][pos[k]] = cu[k] /\ MayGet(au, d, cu[k])
  <2>1. pos[0] = 0 /\ pos[n] = Len(F[n])
    <3>1. Len(<<>>) = 0
      OBVIOUS
    <3> QED
      BY <1>7, <1>9, <3>1
  <2>2. ASSUME NEW k \in 1 .. n
        PROVE  \/ pos[k] = pos[k - 1] /\ MayMiss(au, d, cu[k])
               \/ /\ pos[k] = pos[k - 1] + 1 /\ pos[k] \in 1 .. Len(F[n])
                  /\ F[n][pos[k]] = cu[k] /\ MayGet(au, d, cu[k])
    <3>1. k \in 0 .. n /\ k - 1 \in 0 .. n /\ k \in 1 .. Len(cu)
      BY <1>1
    <3>2. CASE Shown(d, cu[k])
      <4>0. k \in Nat /\ k - 1 \in Nat
        OBVIOUS
      <4>1. PICK a, b, z \in Nat : a = pos[k - 1] /\ b = pos[k] /\ z = pos[n]
        BY <1>9, <4>0
      <4>2. b = a + 1 /\ F[k][b] = cu[k] /\ b <= z /\ \A i \in 1 .. b : F[n][i] = F[k][i]
        BY <1>10, <1>11, <3>1, <3>2, <4>1
      <4>3. b \in 1 .. z /\ F[n][b] = cu[k]
        BY <4>2
      <4>4. MayGet(au, d, cu[k])
        BY <3>1, <3>2
      <4> QED
        BY <2>1, <4>1, <4>2, <4>3, <4>4
    <3>3. CASE ~Shown(d, cu[k])
      <4>1. MayMiss(au, d, cu[k])
        BY <3>1, <3>3
      <4>2. F[k] = F[k - 1]
        BY <1>10, <3>3
      <4> QED
        BY <1>9, <3>1, <4>1, <4>2
    <3> QED
      BY <3>2, <3>3
  <2> QED
    BY <2>1, <2>2
<1> QED
  BY <1>1, <1>3, <1>9, <1>12 DEF Passes

-----------------------------------------------------------------------------
(* What stays.                                                             *)

\* What was heard by a version stays heard by it, and nothing is added.
LEMMA HeardStays ==
    ASSUME hist \in Seq(Diff), Kept, NEW v \in Nat, v <= Len(hist), NEW n
    PROVE  HeardBy(v, n)' <=> HeardBy(v, n)
<1>1. \A k \in 1 .. v : k \in 1 .. Len(hist)
  BY LenProperties
<1>2. \A k \in 1 .. v : hist'[k] = hist[k]
  BY <1>1 DEF Kept
<1> QED
  BY <1>2 DEF HeardBy

\* c knows what it knew.
LEMMA KnowsMore ==
    ASSUME Types, Types', NEW c \in Client, Kept, ver[c] <= Len(hist), ver[c] <= ver'[c],
           Range(done[c]) \subseteq Range(done'[c]), NEW n, Knows(c, n)
    PROVE  Knows(c, n)'
<1>1. PICK v \in Nat, w \in Nat : v = ver[c] /\ w = ver'[c]
  BY DEF Types
<1>2. CASE HeardBy(v, n)
  <2>1. hist \in Seq(Diff)
    BY DEF Types
  <2>2. HeardBy(v, n)'
    BY <1>1, <1>2, <2>1, HeardStays
  <2>3. v <= w
    BY <1>1
  <2>4. HeardBy(w, n)'
    BY <2>2, <2>3 DEF HeardBy
  <2> QED
    BY <1>1, <2>4 DEF Knows
<1> QED
  BY <1>1, <1>2 DEF Knows

\* What somebody did does not change its author.
Agree(a1, a2) == \A i \in Acts \cup {0} : a2[i] = a1[i]

\* Whatever is spoken of was done by somebody: it is in Acts.
LEMMA ActsThere ==
    ASSUME NEW c \in Client
    PROVE  Range(done[c]) \subseteq Acts
  BY DEF Acts

LEMMA SourcedActs ==
    ASSUME NEW au, NEW c \in Client, NEW cu, NEW acts \in Seq(Act), NEW v, Sourced(au, c, cu, acts, v)
    PROVE  Range(acts) \subseteq Acts
<1>1. \A j \in 1 .. Len(acts) : acts[j] \in Acts
  BY ActsThere DEF Sourced
<1>2. DOMAIN acts = 1 .. Len(acts)
  BY LenProperties
<1> QED
  BY <1>1, <1>2 DEF Range

LEMMA HeardActs ==
    ASSUME Types, NEW st, NEW au, Past(st, au), NEW v \in Nat, v <= Len(hist), NEW n, HeardBy(v, n)
    PROVE  n \in Acts
<1>1. PICK k \in 1 .. v : n \in Range(hist[k].acts)
  BY DEF HeardBy
<1>2. k \in 1 .. Len(hist) /\ hist \in Seq(Diff)
  BY LenProperties DEF Types
<1>3. hist[k].cid \in Client /\ hist[k].acts \in Seq(Act)
  BY <1>2, HistEntry
<1>4. Sourced(au, hist[k].cid, hist[k].cu, hist[k].acts, k - 1)
  BY <1>2 DEF Past, Entered, Sane
<1>5. Range(hist[k].acts) \subseteq Acts
  BY <1>3, <1>4, SourcedActs
<1> QED
  BY <1>1, <1>5

LEMMA ToldActs ==
    ASSUME Types, NEW st, NEW au, Past(st, au), NEW v \in Nat, v <= Len(hist),
           NEW acts, Range(acts) \subseteq Acts, NEW n, Told(v, acts, n)
    PROVE  n \in Acts \cup {0}
  BY HeardActs DEF Told

LEMMA KnowsActs ==
    ASSUME Types, NEW st, NEW au, Past(st, au), NEW c \in Client, ver[c] <= Len(hist),
           NEW n, Knows(c, n)
    PROVE  n \in Acts \cup {0}
<1>1. ver[c] \in Nat
  BY DEF Types
<1> QED
  BY <1>1, HeardActs, ActsThere DEF Knows

\* Where updates come from is not forgotten.
LEMMA SourcedStays ==
    ASSUME Types, NEW st, NEW au, Past(st, au), NEW c \in Client,
           NEW cu \in Seq(Update), NEW acts \in Seq(Act), NEW v \in Nat, v <= Len(hist),
           Sourced(au, c, cu, acts, v), Kept, Range(done[c]) \subseteq Range(done'[c]),
           NEW a2, Agree(au, a2)
    PROVE  Sourced(a2, c, cu, acts, v)'
<1>1. Range(acts) \subseteq Acts
  BY SourcedActs
<1>2. hist \in Seq(Diff)
  BY DEF Types
<1>3. \A n : Told(v, acts, n) => a2[n] = au[n] /\ Told(v, acts, n)'
  <2> TAKE n
  <2> HAVE Told(v, acts, n)
  <2>1. n \in Acts \cup {0}
    BY <1>1, ToldActs
  <2>2. HeardBy(v, n)' <=> HeardBy(v, n)
    BY <1>2, HeardStays
  <2> QED
    BY <2>1, <2>2 DEF Agree, Told
<1>4. /\ Len(cu) = Len(acts)
      /\ \A j \in 1 .. Len(acts) : /\ acts[j] \in Range(done'[c])
                                   /\ \A k \in 1 .. Len(acts) : acts[k] = acts[j] => k = j
  BY DEF Sourced
<1>5. \A j \in 1 .. Len(cu) :
         LET e == cu[j]
         IN  /\ e.type = "create" => e.id = acts[j]
             /\ e.type = "add_answer" => e.answer.id = acts[j]
             /\ e # Ignored => Told(v, acts, e.id)' /\ (c \in OwnOnly => a2[e.id] = c)
             /\ e.type \in OfAnswer => Told(v, acts, e.answer.id)'
             /\ e.type \in {"create", "update"} =>
                   e.note.by = a2[e.id] /\ \A x \in e.note.answers : Told(v, acts, x.id)'
  <2> TAKE j \in 1 .. Len(cu)
  <2>1. PICK e : e = cu[j]
    OBVIOUS
  <2>2. /\ e.type = "create" => e.id = acts[j]
        /\ e.type = "add_answer" => e.answer.id = acts[j]
        /\ e # Ignored => Told(v, acts, e.id) /\ (c \in OwnOnly => au[e.id] = c)
        /\ e.type \in OfAnswer => Told(v, acts, e.answer.id)
        /\ e.type \in {"create", "update"} =>
              e.note.by = au[e.id] /\ \A x \in e.note.answers : Told(v, acts, x.id)
    BY <2>1 DEF Sourced
  <2>3. e.type \in {"create", "update"} => e # Ignored
    BY DEF Ignored
  <2>4. /\ e.type = "create" => e.id = acts[j]
        /\ e.type = "add_answer" => e.answer.id = acts[j]
        /\ e # Ignored => Told(v, acts, e.id)' /\ (c \in OwnOnly => a2[e.id] = c)
        /\ e.type \in OfAnswer => Told(v, acts, e.answer.id)'
        /\ e.type \in {"create", "update"} =>
              e.note.by = a2[e.id] /\ \A x \in e.note.answers : Told(v, acts, x.id)'
    BY <1>3, <2>2, <2>3
  <2> QED
    BY <2>1, <2>4
<1> QED
  BY <1>4, <1>5 DEF Sourced

\* A diff that is sane stays so while people go on.
LEMMA SaneStays ==
    ASSUME Types, NEW st, NEW au, Past(st, au), NEW c \in Client,
           NEW cu \in Seq(Update), NEW acts \in Seq(Act), NEW v \in Nat, v <= Len(hist),
           NEW t, DOMAIN t.com \subseteq Acts \cup {0},
           Sane(au, c, cu, acts, v, t), Kept, Range(done[c]) \subseteq Range(done'[c]),
           failed \subseteq failed', NEW a2, Agree(au, a2)
    PROVE  Sane(a2, c, cu, acts, v, t)'
<1>1. Sourced(a2, c, cu, acts, v)'
  BY SourcedStays DEF Sane
<1>2. ASSUME NEW i \in Id \ failed', a2[i] \notin OwnOnly
      PROVE  Fits(t.com, cu, i)
  <2>1. CASE i \in Acts \cup {0}
    BY <1>2, <2>1 DEF Sane, Agree
  <2>2. CASE i \notin Acts \cup {0}
    BY <2>2 DEF Fits
  <2> QED
    BY <2>1, <2>2
<1> QED
  BY <1>1, <1>2 DEF Sane

\* No author changes, nothing done is forgotten, no failure is.
Lasting(au, a2) ==
    /\ Kept /\ Agree(au, a2) /\ failed \subseteq failed'
    /\ \A c \in Client : Range(done[c]) \subseteq Range(done'[c])

\* So does an entry of the history.
LEMMA EnteredStays ==
    ASSUME Types, NEW st, NEW au, Past(st, au), NEW k \in 1 .. Len(hist),
           NEW a2, Lasting(au, a2), NEW s2, s2[k] = st[k], s2[k - 1] = st[k - 1],
           NEW l, l = hist[k]
    PROVE  /\ l = hist'[k] /\ s2[k] = Run(s2[k - 1], l.cu)
           /\ s2[k].ok = TRUE \/ \A i \in Id : Concerns(l.cu, i) => i \in failed'
           /\ Sane(a2, l.cid, l.cu, l.acts, k - 1, s2[k - 1])'
           /\ Range(l.acts) \subseteq Acts
<1>1. hist \in Seq(Diff)
  BY DEF Types
<1>2. PICK p \in Nat : p = k - 1 /\ p <= Len(hist) /\ p \in 0 .. Len(hist)
  BY <1>1, LenProperties
<1>3. l.cid \in Client /\ l.cu \in Seq(Update) /\ l.acts \in Seq(Act)
  BY <1>1, HistEntry
<1>4. /\ st[k] = Run(st[p], l.cu)
      /\ st[k].ok = TRUE \/ \A i \in Id : Concerns(l.cu, i) => i \in failed
      /\ Sane(au, l.cid, l.cu, l.acts, p, st[p])
  BY <1>2 DEF Past, Entered
<1>5. DOMAIN st[p].com \subseteq Acts \cup {0}
  BY <1>2 DEF Past
<1>6. Sane(a2, l.cid, l.cu, l.acts, p, st[p])'
  <2>1. PICK t : t = st[p]
    OBVIOUS
  <2>2. /\ Kept /\ Agree(au, a2) /\ failed \subseteq failed'
        /\ Range(done[l.cid]) \subseteq Range(done'[l.cid])
    BY <1>3 DEF Lasting
  <2>3. Sane(a2, l.cid, l.cu, l.acts, p, t)'
    BY <1>2, <1>3, <1>4, <1>5, <2>1, <2>2, SaneStays
  <2> QED
    BY <2>1, <2>3
<1>7. l = hist'[k]
  BY DEF Lasting, Kept
<1>8. Range(l.acts) \subseteq Acts
  BY <1>3, <1>4, SourcedActs DEF Sane
<1> QED
  BY <1>2, <1>4, <1>6, <1>7, <1>8 DEF Lasting

\* The comments of the versions, when no diff is accepted.
LEMMA PastStays ==
    ASSUME Types, NEW st, NEW au, Past(st, au), hist' = hist, com' = com, listed' = listed,
           NEW a2, Lasting(au, a2)
    PROVE  Past(st, a2)'
<1>1. st[Len(hist')].com = com' /\ st[Len(hist')].listed = listed'
  BY DEF Past
<1>2. ASSUME NEW k \in 1 .. Len(hist')
      PROVE  Entered(st, a2, k)'
  <2>1. PICK l : l = hist[k]
    OBVIOUS
  <2>2. k \in 1 .. Len(hist)
    OBVIOUS
  <2>3. /\ l = hist'[k] /\ st[k] = Run(st[k - 1], l.cu)
        /\ st[k].ok = TRUE \/ \A i \in Id : Concerns(l.cu, i) => i \in failed'
        /\ Sane(a2, l.cid, l.cu, l.acts, k - 1, st[k - 1])'
    <3>1. PICK s2 : s2 = st
      OBVIOUS
    <3>2. s2[k] = st[k] /\ s2[k - 1] = st[k - 1]
      BY <3>1
    <3>3. s2[k] = Run(s2[k - 1], l.cu)
      BY <2>1, <2>2, <3>1 DEF Past, Entered
    <3>4. s2[k].ok = TRUE \/ \A i \in Id : Concerns(l.cu, i) => i \in failed'
      BY <2>1, <2>2, <3>2, EnteredStays
    <3>5. Sane(a2, l.cid, l.cu, l.acts, k - 1, s2[k - 1])'
      BY <2>1, <2>2, <3>2, EnteredStays
    <3> QED
      BY <2>1, <3>1, <3>3, <3>4, <3>5
  <2>4. \A j \in 1 .. Len(hist') : Range(hist'[j].acts) \cap Range(hist'[k].acts) # {} => j = k
    BY <2>2 DEF Past, Entered
  <2>5. Sane(a2, hist[k].cid, hist[k].cu, hist[k].acts, k - 1, st[k - 1])'
    BY <2>3
  <2> QED
    BY <2>3, <2>4, <2>5 DEF Entered
<1>3. ASSUME NEW k \in 0 .. Len(hist'), NEW i \in DOMAIN st[k].com
      PROVE  st[k].com[i].by = a2[i] /\ i \in (Acts \cup {0})'
  <2>1. st[k].com[i].by = au[i] /\ i \in Acts \cup {0}
    BY DEF Past
  <2>2. Acts \subseteq Acts'
    BY DEF Acts, Lasting
  <2> QED
    BY <2>1, <2>2 DEF Lasting, Agree
<1> QED
  BY <1>1, <1>2, <1>3 DEF Past

\* What d has on its shelf and in its queue.
LEMMA ShelfStays ==
    ASSUME Types, Types', NEW st, NEW au, Past(st, au), NEW d \in Client, Shelf(au, d),
           ver[d] <= Len(hist), ver[d] <= ver'[d], copy'[d] = copy[d], NEW a2, Lasting(au, a2)
    PROVE  Shelf(a2, d)'
<1>1. ASSUME NEW n, Knows(d, n)
      PROVE  Knows(d, n)' /\ a2[n] = au[n]
  <2>1. Knows(d, n)'
    BY <1>1, KnowsMore DEF Lasting
  <2>2. n \in Acts \cup {0}
    BY <1>1, KnowsActs
  <2> QED
    BY <2>1, <2>2 DEF Lasting, Agree
<1>2. ASSUME NEW i \in DOMAIN copy'[d]
      PROVE  /\ Knows(d, i)' /\ copy'[d][i].by = a2[i] /\ (d \in OwnOnly => a2[i] = d)
             /\ \A x \in copy'[d][i].answers : Knows(d, x.id)'
  <2>1. /\ Knows(d, i) /\ copy[d][i].by = au[i] /\ (d \in OwnOnly => au[i] = d)
        /\ \A x \in copy[d][i].answers : Knows(d, x.id)
    BY <1>2 DEF Shelf
  <2> QED
    BY <1>1, <2>1
<1> QED
  BY <1>2 DEF Shelf

\* What waits to be sent stays in order when its sender does nothing.
LEMMA QueueStays ==
    ASSUME Types, Types', NEW st, NEW au, Past(st, au), NEW d \in Client, Queue(au, d),
           ver[d] <= Len(hist), ver'[d] = ver[d], unsent'[d] = unsent[d], NEW a2, Lasting(au, a2)
    PROVE  Queue(a2, d)'
<1>1. ASSUME NEW n, Knows(d, n)
      PROVE  Knows(d, n)' /\ a2[n] = au[n]
  <2>1. Knows(d, n)'
    <3>1. ver[d] <= ver'[d]
      BY DEF Types
    <3> QED
      BY <1>1, <3>1, KnowsMore DEF Lasting
  <2>2. n \in Acts \cup {0}
    BY <1>1, KnowsActs
  <2> QED
    BY <2>1, <2>2 DEF Lasting, Agree
<1>2. PICK v \in Nat : v = ver[d] /\ v = ver'[d]
  BY DEF Types
<1>3. \A n : HeardBy(v, n)' <=> HeardBy(v, n)
  BY <1>2, HeardStays DEF Types, Lasting
<1>4. Range(done[d]) \subseteq Range(done'[d])
  BY DEF Lasting
<1>5. unsent'[d] = unsent[d]
  OBVIOUS
<1>6. ASSUME NEW k \in 1 .. Len(unsent[d]), NEW w, w = unsent[d][k]
      PROVE  /\ Knows(d, w.id)' /\ (d \in OwnOnly => a2[w.id] = d)
             /\ w.act \in Range(done'[d]) /\ ~HeardBy(v, w.act)'
             /\ w.type = "create" => w.id = w.act
             /\ w.type = "add_answer" => w.aid = w.act
             /\ \A j \in 1 .. Len(unsent[d]) : unsent[d][j].act = w.act => j = k
  <2>1. /\ Knows(d, w.id) /\ (d \in OwnOnly => au[w.id] = d)
        /\ w.act \in Range(done[d]) /\ ~HeardBy(v, w.act)
        /\ w.type = "create" => w.id = w.act
        /\ w.type = "add_answer" => w.aid = w.act
        /\ \A j \in 1 .. Len(unsent[d]) : unsent[d][j].act = w.act => j = k
    BY <1>2, <1>6 DEF Queue
  <2> QED
    BY <1>1, <1>3, <1>4, <2>1
<1>7. ASSUME NEW k \in 1 .. Len(unsent'[d])
      PROVE  /\ Knows(d, unsent[d][k].id)' /\ (d \in OwnOnly => a2[unsent'[d][k].id] = d)
             /\ unsent'[d][k].act \in Range(done'[d]) /\ ~HeardBy(ver[d], unsent[d][k].act)'
             /\ unsent'[d][k].type = "create" => unsent'[d][k].id = unsent'[d][k].act
             /\ unsent'[d][k].type = "add_answer" => unsent'[d][k].aid = unsent'[d][k].act
             /\ \A j \in 1 .. Len(unsent'[d]) : unsent'[d][j].act = unsent'[d][k].act => j = k
  <2>1. k \in 1 .. Len(unsent[d])
    BY <1>5
  <2> QED
    BY <1>2, <1>5, <1>6, <2>1
<1> QED
  BY <1>7 DEF Queue

\* Nothing gets lost when its author does nothing.
LEMMA CompleteStays ==
    ASSUME Types, Kept, NEW d \in Client, Complete(d), ver[d] <= Len(hist),
           ver'[d] = ver[d], unsent'[d] = unsent[d], done'[d] = done[d]
    PROVE  Complete(d)'
<1>2. PICK v \in Nat : v = ver[d] /\ v = ver'[d]
  BY DEF Types
<1>3. \A n : HeardBy(v, n)' <=> HeardBy(v, n)
  BY <1>2, HeardStays DEF Types
<1> QED
  BY <1>2, <1>3 DEF Complete

\* A comment is on the server after a diff that was there before or that it creates.
LEMMA RunBy ==
    ASSUME NEW b \in Sound, NEW cu \in Seq(Update), NEW i, i \in DOMAIN FoldLeft(Applied, b, cu).com
    PROVE  LET u == FoldLeft(Applied, b, cu).com
           IN  \/ i \in DOMAIN b.com /\ u[i].by = b.com[i].by
               \/ \E k \in 1 .. Len(cu) : /\ cu[k].type = "create" /\ cu[k].id = i
                                          /\ u[i].by = cu[k].note.by
<1>1. PICK n \in Nat : n = Len(cu)
  BY LenProperties
<1>2. \A j \in 1 .. n : cu[j] \in Update
  BY <1>1, ElementOfSeq
<1>3. PICK f \in [Nat -> Sound] : /\ f[0] = b /\ f[n] = FoldLeft(Applied, b, cu)
                                  /\ \A j \in 1 .. n : f[j] = Applied(f[j - 1], cu[j])
  BY <1>1, AppliedTrace
<1> DEFINE by(t) == \/ i \in DOMAIN b.com /\ t[i].by = b.com[i].by
                    \/ \E k \in 1 .. n : /\ cu[k].type = "create" /\ cu[k].id = i
                                         /\ t[i].by = cu[k].note.by
           S == {p \in Nat : p <= n /\ i \in DOMAIN f[p].com => by(f[p].com)}
<1>4. 0 \in S
  BY <1>3
<1>5. ASSUME NEW p \in Nat, p \in S
      PROVE  p + 1 \in S
  <2>1. CASE p + 1 <= n
    <3>1. PICK j \in Nat : j = p + 1 /\ j \in 1 .. n /\ j - 1 = p
      BY <2>1
    <3>2. PICK e \in Update, s \in Sound : e = cu[j] /\ s = f[p]
      BY <1>2, <3>1
    <3>3. f[j] = Applied(s, e)
      BY <1>3, <3>1, <3>2
    <3>4. i \in DOMAIN s.com => by(s.com)
      BY <1>5, <2>1, <3>2
    <3>5. ASSUME i \in DOMAIN Applied(s, e).com
          PROVE  by(Applied(s, e).com)
      <4>1. \/ i \in DOMAIN s.com /\ Applied(s, e).com[i].by = s.com[i].by
            \/ /\ e.type = "create" /\ e # Ignored /\ e.id = i
               /\ Applied(s, e).com[i].by = e.note.by
        BY <3>5, AppliedBy
      <4> QED
        BY <3>1, <3>2, <3>4, <4>1
    <3> HIDE DEF by
    <3> QED
      BY <3>1, <3>3, <3>5
  <2> HIDE DEF by
  <2> QED
    BY <2>1
<1> HIDE DEF S, by
<1>6. Nat \subseteq S
  BY <1>4, <1>5, SetInduction
<1>7. n <= n /\ i \in DOMAIN f[n].com => by(f[n].com)
  BY <1>6 DEF S
<1>8. n <= n
  OBVIOUS
<1> QED
  BY <1>1, <1>3, <1>7, <1>8 DEF by

\* The server starts on each diff with ok.
LEMMA ReadyIs ==
    ASSUME NEW t \in Sound
    PROVE  Ready(t) \in Sound /\ Ready(t).com = t.com
<1>1. t.com \in Store /\ t.listed \subseteq DOMAIN t.com
  BY SoundTyped
<1>2. TRUE \in BOOLEAN
  OBVIOUS
<1> QED
  BY <1>1, <1>2, SoundIs DEF Ready

\* A comment has the author of the act that created it.
LEMMA RunAuthors ==
    ASSUME NEW au, NEW c \in Client, NEW cu \in Seq(Update), NEW acts \in Seq(Act), NEW v,
           Sourced(au, c, cu, acts, v), NEW t \in Sound,
           \A i \in DOMAIN t.com : t.com[i].by = au[i] /\ i \in Acts \cup {0}
    PROVE  \A i \in DOMAIN Run(t, cu).com : Run(t, cu).com[i].by = au[i] /\ i \in Acts \cup {0}
<1>1. PICK b \in Sound : b = Ready(t) /\ b.com = t.com
  BY ReadyIs
<1>2. PICK u : u = FoldLeft(Applied, b, cu).com
  OBVIOUS
<1>3. ASSUME NEW i \in DOMAIN u
      PROVE  u[i].by = au[i] /\ i \in Acts \cup {0}
  <2>1. \/ i \in DOMAIN b.com /\ u[i].by = b.com[i].by
        \/ \E k \in 1 .. Len(cu) : /\ cu[k].type = "create" /\ cu[k].id = i
                                   /\ u[i].by = cu[k].note.by
    BY <1>2, <1>3, RunBy
  <2>2. CASE i \in DOMAIN b.com /\ u[i].by = b.com[i].by
    BY <1>1, <2>2
  <2>3. ASSUME NEW k \in 1 .. Len(cu), cu[k].type = "create", cu[k].id = i,
               u[i].by = cu[k].note.by
        PROVE  u[i].by = au[i] /\ i \in Acts \cup {0}
    <3>1. i = acts[k] /\ k \in DOMAIN acts /\ cu[k].note.by = au[i]
      BY <2>3, LenProperties DEF Sourced
    <3>2. Range(acts) \subseteq Acts
      BY SourcedActs
    <3>3. acts[k] \in Range(acts)
      BY <3>1 DEF Range
    <3> QED
      BY <2>3, <3>1, <3>2, <3>3
  <2> QED
    BY <2>1, <2>2, <2>3
<1> QED
  BY <1>1, <1>2, <1>3 DEF Run

-----------------------------------------------------------------------------
\* A comment that nobody has mirrors itself.
LEMMA MirrorAgree ==
    ASSUME NEW au, NEW a2, Agree(au, a2), NEW c, NEW W, NEW s, NEW t, NEW i,
           i \in DOMAIN s \cup DOMAIN t => i \in Acts \cup {0},
           Sees(au, c, i) => Mirror(au, c, W, s, t, i), Sees(a2, c, i)
    PROVE  Mirror(a2, c, W, s, t, i)
<1>1. CASE i \in Acts \cup {0}
  <2>1. a2[i] = au[i]
    BY <1>1 DEF Agree
  <2>2. Sees(au, c, i) /\ (Open(a2, c, i) <=> Open(au, c, i))
    BY <2>1 DEF Sees, Open
  <2> QED
    BY <2>2 DEF Mirror
<1>2. CASE i \notin Acts \cup {0}
  BY <1>2 DEF Mirror, Shows
<1> QED
  BY <1>1, <1>2

\* A browser has comments of acts only.
LEMMA ShelfActs ==
    ASSUME Types, NEW st, NEW au, Past(st, au), NEW c \in Client, ver[c] <= Len(hist), Shelf(au, c)
    PROVE  DOMAIN copy[c] \subseteq Acts \cup {0}
  BY KnowsActs DEF Shelf

\* A browser that does nothing goes on mirroring what it mirrored.
LEMMA MirrorsStay ==
    ASSUME NEW au, NEW a2, Agree(au, a2), NEW c, NEW p, NEW t, Mirrors(au, c, p, t),
           DOMAIN t \subseteq Acts \cup {0}, DOMAIN copy[c] \subseteq Acts \cup {0},
           copy'[c] = copy[c], unsent'[c] = unsent[c], failed \subseteq failed'
    PROVE  Mirrors(a2, c, p, t)'
<1>1. Rest(c, p)' = Rest(c, p)
  BY DEF Rest
<1>2. ASSUME NEW i \in Id \ failed', Sees(a2, c, i)
      PROVE  Mirror(a2, c, Rest(c, p), copy[c], t, i)
  BY <1>2, MirrorAgree DEF Mirrors
<1> QED
  BY <1>1, <1>2 DEF Mirrors

\* The history it is compared with may grow, if not by a diff of its own.
LEMMA FaithfulStays ==
    ASSUME Types, NEW st, NEW au, Past(st, au), NEW c \in Client, ver[c] <= Len(hist),
           Shelf(au, c), Faithful(st, au, c), ver'[c] = ver[c], copy'[c] = copy[c],
           unsent'[c] = unsent[c], NEW a2, Lasting(au, a2),
           NEW s2, \A k \in 0 .. Len(hist) : s2[k] = st[k],
           Len(hist') = Len(hist) \/ hist'[Len(hist) + 1].cid # c, Len(hist') <= Len(hist) + 1
    PROVE  Faithful(s2, a2, c)'
<1>1. PICK v \in Nat, n \in Nat : v = ver[c] /\ n = Len(hist) /\ v <= n
  BY LenProperties DEF Types
<1>2. DOMAIN copy[c] \subseteq Acts \cup {0}
  BY ShelfActs
<1>3. \A k \in 0 .. n : DOMAIN st[k].com \subseteq Acts \cup {0} /\ s2[k] = st[k]
  BY <1>1 DEF Past
<1>4. Agree(au, a2) /\ failed \subseteq failed' /\ Kept
  BY DEF Lasting
<1>5. ASSUME NEW k \in 0 .. n, NEW p, Mirrors(au, c, p, st[k].com)
      PROVE  Mirrors(a2, c, p, s2[k].com)'
  <2>1. PICK t : t = st[k].com /\ t = s2[k].com /\ DOMAIN t \subseteq Acts \cup {0}
    BY <1>3
  <2>2. Mirrors(a2, c, p, t)'
    BY <1>2, <1>4, <1>5, <2>1, MirrorsStay
  <2> QED
    BY <2>1, <2>2
<1>6. Mirrors(a2, c, 0, s2[v].com)'
  <2>1. v \in 0 .. n /\ Mirrors(au, c, 0, st[v].com)
    BY <1>1 DEF Faithful
  <2> QED
    BY <1>5, <2>1
<1>7. ASSUME OwnNext(c)'
      PROVE  OwnNext(c) /\ hist'[v + 1] = hist[v + 1]
  <2>1. v < Len(hist') /\ hist'[v + 1].cid = c
    BY <1>1, <1>7 DEF OwnNext
  <2>2. v < n
    BY <1>1, <2>1
  <2>3. v + 1 \in 1 .. n
    BY <2>2
  <2> QED
    BY <1>1, <1>4, <2>1, <2>2, <2>3 DEF Kept, OwnNext
<1>8. ASSUME OwnNext(c)'
      PROVE  Mirrors(a2, c, Len(hist[v + 1].acts), s2[v + 1].com)'
  <2>1. PICK l : l = hist[v + 1] /\ l = hist'[v + 1]
    BY <1>7, <1>8
  <2>2. v + 1 \in 0 .. n /\ Mirrors(au, c, Len(l.acts), st[v + 1].com)
    BY <1>1, <1>7, <1>8, <2>1 DEF Faithful, OwnNext
  <2>3. Mirrors(a2, c, Len(l.acts), s2[v + 1].com)'
    BY <1>5, <2>2
  <2> QED
    BY <2>1, <2>3
<1> QED
  BY <1>1, <1>6, <1>8 DEF Faithful

\* What it has sent is as good as it was.
LEMMA CarriesStay ==
    ASSUME Types, NEW st, NEW au, Past(st, au), NEW c \in Client, ver[c] <= Len(hist),
           Shelf(au, c), NEW m, m.cu \in Seq(Update), m.acts \in Seq(Act),
           NEW t \in Sound, \A i \in DOMAIN t.com : t.com[i].by = au[i] /\ i \in Acts \cup {0},
           Carries(au, c, m, t), ver'[c] = ver[c], copy'[c] = copy[c], unsent'[c] = unsent[c],
           NEW a2, Lasting(au, a2)
    PROVE  Carries(a2, c, m, t)'
<1>1. PICK v \in Nat : v = ver[c] /\ v <= Len(hist)
  BY DEF Types
<1>2. Sane(au, c, m.cu, m.acts, v, t)
  BY <1>1 DEF Carries
<1>3. Sane(a2, c, m.cu, m.acts, v, t)'
  <2>1. DOMAIN t.com \subseteq Acts \cup {0}
    OBVIOUS
  <2>2. /\ Kept /\ Agree(au, a2) /\ failed \subseteq failed'
        /\ Range(done[c]) \subseteq Range(done'[c])
    BY DEF Lasting
  <2>3. PICK cu \in Seq(Update), acts \in Seq(Act) : cu = m.cu /\ acts = m.acts
    OBVIOUS
  <2>4. Sane(a2, c, cu, acts, v, t)'
    BY <1>1, <1>2, <2>1, <2>2, <2>3, SaneStays
  <2> QED
    BY <2>3, <2>4
<1>4. DOMAIN copy[c] \subseteq Acts \cup {0}
  BY ShelfActs
<1>5. PICK r : r = Run(t, m.cu)
  OBVIOUS
<1>6. DOMAIN r.com \subseteq Acts \cup {0}
  BY <1>2, <1>5, RunAuthors DEF Sane
<1>7. PICK W : W = Rest(c, Len(m.acts)) /\ W = Rest(c, Len(m.acts))'
  BY DEF Rest
<1>8. ASSUME NEW i \in Id \ failed', Sees(a2, c, i), r.ok = TRUE \/ ~Concerns(m.cu, i)
      PROVE  Mirror(a2, c, W, copy[c], r.com, i)
  <2>1. i \in Id \ failed /\ Agree(au, a2)
    BY <1>8 DEF Lasting
  <2>2. Sees(au, c, i) => Mirror(au, c, W, copy[c], r.com, i)
    BY <1>5, <1>7, <1>8, <2>1 DEF Carries
  <2>3. i \in DOMAIN copy[c] \cup DOMAIN r.com => i \in Acts \cup {0}
    BY <1>4, <1>6
  <2> QED
    BY <1>8, <2>1, <2>2, <2>3, MirrorAgree
<1> QED
  BY <1>1, <1>3, <1>5, <1>7, <1>8 DEF Carries

\* A live diff that is under way was so before.
StillSending(c) ==
    \A k \in 1 .. Len(up'[c]) : up'[c][k].type = "diff" /\ up'[c][k].seen = seen'[c] =>
        \E j \in 1 .. Len(up[c]) : up[c][j] = up'[c][k] /\ up[c][j].seen = seen[c]

LEMMA SendingStays ==
    ASSUME Types, NEW st \in [Nat -> Sound], NEW au, Past(st, au), NEW c \in Client,
           ver[c] <= Len(hist), Shelf(au, c), Sending(st, au, c), StillSending(c),
           ver'[c] = ver[c], copy'[c] = copy[c], unsent'[c] = unsent[c],
           NEW a2, Lasting(au, a2), NEW s2, \A k \in 0 .. Len(hist) : s2[k] = st[k]
    PROVE  Sending(s2, a2, c)'
<1>1. PICK v \in Nat : v = ver[c] /\ v = ver'[c] /\ v \in 0 .. Len(hist) /\ s2[v] = st[v]
  <2>1. ver[c] \in Nat /\ ver[c] \in 0 .. Len(hist)
    BY LenProperties DEF Types
  <2> QED
    BY <2>1
<1>2. PICK t \in Sound : t = st[v]
  OBVIOUS
<1>3. \A i \in DOMAIN t.com : t.com[i].by = au[i] /\ i \in Acts \cup {0}
  BY <1>1, <1>2 DEF Past
<1>4. ASSUME NEW k \in 1 .. Len(up'[c]), up'[c][k].type = "diff", up'[c][k].seen = seen'[c]
      PROVE  \E m : m = up'[c][k] /\ Carries(a2, c, m, t)'
  <2>1. PICK j \in 1 .. Len(up[c]) : up[c][j] = up'[c][k] /\ up[c][j].seen = seen[c]
    BY <1>4 DEF StillSending
  <2>2. PICK m : m = up[c][j]
    OBVIOUS
  <2>3. m.type = "diff" /\ m.cu \in Seq(Update) /\ m.acts \in Seq(Act)
    BY <1>4, <2>1, <2>2, UpTyped
  <2>4. Carries(au, c, m, t)
    BY <1>1, <1>2, <2>1, <2>2, <2>3 DEF Sending
  <2>5. Carries(a2, c, m, t)'
    BY <1>3, <2>3, <2>4, CarriesStay
  <2> QED
    BY <2>1, <2>2, <2>5
<1>5. ASSUME NEW k \in 1 .. Len(up'[c]), up'[c][k].type = "diff", up'[c][k].seen = seen'[c]
      PROVE  Carries(a2, c, up[c][k], t)'
  BY <1>4, <1>5
<1> QED
  BY <1>1, <1>2, <1>5 DEF Sending

\* The filter goes by the authors of the comments in the diff only.
LEMMA PassesAgree ==
    ASSUME NEW au, NEW a2, NEW d, NEW cu, NEW mu, Passes(au, d, cu, mu),
           \A k \in 1 .. Len(cu) : cu[k] # Ignored => a2[cu[k].id] = au[cu[k].id]
    PROVE  Passes(a2, d, cu, mu)
<1>1. PICK pos \in [Nat -> Nat] :
        /\ pos[0] = 0 /\ pos[Len(cu)] = Len(mu)
        /\ \A k \in 1 .. Len(cu) :
              \/ pos[k] = pos[k - 1] /\ MayMiss(au, d, cu[k])
              \/ /\ pos[k] = pos[k - 1] + 1 /\ pos[k] \in 1 .. Len(mu)
                 /\ mu[pos[k]] = cu[k] /\ MayGet(au, d, cu[k])
  BY DEF Passes
<1>2. ASSUME NEW k \in 1 .. Len(cu)
      PROVE  /\ MayMiss(au, d, cu[k]) => MayMiss(a2, d, cu[k])
             /\ MayGet(au, d, cu[k]) => MayGet(a2, d, cu[k])
  <2>1. cu[k].type \in {"create", "update", "delete"} => cu[k] # Ignored
    BY DEF Ignored
  <2> QED
    BY <2>1 DEF MayMiss, MayGet
<1> QED
  BY <1>1, <1>2 DEF Passes

\* What comes was on its way, or may be what the server sends.
StillHearing(au, c) ==
    \A k \in 1 .. Len(down'[c]) : down'[c][k].type = "diff" /\ down'[c][k].cid # c =>
        \/ \E j \in 1 .. Len(down[c]) : down[c][j] = down'[c][k]
        \/ \E l : l = hist'[down'[c][k].v + 1] /\ Passes(au, c, l.cu, down'[c][k].cu)

\* What is on its way to a browser stays as the filter left it.
LEMMA HearingStays ==
    ASSUME Types, NEW st, NEW au, Past(st, au), NEW c \in Client, Incoming(c), Hearing(au, c),
           NEW a2, Lasting(au, a2), StillHearing(a2, c)
    PROVE  Hearing(a2, c)'
<1>1. ASSUME NEW k \in 1 .. Len(down'[c]), down'[c][k].type = "diff", down'[c][k].cid # c,
             NEW l, l = hist'[down'[c][k].v + 1]
      PROVE  Passes(a2, c, l.cu, down'[c][k].cu)
  <2>1. ASSUME NEW j \in 1 .. Len(down[c]), down[c][j] = down'[c][k]
        PROVE  Passes(a2, c, l.cu, down'[c][k].cu)
    <3>1. PICK m : m = down[c][j] /\ m = down'[c][k]
      BY <2>1
    <3>2. m.v < Len(hist) /\ m.v \in Nat
      <4>0. down[c] \in Seq(DownMsg)
        BY DEF Types
      <4>1. m \in DownMsg
        BY <2>1, <3>1, <4>0, ElementOfSeq
      <4> QED
        BY <1>1, <3>1, <4>1, DownTyped DEF Incoming
    <3>3. PICK p \in 1 .. Len(hist) : p = m.v + 1
      <4>1. PICK x \in Nat : x = m.v
        BY <3>2
      <4>2. PICK n \in Nat : n = Len(hist)
        BY LenProperties DEF Types
      <4>3. x + 1 \in 1 .. n
        BY <3>2, <4>1, <4>2
      <4> QED
        BY <4>1, <4>2, <4>3
    <3>4. l = hist[p]
      BY <1>1, <3>1, <3>3 DEF Lasting, Kept
    <3>5. Passes(au, c, l.cu, m.cu)
      BY <1>1, <3>1, <3>3, <3>4 DEF Hearing
    <3>6. p - 1 \in Nat /\ p - 1 <= Len(hist)
      BY LenProperties DEF Types
    <3>7. Sourced(au, l.cid, l.cu, l.acts, p - 1)
      BY <3>4 DEF Past, Entered, Sane
    <3>8. l.cid \in Client /\ l.acts \in Seq(Act)
      BY <3>4, HistEntry DEF Types
    <3>9. Range(l.acts) \subseteq Acts
      BY <3>7, <3>8, SourcedActs
    <3>10. ASSUME NEW i \in 1 .. Len(l.cu), l.cu[i] # Ignored
           PROVE  a2[l.cu[i].id] = au[l.cu[i].id]
      <4>1. Told(p - 1, l.acts, l.cu[i].id)
        BY <3>7, <3>10 DEF Sourced
      <4>2. l.cu[i].id \in Acts \cup {0}
        BY <3>6, <3>9, <4>1, ToldActs
      <4> QED
        BY <4>2 DEF Lasting, Agree
    <3> QED
      BY <3>1, <3>5, <3>10, PassesAgree
  <2> QED
    BY <1>1, <2>1 DEF StillHearing
<1> QED
  BY <1>1 DEF Hearing

\* The filter lets pass what it may: the comments name their authors.
LEMMA DiffPasses ==
    ASSUME NEW au, \A i \in DOMAIN com' : com'[i].by = au[i], NEW d,
           NEW cu \in Seq(Update), NEW c, NEW acts, NEW v, Sourced(au, c, cu, acts, v)'
    PROVE  Passes(au, d, cu, ShownTo(d, cu))
<1>1. PICK n \in Nat : n = Len(cu)
  BY LenProperties
<1>2. ASSUME NEW k \in 1 .. n
      PROVE  IF Shown(d, cu[k]) THEN MayGet(au, d, cu[k]) ELSE MayMiss(au, d, cu[k])
  <2>1. PICK e \in Update : e = cu[k]
    BY <1>1, ElementOfSeq
  <2>2. e.type \in {"create", "update"} => e.note.by = au[e.id]
    BY <1>1, <2>1 DEF Sourced
  <2>3. CASE Shown(d, e)
    <3>1. d \in OwnOnly /\ e.type \in {"create", "update"} => e.note.by = d
      BY <2>3 DEF Shown, OfAnswer
    <3> QED
      BY <2>1, <2>2, <2>3, <3>1 DEF MayGet
  <2>4. CASE ~Shown(d, e)
    <3>1. d \in OwnOnly
      BY <2>4 DEF Shown
    <3>2. e.type \in {"create", "update"} => e.note.by # d
      BY <2>4 DEF Shown
    <3>3. e.type = "delete" => au[e.id] # d
      <4>1. ASSUME e.type = "delete"
            PROVE  \E i \in DOMAIN com' \cap {e.id} : com'[i].by # d
        BY <2>4, <4>1 DEF Shown
      <4> QED
        BY <4>1
    <3> QED
      BY <2>1, <2>2, <2>4, <3>1, <3>2, <3>3 DEF MayMiss
  <2> QED
    BY <2>1, <2>3, <2>4
<1> QED
  BY <1>1, <1>2, ShownPasses

\* What the server says of its diffs.
LEMMA HearsMore ==
    ASSUME Types, Types', NEW d \in Client, NEW s2, NEW a2, Past(s2, a2)',
           NEW ms \in Seq(DownMsg), down'[d] = down[d] \o ms,
           \A k \in 1 .. Len(ms) : ms[k].type = "diff" =>
              \E v \in 1 .. Len(hist') : ms[k] = DiffFor(d, v)
    PROVE  StillHearing(a2, d)
<1>1. PICK q \in Seq(DownMsg) : q = down[d]
  BY DEF Types
<1>2. PICK a \in Nat, b \in Nat : a = Len(q) /\ b = Len(ms)
  BY LenProperties
<1>3. /\ Len(q \o ms) = a + b
      /\ \A k \in 1 .. a + b : (q \o ms)[k] = IF k <= a THEN q[k] ELSE ms[k - a]
  BY <1>2
<1>4. \A i \in DOMAIN com' : com'[i].by = a2[i]
  <2>1. hist' \in Seq(Diff)
    BY DEF Types
  <2>2. Len(hist') \in 0 .. Len(hist')
    BY <2>1, LenProperties
  <2> QED
    BY <2>2 DEF Past
<1>5. ASSUME NEW k \in 1 .. Len(down'[d])
      PROVE  \/ \E j \in 1 .. Len(down[d]) : down[d][j] = down'[d][k]
             \/ down'[d][k].type # "diff"
             \/ \E l : l = hist'[down'[d][k].v + 1] /\ Passes(a2, d, l.cu, down'[d][k].cu)
  <2>1. k \in 1 .. a + b
    BY <1>1, <1>3
  <2>2. CASE k <= a
    BY <1>1, <1>2, <1>3, <2>1, <2>2
  <2>3. CASE ~(k <= a)
    <3>1. PICK j \in 1 .. b : j = k - a
      BY <2>1, <2>3
    <3>2. PICK m : m = ms[j] /\ m = down'[d][k]
      BY <1>1, <1>3, <2>1, <2>3, <3>1
    <3>3. CASE m.type = "diff"
      <4>1. PICK v \in 1 .. Len(hist') : m = DiffFor(d, v)
        BY <1>2, <3>1, <3>2, <3>3
      <4>2. PICK l : l = hist'[v]
        OBVIOUS
      <4>3. hist' \in Seq(Diff)
        BY DEF Types
      <4>4. l \in Diff /\ l.cu \in Seq(Update)
        <5>1. l \in Diff
          BY <4>2, <4>3, ElementOfSeq
        <5> QED
          BY <5>1 DEF Diff
      <4>5. m.v = v - 1 /\ m.cu = ShownTo(d, l.cu)
        BY <4>1, <4>2 DEF DiffFor
      <4>6. Sourced(a2, l.cid, l.cu, l.acts, v - 1)'
        BY <4>2 DEF Past, Entered, Sane
      <4>7. Passes(a2, d, l.cu, ShownTo(d, l.cu))
        BY <1>4, <4>4, <4>6, DiffPasses
      <4>8. m.v + 1 = v
        BY <4>3, <4>5, LenProperties
      <4> QED
        BY <3>2, <4>2, <4>5, <4>7, <4>8
    <3> QED
      BY <3>2, <3>3
  <2> QED
    BY <2>2, <2>3
<1> QED
  BY <1>5 DEF StillHearing

\* Messages only leave the channels.
LEMMA HearsLess ==
    ASSUME Types, NEW d \in Client, NEW au,
           down'[d] = <<>> \/ down'[d] = down[d] \/ (down[d] # <<>> /\ down'[d] = Tail(down[d]))
    PROVE  StillHearing(au, d)
<1>1. CASE down'[d] = <<>> \/ down'[d] = down[d]
  <2>1. Len(<<>>) = 0
    OBVIOUS
  <2> QED
    BY <1>1, <2>1 DEF StillHearing
<1>2. CASE down[d] # <<>> /\ down'[d] = Tail(down[d])
  <2>1. PICK q \in Seq(DownMsg) : q = down[d]
    BY DEF Types
  <2>2. PICK n \in Nat : n = Len(q) /\ n # 0
    BY <1>2, <2>1, EmptySeq, LenProperties
  <2>3. Len(Tail(q)) = n - 1 /\ \A k \in 1 .. n - 1 : Tail(q)[k] = q[k + 1]
    BY <1>2, <2>1, <2>2, HeadTailProperties
  <2>4. ASSUME NEW k \in 1 .. Len(Tail(q))
        PROVE  \E j \in 1 .. n : q[j] = Tail(q)[k]
    <3>1. k \in 1 .. n - 1 /\ k + 1 \in 1 .. n
      BY <2>2, <2>3
    <3> QED
      BY <2>3, <3>1
  <2> QED
    BY <1>2, <2>1, <2>2, <2>4 DEF StillHearing
<1> QED
  BY <1>1, <1>2

LEMMA SendsLess ==
    ASSUME Types, NEW d \in Client, seen'[d] = seen[d], up'[d] = <<>> \/ FewerUp(d)
    PROVE  StillSending(d)
<1>1. CASE up'[d] = <<>>
  <2>1. Len(<<>>) = 0
    OBVIOUS
  <2> QED
    BY <1>1, <2>1 DEF StillSending
<1>2. CASE FewerUp(d)
  <2>1. PICK o \in {0, 1} : \A i \in 1 .. Len(up'[d]) :
           i + o \in 1 .. Len(up[d]) /\ up'[d][i] = up[d][i + o]
    BY <1>2, LeftUp
  <2> QED
    BY <2>1 DEF StillSending
<1> QED
  BY <1>1, <1>2

\* When something has come, nothing that d has sent is live.
LEMMA NoneLive ==
    ASSUME Types, NEW d \in Client, Fresh(d), Asks(d), seen'[d] = seen[d] + 1 \/ up[d] = <<>>,
           NEW i \in 1 .. Len(up'[d]), up'[d][i].type = "diff"
    PROVE  up'[d][i].seen # seen'[d]
<1>1. i \in 1 .. Len(up[d]) /\ up'[d][i] = up[d][i]
  BY AsksIs
<1>2. seen'[d] = seen[d] + 1
  <2>1. Len(<<>>) = 0
    OBVIOUS
  <2> QED
    BY <1>1, <2>1
<1>3. seen[d] \in Nat /\ up[d][i].seen \in Nat /\ up[d][i].seen <= seen[d]
  BY <1>1, UpTyped DEF Types, Fresh
<1> QED
  BY <1>1, <1>2, <1>3

\* A new connection has no diff under way.
LEMMA SendsNone ==
    ASSUME Types, NEW d \in Client, Fresh(d), Asks(d), seen'[d] = seen[d] + 1 \/ up[d] = <<>>
    PROVE  StillSending(d)
  BY NoneLive DEF StillSending

\* A browser at rest.
LEMMA ReaderStays ==
    ASSUME Types, Types', NEW st \in [Nat -> Sound], NEW au, Past(st, au), NEW d \in Client,
           ver[d] <= Len(hist), Incoming(d), Reader(st, au, d),
           ver'[d] = ver[d], copy'[d] = copy[d], unsent'[d] = unsent[d], done'[d] = done[d],
           NEW a2, Lasting(au, a2), NEW s2, \A k \in 0 .. Len(hist) : s2[k] = st[k],
           Len(hist') = Len(hist) \/ hist'[Len(hist) + 1].cid # d, Len(hist') <= Len(hist) + 1,
           StillSending(d), StillHearing(a2, d)
    PROVE  Reader(s2, a2, d)'
<1>1. /\ Shelf(au, d) /\ Queue(au, d) /\ Complete(d)
      /\ Faithful(st, au, d) /\ Sending(st, au, d) /\ Hearing(au, d)
  BY DEF Reader
<1>2. ver[d] <= ver'[d] /\ Kept
  BY DEF Types, Lasting
<1>3. Shelf(a2, d)'
  BY <1>1, <1>2, ShelfStays
<1>4. Queue(a2, d)'
  BY <1>1, QueueStays
<1>5. Complete(d)'
  BY <1>1, <1>2, CompleteStays
<1>6. Faithful(s2, a2, d)'
  BY <1>1, FaithfulStays
<1>7. Sending(s2, a2, d)'
  BY <1>1, SendingStays
<1>8. Hearing(a2, d)'
  BY <1>1, HearingStays
<1> QED
  BY <1>3, <1>4, <1>5, <1>6, <1>7, <1>8 DEF Reader

\* Nothing that the invariant speaks of changes but for messages.
LEMMA QuietStep ==
    ASSUME IInv, IInv', NEW st \in [Nat -> Sound], NEW au, Shared(st, au),
           UNCHANGED <<com, listed, hist, ver, copy, unsent, done, failed>>,
           Past(st, au)' => \A d \in Client : StillSending(d) /\ StillHearing(au, d)
    PROVE  Shared(st, au)'
<1>1. Types /\ Types'
  BY DEF IInv
<1>2. Past(st, au) /\ Authored(au)
  BY DEF Shared
<1>3. Lasting(au, au) /\ Len(hist) \in Nat
  BY <1>1, LenProperties DEF Lasting, Kept, Agree, Types
<1>4. Past(st, au)'
  BY <1>1, <1>2, <1>3, PastStays
<1>5. Authored(au)'
  BY <1>2 DEF Authored
<1>6. ASSUME NEW d \in Client
      PROVE  Reader(st, au, d)'
  <2>1. ClientInv(d) /\ Reader(st, au, d) /\ StillSending(d) /\ StillHearing(au, d)
    BY <1>4 DEF IInv, Shared
  <2>2. ver[d] <= Len(hist) /\ Incoming(d) /\ Len(hist') = Len(hist) /\ Len(hist') <= Len(hist) + 1
    BY <1>3, <2>1 DEF ClientInv, Current
  <2> QED
    BY <1>1, <1>2, <1>3, <2>1, <2>2, ReaderStays
<1> QED
  BY <1>4, <1>5, <1>6 DEF Shared

\* The server answers c and accepts nothing.
LEMMA QuietAnswer ==
    ASSUME IInv, IInv', NEW st \in [Nat -> Sound], NEW au, Shared(st, au), NEW c \in Client,
           up[c] # <<>>, up' = [up EXCEPT ![c] = Tail(@)],
           UNCHANGED <<com, listed, hist, failed, seen, ver, copy, unsent, done>>,
           \/ down' = down
           \/ \E ms \in Seq(DownMsg) :
                 /\ Say(OnlyTo(c, ms))
                 /\ \A k \in 1 .. Len(ms) : ms[k].type = "diff" =>
                       \E v \in 1 .. Len(hist') : ms[k] = DiffFor(c, v)
    PROVE  Shared(st, au)'
<1>1. Types /\ Types'
  BY DEF IInv
<1>2. up \in [Client -> Seq(UpMsg)]
  BY <1>1 DEF Types
<1>3. ASSUME NEW d \in Client
      PROVE  StillSending(d)
  <2>1. FewerUp(d)
    BY <1>2 DEF FewerUp
  <2> QED
    BY <1>1, <2>1, SendsLess
<1>4. ASSUME Past(st, au)', NEW d \in Client
      PROVE  StillHearing(au, d)
  <2>1. CASE down' = down
    BY <1>1, <2>1, HearsLess
  <2>2. ASSUME NEW ms \in Seq(DownMsg), Say(OnlyTo(c, ms)),
               \A k \in 1 .. Len(ms) : ms[k].type = "diff" =>
                  \E v \in 1 .. Len(hist') : ms[k] = DiffFor(c, v)
        PROVE  StillHearing(au, d)
    <3>1. /\ OnlyTo(c, ms) \in [Client -> Seq(DownMsg)] /\ OnlyTo(c, ms)[c] = ms
          /\ \A x \in Client \ {c} : OnlyTo(c, ms)[x] = <<>>
      BY OnlyToIs
    <3>2. \A x \in Client : down'[x] = down[x] \o OnlyTo(c, ms)[x]
      BY <1>1, <2>2, <3>1, SayIs
    <3>3. CASE d = c
      BY <1>1, <1>4, <2>2, <3>1, <3>2, <3>3, HearsMore
    <3>4. CASE d # c
      <4>1. down'[d] = down[d] \o <<>> /\ down[d] \in Seq(DownMsg)
        BY <1>1, <3>1, <3>2, <3>4 DEF Types
      <4>2. down'[d] = down[d]
        BY <4>1, ConcatEmptySeq
      <4> QED
        BY <1>1, <4>2, HearsLess
    <3> QED
      BY <3>3, <3>4
  <2> QED
    BY <2>1, <2>2
<1> QED
  BY <1>3, <1>4, QuietStep

\* What a browser is sent again is what it was sent.
LEMMA AfterAre ==
    ASSUME hist \in Seq(Diff), hist' = hist, NEW c, NEW v \in Nat
    PROVE  /\ DiffsAfter(c, v) \in Seq(DownMsg)
           /\ \A k \in 1 .. Len(DiffsAfter(c, v)) :
                 \E w \in 1 .. Len(hist') : DiffsAfter(c, v)[k] = DiffFor(c, w)
<1>1. PICK n \in Nat : n = Len(hist)
  BY LenProperties
<1>2. PICK q \in Seq(DownMsg) : q = DiffsAfter(c, v)
  BY DiffsAfterIs
<1>3. ASSUME NEW k \in 1 .. Len(q)
      PROVE  v + k \in 1 .. n /\ q[k] = DiffFor(c, v + k)
  <2>1. k \in Nat \ {0}
    BY LenProperties
  <2>2. v + k \in 1 .. n
    BY <1>1, <1>2, DiffsAfterIs
  <2>3. k \in 1 .. n - v
    BY <1>1, <2>1, <2>2
  <2>4. q = [x \in 1 .. n - v |-> DiffFor(c, v + x)]
    BY <1>1, <1>2 DEF DiffsAfter
  <2> QED
    BY <2>2, <2>3, <2>4
<1> QED
  BY <1>1, <1>2, <1>3

\* The server takes a message and accepts nothing.
LEMMA QuietServer ==
    ASSUME IInv, IInv', NEW st \in [Nat -> Sound], NEW au, Shared(st, au), NEW c \in Client,
           up[c] # <<>>, up' = [up EXCEPT ![c] = Tail(@)],
           UNCHANGED <<seen, ver, storeVars, await, done>>, NEW m, m = Head(up[c]),
           ServerCross(c, m) \/ ServerDiscard(c, m) \/ ServerOutdated(c, m)
              \/ ServerCheckVersion(c, m)
    PROVE  Shared(st, au)'
<1>1. Types /\ ClientInv(c)
  BY DEF IInv
<1>2. hist \in Seq(Diff) /\ m.v \in Nat /\ m \in UpMsg /\ (m.type = "diff" => m.rid \in Nat)
  BY <1>1, FirstUp DEF Types
<1>3. UNCHANGED <<com, listed, hist, failed, seen, ver, copy, unsent, done>>
  BY DEF ServerCross, ServerDiscard, ServerOutdated, ServerCheckVersion, storeVars, serverVars
<1>4. PICK q \in Seq(DownMsg) :
         /\ q = DiffsAfter(c, m.v)
         /\ \A k \in 1 .. Len(q) : \E w \in 1 .. Len(hist') : q[k] = DiffFor(c, w)
  BY <1>2, <1>3, AfterAre
<1>5. CASE ServerCross(c, m)
  <2>1. PICK ms : ms = IF m.type = "diff" THEN <<[type |-> "reject_diff", rid |-> m.rid]>> ELSE <<>>
    OBVIOUS
  <2>2. Say(OnlyTo(c, ms))
    BY <1>5, <2>1 DEF ServerCross
  <2>3. ms \in Seq(DownMsg) /\ \A k \in 1 .. Len(ms) : ms[k].type # "diff"
    <3>1. CASE m.type = "diff"
      <4>1. PICK x : x = [type |-> "reject_diff", rid |-> m.rid]
        OBVIOUS
      <4>2. x \in DownMsg /\ x.type # "diff"
        BY <1>2, <3>1, <4>1 DEF DownMsg, AnswerDown
      <4>3. ms = <<x>>
        BY <2>1, <3>1, <4>1
      <4> QED
        BY <4>2, <4>3
    <3>2. CASE m.type # "diff"
      <4>1. ms = <<>> /\ Len(<<>>) = 0
        BY <2>1, <3>2
      <4> QED
        BY <4>1, EmptySeq
    <3> QED
      BY <3>1, <3>2
  <2> QED
    BY <1>3, <2>2, <2>3, QuietAnswer
<1>6. CASE ServerDiscard(c, m)
  <2>1. down' = down
    BY <1>6 DEF ServerDiscard
  <2> QED
    BY <1>3, <2>1, QuietAnswer
<1>7. CASE ServerOutdated(c, m)
  <2>1. Say(OnlyTo(c, q))
    BY <1>4, <1>7 DEF ServerOutdated
  <2> QED
    BY <1>3, <1>4, <2>1, QuietAnswer
<1>8. CASE ServerCheckVersion(c, m)
  <2>1. PICK v : v = [type |-> "confirm_version", v |-> Len(hist)]
    OBVIOUS
  <2>2. v \in DownMsg /\ v.type # "diff"
    BY <1>2, <2>1, LenProperties DEF DownMsg, VersionDown
  <2>3. PICK ms : ms = Append(q, v)
    OBVIOUS
  <2>4. Say(OnlyTo(c, ms))
    BY <1>4, <1>8, <2>1, <2>3 DEF ServerCheckVersion
  <2>5. /\ ms \in Seq(DownMsg) /\ Len(q) \in Nat /\ Len(ms) = Len(q) + 1
        /\ \A k \in 1 .. Len(q) : ms[k] = q[k]
        /\ ms[Len(q) + 1] = v
    BY <2>2, <2>3, AppendProperties, LenProperties
  <2>6. ASSUME NEW k \in 1 .. Len(ms), ms[k].type = "diff"
        PROVE  \E w \in 1 .. Len(hist') : ms[k] = DiffFor(c, w)
    <3>1. k \in 1 .. Len(q)
      BY <2>2, <2>5, <2>6
    <3> QED
      BY <1>4, <2>5, <3>1
  <2> QED
    BY <1>3, <2>4, <2>5, <2>6, QuietAnswer
<1> QED
  BY <1>5, <1>6, <1>7, <1>8

\* A timeout sends a question, and changes no comments.
LEMMA QuietTimeout ==
    ASSUME IInv, IInv', NEW st \in [Nat -> Sound], NEW au, Shared(st, au),
           UNCHANGED vars \/ \E c \in Client : SendTimeout(c)
    PROVE  Shared(st, au)'
<1>1. UNCHANGED <<com, listed, hist, ver, copy, unsent, done, failed, seen, up, down>>
  BY DEF vars, SendTimeout, serverVars, wires, storeVars, ghosts
<1>2. \A d \in Client : StillSending(d)
  BY <1>1, SendsLess DEF FewerUp, IInv
<1>3. \A d \in Client : StillHearing(au, d)
  BY <1>1, HearsLess DEF IInv
<1> QED
  BY <1>1, <1>2, <1>3, QuietStep

\* What c hears makes it ask for its version at most.
LEMMA QuietReceive ==
    ASSUME IInv, IInv', NEW st \in [Nat -> Sound], NEW au, Shared(st, au), NEW c \in Client,
           down[c] # <<>>, down' = [down EXCEPT ![c] = Tail(@)], seen' = [seen EXCEPT ![c] = @ + 1],
           Asks(c), \A d \in Client \ {c} : up'[d] = up[d],
           UNCHANGED <<com, listed, hist, ver, copy, unsent, done, failed>>
    PROVE  Shared(st, au)'
<1>1. Types /\ Types' /\ ClientInv(c)
  BY DEF IInv
<1>2. down \in [Client -> Seq(DownMsg)] /\ seen \in [Client -> Nat]
  BY <1>1 DEF Types
<1>3. ASSUME NEW d \in Client
      PROVE  StillSending(d)
  <2>1. CASE d = c
    BY <1>1, <1>2, <2>1, SendsNone DEF ClientInv
  <2>2. CASE d # c
    BY <1>1, <1>2, <2>2, SendsLess DEF FewerUp
  <2> QED
    BY <2>1, <2>2
<1>4. ASSUME NEW d \in Client
      PROVE  StillHearing(au, d)
  <2>1. down'[d] = down[d] \/ (down[d] # <<>> /\ down'[d] = Tail(down[d]))
    BY <1>2
  <2> QED
    BY <1>1, <2>1, HearsLess
<1> QED
  BY <1>3, <1>4, QuietStep

\* Nor does a new connection.
LEMMA QuietReconnect ==
    ASSUME IInv, IInv', NEW st \in [Nat -> Sound], NEW au, Shared(st, au), NEW c \in Client,
           Reconnect(c)
    PROVE  Shared(st, au)'
<1>1. Types /\ Types' /\ ClientInv(c)
  BY DEF IInv
<1>2. /\ link[c] = "off" /\ seen' = [seen EXCEPT ![c] = 0] /\ ver' = ver
      /\ UNCHANGED <<com, listed, hist, ver, copy, unsent, done, failed, down>>
      /\ IF c \in OwnOnly THEN UNCHANGED up ELSE CheckVersion(c)
  BY DEF Reconnect, storeVars, ghosts
<1>3. seen \in [Client -> Nat] /\ seen' \in [Client -> Nat] /\ up[c] = <<>>
  BY <1>1, <1>2 DEF Types, ClientInv, Linked
<1>4. Asks(c) /\ \A d \in Client \ {c} : up'[d] = up[d]
  <2>1. CASE c \in OwnOnly
    BY <1>2, <2>1 DEF Asks
  <2>2. CASE c \notin OwnOnly
    BY <1>1, <1>2, <1>3, <2>2, CheckIs
  <2> QED
    BY <2>1, <2>2
<1>5. ASSUME NEW d \in Client
      PROVE  StillSending(d)
  <2>1. CASE d = c
    BY <1>1, <1>3, <1>4, <2>1, SendsNone DEF ClientInv
  <2>2. CASE d # c
    BY <1>1, <1>2, <1>3, <1>4, <2>2, SendsLess DEF FewerUp
  <2> QED
    BY <2>1, <2>2
<1>6. \A d \in Client : StillHearing(au, d)
  BY <1>1, <1>2, HearsLess
<1> QED
  BY <1>2, <1>5, <1>6, QuietStep

-----------------------------------------------------------------------------
(* What people do.                                                         *)

\* c makes store s into r, and w is the update that waits then.
Made(c, s, r, w) ==
    LET i == w.id
    IN  /\ \A j : j # i => Same(s, r, j)
        /\ w.type = "create" => i = w.act /\ i \in DOMAIN r /\ r[i].by = c /\ r[i].answers = {}
        /\ w.type # "create" => i \in DOMAIN s
        /\ w.type = "delete" => i \notin DOMAIN r
        /\ w.type \notin {"create", "delete"} => i \in DOMAIN r /\ r[i].by = s[i].by
        /\ w.type \in {"add_answer", "update_answer", "delete_answer"} => r[i].text = s[i].text
        /\ w.type = "update" => r[i].answers = s[i].answers
        /\ w.type = "add_answer" => /\ w.aid = w.act
                                    /\ \E y : /\ y.id = w.act
                                              /\ r[i].answers = s[i].answers \cup {y}
        /\ w.type = "update_answer" =>
              \E x, y : /\ x \in s[i].answers /\ x.id = w.aid /\ y.id = w.aid
                        /\ r[i].answers = (s[i].answers \ {x}) \cup {y}
        /\ w.type = "delete_answer" =>
              \E x \in s[i].answers : x.id = w.aid /\ r[i].answers = s[i].answers \ {x}

\* The answers that the store has not are deleted or updated.
LEMMA CoversMade ==
    ASSUME NEW as, NEW bs, NEW D, NEW U, Covers(as, bs, D, U)
    PROVE  /\ \A y : Covers(as \cup {y}, bs, D, U)
           /\ \A x \in as : \A y : y.id = x.id => Covers((as \ {x}) \cup {y}, bs, D, U \cup {x.id})
           /\ \A x \in as : Covers(as \ {x}, bs, D \cup {x.id}, U)
<1>1. \A y : Covers(as \cup {y}, bs, D, U)
  BY DEF Covers, Named
<1>2. ASSUME NEW x \in as, NEW y, y.id = x.id
      PROVE  Covers((as \ {x}) \cup {y}, bs, D, U \cup {x.id})
  <2> DEFINE cs == (as \ {x}) \cup {y}
  <2>1. \A a : Named(as, a) # {} => Named(cs, a) # {}
    <3> TAKE a
    <3> HAVE Named(as, a) # {}
    <3>1. PICK b \in as : b.id = a
      BY DEF Named
    <3>2. CASE b = x
      <4>1. y \in Named(cs, a)
        BY <1>2, <3>1, <3>2 DEF Named
      <4> QED
        BY <4>1
    <3>3. CASE b # x
      <4>1. b \in Named(cs, a)
        BY <3>1, <3>3 DEF Named
      <4> QED
        BY <4>1
    <3> QED
      BY <3>2, <3>3
  <2>2. y \in Named(cs, x.id)
    BY <1>2 DEF Named
  <2>3. \A z \in as : z \in cs \/ z = x
    OBVIOUS
  <2> HIDE DEF cs
  <2> QED
    BY <2>1, <2>2, <2>3 DEF Covers, cs
<1>3. ASSUME NEW x \in as
      PROVE  Covers(as \ {x}, bs, D \cup {x.id}, U)
  <2> DEFINE cs == as \ {x}
  <2>1. \A a : Named(as, a) # {} => a = x.id \/ Named(cs, a) # {}
    <3> TAKE a
    <3> HAVE Named(as, a) # {}
    <3>1. PICK b \in as : b.id = a
      BY DEF Named
    <3>2. b # x => b \in Named(cs, a)
      BY <3>1 DEF Named
    <3> QED
      BY <3>1, <3>2
  <2>2. \A z \in as : z \in cs \/ z = x
    OBVIOUS
  <2> HIDE DEF cs
  <2> QED
    BY <2>1, <2>2 DEF Covers, cs
<1> QED
  BY <1>1, <1>2, <1>3

\* The answers that wait with one update more.
LEMMA WaitsThen ==
    ASSUME NEW W, NEW w, NEW kind, NEW i
    PROVE  IF w.type = kind /\ w.id = i
           THEN Waits(W \cup {w}, kind, i) = Waits(W, kind, i) \cup {w.aid}
           ELSE Waits(W \cup {w}, kind, i) = Waits(W, kind, i)
<1>1. CASE w.type = kind /\ w.id = i
  <2>1. Waits(W \cup {w}, kind, i) = Waits(W, kind, i) \cup {w.aid}
    BY <1>1 DEF Waits
  <2> QED
    BY <1>1, <2>1
<1>2. CASE ~(w.type = kind /\ w.id = i)
  <2>1. Waits(W \cup {w}, kind, i) = Waits(W, kind, i)
    BY <1>2, WaitsOther
  <2> QED
    BY <1>2, <2>1
<1> QED
  BY <1>1, <1>2

\* The act of c itself keeps the mirror, since the update of it waits from now on.
LEMMA MadeMirror ==
    ASSUME NEW au, NEW a2, NEW c, NEW W, NEW w \in Waiter, NEW s, NEW r, NEW t, NEW i,
           Made(c, s, r, w),
           IF w.type = "create" /\ w.id = i
           THEN i \notin DOMAIN t /\ ~Has(W, {"delete"}, i)
           ELSE Mirror(au, c, W, s, t, i) /\ a2[i] = au[i]
    PROVE  Mirror(a2, c, W \cup {w}, r, t, i)
<1>1. PICK X, Y, X1, Y1 : /\ X = Waits(W, "delete_answer", i) /\ X1 = Waits(W \cup {w}, "delete_answer", i)
                          /\ Y = Waits(W, "update_answer", i) /\ Y1 = Waits(W \cup {w}, "update_answer", i)
  OBVIOUS
<1>2. PICK d, d1, f, f1 \in BOOLEAN :
         /\ d = Has(W, {"delete"}, i) /\ d1 = Has(W \cup {w}, {"delete"}, i)
         /\ f = Has(W, {"create", "update"}, i) /\ f1 = Has(W \cup {w}, {"create", "update"}, i)
  BY DEF Has
<1>3. /\ d1 <=> d \/ (w.type = "delete" /\ w.id = i)
      /\ f1 <=> f \/ (w.type \in {"create", "update"} /\ w.id = i)
  BY <1>2, HasMore
<1>4. /\ w.type = "delete_answer" /\ w.id = i => X1 = X \cup {w.aid}
      /\ ~(w.type = "delete_answer" /\ w.id = i) => X1 = X
  BY <1>1, WaitsThen
<1>5. /\ w.type = "update_answer" /\ w.id = i => Y1 = Y \cup {w.aid}
      /\ ~(w.type = "update_answer" /\ w.id = i) => Y1 = Y
  BY <1>1, WaitsThen
<1>6. w.type \in Kind
  BY DEF Waiter
<1>7. CASE w.type = "create" /\ w.id = i
  <2>1. i \in DOMAIN r /\ i \notin DOMAIN t /\ ~d1 /\ f1
    BY <1>2, <1>3, <1>7 DEF Made
  <2> QED
    BY <1>2, <2>1 DEF Mirror, Shows
<1>8. CASE ~(w.type = "create" /\ w.id = i)
  <2>1. Shows(W, s, t, i) /\ a2[i] = au[i]
    BY <1>8 DEF Mirror
  <2>2. Open(a2, c, i) /\ i \in DOMAIN s /\ i \in DOMAIN t => Covers(s[i].answers, t[i].answers, X, Y)
    BY <1>1, <1>8, <2>1 DEF Mirror, Open
  <2>3. CASE w.id # i
    <3>1. Same(s, r, i)
      BY <2>3 DEF Made
    <3>2. X1 = X /\ Y1 = Y /\ d1 = d /\ f1 = f
      BY <1>2, <1>3, <1>4, <1>5, <2>3
    <3>3. Shows(W \cup {w}, r, t, i)
      BY <1>2, <2>1, <3>1, <3>2 DEF Shows, Same
    <3>4. Open(a2, c, i) /\ i \in DOMAIN r /\ i \in DOMAIN t =>
             Covers(r[i].answers, t[i].answers, X1, Y1)
      BY <2>2, <3>1, <3>2 DEF Same
    <3> QED
      BY <1>1, <3>3, <3>4 DEF Mirror
  <2>4. CASE w.id = i /\ w.type = "delete"
    <3>1. i \notin DOMAIN r /\ d1
      BY <1>3, <2>4 DEF Made
    <3> QED
      BY <1>2, <3>1 DEF Mirror, Shows
  <2>5. CASE w.id = i /\ w.type = "update"
    <3>1. /\ i \in DOMAIN r /\ i \in DOMAIN s /\ r[i].answers = s[i].answers
          /\ d1 = d /\ f1 /\ X1 = X /\ Y1 = Y
      BY <1>2, <1>3, <1>4, <1>5, <2>5 DEF Made
    <3>2. Shows(W \cup {w}, r, t, i)
      BY <1>2, <2>1, <3>1 DEF Shows
    <3> QED
      BY <1>1, <2>2, <3>1, <3>2 DEF Mirror
  <2>6. CASE w.id = i /\ w.type \in {"add_answer", "update_answer", "delete_answer"}
    <3>1. /\ i \in DOMAIN r /\ i \in DOMAIN s /\ r[i].text = s[i].text
          /\ d1 = d /\ f1 = f
      BY <1>2, <1>3, <2>6 DEF Made
    <3>2. Shows(W \cup {w}, r, t, i)
      BY <1>2, <2>1, <3>1 DEF Shows
    <3>3. ASSUME Open(a2, c, i), i \in DOMAIN t
          PROVE  Covers(r[i].answers, t[i].answers, X1, Y1)
      <4>1. PICK as, bs : as = s[i].answers /\ bs = t[i].answers
        OBVIOUS
      <4>2. Covers(as, bs, X, Y)
        BY <2>2, <3>1, <3>3, <4>1
      <4>3. /\ \A y : Covers(as \cup {y}, bs, X, Y)
            /\ \A x \in as : \A y : y.id = x.id => Covers((as \ {x}) \cup {y}, bs, X, Y \cup {x.id})
            /\ \A x \in as : Covers(as \ {x}, bs, X \cup {x.id}, Y)
        BY <4>2, CoversMade
      <4>4. CASE w.type = "add_answer"
        <5>1. PICK y : r[i].answers = as \cup {y}
          BY <2>6, <4>1, <4>4 DEF Made
        <5>2. X1 = X /\ Y1 = Y
          BY <1>4, <1>5, <4>4
        <5> QED
          BY <4>1, <4>3, <5>1, <5>2
      <4>5. CASE w.type = "update_answer"
        <5>1. PICK x, y : x \in as /\ x.id = w.aid /\ y.id = w.aid /\ r[i].answers = (as \ {x}) \cup {y}
          BY <2>6, <4>1, <4>5 DEF Made
        <5>2. X1 = X /\ Y1 = Y \cup {x.id}
          BY <1>4, <1>5, <2>6, <4>5, <5>1
        <5> QED
          BY <4>1, <4>3, <5>1, <5>2
      <4>6. CASE w.type = "delete_answer"
        <5>1. PICK x \in as : x.id = w.aid /\ r[i].answers = as \ {x}
          BY <2>6, <4>1, <4>6 DEF Made
        <5>2. X1 = X \cup {x.id} /\ Y1 = Y
          BY <1>4, <1>5, <2>6, <4>6, <5>1
        <5> QED
          BY <4>1, <4>3, <5>1, <5>2
      <4> QED
        BY <2>6, <4>4, <4>5, <4>6
    <3> QED
      BY <1>1, <3>2, <3>3 DEF Mirror
  <2> QED
    BY <1>6, <1>8, <2>3, <2>4, <2>5, <2>6 DEF Kind
<1> QED
  BY <1>7, <1>8

\* Each act changes the store of its author and queues an update of that.
LEMMA DoMakes ==
    ASSUME Types, NEW c \in Client, NEW n \in Act, n = NextAct, NEW type \in Kind, NEW i \in Id,
           NEW a \in Id, NEW s, Do(c, type, i, a, s),
           \A w : w = [type |-> type, id |-> i, aid |-> a, act |-> n] => Made(c, copy[c], s, w)
    PROVE  \E w \in Waiter :
              /\ w.act = n /\ unsent'[c] = Append(unsent[c], w) /\ done'[c] = Append(done[c], n)
              /\ Made(c, copy[c], copy'[c], w)
              /\ \A d \in Client \ {c} : /\ unsent'[d] = unsent[d] /\ done'[d] = done[d]
                                         /\ copy'[d] = copy[d]
              /\ UNCHANGED <<com, listed, hist, ver, seen, up, down, failed>>
<1>1. PICK w : w = [type |-> type, id |-> i, aid |-> a, act |-> n]
  OBVIOUS
<1>2. w \in Waiter /\ w.act = n
  BY <1>1 DEF Waiter
<1>3. /\ copy' = [copy EXCEPT ![c] = s] /\ unsent' = [unsent EXCEPT ![c] = Append(@, w)]
      /\ done' = [done EXCEPT ![c] = Append(@, n)]
      /\ UNCHANGED <<com, listed, hist, ver, seen, up, down, failed>>
  BY <1>1 DEF Do, serverVars, wires
<1>4. copy \in [Client -> Store] /\ unsent \in [Client -> Seq(Waiter)] /\ done \in [Client -> Seq(Act)]
  BY DEF Types
<1>5. copy'[c] = s /\ unsent'[c] = Append(unsent[c], w) /\ done'[c] = Append(done[c], n)
  BY <1>3, <1>4
<1>6. Made(c, copy[c], copy'[c], w)
  BY <1>1, <1>5
<1>7. \A d \in Client \ {c} : unsent'[d] = unsent[d] /\ done'[d] = done[d] /\ copy'[d] = copy[d]
  BY <1>3, <1>4
<1> QED
  BY <1>2, <1>3, <1>5, <1>6, <1>7

LEMMA ActingMakes ==
    ASSUME IInv, NEW c \in Client, Acting(c), NEW n \in Act, n = NextAct
    PROVE  \E w \in Waiter :
              /\ w.act = n /\ unsent'[c] = Append(unsent[c], w) /\ done'[c] = Append(done[c], n)
              /\ Made(c, copy[c], copy'[c], w)
              /\ \A d \in Client \ {c} : /\ unsent'[d] = unsent[d] /\ done'[d] = done[d]
                                         /\ copy'[d] = copy[d]
              /\ UNCHANGED <<com, listed, hist, ver, seen, up, down, failed>>
<1>1. Types /\ copy[c] \in Store
  BY DEF IInv, Types
<1>2. n \in Id /\ 0 \in Id /\ Act \subseteq Id
  BY ActIsId
<1>3. PICK s \in Store : s = copy[c]
  BY <1>1
<1>4. /\ s = [i \in DOMAIN s |-> s[i]]
      /\ DOMAIN s \subseteq Id /\ \A i \in DOMAIN s : s[i] \in Comment
  BY StoreIs
<1>5. \A type \in {"create", "update", "delete", "add_answer", "update_answer", "delete_answer"} :
         type \in Kind
  BY DEF Kind
<1>6. \A i, x : \A j : j # i => /\ Same(s, Put(s, i, x), j) /\ Same(s, Without(s, i), j)
                               /\ Same(s, [s EXCEPT ![i] = x], j)
  BY OthersSame
<1>7. CASE AddComment(c)
  <2>1. PICK x : x = [by |-> c, text |-> n, answers |-> {}]
    OBVIOUS
  <2>2. PICK r : r = Put(s, n, x)
    OBVIOUS
  <2>3. Do(c, "create", n, 0, r)
    BY <1>3, <1>7, <2>1, <2>2 DEF AddComment
  <2>4. n \in DOMAIN r /\ r[n] = x
    BY <2>2, PutIs
  <2>5. ASSUME NEW w, w = [type |-> "create", id |-> n, aid |-> 0, act |-> n]
        PROVE  Made(c, s, r, w)
    <3>1. w.type = "create" /\ w.id = n /\ w.act = n
      BY <2>5
    <3>2. \A j : j # n => Same(s, r, j)
      BY <1>6, <2>2
    <3>3. n \in DOMAIN r /\ r[n].by = c /\ r[n].answers = {}
      BY <2>1, <2>4
    <3> QED
      BY <3>1, <3>2, <3>3 DEF Made
  <2> QED
    BY <1>1, <1>2, <1>3, <1>5, <2>3, <2>5, DoMakes
<1>8. ASSUME NEW i \in DOMAIN s, UpdateComment(c, i)
      PROVE  \E a \in Id : \E r : /\ Do(c, "update", i, a, r)
                              /\ \A w : w = [type |-> "update", id |-> i, aid |-> a, act |-> n] =>
                                        Made(c, s, r, w)
  <2>1. PICK x : x = [s[i] EXCEPT !.text = n]
    OBVIOUS
  <2>2. PICK r : r = [s EXCEPT ![i] = x]
    OBVIOUS
  <2>3. x.answers = s[i].answers /\ x.by = s[i].by
    BY <1>4, <2>1 DEF Comment
  <2>4. Do(c, "update", i, 0, r)
    <3>1. [s EXCEPT ![i].text = n] = r
      BY <2>1, <2>2
    <3> QED
      BY <1>3, <1>8, <3>1 DEF UpdateComment
  <2>5. i \in DOMAIN r /\ r[i] = x
    BY <2>2
  <2>6. ASSUME NEW w, w = [type |-> "update", id |-> i, aid |-> 0, act |-> n]
        PROVE  Made(c, s, r, w)
    BY <1>6, <2>2, <2>3, <2>5, <2>6 DEF Made
  <2> QED
    BY <1>2, <2>4, <2>6
<1>9. ASSUME NEW i \in DOMAIN s, DeleteComment(c, i)
      PROVE  \E a \in Id : \E r : /\ Do(c, "delete", i, a, r)
                              /\ \A w : w = [type |-> "delete", id |-> i, aid |-> a, act |-> n] =>
                                        Made(c, s, r, w)
  <2>1. PICK r : r = Without(s, i)
    OBVIOUS
  <2>2. Do(c, "delete", i, 0, r)
    BY <1>3, <1>9, <2>1 DEF DeleteComment
  <2>3. i \notin DOMAIN r
    BY <2>1, WithoutIs
  <2>4. ASSUME NEW w, w = [type |-> "delete", id |-> i, aid |-> 0, act |-> n]
        PROVE  Made(c, s, r, w)
    <3>1. w.type = "delete" /\ w.id = i
      BY <2>4
    <3>2. \A j : j # i => Same(s, r, j)
      BY <1>6, <2>1
    <3> QED
      BY <2>3, <3>1, <3>2 DEF Made
  <2> QED
    BY <1>2, <2>2, <2>4
<1>10. ASSUME NEW i \in DOMAIN s, NEW as
       PROVE  \E r : /\ r = [s EXCEPT ![i].answers = as]
                     /\ i \in DOMAIN r /\ r[i].answers = as /\ r[i].by = s[i].by
                     /\ r[i].text = s[i].text /\ \A j : j # i => Same(s, r, j)
  <2>1. PICK x : x = [s[i] EXCEPT !.answers = as]
    OBVIOUS
  <2>2. x.answers = as /\ x.by = s[i].by /\ x.text = s[i].text
    BY <1>4, <2>1 DEF Comment
  <2>3. PICK r : r = [s EXCEPT ![i] = x]
    OBVIOUS
  <2>4. i \in DOMAIN r /\ r[i] = x /\ r = [s EXCEPT ![i].answers = as]
    BY <2>1, <2>3
  <2>5. \A j : j # i => Same(s, r, j)
    BY <1>6, <2>3
  <2> QED
    BY <2>2, <2>4, <2>5
<1>11. ASSUME NEW i \in DOMAIN s, AddAnswer(c, i)
       PROVE  \E a \in Id : \E r :
                 /\ Do(c, "add_answer", i, a, r)
                 /\ \A w : w = [type |-> "add_answer", id |-> i, aid |-> a, act |-> n] =>
                           Made(c, s, r, w)
  <2>1. PICK y : y = [id |-> n, by |-> c, text |-> n]
    OBVIOUS
  <2>2. PICK r : /\ r = [s EXCEPT ![i].answers = s[i].answers \cup {y}]
                 /\ i \in DOMAIN r /\ r[i].answers = s[i].answers \cup {y}
                 /\ r[i].by = s[i].by /\ r[i].text = s[i].text
                 /\ \A j : j # i => Same(s, r, j)
    BY <1>10
  <2>3. Do(c, "add_answer", i, n, r)
    BY <1>3, <1>11, <2>1, <2>2 DEF AddAnswer
  <2>4. y.id = n
    BY <2>1
  <2>5. ASSUME NEW w, w = [type |-> "add_answer", id |-> i, aid |-> n, act |-> n]
        PROVE  Made(c, s, r, w)
    BY <2>2, <2>4, <2>5 DEF Made
  <2> QED
    BY <1>2, <2>3, <2>5
<1>12. ASSUME NEW i \in DOMAIN s, NEW x \in s[i].answers, UpdateAnswer(c, i, x)
       PROVE  \E a \in Id : \E r :
                 /\ Do(c, "update_answer", i, a, r)
                 /\ \A w : w = [type |-> "update_answer", id |-> i, aid |-> a, act |-> n] =>
                           Made(c, s, r, w)
  <2>1. PICK y : y = [x EXCEPT !.text = n]
    OBVIOUS
  <2>2. PICK r : /\ r = [s EXCEPT ![i].answers = (s[i].answers \ {x}) \cup {y}]
                 /\ i \in DOMAIN r /\ r[i].answers = (s[i].answers \ {x}) \cup {y}
                 /\ r[i].by = s[i].by /\ r[i].text = s[i].text
                 /\ \A j : j # i => Same(s, r, j)
    BY <1>10
  <2>3. x \in Answers
    BY <1>4, CommentTyped
  <2>4. y.id = x.id /\ x.id \in Id
    BY <1>2, <2>1, <2>3 DEF Answers
  <2>5. Do(c, "update_answer", i, x.id, r)
    BY <1>3, <1>12, <2>1, <2>2 DEF UpdateAnswer
  <2>6. ASSUME NEW w, w = [type |-> "update_answer", id |-> i, aid |-> x.id, act |-> n]
        PROVE  Made(c, s, r, w)
    BY <2>4, <2>2, <2>6 DEF Made
  <2> QED
    BY <2>4, <2>5, <2>6
<1>13. ASSUME NEW i \in DOMAIN s, NEW x \in s[i].answers, DeleteAnswer(c, i, x)
       PROVE  \E a \in Id : \E r :
                 /\ Do(c, "delete_answer", i, a, r)
                 /\ \A w : w = [type |-> "delete_answer", id |-> i, aid |-> a, act |-> n] =>
                           Made(c, s, r, w)
  <2>1. PICK r : /\ r = [s EXCEPT ![i].answers = s[i].answers \ {x}]
                 /\ i \in DOMAIN r /\ r[i].answers = s[i].answers \ {x}
                 /\ r[i].by = s[i].by /\ r[i].text = s[i].text
                 /\ \A j : j # i => Same(s, r, j)
    BY <1>10
  <2>2. x \in Answers
    BY <1>4, CommentTyped
  <2>3. x.id \in Id
    BY <1>2, <2>2 DEF Answers
  <2>4. Do(c, "delete_answer", i, x.id, r)
    BY <1>3, <1>13, <2>1 DEF DeleteAnswer
  <2>5. ASSUME NEW w, w = [type |-> "delete_answer", id |-> i, aid |-> x.id, act |-> n]
        PROVE  Made(c, s, r, w)
    BY <2>1, <2>5 DEF Made
  <2> QED
    BY <2>3, <2>4, <2>5
<1>14. CASE ~AddComment(c)
  <2>1. PICK i, type, a, r :
          /\ i \in DOMAIN s /\ a \in Id
          /\ type \in {"update", "delete", "add_answer", "update_answer", "delete_answer"}
          /\ Do(c, type, i, a, r)
          /\ \A w : w = [type |-> type, id |-> i, aid |-> a, act |-> n] => Made(c, s, r, w)
    BY <1>3, <1>8, <1>9, <1>11, <1>12, <1>13, <1>14 DEF Acting
  <2> QED
    BY <1>1, <1>3, <1>4, <1>5, <2>1, DoMakes
<1> QED
  BY <1>7, <1>14

\* c does what has number n.
Doing(au, a2, c, n, w) ==
    /\ n \in Act /\ n \notin Acts \cup {0} /\ w \in Waiter /\ w.act = n
    /\ unsent'[c] = Append(unsent[c], w) /\ done'[c] = Append(done[c], n)
    /\ Made(c, copy[c], copy'[c], w)
    /\ UNCHANGED <<com, listed, hist, ver, seen, up, down, failed>>
    /\ Lasting(au, a2) /\ a2[n] = c

\* Queue r is queue q with update w at its end.
Longer(q, r, w) ==
    \E m \in Nat :
        /\ m = Len(q) /\ Len(r) = m + 1
        /\ \A k \in 1 .. m : r[k] = q[k]
        /\ r[m + 1] = w

\* The queue gets longer by that update.
LEMMA QueueMore ==
    ASSUME Types, NEW au, NEW a2, NEW c \in Client, NEW n, NEW w, Doing(au, a2, c, n, w)
    PROVE  Longer(unsent[c], unsent'[c], w)
<1>1. PICK q \in Seq(Waiter) : q = unsent[c]
  BY DEF Types
<1>2. Len(q) \in Nat /\ w \in Waiter /\ unsent'[c] = Append(q, w)
  BY <1>1, LenProperties DEF Doing
<1>3. /\ Len(Append(q, w)) = Len(q) + 1 /\ \A k \in 1 .. Len(q) : Append(q, w)[k] = q[k]
      /\ Append(q, w)[Len(q) + 1] = w
  BY <1>2, AppendProperties
<1> QED
  BY <1>1, <1>2, <1>3 DEF Longer

\* Nobody has heard of the new act, and the rest is known as it was.
LEMMA DoingFacts ==
    ASSUME Types, Types', NEW st, NEW au, Past(st, au), NEW c \in Client, ver[c] <= Len(hist),
           Shelf(au, c), Queue(au, c), NEW a2, NEW n, NEW w, Doing(au, a2, c, n, w)
    PROVE  /\ \A x : Knows(c, x) => Knows(c, x)' /\ x \in Acts \cup {0} /\ x # n /\ a2[x] = au[x]
           /\ Knows(c, n)' /\ n \in Range(done'[c])
           /\ w.type # "create" => w.id \in DOMAIN copy[c] /\ Knows(c, w.id)
           /\ w.type = "create" => w.id = n
           /\ \A v \in Nat : \A x : HeardBy(v, x)' <=> HeardBy(v, x)
           /\ ~HeardBy(ver[c], n)
           /\ Range(done'[c]) = Range(done[c]) \cup {n}
<1>1. ver[c] \in Nat /\ ver[c] <= ver'[c] /\ Kept /\ Agree(au, a2) /\ done[c] \in Seq(Act)
  BY DEF Types, Doing, Lasting
<1>2. Range(done'[c]) = Range(done[c]) \cup {n}
  BY <1>1, RangeAppend DEF Doing
<1>3. ASSUME NEW x, Knows(c, x)
      PROVE  Knows(c, x)' /\ x \in Acts \cup {0} /\ x # n /\ a2[x] = au[x]
  <2>1. x \in Acts \cup {0}
    BY <1>3, KnowsActs
  <2>2. Knows(c, x)'
    BY <1>1, <1>2, <1>3, KnowsMore
  <2> QED
    BY <1>1, <2>1, <2>2 DEF Agree, Doing
<1>4. Knows(c, n)' /\ n \in Range(done'[c])
  BY <1>2 DEF Knows
<1>5. w.type # "create" => w.id \in DOMAIN copy[c] /\ Knows(c, w.id)
  BY DEF Doing, Made, Shelf
<1>6. w.type = "create" => w.id = n
  BY DEF Doing, Made
<1>7. \A v \in Nat : \A x : HeardBy(v, x)' <=> HeardBy(v, x)
  BY DEF HeardBy, Doing
<1>8. ~HeardBy(ver[c], n)
  BY <1>1, HeardActs DEF Doing
<1> QED
  BY <1>2, <1>3, <1>4, <1>5, <1>6, <1>7, <1>8

\* What waits after the first p has the new update.
LEMMA RestMore ==
    ASSUME Types, NEW au, NEW a2, NEW c \in Client, NEW n, NEW w, Doing(au, a2, c, n, w),
           NEW p \in Nat, p <= Len(unsent[c])
    PROVE  Rest(c, p)' = Rest(c, p) \cup {w}
<1>0. PICK m \in Nat : /\ m = Len(unsent[c]) /\ Len(unsent'[c]) = m + 1
                       /\ \A k \in 1 .. m : unsent'[c][k] = unsent[c][k]
                       /\ unsent'[c][m + 1] = w
  <2>1. Longer(unsent[c], unsent'[c], w)
    BY QueueMore
  <2> QED
    BY <2>1 DEF Longer
<1>1. \A k \in p + 1 .. m + 1 : k \in p + 1 .. m \/ k = m + 1
  OBVIOUS
<1>2. \A k \in p + 1 .. m : k \in 1 .. m /\ k \in p + 1 .. m + 1
  OBVIOUS
<1>3. m + 1 \in p + 1 .. m + 1
  <2>1. p <= m
    BY <1>0
  <2> QED
    BY <2>1
<1> QED
  BY <1>0, <1>1, <1>2, <1>3 DEF Rest

\* Comment i, before and after.
LEMMA DoingMirror ==
    ASSUME Types, Types', NEW st, NEW au, Past(st, au), NEW c \in Client, ver[c] <= Len(hist),
           Shelf(au, c), Queue(au, c), NEW a2, NEW n, NEW w, Doing(au, a2, c, n, w),
           NEW p \in Nat, p <= Len(unsent[c]), NEW t, DOMAIN t \subseteq Acts \cup {0}, NEW i,
           Sees(au, c, i) => Mirror(au, c, Rest(c, p), copy[c], t, i), Sees(a2, c, i)
    PROVE  Mirror(a2, c, Rest(c, p)', copy'[c], t, i)
<1>1. PICK m \in Nat : /\ m = Len(unsent[c]) /\ Len(unsent'[c]) = m + 1
                       /\ \A k \in 1 .. m : unsent'[c][k] = unsent[c][k]
                       /\ unsent'[c][m + 1] = w
  <2>1. Longer(unsent[c], unsent'[c], w)
    BY QueueMore
  <2> QED
    BY <2>1 DEF Longer
<1>2. PICK W : W = Rest(c, p)
  OBVIOUS
<1>3. Rest(c, p)' = W \cup {w}
  BY <1>2, RestMore
<1>4. w \in Waiter /\ w.act = n /\ Made(c, copy[c], copy'[c], w) /\ n \notin Acts \cup {0}
  BY DEF Doing
<1>5. CASE w.type = "create" /\ w.id = i
  <2>1. i = n /\ i \notin DOMAIN t
    BY <1>4, <1>5, DoingFacts
  <2>2. ASSUME NEW x \in W
        PROVE  x.id # i
    <3>1. PICK k \in p + 1 .. m : x = unsent[c][k]
      BY <1>1, <1>2, <2>2 DEF Rest
    <3>2. k \in 1 .. m
      OBVIOUS
    <3>3. Knows(c, x.id)
      BY <1>1, <3>1, <3>2 DEF Queue
    <3> QED
      BY <2>1, <3>3, DoingFacts
  <2>3. ~Has(W, {"delete"}, i)
    BY <2>2 DEF Has
  <2>4. IF w.type = "create" /\ w.id = i
        THEN i \notin DOMAIN t /\ ~Has(W, {"delete"}, i)
        ELSE Mirror(au, c, W, copy[c], t, i) /\ a2[i] = au[i]
    BY <1>5, <2>1, <2>3
  <2>5. Mirror(a2, c, W \cup {w}, copy'[c], t, i)
    BY <1>4, <2>4, MadeMirror
  <2> QED
    BY <1>3, <2>5
<1>6. CASE ~(w.type = "create" /\ w.id = i) /\ i \in Acts \cup {0}
  <2>1. a2[i] = au[i]
    BY <1>6 DEF Doing, Lasting, Agree
  <2>2. Mirror(au, c, W, copy[c], t, i)
    BY <1>2, <2>1 DEF Sees
  <2> QED
    BY <1>3, <1>4, <1>6, <2>1, <2>2, MadeMirror
<1>7. CASE ~(w.type = "create" /\ w.id = i) /\ i \notin Acts \cup {0}
  <2>1. i \notin DOMAIN t
    BY <1>7
  <2>2. i \notin DOMAIN copy[c]
    BY <1>7, ShelfActs
  <2>3. w.id # i
    BY <1>7, <2>2, DoingFacts
  <2>4. i \notin DOMAIN copy'[c]
    BY <1>4, <2>2, <2>3 DEF Made, Same
  <2> QED
    BY <2>1, <2>4 DEF Mirror, Shows
<1> QED
  BY <1>5, <1>6, <1>7

\* What c shows stays with its authors.
LEMMA DoingShelf ==
    ASSUME Types, Types', NEW st, NEW au, Past(st, au), NEW c \in Client, ver[c] <= Len(hist),
           Shelf(au, c), Queue(au, c), NEW a2, NEW n, NEW w, Doing(au, a2, c, n, w)
    PROVE  Shelf(a2, c)'
<1>1. PICK s, r : s = copy[c] /\ r = copy'[c]
  OBVIOUS
<1>2. Made(c, s, r, w) /\ w.act = n /\ a2[n] = c /\ w \in Waiter
  BY <1>1 DEF Doing
<1>3. /\ \A x : Knows(c, x) => Knows(c, x)' /\ a2[x] = au[x]
      /\ Knows(c, n)'
  BY DoingFacts
<1>4. \A i \in DOMAIN s : /\ Knows(c, i) /\ s[i].by = au[i] /\ (c \in OwnOnly => au[i] = c)
                          /\ \A x \in s[i].answers : Knows(c, x.id)
  BY <1>1 DEF Shelf
<1>5. ASSUME NEW i \in DOMAIN r
      PROVE  /\ Knows(c, i)' /\ r[i].by = a2[i] /\ (c \in OwnOnly => a2[i] = c)
             /\ \A x \in r[i].answers : Knows(c, x.id)'
  <2>1. CASE i # w.id
    <3>1. i \in DOMAIN s /\ r[i] = s[i]
      BY <1>2, <1>5, <2>1 DEF Made, Same
    <3> QED
      BY <1>3, <1>4, <3>1
  <2>2. CASE i = w.id /\ w.type = "create"
    <3>1. i = n /\ r[i].by = c /\ r[i].answers = {}
      BY <1>2, <2>2 DEF Made
    <3> QED
      BY <1>2, <1>3, <3>1
  <2>3. CASE i = w.id /\ w.type # "create"
    <3>1. i \in DOMAIN s /\ w.type # "delete"
      BY <1>2, <1>5, <2>3 DEF Made
    <3>2. r[i].by = s[i].by
      BY <1>2, <2>3, <3>1 DEF Made
    <3>3. ASSUME NEW x \in r[i].answers
          PROVE  (\E y \in s[i].answers : y.id = x.id) \/ x.id = n
      <4>1. CASE w.type = "update"
        BY <1>2, <2>3, <4>1 DEF Made
      <4>2. CASE w.type = "add_answer"
        <5>1. PICK y : y.id = n /\ r[i].answers = s[i].answers \cup {y}
          BY <1>2, <2>3, <4>2 DEF Made
        <5> QED
          BY <5>1
      <4>3. CASE w.type = "update_answer"
        <5>1. PICK z, y :
                 z \in s[i].answers /\ z.id = w.aid /\ y.id = w.aid /\ r[i].answers = (s[i].answers \ {z}) \cup {y}
          BY <1>2, <2>3, <4>3 DEF Made
        <5> QED
          BY <5>1
      <4>4. CASE w.type = "delete_answer"
        <5>1. PICK z : r[i].answers = s[i].answers \ {z}
          BY <1>2, <2>3, <4>4 DEF Made
        <5> QED
          BY <5>1
      <4>5. w.type \in Kind
        BY <1>2 DEF Waiter
      <4> QED
        BY <2>3, <3>1, <4>1, <4>2, <4>3, <4>4, <4>5 DEF Kind
    <3> QED
      BY <1>3, <1>4, <3>1, <3>2, <3>3
  <2> QED
    BY <2>1, <2>2, <2>3
<1> QED
  BY <1>1, <1>5 DEF Shelf

\* What c has to send stays in order and complete.
LEMMA DoingQueue ==
    ASSUME Types, Types', NEW st, NEW au, Past(st, au), NEW c \in Client, ver[c] <= Len(hist),
           Shelf(au, c), Queue(au, c), Complete(c), NEW a2, NEW n, NEW w, Doing(au, a2, c, n, w)
    PROVE  Queue(a2, c)' /\ Complete(c)'
<1>1. PICK m \in Nat : /\ m = Len(unsent[c]) /\ Len(unsent'[c]) = m + 1
                       /\ \A k \in 1 .. m : unsent'[c][k] = unsent[c][k]
                       /\ unsent'[c][m + 1] = w
  <2>1. Longer(unsent[c], unsent'[c], w)
    BY QueueMore
  <2> QED
    BY <2>1 DEF Longer
<1>2. /\ \A x : Knows(c, x) => Knows(c, x)' /\ a2[x] = au[x]
      /\ Knows(c, n)' /\ n \in Range(done'[c])
      /\ w.type # "create" => w.id \in DOMAIN copy[c] /\ Knows(c, w.id)
      /\ w.type = "create" => w.id = n
      /\ ~HeardBy(ver[c], n)
      /\ Range(done'[c]) = Range(done[c]) \cup {n}
  <2>1. \A x : Knows(c, x) => Knows(c, x)' /\ a2[x] = au[x]
    BY DoingFacts
  <2>2. Knows(c, n)' /\ n \in Range(done'[c])
    BY DoingFacts
  <2>3. /\ w.type # "create" => w.id \in DOMAIN copy[c] /\ Knows(c, w.id)
        /\ w.type = "create" => w.id = n
    BY DoingFacts
  <2>4. ~HeardBy(ver[c], n)
    BY Zenon, DoingFacts
  <2>5. Range(done'[c]) = Range(done[c]) \cup {n}
    <3>1. done[c] \in Seq(Act)
      BY DEF Types
    <3> QED
      BY <3>1, RangeAppend DEF Doing
  <2> QED
    BY <2>1, <2>2, <2>3, <2>4, <2>5
<1>3. \A x : HeardBy(ver[c], x)' <=> HeardBy(ver[c], x)
  BY DEF HeardBy, Doing
<1>4. w.act = n /\ a2[n] = c /\ ver'[c] = ver[c] /\ n \notin Range(done[c])
  BY ActsThere DEF Doing
<1>5. ASSUME NEW k \in 1 .. m + 1, NEW x, x = unsent'[c][k]
      PROVE  /\ Knows(c, x.id)' /\ (c \in OwnOnly => a2[x.id] = c)
             /\ x.act \in Range(done'[c]) /\ ~HeardBy(ver[c], x.act)
             /\ x.type = "create" => x.id = x.act
             /\ x.type = "add_answer" => x.aid = x.act
             /\ x.act = n <=> k = m + 1
  <2>1. CASE k \in 1 .. m
    <3>1. /\ Knows(c, x.id) /\ (c \in OwnOnly => au[x.id] = c)
          /\ x.act \in Range(done[c]) /\ ~HeardBy(ver[c], x.act)
          /\ x.type = "create" => x.id = x.act
          /\ x.type = "add_answer" => x.aid = x.act
      BY <1>1, <1>5, <2>1 DEF Queue
    <3> QED
      BY <1>2, <1>4, <2>1, <3>1
  <2>2. CASE k = m + 1
    <3>1. x = w
      BY <1>1, <1>5, <2>2
    <3>2. w.type = "add_answer" => w.aid = n
      BY <1>4 DEF Doing, Made
    <3>3. w.type # "create" /\ c \in OwnOnly => a2[w.id] = c
      BY <1>2 DEF Shelf
    <3> QED
      BY <1>2, <1>4, <2>2, <3>1, <3>2, <3>3
  <2> QED
    BY <2>1, <2>2
<1>6. ASSUME NEW k \in 1 .. m + 1, NEW j \in 1 .. m + 1,
             unsent'[c][j].act = unsent'[c][k].act
      PROVE  j = k
  <2>1. CASE unsent'[c][k].act = n
    BY <1>5, <1>6, <2>1
  <2>2. CASE unsent'[c][k].act # n
    <3>1. j # m + 1 /\ k # m + 1
      BY <1>5, <1>6, <2>2
    <3>2. j \in 1 .. m /\ k \in 1 .. m
      BY <3>1
    <3>3. unsent[c][j].act = unsent[c][k].act
      BY <1>1, <1>6, <3>2
    <3> QED
      BY <1>1, <3>2, <3>3 DEF Queue
  <2> QED
    BY <2>1, <2>2
<1>7. Queue(a2, c)'
  BY <1>1, <1>3, <1>4, <1>5, <1>6 DEF Queue
<1>8. ASSUME NEW x \in Range(done'[c])
      PROVE  HeardBy(ver[c], x) \/ \E k \in 1 .. m + 1 : unsent'[c][k].act = x
  <2>1. CASE x = n
    <3>1. m + 1 \in 1 .. m + 1
      OBVIOUS
    <3> QED
      BY <1>1, <1>4, <2>1, <3>1
  <2>2. CASE x \in Range(done[c]) /\ ~HeardBy(ver[c], x)
    <3>1. PICK k \in 1 .. m : unsent[c][k].act = x
      BY <1>1, <2>2 DEF Complete
    <3>2. k \in 1 .. m + 1
      OBVIOUS
    <3> QED
      BY <1>1, <3>1, <3>2
  <2> QED
    BY <1>2, <2>1, <2>2
<1>9. Complete(c)'
  BY <1>1, <1>3, <1>4, <1>8 DEF Complete
<1> QED
  BY <1>7, <1>9

\* c goes on mirroring the server, but for what waits.
LEMMA DoingFaithful ==
    ASSUME Types, Types', NEW st \in [Nat -> Sound], NEW au, Past(st, au), NEW c \in Client,
           ClientInv(c), Shelf(au, c), Queue(au, c), Faithful(st, au, c),
           NEW a2, NEW n, NEW w, Doing(au, a2, c, n, w)
    PROVE  Faithful(st, a2, c)'
<1>1. PICK v \in Nat : v = ver[c] /\ v = ver'[c] /\ v <= Len(hist) /\ Len(hist) \in Nat
  BY LenProperties DEF Types, Doing, ClientInv, Current
<1>2. /\ ver[c] <= Len(hist) /\ hist' = hist /\ failed' = failed
      /\ \A k \in 0 .. Len(hist) : DOMAIN st[k].com \subseteq Acts \cup {0}
  BY <1>1 DEF Doing, Past
<1>3. ASSUME NEW p \in Nat, p <= Len(unsent[c]), NEW t, DOMAIN t \subseteq Acts \cup {0},
             Mirrors(au, c, p, t)
      PROVE  Mirrors(a2, c, p, t)'
  <2>1. ASSUME NEW i \in Id \ failed, Sees(a2, c, i)
        PROVE  Mirror(a2, c, Rest(c, p)', copy'[c], t, i)
    <3>1. Sees(au, c, i) => Mirror(au, c, Rest(c, p), copy[c], t, i)
      BY <1>3 DEF Mirrors
    <3> QED
      BY <1>2, <1>3, <2>1, <3>1, DoingMirror
  <2> QED
    BY <1>2, <2>1 DEF Mirrors
<1>4. PICK m \in Nat : m = Len(unsent[c])
  BY LenProperties DEF Types
<1>5. Mirrors(a2, c, 0, st[v].com)'
  <2>1. v \in 0 .. Len(hist) /\ 0 \in Nat /\ 0 <= Len(unsent[c])
    BY <1>1, <1>4
  <2>2. PICK t : t = st[v].com
    OBVIOUS
  <2>3. DOMAIN t \subseteq Acts \cup {0} /\ Mirrors(au, c, 0, t)
    BY <1>1, <1>2, <2>1, <2>2 DEF Faithful
  <2>4. Mirrors(a2, c, 0, t)'
    BY <1>3, <2>1, <2>3
  <2> QED
    BY <2>2, <2>4
<1>6. ASSUME OwnNext(c)
      PROVE  Mirrors(a2, c, Len(hist[v + 1].acts), st[v + 1].com)'
  <2>1. v + 1 \in 0 .. Len(hist) /\ v + 1 \in 1 .. Len(hist)
    BY <1>1, <1>6 DEF OwnNext
  <2>2. PICK l : l = hist[v + 1]
    OBVIOUS
  <2>3. l.acts \in Seq(Act) /\ IsPrefix(l.acts, Waiting(c))
    BY <1>1, <1>6, <2>1, <2>2, HistEntry DEF Types, ClientInv, Own
  <2>4. PICK p \in Nat : p = Len(l.acts)
    BY <2>3, LenProperties
  <2>5. p <= Len(unsent[c])
    BY <2>3, <2>4, UnsentType, PrefixElements
  <2>6. PICK t : t = st[v + 1].com
    OBVIOUS
  <2>7. DOMAIN t \subseteq Acts \cup {0} /\ Mirrors(au, c, p, t)
    BY <1>1, <1>2, <1>6, <2>1, <2>2, <2>4, <2>6 DEF Faithful
  <2>8. Mirrors(a2, c, p, t)'
    BY <1>3, <2>5, <2>7
  <2>9. hist'[v + 1] = l
    BY <1>2, <2>2
  <2> QED
    BY <2>4, <2>6, <2>8, <2>9
<1>7. OwnNext(c)' <=> OwnNext(c)
  BY DEF OwnNext, Doing
<1> QED
  BY <1>1, <1>2, <1>5, <1>6, <1>7 DEF Faithful

\* The diff that c has under way does not know of the new act.
LEMMA DoingSending ==
    ASSUME Types, Types', NEW st \in [Nat -> Sound], NEW au, Past(st, au), NEW c \in Client,
           ClientInv(c), Shelf(au, c), Queue(au, c), Sending(st, au, c),
           NEW a2, NEW n, NEW w, Doing(au, a2, c, n, w)
    PROVE  Sending(st, a2, c)'
<1>1. PICK v \in Nat : v = ver[c] /\ v = ver'[c] /\ v <= Len(hist) /\ v \in 0 .. Len(hist)
  <2>1. ver[c] \in Nat /\ ver[c] <= Len(hist) /\ Len(hist) \in Nat /\ ver'[c] = ver[c]
    BY LenProperties DEF Types, Doing, ClientInv, Current
  <2> QED
    BY <2>1
<1>2. ver[c] <= Len(hist) /\ failed' = failed /\ up' = up /\ seen' = seen
  BY <1>1 DEF Doing
<1>3. PICK t \in Sound : t = st[v]
  OBVIOUS
<1>4. /\ \A i \in DOMAIN t.com : t.com[i].by = au[i] /\ i \in Acts \cup {0}
      /\ DOMAIN t.com \subseteq Acts \cup {0}
  BY <1>1, <1>3 DEF Past
<1>5. ASSUME NEW k \in 1 .. Len(up[c]), up[c][k].type = "diff", up[c][k].seen = seen[c]
      PROVE  Carries(a2, c, up[c][k], t)'
  <2>1. PICK m : m = up[c][k]
    OBVIOUS
  <2>2. m.cu \in Seq(Update) /\ m.acts \in Seq(Act)
    BY <1>5, <2>1, UpTyped
  <2>3. Carries(au, c, m, t)
    BY <1>1, <1>3, <1>5, <2>1 DEF Sending
  <2>4. IsPrefix(m.acts, Waiting(c))
    BY <1>5, <2>1 DEF ClientInv, Fresh
  <2>5. PICK p \in Nat : p = Len(m.acts)
    BY <2>2, LenProperties
  <2>6. p <= Len(unsent[c])
    BY <2>2, <2>4, <2>5, UnsentType, PrefixElements
  <2>7. Sane(a2, c, m.cu, m.acts, v, t)'
    <3>1. /\ Kept /\ Agree(au, a2) /\ failed \subseteq failed'
          /\ Range(done[c]) \subseteq Range(done'[c])
      BY DEF Doing, Lasting
    <3>2. PICK cu \in Seq(Update), acts \in Seq(Act) : cu = m.cu /\ acts = m.acts
      BY <2>2
    <3>3. Sane(au, c, cu, acts, v, t)
      BY <1>1, <2>3, <3>2 DEF Carries
    <3>4. Sane(a2, c, cu, acts, v, t)'
      BY <1>1, <1>4, <3>1, <3>3, SaneStays
    <3> QED
      BY <3>2, <3>4
  <2>8. PICK r : r = Run(t, m.cu)
    OBVIOUS
  <2>9. DOMAIN r.com \subseteq Acts \cup {0}
    BY <1>4, <2>2, <2>3, <2>8, RunAuthors DEF Carries, Sane
  <2>10. ASSUME NEW i \in Id \ failed, Sees(a2, c, i), r.ok = TRUE \/ ~Concerns(m.cu, i)
         PROVE  Mirror(a2, c, Rest(c, p)', copy'[c], r.com, i)
    <3>1. Sees(au, c, i) => Mirror(au, c, Rest(c, p), copy[c], r.com, i)
      BY <2>3, <2>5, <2>8, <2>10 DEF Carries
    <3> QED
      BY <1>2, <2>6, <2>9, <2>10, <3>1, DoingMirror
  <2> QED
    BY <1>1, <1>2, <2>1, <2>5, <2>7, <2>8, <2>10 DEF Carries
<1> QED
  BY <1>1, <1>2, <1>3, <1>5 DEF Sending

\* So the invariant holds after each act, with its author noted.
LEMMA ActingShared ==
    ASSUME IInv, IInv', NEW st \in [Nat -> Sound], NEW au \in [Id -> Client], Shared(st, au),
           NEW c \in Client, Acting(c)
    PROVE  \E a2 \in [Id -> Client] : Shared(st, a2)'
<1>1. Types /\ Types' /\ Numbered /\ NextAct <= MaxActs
  BY DEF IInv, Acting
<1>2. PICK n \in Act : n = NextAct /\ n \notin Acts \cup {0}
  <2>1. PICK n \in 0 .. MaxActs : Acts = 1 .. n /\ NextAct = n + 1
    BY <1>1, NextActIs
  <2>2. n + 1 \in Act /\ n + 1 \notin 1 .. n /\ n + 1 # 0
    BY <1>1, <2>1, NumberAssumption DEF Act
  <2> QED
    BY <2>1, <2>2
<1>3. PICK w \in Waiter :
         /\ w.act = n /\ unsent'[c] = Append(unsent[c], w) /\ done'[c] = Append(done[c], n)
         /\ Made(c, copy[c], copy'[c], w)
         /\ \A d \in Client \ {c} : /\ unsent'[d] = unsent[d] /\ done'[d] = done[d]
                                    /\ copy'[d] = copy[d]
         /\ UNCHANGED <<com, listed, hist, ver, seen, up, down, failed>>
  BY <1>2, ActingMakes
<1>4. PICK a2 \in [Id -> Client] : a2[n] = c /\ \A x \in Id : x # n => a2[x] = au[x]
  <2>1. [au EXCEPT ![n] = c] \in [Id -> Client] /\ n \in Id
    BY ActIsId
  <2> QED
    BY <2>1
<1>5. \A x \in Acts \cup {0} : x \in Id
  <2>1. \A d \in Client : done[d] \in Seq(Act)
    BY <1>1 DEF Types
  <2>2. \A d \in Client : Range(done[d]) \subseteq Act
    BY <2>1, ElementOfSeq DEF Range
  <2> QED
    BY <2>2, ActIsId DEF Acts
<1>6. Agree(au, a2)
  BY <1>2, <1>4, <1>5 DEF Agree
<1>7. Range(done'[c]) = Range(done[c]) \cup {n}
  <2>1. done[c] \in Seq(Act)
    BY <1>1 DEF Types
  <2> QED
    BY <1>3, <2>1, RangeAppend
<1>8. Lasting(au, a2)
  <2>1. Kept
    BY <1>1, <1>3, LenProperties DEF Kept, Types
  <2>2. \A d \in Client : Range(done[d]) \subseteq Range(done'[d])
    BY <1>3, <1>7
  <2> QED
    BY <1>3, <1>6, <2>1, <2>2 DEF Lasting
<1>9. Doing(au, a2, c, n, w)
  BY <1>2, <1>3, <1>4, <1>8 DEF Doing
<1>10. Past(st, au) /\ Authored(au)
  BY DEF Shared
<1>11. Past(st, a2)'
  BY <1>1, <1>3, <1>8, <1>10, PastStays
<1>12. Authored(a2)'
  <2>1. a2[0] = First
    BY <1>6, <1>10 DEF Agree, Authored
  <2>2. ASSUME NEW d \in Client, NEW x \in Range(done'[d])
        PROVE  a2[x] = d
    <3>1. CASE x \in Range(done[d])
      BY <1>6, <1>10, <3>1, ActsThere DEF Agree, Authored
    <3>2. CASE x \notin Range(done[d])
      <4>1. d = c /\ x = n
        BY <1>3, <1>7, <2>2, <3>2
      <4> QED
        BY <1>4, <4>1
    <3> QED
      BY <3>1, <3>2
  <2> QED
    BY <2>1, <2>2 DEF Authored
<1>13. ASSUME NEW d \in Client
       PROVE  /\ ClientInv(d) /\ ver[d] <= Len(hist) /\ Incoming(d) /\ Reader(st, au, d)
              /\ StillSending(d) /\ StillHearing(a2, d)
  <2>1. StillSending(d)
    BY <1>1, <1>3, SendsLess DEF FewerUp
  <2>2. StillHearing(a2, d)
    BY <1>1, <1>3, HearsLess
  <2> QED
    BY <2>1, <2>2 DEF IInv, ClientInv, Current, Shared
<1>14. ASSUME NEW d \in Client, d # c
       PROVE  Reader(st, a2, d)'
  <2>1. Len(hist') = Len(hist) /\ Len(hist') <= Len(hist) + 1
    BY <1>1, <1>3, LenProperties DEF Types
  <2>2. ver'[d] = ver[d] /\ copy'[d] = copy[d] /\ unsent'[d] = unsent[d] /\ done'[d] = done[d]
    BY <1>3, <1>14
  <2> QED
    BY <1>1, <1>8, <1>10, <1>13, <2>1, <2>2, ReaderStays
<1>15. Reader(st, a2, c)'
  <2>1. /\ Shelf(au, c) /\ Queue(au, c) /\ Complete(c)
        /\ Faithful(st, au, c) /\ Sending(st, au, c) /\ Hearing(au, c)
    BY <1>13 DEF Reader
  <2>2. ClientInv(c) /\ ver[c] <= Len(hist) /\ Incoming(c) /\ StillHearing(a2, c)
    BY <1>13
  <2>3. Shelf(a2, c)'
    BY <1>1, <1>9, <1>10, <2>1, <2>2, DoingShelf
  <2>4. Queue(a2, c)' /\ Complete(c)'
    BY <1>1, <1>9, <1>10, <2>1, <2>2, DoingQueue
  <2>5. Faithful(st, a2, c)'
    BY <1>1, <1>9, <1>10, <2>1, <2>2, DoingFaithful
  <2>6. Sending(st, a2, c)'
    BY <1>1, <1>9, <1>10, <2>1, <2>2, DoingSending
  <2>7. Hearing(a2, c)'
    BY <1>1, <1>8, <1>10, <2>1, <2>2, HearingStays
  <2> QED
    BY <2>3, <2>4, <2>5, <2>6, <2>7 DEF Reader
<1> QED
  BY <1>11, <1>12, <1>14, <1>15 DEF Shared

-----------------------------------------------------------------------------
(* What c sends.                                                           *)

\* What c knows of, its diff or the versions before it tell.
LEMMA KnowsTold ==
    ASSUME Types, NEW c \in Client, Complete(c), NEW n, Knows(c, n)
    PROVE  Told(ver[c], Waiting(c), n)
<1>1. CASE n \in Range(done[c]) /\ ~HeardBy(ver[c], n)
  <2>1. PICK k \in 1 .. Len(unsent[c]) : unsent[c][k].act = n
    BY <1>1 DEF Complete
  <2>2. Waiting(c)[k] = n /\ k \in DOMAIN Waiting(c)
    <3>1. /\ Waiting(c) \in Seq(Act) /\ Len(Waiting(c)) = Len(unsent[c])
          /\ Waiting(c)[k] = unsent[c][k].act
      BY UnsentType
    <3> QED
      BY <2>1, <3>1, LenProperties
  <2> QED
    BY <2>2 DEF Told, Range
<1> QED
  BY <1>1 DEF Knows, Told

\* Each entry is made from an update that waits and what the store has.
LEMMA SentFrom ==
    ASSUME Types, NEW c \in Client
    PROVE  \E cu \in Seq(Update), s \in Store, n \in Nat :
              /\ cu = UnsentEvents(c) /\ s = copy[c] /\ n = Len(unsent[c]) /\ Len(cu) = n
              /\ \A k \in 1 .. n : unsent[c][k] \in Waiter /\ cu[k] = Entry(s, unsent[c][k])
<1>1. PICK q \in Seq(Waiter) : q = unsent[c]
  BY DEF Types
<1>2. PICK n \in Nat : n = Len(q) /\ DOMAIN q = 1 .. n
  BY LenProperties
<1>3. PICK s \in Store : s = copy[c]
  BY DEF Types
<1>4. UnsentEvents(c) = [k \in 1 .. n |-> Entry(s, q[k])]
  BY <1>1, <1>2, <1>3 DEF UnsentEvents
<1>5. PICK cu \in Seq(Update) : cu = UnsentEvents(c)
  BY UnsentType
<1>6. Len(cu) = n
  <2>1. DOMAIN cu = 1 .. n
    BY <1>4, <1>5
  <2> QED
    BY <2>1, <1>2, LenProperties
<1>7. ASSUME NEW k \in 1 .. n
      PROVE  q[k] \in Waiter /\ cu[k] = Entry(s, q[k])
  BY <1>2, <1>4, <1>5, ElementOfSeq
<1> QED
  BY <1>1, <1>2, <1>3, <1>5, <1>6, <1>7

\* The updates that c sends come from what waits;
LEMMA SentSourced ==
    ASSUME Types, NEW au, NEW c \in Client, Shelf(au, c), Queue(au, c), Complete(c)
    PROVE  Sourced(au, c, UnsentEvents(c), Waiting(c), ver[c])
<1>1. PICK cu \in Seq(Update), s \in Store, n \in Nat :
         /\ cu = UnsentEvents(c) /\ s = copy[c] /\ n = Len(unsent[c]) /\ Len(cu) = n
         /\ \A k \in 1 .. n : unsent[c][k] \in Waiter /\ cu[k] = Entry(s, unsent[c][k])
  BY SentFrom
<1>2. PICK acts : /\ acts = Waiting(c) /\ Len(acts) = n
                  /\ \A k \in 1 .. n : acts[k] = unsent[c][k].act
  BY <1>1, UnsentType
<1>3. \A x : Knows(c, x) => Told(ver[c], acts, x)
  BY <1>2, KnowsTold
<1>4. ASSUME NEW j \in 1 .. n
      PROVE  /\ acts[j] \in Range(done[c])
             /\ \A k \in 1 .. n : acts[k] = acts[j] => k = j
  BY <1>1, <1>2 DEF Queue
<1>5. ASSUME NEW j \in 1 .. n, NEW e, e = cu[j]
      PROVE  /\ e.type = "create" => e.id = acts[j]
             /\ e.type = "add_answer" => e.answer.id = acts[j]
             /\ e # Ignored => Told(ver[c], acts, e.id) /\ (c \in OwnOnly => au[e.id] = c)
             /\ e.type \in OfAnswer => Told(ver[c], acts, e.answer.id)
             /\ e.type \in {"create", "update"} =>
                   e.note.by = au[e.id] /\ \A x \in e.note.answers : Told(ver[c], acts, x.id)
  <2>1. PICK w \in Waiter : w = unsent[c][j] /\ e = Entry(s, w)
    BY <1>1, <1>5
  <2>2. /\ Knows(c, w.id) /\ (c \in OwnOnly => au[w.id] = c)
        /\ w.type = "create" => w.id = w.act
        /\ w.type = "add_answer" => w.aid = w.act
        /\ acts[j] = w.act
    BY <1>1, <1>2, <2>1 DEF Queue
  <2>3. /\ e \in Update
        /\ e # Ignored => e.type = w.type /\ e.id = w.id
        /\ e # Ignored /\ w.type # "delete" => w.id \in DOMAIN s
        /\ w.type \in {"create", "update"} /\ w.id \in DOMAIN s => e.note = s[w.id]
    BY <2>1, EntryIs
  <2>4. w.type \in OfAnswer /\ e # Ignored =>
           e.answer \in s[w.id].answers /\ e.answer.id = w.aid
    <3>1. ASSUME w.type \in OfAnswer, e # Ignored
          PROVE  e.answer \in s[w.id].answers /\ e.answer.id = w.aid
      <4>1. w.id \in DOMAIN s
        BY <2>3, <3>1 DEF OfAnswer
      <4>2. IF Named(s[w.id].answers, w.aid) = {} THEN e = Ignored
            ELSE e.answer \in s[w.id].answers /\ e.answer.id = w.aid
        BY <2>1, <3>1, <4>1, EntryIs
      <4> QED
        BY <3>1, <4>2
    <3> QED
      BY <3>1
  <2>5. /\ e.type = "create" => e # Ignored
        /\ e.type \in OfAnswer => e # Ignored
        /\ e.type \in {"create", "update"} => e # Ignored
    BY DEF Ignored, OfAnswer
  <2>6. \A i \in DOMAIN s : /\ s[i].by = au[i]
                            /\ \A x \in s[i].answers : Knows(c, x.id)
    BY <1>1 DEF Shelf
  <2>7. e.type = "create" => e.id = acts[j]
    BY <2>2, <2>3, <2>5
  <2>8. e.type \in OfAnswer => w.type \in OfAnswer /\ w.id \in DOMAIN s
    BY <2>3, <2>5 DEF OfAnswer
  <2>9. e.type = "add_answer" => e.answer.id = acts[j]
    BY <2>2, <2>3, <2>4, <2>5 DEF OfAnswer
  <2>10. e # Ignored => Told(ver[c], acts, e.id) /\ (c \in OwnOnly => au[e.id] = c)
    BY <1>3, <2>2, <2>3
  <2>11. e.type \in OfAnswer => Told(ver[c], acts, e.answer.id)
    BY <1>3, <2>4, <2>5, <2>6, <2>8
  <2>12. e.type \in {"create", "update"} =>
            e.note.by = au[e.id] /\ \A x \in e.note.answers : Told(ver[c], acts, x.id)
    <3>1. ASSUME e.type \in {"create", "update"}
          PROVE  w.id \in DOMAIN s /\ e.note = s[w.id] /\ e.id = w.id
      BY <2>3, <2>5, <3>1
    <3> QED
      BY <1>3, <2>6, <3>1
  <2> QED
    BY <2>7, <2>9, <2>10, <2>11, <2>12
<1>6. \A j \in 1 .. Len(cu) :
         LET e == cu[j]
         IN  /\ e.type = "create" => e.id = acts[j]
             /\ e.type = "add_answer" => e.answer.id = acts[j]
             /\ e # Ignored => Told(ver[c], acts, e.id) /\ (c \in OwnOnly => au[e.id] = c)
             /\ e.type \in OfAnswer => Told(ver[c], acts, e.answer.id)
             /\ e.type \in {"create", "update"} =>
                   e.note.by = au[e.id] /\ \A x \in e.note.answers : Told(ver[c], acts, x.id)
  BY <1>1, <1>5
<1> QED
  BY <1>1, <1>2, <1>4, <1>6 DEF Sourced

\* the comments and answers in them agree with each other, as they are all read
\* from one store (unsentEvents);
LEMMA SentCoherent ==
    ASSUME Types, NEW c \in Client
    PROVE  Coherent(UnsentEvents(c))
<1>1. PICK cu \in Seq(Update), s \in Store, n \in Nat :
         /\ cu = UnsentEvents(c) /\ s = copy[c] /\ n = Len(unsent[c]) /\ Len(cu) = n
         /\ \A k \in 1 .. n : unsent[c][k] \in Waiter /\ cu[k] = Entry(s, unsent[c][k])
  BY SentFrom
<1>2. ASSUME NEW j \in 1 .. n, NEW e, e = cu[j], e # Ignored
      PROVE  /\ e.type \in {"create", "update"} => e.note = s[e.id]
             /\ e.type \in OfAnswer =>
                   /\ e.answer \in s[e.id].answers
                   /\ e.answer = CHOOSE x \in Named(s[e.id].answers, e.answer.id) : TRUE
  <2>1. PICK w \in Waiter : w = unsent[c][j] /\ e = Entry(s, w)
    BY <1>1, <1>2
  <2>2. /\ e.type = w.type /\ e.id = w.id
        /\ w.type # "delete" => w.id \in DOMAIN s
        /\ w.type \in {"create", "update"} /\ w.id \in DOMAIN s => e.note = s[w.id]
    BY <1>2, <2>1, EntryIs
  <2>3. ASSUME e.type \in OfAnswer
        PROVE  /\ e.answer \in s[e.id].answers
               /\ e.answer = CHOOSE x \in Named(s[e.id].answers, e.answer.id) : TRUE
    <3>1. w.id \in DOMAIN s /\ w.type \in OfAnswer
      BY <2>2, <2>3 DEF OfAnswer
    <3>2. IF Named(s[w.id].answers, w.aid) = {} THEN e = Ignored
          ELSE /\ e # Ignored
               /\ e.answer = CHOOSE x \in Named(s[w.id].answers, w.aid) : TRUE
               /\ e.answer \in s[w.id].answers /\ e.answer.id = w.aid
      BY <2>1, <3>1, EntryIs
    <3> QED
      BY <1>2, <2>2, <3>2
  <2> QED
    BY <2>2, <2>3
<1>3. ASSUME NEW j \in 1 .. n, NEW k \in 1 .. n,
             cu[k].type \in OfAnswer, cu[j] # Ignored, cu[j].id = cu[k].id
      PROVE  /\ cu[j].type \in {"create", "update"} => cu[k].answer \in cu[j].note.answers
             /\ cu[j].type \in OfAnswer /\ cu[j].answer.id = cu[k].answer.id =>
                   cu[j].answer = cu[k].answer
  <2>1. cu[k] # Ignored
    BY <1>3 DEF Ignored, OfAnswer
  <2>2. /\ cu[k].answer \in s[cu[k].id].answers
        /\ cu[k].answer = CHOOSE x \in Named(s[cu[k].id].answers, cu[k].answer.id) : TRUE
    BY <1>2, <1>3, <2>1
  <2>3. /\ cu[j].type \in {"create", "update"} => cu[j].note = s[cu[j].id]
        /\ cu[j].type \in OfAnswer =>
              cu[j].answer = CHOOSE x \in Named(s[cu[j].id].answers, cu[j].answer.id) : TRUE
    BY <1>2, <1>3
  <2> QED
    BY <1>3, <2>2, <2>3
<1> QED
  BY <1>1, <1>3 DEF Coherent

\* and they fit the comments that the server had at the version of c.
LEMMA SentFits ==
    ASSUME Types, NEW au, NEW c \in Client, Queue(au, c), NEW t, NEW i,
           au[i] \notin OwnOnly, Sees(au, c, i) => Mirror(au, c, Rest(c, 0), copy[c], t, i)
    PROVE  Fits(t, UnsentEvents(c), i)
<1>1. PICK cu \in Seq(Update), s \in Store, n \in Nat :
         /\ cu = UnsentEvents(c) /\ s = copy[c] /\ n = Len(unsent[c]) /\ Len(cu) = n
         /\ \A k \in 1 .. n : unsent[c][k] \in Waiter /\ cu[k] = Entry(s, unsent[c][k])
  BY SentFrom
<1>2. ASSUME NEW j \in 1 .. n, cu[j].type = "update", cu[j].id = i, i \in DOMAIN t
      PROVE  Covers(cu[j].note.answers, t[i].answers, Dels(cu, 0, i), Upds(cu, 0, i))
  <2>0. PICK w \in Waiter : w = unsent[c][j] /\ cu[j] = Entry(s, w)
    BY <1>1
  <2>1. PICK e : e = cu[j] /\ e = Entry(s, w)
    BY <2>0
  <2>2. e # Ignored
    BY <1>2, <2>1 DEF Ignored
  <2>3. e.type = w.type /\ e.id = w.id /\ w.type # "delete"
    <3>1. e # Ignored => e.type = w.type /\ e.id = w.id
      BY <2>1, EntryIs
    <3> QED
      BY <1>2, <2>1, <2>2, <3>1
  <2>4. i \in DOMAIN s /\ w.id = i /\ w.type = "update"
    <3>1. e # Ignored /\ w.type # "delete" => w.id \in DOMAIN s
      BY <2>1, EntryIs
    <3> QED
      BY <1>2, <2>1, <2>2, <2>3, <3>1
  <2>5. e.note = s[i]
    <3>1. w.type \in {"create", "update"} /\ w.id \in DOMAIN s => e # Ignored /\ e.note = s[w.id]
      BY <2>1, EntryIs
    <3> QED
      BY <2>4, <3>1
  <2>6. c \notin OwnOnly
    BY <1>1, <2>0, <2>4 DEF Queue
  <2>7. Mirror(au, c, Rest(c, 0), s, t, i) /\ Open(au, c, i)
    BY <1>1, <2>6 DEF Sees, Open
  <2>8. PICK as, D, U : /\ as = s[i].answers /\ D = Waits(Rest(c, 0), "delete_answer", i)
                        /\ U = Waits(Rest(c, 0), "update_answer", i)
                        /\ Covers(as, t[i].answers, D, U)
    BY <1>2, <2>4, <2>7 DEF Mirror
  <2>9. ASSUME NEW x \in Rest(c, 0)
        PROVE  \E k \in 1 .. n : x = unsent[c][k]
    <3>1. PICK k \in 0 + 1 .. n : x = unsent[c][k]
      BY <1>1, <2>9 DEF Rest
    <3>2. k \in 1 .. n
      OBVIOUS
    <3> QED
      BY <3>1, <3>2
  <2>10. \A k \in 1 .. n : k \in 0 + 1 .. n
    OBVIOUS
  <2>11. ASSUME NEW a \in D
         PROVE  a \in Dels(cu, 0, i)
    <3>1. PICK x \in Rest(c, 0) : x.type = "delete_answer" /\ x.id = i /\ a = x.aid
      BY <2>8, <2>11 DEF Waits
    <3>2. PICK k \in 1 .. n : x = unsent[c][k]
      BY <2>9
    <3>3. x \in Waiter /\ cu[k] = Entry(s, x)
      BY <1>1, <3>2
    <3>4. x.type = "delete_answer" /\ x.id \in DOMAIN s => Entry(s, x) # Ignored /\ Entry(s, x).aid = x.aid
      BY <3>3, EntryIs
    <3>5. Entry(s, x) # Ignored => Entry(s, x).type = x.type /\ Entry(s, x).id = x.id
      BY <3>3, EntryIs
    <3>6. cu[k].aid = a /\ cu[k].type = "delete_answer" /\ cu[k].id = i
      BY <2>4, <3>1, <3>3, <3>4, <3>5
    <3>7. k \in 0 + 1 .. Len(cu)
      BY <1>1, <2>10
    <3> QED
      BY <3>6, <3>7 DEF Dels
  <2>12. ASSUME NEW a \in U, Named(as, a) # {}
         PROVE  a \in Upds(cu, 0, i)
    <3>1. PICK x \in Rest(c, 0) : x.type = "update_answer" /\ x.id = i /\ a = x.aid
      BY <2>8, <2>12 DEF Waits
    <3>2. PICK k \in 1 .. n : x = unsent[c][k]
      BY <2>9
    <3>3. x \in Waiter /\ cu[k] = Entry(s, x)
      BY <1>1, <3>2
    <3>4. x.type \in OfAnswer /\ x.id \in DOMAIN s =>
            IF Named(s[x.id].answers, x.aid) = {} THEN Entry(s, x) = Ignored
            ELSE Entry(s, x) # Ignored /\ Entry(s, x).answer.id = x.aid
      BY <3>3, EntryIs
    <3>5. Entry(s, x) # Ignored => Entry(s, x).type = x.type /\ Entry(s, x).id = x.id
      BY <3>3, EntryIs
    <3>6. cu[k].answer.id = a /\ cu[k].type = "update_answer" /\ cu[k].id = i
      BY <2>4, <2>8, <2>12, <3>1, <3>3, <3>4, <3>5 DEF OfAnswer
    <3>7. k \in 0 + 1 .. Len(cu)
      BY <1>1, <2>10
    <3> QED
      BY <3>6, <3>7 DEF Upds
  <2>13. Covers(as, t[i].answers, Dels(cu, 0, i), Upds(cu, 0, i))
    BY <2>8, <2>11, <2>12 DEF Covers, Named
  <2> QED
    BY <2>1, <2>5, <2>8, <2>13
<1> QED
  BY <1>1, <1>2 DEF Fits

\* So what c sends is a sane diff that carries all that waits.
LEMMA SentCarries ==
    ASSUME Types, NEW st \in [Nat -> Sound], NEW au, NEW c \in Client, Reader(st, au, c),
           NEW m, m.cu = UnsentEvents(c), m.acts = Waiting(c)
    PROVE  Carries(au, c, m, st[ver[c]])
<1>1. /\ Shelf(au, c) /\ Queue(au, c) /\ Complete(c)
      /\ Mirrors(au, c, 0, st[ver[c]].com)
  BY DEF Reader, Faithful
<1>2. PICK t \in Sound : t = st[ver[c]]
  BY DEF Types
<1>3. PICK b \in Sound : b = Ready(t) /\ b.com = t.com
  BY ReadyIs
<1>4. \A i \in Id \ failed : Sees(au, c, i) => Mirror(au, c, Rest(c, 0), copy[c], t.com, i)
  BY <1>1, <1>2 DEF Mirrors
<1>5. Sane(au, c, m.cu, m.acts, ver[c], t)
  <2>1. Sourced(au, c, m.cu, m.acts, ver[c]) /\ Coherent(m.cu)
    BY <1>1, SentSourced, SentCoherent
  <2>2. ASSUME NEW i \in Id \ failed, au[i] \notin OwnOnly
        PROVE  Fits(t.com, m.cu, i)
    BY <1>1, <1>4, <2>2, SentFits
  <2> QED
    BY <2>1, <2>2 DEF Sane
<1>6. Len(m.acts) = Len(unsent[c])
  BY UnsentType
<1>7. PICK r : r = Run(t, m.cu) /\ r = FoldLeft(Applied, b, UnsentEvents(c))
  BY <1>3 DEF Run
<1>8. ASSUME NEW i \in Id \ failed, Sees(au, c, i), r.ok = TRUE \/ ~Concerns(m.cu, i)
      PROVE  Mirror(au, c, Rest(c, Len(m.acts)), copy[c], r.com, i)
  <2>1. Mirror(au, c, Rest(c, 0), copy[c], b.com, i)
    BY <1>3, <1>4, <1>8
  <2>2. i \in Id
    OBVIOUS
  <2>3. LET z == FoldLeft(Applied, b, UnsentEvents(c))
        IN  z.ok = TRUE \/ ~Concerns(UnsentEvents(c), i)
    BY <1>7, <1>8
  <2>4. Mirror(au, c, Rest(c, Len(unsent[c])), copy[c],
               FoldLeft(Applied, b, UnsentEvents(c)).com, i)
    BY <2>1, <2>2, <2>3, SentMirrors
  <2> QED
    BY <1>6, <1>7, <2>4
<1> QED
  BY <1>2, <1>5, <1>7, <1>8 DEF Carries

\* Sending keeps the invariant.
LEMMA SendShared ==
    ASSUME IInv, IInv', NEW st \in [Nat -> Sound], NEW au, Shared(st, au),
           NEW c \in Client, Send(c)
    PROVE  Shared(st, au)'
<1>1. Types /\ Types' /\ ClientInv(c)
  BY DEF IInv
<1>2. UNCHANGED <<com, listed, hist, ver, copy, unsent, done, failed, seen, down>>
  BY DEF Send, serverVars, storeVars, ghosts
<1>3. Past(st, au) /\ Authored(au)
  BY DEF Shared
<1>4. Lasting(au, au) /\ Len(hist) \in Nat
  BY <1>1, <1>2, LenProperties DEF Lasting, Kept, Agree, Types
<1>5. Past(st, au)'
  BY <1>1, <1>2, <1>3, <1>4, PastStays
<1>6. Authored(au)'
  BY <1>2, <1>3 DEF Authored
<1>7. \A d \in Client : StillHearing(au, d)
  BY <1>1, <1>2, HearsLess
<1>8. ASSUME NEW d \in Client
      PROVE  ClientInv(d) /\ Reader(st, au, d) /\ ver[d] <= Len(hist) /\ Incoming(d)
  BY DEF IInv, Shared, ClientInv, Current
<1>9. PICK m : /\ m.type = "diff" /\ m.cu = UnsentEvents(c) /\ m.acts = Waiting(c)
               /\ up' = [up EXCEPT ![c] = Append(@, m)]
  <2>1. PICK x : x = [type |-> "diff", v |-> ver[c], rid |-> NextRid(c), cu |-> UnsentEvents(c),
                  acts |-> [k \in DOMAIN unsent[c] |-> unsent[c][k].act], seen |-> 0]
    OBVIOUS
  <2>2. up' = [up EXCEPT ![c] = Append(@, [x EXCEPT !.seen = seen'[c]])]
    BY <2>1 DEF Send, Upload
  <2>3. PICK m : m = [x EXCEPT !.seen = seen'[c]]
    OBVIOUS
  <2>4. m.type = "diff" /\ m.cu = UnsentEvents(c) /\ m.acts = Waiting(c)
    BY <2>1, <2>3 DEF Waiting
  <2> QED
    BY <2>2, <2>3, <2>4
<1>10. ASSUME NEW d \in Client, d # c
       PROVE  Reader(st, au, d)'
  <2>1. StillSending(d)
    BY <1>1, <1>2, <1>9, <1>10, SendsLess DEF FewerUp, Types
  <2>2. /\ ver'[d] = ver[d] /\ copy'[d] = copy[d] /\ unsent'[d] = unsent[d] /\ done'[d] = done[d]
        /\ Len(hist') = Len(hist) /\ Len(hist') <= Len(hist) + 1
    BY <1>2, <1>4
  <2> QED
    BY <1>1, <1>3, <1>4, <1>7, <1>8, <2>1, <2>2, ReaderStays
<1>11. Reader(st, au, c)'
  <2>1. /\ Shelf(au, c) /\ Queue(au, c) /\ Complete(c)
        /\ Faithful(st, au, c) /\ Sending(st, au, c) /\ Hearing(au, c)
    BY <1>8 DEF Reader
  <2>2. /\ ver'[c] = ver[c] /\ copy'[c] = copy[c] /\ unsent'[c] = unsent[c] /\ done'[c] = done[c]
        /\ Len(hist') = Len(hist) /\ Len(hist') <= Len(hist) + 1 /\ ver[c] <= ver'[c] /\ Kept
    BY <1>1, <1>2, <1>4 DEF Types, Lasting
  <2>3. Shelf(au, c)'
    BY <1>1, <1>3, <1>4, <1>8, <2>1, <2>2, ShelfStays
  <2>4. Queue(au, c)'
    BY <1>1, <1>3, <1>4, <1>8, <2>1, <2>2, QueueStays
  <2>5. Complete(c)'
    BY <1>1, <1>4, <1>8, <2>1, <2>2, CompleteStays
  <2>6. Faithful(st, au, c)'
    BY <1>1, <1>3, <1>4, <1>8, <2>1, <2>2, FaithfulStays
  <2>7. Hearing(au, c)'
    BY <1>1, <1>3, <1>4, <1>7, <1>8, <2>1, HearingStays
  <2>8. Sending(st, au, c)'
    <3>1. PICK t \in Sound : t = st[ver[c]]
      BY <1>1 DEF Types
    <3>2. \A i \in DOMAIN t.com : t.com[i].by = au[i] /\ i \in Acts \cup {0}
      <4>1. ver[c] \in 0 .. Len(hist)
        BY <1>1, <1>4, <1>8 DEF Types
      <4> QED
        BY <1>3, <3>1, <4>1 DEF Past
    <3>3. ASSUME NEW x, x.cu \in Seq(Update), x.acts \in Seq(Act), Carries(au, c, x, t)
          PROVE  Carries(au, c, x, t)'
      BY <1>1, <1>3, <1>4, <1>8, <2>1, <2>2, <3>2, <3>3, CarriesStay
    <3>4. PICK q \in Seq(UpMsg) : q = up[c]
      BY <1>1 DEF Types
    <3>5. PICK n \in Nat : n = Len(q)
      BY LenProperties
    <3>6. up'[c] = Append(q, m) /\ up'[c] \in Seq(UpMsg)
      BY <1>1, <1>9, <3>4 DEF Types
    <3>7. /\ Len(up'[c]) = n + 1 /\ up'[c][n + 1] = m
          /\ \A k \in 1 .. n : up'[c][k] = q[k]
      BY <3>4, <3>5, <3>6
    <3>8. ASSUME NEW k \in 1 .. n + 1, NEW x, x = up'[c][k], x.type = "diff", x.seen = seen[c]
          PROVE  Carries(au, c, x, t)'
      <4>1. CASE k \in 1 .. n
        <5>1. k \in 1 .. Len(up[c]) /\ x = up[c][k]
          BY <3>4, <3>5, <3>7, <3>8, <4>1
        <5>2. x.cu \in Seq(Update) /\ x.acts \in Seq(Act)
          BY <1>1, <3>8, <5>1, UpTyped
        <5>3. Carries(au, c, x, t)
          BY <2>1, <3>1, <3>8, <5>1 DEF Sending
        <5> QED
          BY <3>3, <5>2, <5>3
      <4>2. CASE k = n + 1
        <5>1. x.cu = UnsentEvents(c) /\ x.acts = Waiting(c)
          BY <1>9, <3>7, <3>8, <4>2
        <5>2. x.cu \in Seq(Update) /\ x.acts \in Seq(Act)
          BY <1>1, <5>1, UnsentType
        <5>3. Carries(au, c, x, t)
          BY <1>1, <1>8, <3>1, <5>1, SentCarries
        <5> QED
          BY <3>3, <5>2, <5>3
      <4> QED
        BY <4>1, <4>2
    <3>9. ASSUME NEW k \in 1 .. Len(up'[c]), up'[c][k].type = "diff", up'[c][k].seen = seen'[c]
          PROVE  Carries(au, c, up[c][k], t)'
      <4>1. k \in 1 .. n + 1 /\ seen'[c] = seen[c]
        BY <1>2, <3>7
      <4> QED
        BY <3>8, <3>9, <4>1
    <3> QED
      BY <2>2, <3>1, <3>9 DEF Sending
  <2> QED
    BY <2>3, <2>4, <2>5, <2>6, <2>7, <2>8 DEF Reader
<1> QED
  BY <1>5, <1>6, <1>10, <1>11 DEF Shared

-----------------------------------------------------------------------------
(* The server accepts a diff.                                              *)

\* It takes diff m of c, in full or not.
Taking(st, au, c, m, l, s2) ==
    /\ m \in UpMsg /\ m.type = "diff" /\ l \in Diff
    /\ l.cid = c /\ l.cu = m.cu /\ l.acts = m.acts /\ hist' = Append(hist, l)
    /\ ver[c] = Len(hist) /\ IsPrefix(m.acts, Waiting(c))
    /\ Carries(au, c, m, st[ver[c]])
    /\ s2 \in [Nat -> Sound] /\ s2[Len(hist) + 1] = Run(st[Len(hist)], m.cu)
    /\ \A k \in 0 .. Len(hist) : s2[k] = st[k]
    /\ com' = s2[Len(hist) + 1].com /\ listed' = s2[Len(hist) + 1].listed
    /\ s2[Len(hist) + 1].ok = TRUE \/ \A i \in Id : Concerns(m.cu, i) => i \in failed'
    /\ failed \subseteq failed'
    /\ UNCHANGED <<seen, ver, copy, unsent, done>>

\* The history gets one diff longer.
LEMMA TakingFacts ==
    ASSUME Types, NEW st, NEW au, NEW c, NEW m, NEW l, NEW s2, Taking(st, au, c, m, l, s2)
    PROVE  /\ Lasting(au, au) /\ Len(hist) \in Nat /\ Len(hist') = Len(hist) + 1
           /\ hist'[Len(hist) + 1] = l
           /\ \A k \in 1 .. Len(hist) : hist'[k] = hist[k]
           /\ m.cu \in Seq(Update) /\ m.acts \in Seq(Act)
<1>1. hist \in Seq(Diff) /\ hist' = Append(hist, l) /\ l \in Diff
  BY DEF Types, Taking
<1>2. PICK n \in Nat : n = Len(hist)
  BY <1>1, LenProperties
<1>3. /\ Len(hist') = n + 1 /\ hist'[n + 1] = l
      /\ \A k \in 1 .. n : hist'[k] = hist[k]
  BY <1>1, <1>2, AppendProperties
<1>4. Kept
  BY <1>2, <1>3 DEF Kept
<1>5. Lasting(au, au)
  BY <1>4 DEF Lasting, Agree, Taking
<1>6. l.cu \in Seq(Update) /\ l.acts \in Seq(Act)
  BY <1>1 DEF Diff
<1> QED
  BY <1>2, <1>3, <1>5, <1>6 DEF Taking

\* What the diff carries is new to the server.
LEMMA TakingNew ==
    ASSUME Types, NEW st, NEW au, NEW c \in Client, Queue(au, c), NEW m, NEW l, NEW s2,
           Taking(st, au, c, m, l, s2), NEW k \in 1 .. Len(hist)
    PROVE  Range(m.acts) \cap Range(hist[k].acts) = {}
<1>1. /\ m.acts \in Seq(Act) /\ IsPrefix(m.acts, Waiting(c)) /\ Waiting(c) \in Seq(Act)
      /\ Len(Waiting(c)) = Len(unsent[c])
  <2>1. m.acts \in Seq(Act)
    BY TakingFacts
  <2>2. IsPrefix(m.acts, Waiting(c))
    BY DEF Taking
  <2> QED
    BY <2>1, <2>2, UnsentType
<1>2. PICK p \in Nat : p = Len(m.acts) /\ DOMAIN m.acts = 1 .. p
  BY <1>1, LenProperties
<1>3. p <= Len(unsent[c]) /\ \A j \in 1 .. p : m.acts[j] = Waiting(c)[j]
  BY <1>1, <1>2, PrefixElements
<1>4. PICK n \in Nat : n = Len(unsent[c])
  BY LenProperties DEF Types
<1>5. ASSUME NEW x \in Range(m.acts)
      PROVE  ~HeardBy(ver[c], x)
  <2>1. PICK j \in 1 .. p : x = m.acts[j]
    BY <1>2, <1>5 DEF Range
  <2>2. j \in 1 .. n
    BY <1>3, <1>4
  <2>3. x = unsent[c][j].act
    BY <1>3, <1>4, <2>1, <2>2, UnsentType
  <2> QED
    BY <1>4, <2>2, <2>3 DEF Queue
<1>6. ver[c] = Len(hist)
  BY DEF Taking
<1> QED
  BY <1>5, <1>6 DEF HeardBy

\* The new entry is as sane as the diff was when it was sent: c has the version of
\* the server, so it was sent about these comments.
LEMMA TakingEntered ==
    ASSUME Types, NEW st \in [Nat -> Sound], NEW au, NEW c \in Client, Past(st, au), Queue(au, c),
           NEW m, NEW l, NEW s2, Taking(st, au, c, m, l, s2), NEW k \in Nat, k = Len(hist) + 1
    PROVE  Entered(s2, au, k)'
<1>1. PICK n \in Nat : n = Len(hist)
  BY TakingFacts
<1>2. /\ Lasting(au, au) /\ Len(hist') = n + 1 /\ hist'[n + 1] = l
      /\ \A j \in 1 .. n : hist'[j] = hist[j]
      /\ m.cu \in Seq(Update) /\ m.acts \in Seq(Act)
  BY <1>1, TakingFacts
<1>3. /\ l.cid = c /\ l.cu = m.cu /\ l.acts = m.acts
      /\ s2[n] = st[n] /\ s2[n + 1] = Run(st[n], m.cu)
      /\ s2[n + 1].ok = TRUE \/ \A i \in Id : Concerns(m.cu, i) => i \in failed'
      /\ Carries(au, c, m, st[n]) /\ ver[c] = n
  <2>1. n \in 0 .. n
    OBVIOUS
  <2> QED
    BY <1>1, <2>1 DEF Taking
<1>4. PICK t \in Sound : t = st[n]
  OBVIOUS
<1>5. Sane(au, c, m.cu, m.acts, n, t)'
  <2>1. Sane(au, c, m.cu, m.acts, n, t)
    BY <1>3, <1>4 DEF Carries
  <2>2. DOMAIN t.com \subseteq Acts \cup {0}
    <3>1. n \in 0 .. Len(hist)
      BY <1>1
    <3> QED
      BY <1>4, <3>1 DEF Past
  <2>3. PICK cu \in Seq(Update), acts \in Seq(Act) : cu = m.cu /\ acts = m.acts
    BY <1>2
  <2>4. /\ Kept /\ Agree(au, au) /\ failed \subseteq failed'
        /\ Range(done[c]) \subseteq Range(done'[c])
    BY <1>2 DEF Lasting
  <2>6. n <= Len(hist)
    BY <1>1
  <2>5. Sane(au, c, cu, acts, n, t)'
    BY <2>1, <2>2, <2>3, <2>4, <2>6, SaneStays
  <2> QED
    BY <2>3, <2>5
<1>6. ASSUME NEW j \in 1 .. n + 1, Range(hist'[j].acts) \cap Range(m.acts) # {}
      PROVE  j = n + 1
  <2>1. CASE j \in 1 .. n
    <3>1. Range(m.acts) \cap Range(hist[j].acts) = {}
      BY <1>1, <2>1, TakingNew
    <3> QED
      BY <1>2, <1>6, <2>1, <3>1
  <2> QED
    BY <2>1
<1>7. k = n + 1 /\ k - 1 = n
  BY <1>1
<1>8. Entered(s2, au, k)'
  <2>1. s2[k] = Run(s2[k - 1], hist'[k].cu)
    BY <1>2, <1>3, <1>7
  <2>2. s2[k].ok = TRUE \/ \A i \in Id : Concerns(hist'[k].cu, i) => i \in failed'
    BY <1>2, <1>3, <1>7
  <2>3. Sane(au, hist[k].cid, hist[k].cu, hist[k].acts, k - 1, s2[k - 1])'
    BY <1>2, <1>3, <1>4, <1>5, <1>7
  <2>4. \A j \in 1 .. Len(hist') : Range(hist'[j].acts) \cap Range(hist'[k].acts) # {} => j = k
    BY <1>2, <1>3, <1>6, <1>7
  <2> QED
    BY <2>1, <2>2, <2>3, <2>4 DEF Entered
<1> QED
  BY <1>8

LEMMA TakingPast ==
    ASSUME Types, NEW st \in [Nat -> Sound], NEW au, NEW c \in Client, Past(st, au), Queue(au, c),
           NEW m, NEW l, NEW s2, Taking(st, au, c, m, l, s2)
    PROVE  Past(s2, au)'
<1>1. PICK n \in Nat : n = Len(hist)
  BY TakingFacts
<1>2. /\ Lasting(au, au) /\ Len(hist') = n + 1 /\ hist'[n + 1] = l
      /\ \A k \in 1 .. n : hist'[k] = hist[k]
      /\ m.cu \in Seq(Update) /\ m.acts \in Seq(Act)
  BY <1>1, TakingFacts
<1>3. /\ l.acts = m.acts /\ com' = s2[n + 1].com /\ listed' = s2[n + 1].listed
      /\ \A k \in 0 .. n : s2[k] = st[k]
      /\ s2[n + 1] = Run(st[n], m.cu) /\ Carries(au, c, m, st[n])
      /\ done' = done
  BY <1>1 DEF Taking
<1>4. ASSUME NEW k \in 1 .. n
      PROVE  Entered(s2, au, k)'
  <2>1. PICK h : h = hist[k]
    OBVIOUS
  <2>2. PICK p \in 0 .. n : p = k - 1
    OBVIOUS
  <2>3. s2[k] = st[k] /\ s2[k - 1] = st[k - 1] /\ k \in 1 .. Len(hist)
    <3>1. k \in 0 .. n
      OBVIOUS
    <3> QED
      BY <1>1, <1>3, <2>2, <3>1
  <2>4. h = hist'[k]
    BY <1>2, <2>1
  <2>5. s2[k] = Run(s2[k - 1], h.cu)
    BY <2>1, <2>3 DEF Past, Entered
  <2>6. s2[k].ok = TRUE \/ \A i \in Id : Concerns(h.cu, i) => i \in failed'
    BY <1>2, <2>1, <2>3, EnteredStays
  <2>7. Sane(au, h.cid, h.cu, h.acts, k - 1, s2[k - 1])'
    BY <1>2, <2>1, <2>3, EnteredStays
  <2>8. ASSUME NEW j \in 1 .. n + 1, Range(hist'[j].acts) \cap Range(h.acts) # {}
        PROVE  j = k
    <3>1. CASE j \in 1 .. n
      BY <1>1, <1>2, <2>1, <2>3, <2>8, <3>1 DEF Past, Entered
    <3>2. CASE j = n + 1
      <4>1. Range(m.acts) \cap Range(h.acts) = {}
        BY <2>1, <2>3, TakingNew
      <4> QED
        BY <1>2, <1>3, <2>8, <3>2, <4>1
    <3> QED
      BY <3>1, <3>2
  <2>9. Sane(au, hist[k].cid, hist[k].cu, hist[k].acts, k - 1, s2[k - 1])'
    BY <2>4, <2>7
  <2>10. \A j \in 1 .. Len(hist') : Range(hist'[j].acts) \cap Range(hist'[k].acts) # {} => j = k
    BY <1>2, <2>4, <2>8
  <2> QED
    BY <2>4, <2>5, <2>6, <2>9, <2>10 DEF Entered
<1>5. ASSUME NEW k \in Nat, k = n + 1
      PROVE  Entered(s2, au, k)'
  BY <1>1, <1>5, TakingEntered
<1>6. ASSUME NEW k \in 0 .. n + 1, NEW i \in DOMAIN s2[k].com
      PROVE  s2[k].com[i].by = au[i] /\ i \in Acts \cup {0}
  <2>1. CASE k \in 0 .. n
    BY <1>1, <1>3, <1>6, <2>1 DEF Past
  <2>2. CASE k = n + 1
    <3>1. PICK t \in Sound : t = st[n]
      OBVIOUS
    <3>2. \A j \in DOMAIN t.com : t.com[j].by = au[j] /\ j \in Acts \cup {0}
      <4>1. n \in 0 .. Len(hist)
        BY <1>1
      <4> QED
        BY <3>1, <4>1 DEF Past
    <3>3. Sourced(au, c, m.cu, m.acts, ver[c])
      BY <1>3 DEF Carries, Sane
    <3>4. \A j \in DOMAIN Run(t, m.cu).com : Run(t, m.cu).com[j].by = au[j] /\ j \in Acts \cup {0}
      BY <1>2, <3>2, <3>3, RunAuthors
    <3> QED
      BY <1>3, <1>6, <2>2, <3>1, <3>4
  <2> QED
    BY <2>1, <2>2
<1>7. Acts' = Acts
  BY <1>3 DEF Acts
<1>8. \A k \in 1 .. n + 1 : k \in 1 .. n \/ (k \in Nat /\ k = n + 1)
  OBVIOUS
<1>9. \A k \in 1 .. Len(hist') : Entered(s2, au, k)'
  BY <1>2, <1>4, <1>5, <1>8
<1>10. \A k \in 0 .. Len(hist') : \A i \in DOMAIN s2[k].com : s2[k].com[i].by = au[i] /\ i \in (Acts \cup {0})'
  BY <1>2, <1>6, <1>7
<1>11. s2[Len(hist')].com = com' /\ s2[Len(hist')].listed = listed'
  BY <1>2, <1>3
<1> QED
  BY <1>9, <1>10, <1>11 DEF Past

\* What c shows when its diff is taken.
LEMMA TakingFaithful ==
    ASSUME Types, NEW st \in [Nat -> Sound], NEW au, NEW c \in Client, Past(st, au),
           Reader(st, au, c), NEW m, NEW l, NEW s2, Taking(st, au, c, m, l, s2)
    PROVE  Faithful(s2, au, c)'
<1>1. PICK n \in Nat : n = Len(hist)
  BY TakingFacts
<1>2. /\ Lasting(au, au) /\ Len(hist') = n + 1 /\ hist'[n + 1] = l
      /\ m.cu \in Seq(Update) /\ m.acts \in Seq(Act)
  BY <1>1, TakingFacts
<1>3. /\ l.acts = m.acts /\ s2[n] = st[n] /\ s2[n + 1] = Run(st[n], m.cu)
      /\ s2[n + 1].ok = TRUE \/ \A i \in Id : Concerns(m.cu, i) => i \in failed'
      /\ Carries(au, c, m, st[n]) /\ ver[c] = n /\ ver'[c] = n
      /\ copy'[c] = copy[c] /\ unsent'[c] = unsent[c] /\ failed \subseteq failed'
  <2>1. n \in 0 .. n
    OBVIOUS
  <2> QED
    BY <1>1, <2>1 DEF Taking
<1>4. Mirrors(au, c, 0, s2[n].com)'
  <2>1. PICK t : t = st[n].com /\ t = s2[n].com
    BY <1>3
  <2>2. Mirrors(au, c, 0, t)
    BY <1>3, <2>1 DEF Reader, Faithful
  <2>3. \A p : Rest(c, p)' = Rest(c, p)
    BY <1>3 DEF Rest
  <2>4. Mirrors(au, c, 0, t)'
    BY <1>3, <2>2, <2>3 DEF Mirrors
  <2> QED
    BY <2>1, <2>4
<1>5. ASSUME NEW p, p = Len(m.acts), NEW t, t = s2[n + 1].com
      PROVE  Mirrors(au, c, p, t)'
  <2>1. ASSUME NEW i \in Id \ failed', Sees(au, c, i)
        PROVE  Mirror(au, c, Rest(c, p), copy[c], t, i)
    <3>1. i \in Id \ failed
      BY <1>3
    <3>2. Run(st[n], m.cu).ok = TRUE \/ ~Concerns(m.cu, i)
      BY <1>3, <2>1
    <3> QED
      BY <1>3, <1>5, <2>1, <3>1, <3>2 DEF Carries
  <2>2. Rest(c, p)' = Rest(c, p)
    BY <1>3 DEF Rest
  <2> QED
    BY <1>3, <2>1, <2>2 DEF Mirrors
<1>6. PICK p, t : p = Len(m.acts) /\ t = s2[n + 1].com
  OBVIOUS
<1>7. Mirrors(au, c, p, t)'
  BY <1>5, <1>6
<1> QED
  BY <1>2, <1>3, <1>4, <1>6, <1>7 DEF Faithful

\* Everyone else hears of it as the filter lets them.
LEMMA TakingShared ==
    ASSUME IInv, IInv', NEW st \in [Nat -> Sound], NEW au, Shared(st, au),
           NEW c \in Client, NEW m, NEW l, NEW s2, Taking(st, au, c, m, l, s2),
           up'[c] = <<>> \/ FewerUp(c), \A d \in Client \ {c} : up'[d] = up[d],
           Past(s2, au)' => \A d \in Client : StillHearing(au, d)
    PROVE  Shared(s2, au)'
<1>1. Types /\ Types'
  BY DEF IInv
<1>2. Past(st, au) /\ Authored(au)
  BY DEF Shared
<1>3. PICK n \in Nat : n = Len(hist)
  BY <1>1, TakingFacts
<1>4. /\ Lasting(au, au) /\ Len(hist') = n + 1 /\ hist'[n + 1] = l /\ l.cid = c
  <2>1. Lasting(au, au) /\ Len(hist') = n + 1 /\ hist'[n + 1] = l
    BY <1>1, <1>3, TakingFacts
  <2> QED
    BY <2>1 DEF Taking
<1>5. ASSUME NEW d \in Client
      PROVE  /\ Reader(st, au, d) /\ ver[d] <= Len(hist) /\ Incoming(d)
             /\ ver'[d] = ver[d] /\ copy'[d] = copy[d] /\ unsent'[d] = unsent[d]
             /\ done'[d] = done[d] /\ seen'[d] = seen[d]
  BY DEF IInv, Shared, ClientInv, Current, Taking
<1>6. Queue(au, c)
  BY <1>5 DEF Reader
<1>7. Past(s2, au)'
  BY <1>1, <1>2, <1>6, TakingPast
<1>8. Authored(au)'
  BY <1>2 DEF Authored, Taking
<1>9. \A k \in 0 .. Len(hist) : s2[k] = st[k]
  BY DEF Taking
<1>10. ASSUME NEW d \in Client
       PROVE  StillHearing(au, d) /\ StillSending(d)
  <2>1. up'[d] = <<>> \/ FewerUp(d)
    BY DEF FewerUp
  <2>2. StillSending(d)
    BY <1>1, <1>5, <2>1, SendsLess
  <2> QED
    BY <1>7, <2>2
<1>11. ASSUME NEW d \in Client, d # c
       PROVE  Reader(s2, au, d)'
  <2>1. Len(hist') = Len(hist) \/ hist'[Len(hist) + 1].cid # d
    BY <1>3, <1>4, <1>11
  <2>2. Len(hist') <= Len(hist) + 1
    BY <1>3, <1>4
  <2> QED
    BY <1>1, <1>2, <1>4, <1>5, <1>9, <1>10, <2>1, <2>2, ReaderStays
<1>12. Reader(s2, au, c)'
  <2>1. /\ Shelf(au, c) /\ Queue(au, c) /\ Complete(c)
        /\ Sending(st, au, c) /\ Hearing(au, c)
    BY <1>5 DEF Reader
  <2>2. ver[c] <= ver'[c] /\ Kept
    BY <1>1, <1>4, <1>5 DEF Types, Lasting
  <2>3. Shelf(au, c)'
    BY <1>1, <1>2, <1>4, <1>5, <2>1, <2>2, ShelfStays
  <2>4. Queue(au, c)'
    BY <1>1, <1>2, <1>4, <1>5, <2>1, QueueStays
  <2>5. Complete(c)'
    BY <1>1, <1>5, <2>1, <2>2, CompleteStays
  <2>6. Faithful(s2, au, c)'
    BY <1>1, <1>2, <1>5, TakingFaithful
  <2>7. Sending(s2, au, c)'
    BY <1>1, <1>2, <1>4, <1>5, <1>9, <1>10, <2>1, SendingStays
  <2>8. Hearing(au, c)'
    BY <1>1, <1>2, <1>4, <1>5, <1>10, <2>1, HearingStays
  <2> QED
    BY <2>3, <2>4, <2>5, <2>6, <2>7, <2>8 DEF Reader
<1> QED
  BY <1>7, <1>8, <1>11, <1>12 DEF Shared

\* A fresh diff of c is one that is accepted as it was sent.
LEMMA TakingIs ==
    ASSUME IInv, NEW st \in [Nat -> Sound], NEW au, Shared(st, au), NEW c \in Client,
           up[c] # <<>>, NEW m, m = Head(up[c]), ~(m.seen < said[c]), Accept(c, m),
           com' = After(m).com, listed' = After(m).listed,
           After(m).ok = TRUE \/ \A i \in Id : Concerns(m.cu, i) => i \in failed',
           failed \subseteq failed', UNCHANGED <<seen, ver, copy, unsent, done>>
    PROVE  \E s2 \in [Nat -> Sound] : \E l : Taking(st, au, c, m, l, s2)
<1>1. Types /\ ClientInv(c)
  BY DEF IInv
<1>2. /\ m \in UpMsg /\ m = up[c][1] /\ m.type = "diff" /\ m.v = Len(hist)
      /\ m.rid \in Nat /\ m.cu \in Seq(Update) /\ m.acts \in Seq(Act)
  BY <1>1, FirstUp DEF Accept
<1>3. m.v = ver[c] /\ seen[c] = said[c] /\ IsPrefix(m.acts, Waiting(c))
  BY <1>1, <1>2, FirstFresh
<1>4. 1 \in 1 .. Len(up[c])
  BY <1>1, HeadIs
<1>5. m.seen = seen[c]
  <2>1. m.seen <= seen[c]
    BY <1>1, <1>2, <1>4 DEF ClientInv, Fresh
  <2>2. m.seen \in Nat /\ said[c] \in Nat
    BY <1>1, <1>2, <1>4, UpTyped DEF Types
  <2> QED
    BY <1>3, <2>1, <2>2
<1>6. Carries(au, c, m, st[ver[c]])
  BY <1>2, <1>4, <1>5 DEF Shared, Reader, Sending
<1>7. PICK n \in Nat : n = Len(hist) /\ n = ver[c]
  BY <1>1, <1>2, <1>3 DEF Types
<1>8. PICK t \in Sound : t = st[n] /\ t.com = com /\ t.listed = listed
  BY <1>7 DEF Shared, Past
<1>9. After(m) = Run(t, m.cu)
  BY <1>8 DEF After, Run, Ready
<1>10. Run(t, m.cu) \in Sound
  BY <1>2, ReadyIs, AfterType DEF Run
<1>11. PICK s2 \in [Nat -> Sound] : s2[n + 1] = Run(t, m.cu) /\ \A k \in 0 .. n : s2[k] = st[k]
  <2>1. PICK x \in Sound : x = Run(t, m.cu)
    BY <1>10
  <2>2. [st EXCEPT ![n + 1] = x] \in [Nat -> Sound]
    OBVIOUS
  <2>3. [st EXCEPT ![n + 1] = x][n + 1] = x
    OBVIOUS
  <2>4. \A k \in 0 .. n : [st EXCEPT ![n + 1] = x][k] = st[k]
    OBVIOUS
  <2> QED
    BY <2>1, <2>2, <2>3, <2>4
<1>12. PICK l : l = [cid |-> c, rid |-> m.rid, cu |-> m.cu, acts |-> m.acts]
  OBVIOUS
<1>13. l \in Diff /\ l.cid = c /\ l.cu = m.cu /\ l.acts = m.acts /\ hist' = Append(hist, l)
  BY <1>2, <1>12 DEF Diff, Accept
<1>14. Taking(st, au, c, m, l, s2)
  BY <1>2, <1>3, <1>6, <1>7, <1>8, <1>9, <1>11, <1>13 DEF Taking
<1> QED
  BY <1>14

\* The server applies the whole diff;
LEMMA AcceptShared ==
    ASSUME IInv, IInv', NEW st \in [Nat -> Sound], NEW au, Shared(st, au), NEW c \in Client,
           up[c] # <<>>, NEW m, m = Head(up[c]), ServerAccept(c, m), ~(m.seen < said[c]),
           up' = [up EXCEPT ![c] = Tail(@)], UNCHANGED <<seen, ver, storeVars, await, done>>
    PROVE  \E s2 \in [Nat -> Sound] : Shared(s2, au)'
<1> DEFINE r == [type |-> "confirm_diff", rid |-> m.rid]
           o(d) == IF link[d] = "on" THEN <<DiffFor(d, Len(hist'))>> ELSE <<>>
           out == [d \in Client |-> IF d = c THEN <<r>> ELSE o(d)]
<1>1. Types /\ Types' /\ ClientInv(c)
  BY DEF IInv
<1>2. /\ Accept(c, m) /\ com' = After(m).com /\ listed' = After(m).listed
      /\ Say(out) /\ UNCHANGED <<link, unconf, failed>>
      /\ UNCHANGED <<seen, ver, copy, unsent, done>>
  BY DEF ServerAccept, storeVars
<1>3. After(m).ok = TRUE
  <2>1. After(m).ok
    BY DEF ServerAccept
  <2>2. /\ m.cu \in Seq(Update)
    BY <1>1, <1>2, FirstUp DEF Accept
  <2>3. [com |-> com, listed |-> listed, ok |-> TRUE] \in Sound
    BY <1>1, SoundIs DEF Types
  <2>4. After(m) \in Sound
    BY <2>2, <2>3, AfterType DEF After
  <2>5. After(m).ok \in BOOLEAN
    BY <2>4, SoundTyped
  <2> QED
    BY <2>1, <2>5
<1>4. PICK s2 \in [Nat -> Sound] : \E l : Taking(st, au, c, m, l, s2)
  BY <1>2, <1>3, TakingIs
<1>5. PICK l : Taking(st, au, c, m, l, s2)
  BY <1>4
<1>6. PICK w \in Nat : w = Len(hist') /\ w \in 1 .. Len(hist')
  <2>1. Len(hist) \in Nat /\ Len(hist') = Len(hist) + 1
    BY <1>1, <1>5, TakingFacts
  <2> QED
    BY <2>1
<1>7. r \in DownMsg /\ r.type # "diff"
  <2>1. m.rid \in Nat
    BY <1>1, <1>2, FirstUp DEF Accept
  <2> QED
    BY <2>1 DEF DownMsg, AnswerDown
<1> HIDE DEF r
<1>8. \A d \in Client : out[d] = IF d = c THEN <<r>> ELSE
                                 IF link[d] = "on" THEN <<DiffFor(d, w)>> ELSE <<>>
  BY <1>6
<1>9. \A d \in Client : DiffFor(d, w) \in DownMsg
  BY <1>1, <1>6, DiffForIs DEF Types
<1>10. out \in [Client -> Seq(DownMsg)]
  <2>1. \A d \in Client : <<r>> \in Seq(DownMsg) /\ <<DiffFor(d, w)>> \in Seq(DownMsg)
                          /\ <<>> \in Seq(DownMsg)
    <3> TAKE d \in Client
    <3>1. PICK x \in DownMsg : x = DiffFor(d, w)
      BY <1>9
    <3>2. <<r>> \in Seq(DownMsg) /\ <<x>> \in Seq(DownMsg)
      BY <1>7
    <3> QED
      BY <3>1, <3>2, EmptySeq
  <2>2. \A d \in Client : out[d] \in Seq(DownMsg)
    BY <1>8, <2>1
  <2> HIDE DEF o
  <2> QED
    BY <2>2
<1> HIDE DEF out, o
<1>11. \A d \in Client : down'[d] = down[d] \o out[d]
  BY <1>1, <1>2, <1>10, SayIs
<1>12. /\ up'[c] = Tail(up[c]) /\ FewerUp(c) /\ \A d \in Client \ {c} : up'[d] = up[d]
  BY <1>1 DEF FewerUp, Types
<1>13. ASSUME Past(s2, au)', NEW d \in Client
       PROVE  StillHearing(au, d)
  <2>1. PICK ms \in Seq(DownMsg) : ms = out[d] /\ down'[d] = down[d] \o ms
    BY <1>10, <1>11
  <2>2. ASSUME NEW k \in 1 .. Len(ms), ms[k].type = "diff"
        PROVE  ms[k] = DiffFor(d, w)
    <3>1. CASE d = c
      <4>1. ms = <<r>> /\ Len(<<r>>) = 1 /\ <<r>>[1] = r
        BY <1>8, <2>1, <3>1
      <4> QED
        BY <1>7, <2>2, <4>1
    <3>2. CASE d # c /\ link[d] = "on"
      <4>1. PICK x : x = DiffFor(d, w)
        OBVIOUS
      <4>2. ms = <<x>> /\ Len(<<x>>) = 1 /\ <<x>>[1] = x
        BY <1>8, <2>1, <3>2, <4>1
      <4> QED
        BY <4>1, <4>2
    <3>3. CASE d # c /\ link[d] # "on"
      <4>1. ms = <<>> /\ Len(<<>>) = 0
        BY <1>8, <2>1, <3>3
      <4> QED
        BY <4>1
    <3> QED
      BY <3>1, <3>2, <3>3
  <2> QED
    BY <1>1, <1>6, <1>13, <2>1, <2>2, HearsMore
<1>14. Shared(s2, au)'
  BY <1>5, <1>12, <1>13, TakingShared
<1> QED
  BY <1>14

\* or fails half way, with the comments of what it did so far.
LEMMA FailShared ==
    ASSUME IInv, IInv', NEW st \in [Nat -> Sound], NEW au, Shared(st, au), NEW c \in Client,
           up[c] # <<>>, NEW m, m = Head(up[c]), ServerFail(c, m), ~(m.seen < said[c]),
           up' = [up EXCEPT ![c] = <<>>], UNCHANGED <<seen, ver, storeVars, await, done>>
    PROVE  \E s2 \in [Nat -> Sound] : Shared(s2, au)'
<1>1. Types /\ Types' /\ ClientInv(c)
  BY DEF IInv
<1>2. /\ Accept(c, m) /\ com' = After(m).com /\ listed' = After(m).listed
      /\ down' = [down EXCEPT ![c] = <<>>]
      /\ failed' = failed \cup {m.cu[k].id : k \in {j \in DOMAIN m.cu : m.cu[j] # Ignored}}
      /\ UNCHANGED <<seen, ver, copy, unsent, done>>
  BY DEF ServerFail, storeVars
<1>3. \A i \in Id : Concerns(m.cu, i) => i \in failed'
  <2>1. m.cu \in Seq(Update)
    BY <1>1, <1>2, FirstUp DEF Accept
  <2>2. DOMAIN m.cu = 1 .. Len(m.cu)
    BY <2>1, LenProperties
  <2> QED
    BY <1>2, <2>2 DEF Concerns
<1>4. failed \subseteq failed'
  BY <1>2
<1>5. PICK s2 \in [Nat -> Sound] : \E l : Taking(st, au, c, m, l, s2)
  BY <1>2, <1>3, <1>4, TakingIs
<1>6. PICK l : Taking(st, au, c, m, l, s2)
  BY <1>5
<1>7. up'[c] = <<>> /\ \A d \in Client \ {c} : up'[d] = up[d]
  BY <1>1 DEF Types
<1>8. ASSUME NEW d \in Client
      PROVE  StillHearing(au, d)
  <2>1. down'[d] = <<>> \/ down'[d] = down[d]
    BY <1>1, <1>2 DEF Types
  <2> QED
    BY <1>1, <2>1, HearsLess
<1>9. Shared(s2, au)'
  BY <1>6, <1>7, <1>8, TakingShared
<1> QED
  BY <1>9

\* Whatever the server receives.
LEMMA ServerShared ==
    ASSUME IInv, IInv', NEW st \in [Nat -> Sound], NEW au, Shared(st, au), NEW c \in Client,
           ServerReceive(c)
    PROVE  \E s2 \in [Nat -> Sound] : Shared(s2, au)'
<1>0. PICK m : m = Head(up[c])
  OBVIOUS
<1>1. /\ up[c] # <<>> /\ UNCHANGED <<seen, ver, storeVars, await, done>>
      /\ up' = [up EXCEPT ![c] = IF link'[c] = "on" THEN Tail(@) ELSE <<>>]
  BY DEF ServerReceive
<1>2. /\ Types /\ link[c] = "on" /\ link \in [Client -> {"on", "off"}]
  BY <1>0, <1>1, FirstUp DEF IInv, Types
<1>3. link'[c] = "on" => up' = [up EXCEPT ![c] = Tail(@)]
  BY <1>1
<1>4. CASE m.seen < said[c] /\ ServerCross(c, m)
  <2>1. Shared(st, au)'
    BY <1>0, <1>1, <1>2, <1>3, <1>4, QuietServer DEF ServerCross
  <2> QED
    BY <2>1
<1>5. CASE ServerDiscard(c, m)
  <2>1. Shared(st, au)'
    BY <1>0, <1>1, <1>2, <1>3, <1>5, QuietServer DEF ServerDiscard
  <2> QED
    BY <2>1
<1>6. CASE ServerOutdated(c, m)
  <2>1. Shared(st, au)'
    BY <1>0, <1>1, <1>2, <1>3, <1>6, QuietServer DEF ServerOutdated
  <2> QED
    BY <2>1
<1>7. CASE ServerCheckVersion(c, m)
  <2>1. Shared(st, au)'
    BY <1>0, <1>1, <1>2, <1>3, <1>7, QuietServer DEF ServerCheckVersion
  <2> QED
    BY <2>1
<1>8. CASE ~(m.seen < said[c]) /\ ServerAccept(c, m)
  BY <1>0, <1>1, <1>2, <1>3, <1>8, AcceptShared DEF ServerAccept
<1>9. CASE ~(m.seen < said[c]) /\ ServerFail(c, m)
  <2>1. link'[c] = "off"
    BY <1>2, <1>9 DEF ServerFail
  <2>2. up' = [up EXCEPT ![c] = <<>>]
    BY <1>1, <2>1
  <2> QED
    BY <1>0, <1>1, <1>9, <2>2, FailShared
<1>10. IF m.seen < said[c] THEN ServerCross(c, m)
       ELSE \/ ServerDiscard(c, m) \/ ServerAccept(c, m) \/ ServerFail(c, m)
            \/ ServerOutdated(c, m) \/ ServerCheckVersion(c, m)
  BY <1>0 DEF ServerReceive
<1> QED
  BY <1>4, <1>5, <1>6, <1>7, <1>8, <1>9, <1>10

-----------------------------------------------------------------------------
(* A browser goes on to the next version.                                  *)

\* c takes diff l, the next one, for accepted.
Moving(c, l) ==
    /\ ver[c] < Len(hist) /\ l = hist[ver[c] + 1] /\ ver'[c] = ver[c] + 1
    /\ UNCHANGED <<com, listed, hist, done, failed>>

\* c then knows of what the diff carries.
LEMMA MovingIs ==
    ASSUME Types, NEW c \in Client, NEW l, Moving(c, l)
    PROVE  /\ l \in Diff /\ l.cid \in Client /\ l.cu \in Seq(Update) /\ l.acts \in Seq(Act)
           /\ \A au : Lasting(au, au)
           /\ \A x : HeardBy(ver[c], x)' <=> HeardBy(ver[c], x) \/ x \in Range(l.acts)
           /\ \A x : Knows(c, x)' <=> Knows(c, x) \/ x \in Range(l.acts)
<1>1. hist \in Seq(Diff) /\ ver[c] \in Nat /\ hist' = hist
  BY DEF Types, Moving
<1>2. PICK n \in Nat, v \in Nat, w \in Nat : n = Len(hist) /\ v = ver[c] /\ w = v + 1
  <2>1. Len(hist) \in Nat /\ ver[c] + 1 \in Nat
    BY <1>1, LenProperties
  <2> QED
    BY <1>1, <2>1
<1>3. w \in 1 .. n /\ l = hist[w] /\ ver'[c] = w
  BY <1>2 DEF Moving
<1>4. l \in Diff /\ l.cid \in Client /\ l.cu \in Seq(Update) /\ l.acts \in Seq(Act)
  BY <1>1, <1>2, <1>3, HistEntry
<1>5. Kept
  BY <1>1, <1>2 DEF Kept
<1>6. \A au : Lasting(au, au)
  BY <1>5 DEF Lasting, Agree, Moving
<1>7. ASSUME NEW x
      PROVE  HeardBy(ver[c], x)' <=> HeardBy(v, x) \/ x \in Range(l.acts)
  <2>1. HeardBy(ver[c], x)' <=> \E k \in 1 .. w : x \in Range(hist[k].acts)
    BY <1>1, <1>3 DEF HeardBy
  <2>2. \A k : k \in 1 .. w <=> k \in 1 .. v \/ k = w
    BY <1>2
  <2>3. HeardBy(v, x) <=> \E k \in 1 .. v : x \in Range(hist[k].acts)
    BY DEF HeardBy
  <2> QED
    BY <1>3, <2>1, <2>2, <2>3
<1>8. \A x : Knows(c, x)' <=> x = 0 \/ x \in Range(done[c]) \/ HeardBy(ver[c], x)'
  BY DEF Knows, Moving
<1>9. \A x : Knows(c, x) <=> x = 0 \/ x \in Range(done[c]) \/ HeardBy(v, x)
  BY <1>2 DEF Knows
<1>10. \A x : Knows(c, x)' <=> Knows(c, x) \/ x \in Range(l.acts)
  BY <1>7, <1>8, <1>9
<1> QED
  BY <1>2, <1>4, <1>6, <1>7, <1>10

\* What l carries has not been in an earlier diff.
LEMMA MovingNew ==
    ASSUME Types, NEW st, NEW au, Past(st, au), NEW c \in Client, NEW l, Moving(c, l),
           NEW x \in Range(l.acts)
    PROVE  ~HeardBy(ver[c], x)
<1>1. ver[c] \in Nat /\ Len(hist) \in Nat
  BY LenProperties DEF Types
<1>2. PICK v \in Nat, n \in Nat : v = ver[c] /\ n = Len(hist) /\ v < n /\ l = hist[v + 1]
  BY <1>1 DEF Moving
<1>3. \A k \in 1 .. n : Range(hist[k].acts) \cap Range(hist[v + 1].acts) # {} => k = v + 1
  <2>1. v + 1 \in 1 .. n
    BY <1>2
  <2>2. Entered(st, au, v + 1)
    BY <1>2, <2>1 DEF Past
  <2> QED
    BY <1>2, <2>2 DEF Entered
<1>4. ASSUME NEW k \in 1 .. v, x \in Range(hist[k].acts)
      PROVE  FALSE
  <2>1. k \in 1 .. n /\ k # v + 1
    BY <1>2
  <2> QED
    BY <1>2, <1>3, <1>4, <2>1
<1> QED
  BY <1>2, <1>4 DEF HeardBy

\* It remains to show what c has then.
LEMMA MovingShared ==
    ASSUME IInv, IInv', NEW st \in [Nat -> Sound], NEW au, Shared(st, au), NEW c \in Client,
           NEW l, Moving(c, l), down[c] # <<>>, down' = [down EXCEPT ![c] = Tail(@)],
           seen' = [seen EXCEPT ![c] = @ + 1], up' = up,
           \A d \in Client \ {c} : /\ ver'[d] = ver[d] /\ copy'[d] = copy[d]
                                   /\ unsent'[d] = unsent[d],
           Shelf(au, c)', Queue(au, c)', Complete(c)',
           NEW w, w = ver'[c], Mirrors(au, c, 0, st[w].com)'
    PROVE  Shared(st, au)'
<1>1. Types /\ Types' /\ \A d \in Client : ClientInv(d)
  BY DEF IInv
<1>2. down \in [Client -> Seq(DownMsg)] /\ seen \in [Client -> Nat] /\ hist \in Seq(Diff)
  BY <1>1 DEF Types
<1>3. /\ com' = com /\ listed' = listed /\ hist' = hist /\ done' = done /\ failed' = failed
      /\ Past(st, au) /\ Authored(au) /\ \A d \in Client : Reader(st, au, d)
  BY DEF Moving, Shared
<1>4. Lasting(au, au)
  BY <1>1, MovingIs
<1>5. Past(st, au)' /\ Authored(au)'
  <2>1. Past(st, au)'
    BY <1>1, <1>3, <1>4, PastStays
  <2> QED
    BY <1>3, <2>1 DEF Authored
<1>6. \A d \in Client : StillHearing(au, d)
  <2>1. ASSUME NEW d \in Client
        PROVE  down'[d] = down[d] \/ (down[d] # <<>> /\ down'[d] = Tail(down[d]))
    BY <1>2
  <2> QED
    BY <1>1, <2>1, HearsLess
<1>7. ASSUME NEW d \in Client, d # c
      PROVE  Reader(st, au, d)'
  <2>1. StillSending(d)
    BY <1>1, <1>2, <1>7, SendsLess DEF FewerUp
  <2>2. Len(hist') = Len(hist) /\ Len(hist') <= Len(hist) + 1
    BY <1>2, <1>3, LenProperties
  <2>3. ver[d] <= Len(hist) /\ Incoming(d) /\ Reader(st, au, d) /\ StillHearing(au, d)
    BY <1>1, <1>3, <1>6 DEF ClientInv, Current
  <2>4. ver'[d] = ver[d] /\ copy'[d] = copy[d] /\ unsent'[d] = unsent[d] /\ done'[d] = done[d]
    BY <1>3, <1>7
  <2>5. \A k \in 0 .. Len(hist) : st[k] = st[k]
    OBVIOUS
  <2> QED
    BY <1>1, <1>3, <1>4, <2>1, <2>2, <2>3, <2>4, <2>5, ReaderStays
<1>8. ~OwnNext(c)'
  <2>1. \A k \in ver[c] + 2 .. Len(hist) : hist[k].cid # c
    BY <1>1 DEF ClientInv, Own
  <2>2. PICK v \in Nat, n \in Nat : v = ver[c] /\ n = Len(hist) /\ ver'[c] = v + 1
    BY <1>1, <1>2, LenProperties DEF Types, Moving
  <2>3. OwnNext(c)' => (v + 1) + 1 \in v + 2 .. n /\ hist[(v + 1) + 1].cid = c
    BY <1>3, <2>2 DEF OwnNext
  <2> QED
    BY <2>1, <2>2, <2>3
<1>9. Faithful(st, au, c)'
  BY <1>8 DEF Faithful
<1>10. Sending(st, au, c)'
  <2>1. seen'[c] = seen[c] + 1 /\ Fresh(c) /\ Asks(c)
    BY <1>1, <1>2 DEF ClientInv, Asks
  <2>2. \A i \in 1 .. Len(up'[c]) : up'[c][i].type = "diff" => up'[c][i].seen # seen'[c]
    BY <1>1, <2>1, NoneLive
  <2> QED
    BY <2>2 DEF Sending
<1>11. Hearing(au, c)'
  BY <1>1, <1>3, <1>4, <1>6, HearingStays DEF ClientInv, Reader
<1> QED
  BY <1>5, <1>7, <1>9, <1>10, <1>11 DEF Shared, Reader

-----------------------------------------------------------------------------
(* Its own diff is confirmed.                                              *)

\* Queue r is queue q without the updates that the acts are of.
Shorter(q, r, acts) ==
    \E n \in Nat, p \in Nat :
        /\ n = Len(q) /\ p = Len(acts) /\ p <= n /\ Len(r) = n - p
        /\ \A k \in 1 .. p : acts[k] = q[k].act
        /\ \A k \in 1 .. n - p : r[k] = q[k + p]

\* The updates that were sent leave the queue.
LEMMA ConfirmShortens ==
    ASSUME Types, NEW c \in Client, ClientInv(c), NEW l, Moving(c, l), l.cid = c,
           unsent'[c] = EventsSent(unsent[c], Len(l.acts))
    PROVE  Shorter(unsent[c], unsent'[c], l.acts)
<1>1. l.acts \in Seq(Act)
  BY MovingIs
<1>2. unsent[c] \in Seq(Waiter) /\ IsPrefix(l.acts, Acted(unsent[c]))
  <2>1. OwnNext(c)
    BY DEF OwnNext, Moving
  <2>2. IsPrefix(l.acts, Waiting(c))
    BY <2>1 DEF ClientInv, Own, Moving
  <2> QED
    BY <2>2, WaitingIs
<1>3. PICK n \in Nat, p \in Nat : n = Len(unsent[c]) /\ p = Len(l.acts)
  BY <1>1, <1>2, LenProperties
<1>4. /\ Acted(unsent[c]) \in Seq(Act) /\ Len(Acted(unsent[c])) = n
      /\ \A k \in 1 .. n : Acted(unsent[c])[k] = unsent[c][k].act
  BY <1>2, <1>3, ActedIs
<1>5. p <= n /\ \A k \in 1 .. p : l.acts[k] = Acted(unsent[c])[k]
  BY <1>1, <1>2, <1>3, <1>4, PrefixElements
<1>6. \A k \in 1 .. p : l.acts[k] = unsent[c][k].act
  BY <1>4, <1>5
<1>7. \A k \in p + 1 .. n : unsent[c][k] \in Waiter
  BY <1>2, <1>3, ElementOfSeq
<1>8. /\ Len(SubSeq(unsent[c], p + 1, n)) = IF p + 1 <= n THEN n - (p + 1) + 1 ELSE 0
      /\ \A k \in 1 .. n - (p + 1) + 1 :
            SubSeq(unsent[c], p + 1, n)[k] = unsent[c][(p + 1) + k - 1]
  BY <1>7, SubSeqProperties
<1>9. \A k \in 1 .. n - p : k \in 1 .. n - (p + 1) + 1 /\ (p + 1) + k - 1 = k + p
  OBVIOUS
<1>10. (IF p + 1 <= n THEN n - (p + 1) + 1 ELSE 0) = n - p
  BY <1>5
<1>11. unsent'[c] = SubSeq(unsent[c], p + 1, n)
  BY <1>3 DEF EventsSent
<1>12. Len(unsent'[c]) = n - p /\ \A k \in 1 .. n - p : unsent'[c][k] = unsent[c][k + p]
  BY <1>8, <1>9, <1>10, <1>11
<1> QED
  BY <1>3, <1>5, <1>6, <1>12 DEF Shorter

\* Numbers in what is left of it.
LEMMA Shift ==
    ASSUME NEW n \in Nat, NEW p \in Nat, p <= n
    PROVE  /\ \A k \in 1 .. n - p : k + p \in p + 1 .. n /\ k + p \in 1 .. n
           /\ \A k \in p + 1 .. n : k - p \in 1 .. n - p /\ (k - p) + p = k
  OBVIOUS

\* What is left stays in order and complete.
LEMMA ConfirmQueue ==
    ASSUME Types, NEW st, NEW au, Past(st, au), NEW c \in Client, ClientInv(c),
           Queue(au, c), Complete(c), NEW l, Moving(c, l), l.cid = c,
           unsent'[c] = EventsSent(unsent[c], Len(l.acts))
    PROVE  Queue(au, c)' /\ Complete(c)'
<1>1. PICK n \in Nat, p \in Nat :
          /\ n = Len(unsent[c]) /\ p = Len(l.acts) /\ p <= n /\ Len(unsent'[c]) = n - p
          /\ \A k \in 1 .. p : l.acts[k] = unsent[c][k].act
          /\ \A k \in 1 .. n - p : unsent'[c][k] = unsent[c][k + p]
  <2>1. Shorter(unsent[c], unsent'[c], l.acts)
    BY ConfirmShortens
  <2> QED
    BY <2>1 DEF Shorter
<1>2. /\ \A x : HeardBy(ver[c], x)' <=> HeardBy(ver[c], x) \/ x \in Range(l.acts)
      /\ \A x : Knows(c, x) => Knows(c, x)'
      /\ l.acts \in Seq(Act)
  BY MovingIs
<1>3. \A x : x \in Range(l.acts) <=> \E k \in 1 .. p : l.acts[k] = x
  <2>1. DOMAIN l.acts = 1 .. p
    BY <1>1, <1>2, LenProperties
  <2> QED
    BY <2>1 DEF Range
<1>4. ASSUME NEW k \in 1 .. n - p, NEW x, x = unsent'[c][k]
      PROVE  /\ Knows(c, x.id)' /\ (c \in OwnOnly => au[x.id] = c)
             /\ x.act \in Range(done'[c]) /\ ~HeardBy(ver[c], x.act)'
             /\ x.type = "create" => x.id = x.act
             /\ x.type = "add_answer" => x.aid = x.act
             /\ \A j \in 1 .. n - p : unsent'[c][j].act = x.act => j = k
  <2>1. k + p \in 1 .. n /\ x = unsent[c][k + p]
    <3>1. k + p \in 1 .. n
      BY <1>1, Shift
    <3> QED
      BY <1>1, <1>4, <3>1
  <2>2. /\ Knows(c, x.id) /\ (c \in OwnOnly => au[x.id] = c)
        /\ x.act \in Range(done[c]) /\ ~HeardBy(ver[c], x.act)
        /\ x.type = "create" => x.id = x.act
        /\ x.type = "add_answer" => x.aid = x.act
        /\ \A j \in 1 .. n : unsent[c][j].act = x.act => j = k + p
    BY <1>1, <2>1 DEF Queue
  <2>3. x.act \notin Range(l.acts)
    <3>1. ASSUME NEW j \in 1 .. p, l.acts[j] = x.act
          PROVE  FALSE
      <4>1. j \in 1 .. n /\ j # k + p
        BY <1>1
      <4> QED
        BY <1>1, <2>2, <3>1, <4>1
    <3> QED
      BY <1>3, <3>1
  <2>4. ASSUME NEW j \in 1 .. n - p, unsent'[c][j].act = x.act
        PROVE  j = k
    <3>1. j + p \in 1 .. n /\ unsent'[c][j] = unsent[c][j + p]
      <4>1. j + p \in 1 .. n
        BY <1>1, Shift
      <4> QED
        BY <1>1, <4>1
    <3>2. j + p = k + p
      BY <2>2, <2>4, <3>1
    <3> QED
      BY <3>2
  <2>5. done'[c] = done[c]
    BY DEF Moving
  <2> QED
    BY <1>2, <2>2, <2>3, <2>4, <2>5
<1>5. Queue(au, c)'
  BY <1>1, <1>4 DEF Queue
<1>6. ASSUME NEW x \in Range(done'[c])
      PROVE  HeardBy(ver[c], x)' \/ \E k \in 1 .. n - p : unsent'[c][k].act = x
  <2>1. x \in Range(done[c])
    BY DEF Moving
  <2>2. CASE ~HeardBy(ver[c], x)
    <3>1. PICK k \in 1 .. n : unsent[c][k].act = x
      BY <1>1, <2>1, <2>2 DEF Complete
    <3>2. CASE k <= p
      <4>1. k \in 1 .. p
        BY <3>2
      <4> QED
        BY <1>1, <1>2, <1>3, <3>1, <4>1
    <3>3. CASE p < k
      <4>1. PICK j \in 1 .. n - p : k = j + p
        <5>1. k \in p + 1 .. n
          BY <3>3
        <5> QED
          BY <1>1, <5>1, Shift
      <4> QED
        BY <1>1, <3>1, <4>1
    <3> QED
      BY <3>2, <3>3
  <2> QED
    BY <1>2, <2>2
<1>7. Complete(c)'
  BY <1>1, <1>6 DEF Complete
<1> QED
  BY <1>5, <1>7

\* The store mirrored the server with the diff applied all along; only its updates
\* waited.
LEMMA ConfirmMirrors ==
    ASSUME Types, NEW st, NEW au, NEW c \in Client, ClientInv(c), Faithful(st, au, c),
           NEW l, Moving(c, l), l.cid = c, unsent'[c] = EventsSent(unsent[c], Len(l.acts)),
           copy'[c] = copy[c], NEW w, w = ver'[c]
    PROVE  Mirrors(au, c, 0, st[w].com)'
<1>1. PICK n \in Nat, p \in Nat :
          /\ n = Len(unsent[c]) /\ p = Len(l.acts) /\ p <= n /\ Len(unsent'[c]) = n - p
          /\ \A k \in 1 .. n - p : unsent'[c][k] = unsent[c][k + p]
  <2>1. Shorter(unsent[c], unsent'[c], l.acts)
    BY ConfirmShortens
  <2> QED
    BY <2>1 DEF Shorter
<1>2. Mirrors(au, c, p, st[w].com)
  <2>1. OwnNext(c)
    BY DEF OwnNext, Moving
  <2> QED
    BY <1>1, <2>1 DEF Faithful, Moving
<1>3. Rest(c, 0)' = Rest(c, p)
  <2>1. \A k \in 1 .. n - p : k + p \in p + 1 .. n
    BY <1>1, Shift
  <2>2. ASSUME NEW k \in p + 1 .. n
        PROVE  \E j \in 1 .. n - p : j + p = k
    <3>1. k - p \in 1 .. n - p /\ (k - p) + p = k
      BY <1>1, Shift
    <3> QED
      BY <3>1
  <2>3. {unsent'[c][k] : k \in 1 .. n - p} = {unsent[c][k] : k \in p + 1 .. n}
    <3>1. \A k \in 1 .. n - p : \E j \in p + 1 .. n : unsent'[c][k] = unsent[c][j]
      BY <1>1, <2>1
    <3>2. \A j \in p + 1 .. n : \E k \in 1 .. n - p : unsent'[c][k] = unsent[c][j]
      <4> TAKE j \in p + 1 .. n
      <4>1. PICK k \in 1 .. n - p : k + p = j
        BY Zenon, <2>2
      <4>2. unsent'[c][k] = unsent[c][k + p]
        BY Zenon, <1>1
      <4> QED
        BY Zenon, <4>1, <4>2
    <3> DEFINE f(k) == unsent'[c][k]
               g(k) == unsent[c][k]
    <3> HIDE DEF f, g
    <3>3. {f(k) : k \in 1 .. n - p} = {g(k) : k \in p + 1 .. n}
      <4>1. /\ \A k \in 1 .. n - p : \E j \in p + 1 .. n : f(k) = g(j)
            /\ \A j \in p + 1 .. n : \E k \in 1 .. n - p : f(k) = g(j)
        BY <3>1, <3>2 DEF f, g
      <4> QED
        BY <4>1
    <3> QED
      BY <3>3 DEF f, g
  <2>4. Rest(c, p) = {unsent[c][k] : k \in p + 1 .. n}
    BY <1>1 DEF Rest
  <2>5. Rest(c, 0)' = {unsent'[c][k] : k \in 1 .. n - p}
    BY <1>1 DEF Rest
  <2> QED
    BY <2>3, <2>4, <2>5
<1>4. failed' = failed
  BY DEF Moving
<1> QED
  BY <1>2, <1>3, <1>4 DEF Mirrors

\* So a confirmation keeps the invariant.
LEMMA ConfirmShared ==
    ASSUME IInv, IInv', NEW st \in [Nat -> Sound], NEW au, Shared(st, au), NEW c \in Client,
           down[c] # <<>>, down' = [down EXCEPT ![c] = Tail(@)],
           seen' = [seen EXCEPT ![c] = @ + 1], NEW r, ConfirmDiff(c, r), OwnNext(c),
           hist[ver[c] + 1].rid = r,
           UNCHANGED <<com, listed, hist, up, copy, done, failed>>
    PROVE  Shared(st, au)'
<1>1. Types /\ Types' /\ ClientInv(c)
  BY DEF IInv
<1>2. PICK l : l = hist[ver[c] + 1]
  OBVIOUS
<1>3. /\ ver'[c] = ver[c] + 1 /\ unsent'[c] = EventsSent(unsent[c], Len(l.acts))
      /\ \A d \in Client \ {c} : ver'[d] = ver[d] /\ unsent'[d] = unsent[d]
  BY <1>2, ConfirmIs
<1>4. Moving(c, l) /\ l.cid = c
  BY <1>2, <1>3 DEF Moving, OwnNext
<1>5. /\ Past(st, au) /\ Shelf(au, c) /\ Queue(au, c) /\ Complete(c) /\ Faithful(st, au, c)
  BY DEF Shared, Reader
<1>6. Shelf(au, c)'
  <2>1. ver[c] <= Len(hist)
    BY <1>1 DEF ClientInv, Current
  <2>2. ver[c] <= ver'[c]
    BY <1>1, <1>3 DEF Types
  <2>3. Lasting(au, au)
    BY <1>1, <1>4, MovingIs
  <2> QED
    BY <1>1, <1>5, <2>1, <2>2, <2>3, ShelfStays
<1>7. Queue(au, c)' /\ Complete(c)'
  BY <1>1, <1>3, <1>4, <1>5, ConfirmQueue
<1>8. PICK w : w = ver'[c]
  OBVIOUS
<1>9. Mirrors(au, c, 0, st[w].com)'
  BY <1>1, <1>3, <1>4, <1>5, <1>8, ConfirmMirrors
<1> QED
  BY <1>3, <1>4, <1>6, <1>7, <1>8, <1>9, MovingShared

-----------------------------------------------------------------------------
(* The diff of somebody else is received.                                  *)

\* Store s has comments of their authors, and nothing but what is in K; c may
\* be told so by update e.
Shelved(au, c, K, s) ==
    \A i \in DOMAIN s : /\ i \in K /\ s[i].by = au[i] /\ (c \in OwnOnly => au[i] = c)
                        /\ \A x \in s[i].answers : x.id \in K

Tells(au, c, K, e) ==
    /\ e.type \in {"create", "update"} =>
          /\ e.id \in K /\ e.note.by = au[e.id] /\ (c \in OwnOnly => au[e.id] = c)
          /\ \A x \in e.note.answers : x.id \in K
    /\ e.type \in OfAnswer => e.answer.id \in K

\* One update, and a diff, keep the store with comments of their authors.
LEMMA ShelvedStep ==
    ASSUME NEW au, NEW c, NEW K, NEW s \in Store, NEW e \in Update,
           Shelved(au, c, K, s), e = Ignored \/ Tells(au, c, K, e)
    PROVE  Shelved(au, c, K, Received(s, e))
<1> DEFINE r == Received(s, e)
<1> SUFFICES ASSUME NEW i \in DOMAIN r
             PROVE  /\ i \in K /\ r[i].by = au[i] /\ (c \in OwnOnly => au[i] = c)
                    /\ \A x \in r[i].answers : x.id \in K
  BY DEF Shelved
<1>1. CASE e = Ignored \/ e.id # i
  <2>1. Same(s, r, i)
    BY <1>1, ReceivedElsewhere
  <2>2. i \in DOMAIN s /\ s[i] = r[i]
    BY <2>1 DEF Same
  <2> QED
    BY <2>2 DEF Shelved
<1>2. CASE e # Ignored /\ e.id = i
  <2> DEFINE old == s[i].answers
  <2>0. e.type \in Kind
    BY <1>2, UpdateTyped
  <2>1. CASE e.type \in {"create", "update"} /\ r[i] = e.note
    BY <1>2, <2>1 DEF Tells
  <2>2. CASE e.type = "create" /\ i \in DOMAIN s
    <3>1. r[i] = s[i]
      BY <1>2, <2>2, ReceivedHere
    <3> QED
      BY <2>2, <3>1 DEF Shelved
  <2>3. CASE e.type \in {"add_answer", "delete_answer", "update_answer"}
    <3>1. i \in DOMAIN s
      BY <1>2, <2>3, AnswersHere
    <3>2. r[i].by = s[i].by
      BY <1>2, <2>3, <3>1, ReceivedHere
    <3>3. /\ i \in K /\ s[i].by = au[i] /\ (c \in OwnOnly => au[i] = c)
          /\ \A x \in old : x.id \in K
      BY <3>1 DEF Shelved
    <3>4. \A x \in r[i].answers : x \in old \/ (e.type \in OfAnswer /\ x = e.answer)
      <4>1. CASE e.type = "add_answer"
        <5>1. r[i].answers = IF Named(old, e.answer.id) = {} THEN old \cup {e.answer} ELSE old
          BY <1>2, <3>1, <4>1, AnswersHere
        <5> HIDE DEF r, old
        <5> QED
          BY <4>1, <5>1 DEF OfAnswer
      <4>2. CASE e.type = "delete_answer"
        <5>1. r[i].answers = old \ Named(old, e.aid)
          BY <1>2, <3>1, <4>2, AnswersHere
        <5> HIDE DEF r, old
        <5> QED
          BY <5>1
      <4>3. CASE e.type = "update_answer"
        <5>1. r[i].answers = IF Named(old, e.answer.id) = {} THEN old
                             ELSE (old \ Named(old, e.answer.id)) \cup {e.answer}
          BY <1>2, <3>1, <4>3, AnswersHere
        <5> HIDE DEF r, old
        <5> QED
          BY <4>3, <5>1 DEF OfAnswer
      <4> QED
        BY <2>3, <4>1, <4>2, <4>3
    <3>5. e.type \in OfAnswer => e.answer.id \in K
      BY <1>2 DEF Tells
    <3> HIDE DEF r, old
    <3> QED
      BY <3>2, <3>3, <3>4, <3>5
  <2>4. e.type # "delete"
    BY <1>2, AnswersHere
  <2>5. /\ e.type = "create" /\ i \notin DOMAIN s => r[i] = e.note
        /\ e.type = "update" => i \in DOMAIN s
        /\ e.type = "update" /\ i \in DOMAIN s => r[i] = e.note
    BY <1>2, AnswersHere
  <2> QED
    BY <2>0, <2>1, <2>2, <2>3, <2>4, <2>5 DEF Kind
<1> QED
  BY <1>1, <1>2

LEMMA ShelvedAll ==
    ASSUME NEW au, NEW c, NEW K, NEW s \in Store, NEW mu \in Seq(Update),
           Shelved(au, c, K, s),
           \A k \in 1 .. Len(mu) : mu[k] = Ignored \/ Tells(au, c, K, mu[k])
    PROVE  Shelved(au, c, K, FoldLeft(Received, s, mu))
<1>1. PICK m \in Nat : m = Len(mu)
  BY LenProperties
<1>2. \A j \in 1 .. m : mu[j] \in Update
  BY <1>1, ElementOfSeq
<1>3. PICK g \in [Nat -> Store] : /\ g[0] = s /\ g[m] = FoldLeft(Received, s, mu)
                                  /\ \A j \in 1 .. m : g[j] = Received(g[j - 1], mu[j])
  BY <1>1, ReceivedTrace
<1> DEFINE S == {p \in Nat : p <= m => Shelved(au, c, K, g[p])}
<1>4. 0 \in S
  BY <1>3
<1>5. ASSUME NEW p \in Nat, p \in S
      PROVE  p + 1 \in S
  <2>1. CASE p + 1 <= m
    <3>1. PICK j \in Nat : j = p + 1 /\ j \in 1 .. m /\ j - 1 = p
      BY <2>1
    <3>2. PICK e \in Update : e = mu[j]
      BY <1>2, <3>1
    <3>3. PICK v \in Store : v = g[p]
      OBVIOUS
    <3>4. Shelved(au, c, K, v)
      BY <1>5, <2>1, <3>3
    <3>5. e = Ignored \/ Tells(au, c, K, e)
      BY <1>1, <3>1, <3>2
    <3>6. Shelved(au, c, K, Received(v, e))
      BY <3>4, <3>5, ShelvedStep
    <3>7. g[j] = Received(v, e)
      BY <1>3, <3>1, <3>2, <3>3
    <3> QED
      BY <3>1, <3>6, <3>7
  <2>2. CASE ~(p + 1 <= m)
    BY <2>2
  <2> QED
    BY <2>1, <2>2
<1> HIDE DEF S
<1>6. m \in S
  BY <1>4, <1>5, SetInduction
<1> QED
  BY <1>3, <1>6 DEF S

\* Each update that d gets is one that it may get.
LEMMA PassedIs ==
    ASSUME NEW au, NEW d, NEW cu, Len(cu) \in Nat, NEW mu, Len(mu) \in Nat, Passes(au, d, cu, mu)
    PROVE  \A k \in 1 .. Len(mu) : \E j \in 1 .. Len(cu) : mu[k] = cu[j] /\ MayGet(au, d, cu[j])
<1>1. PICK n \in Nat, m \in Nat : n = Len(cu) /\ m = Len(mu)
  OBVIOUS
<1>2. PICK pos \in [Nat -> Nat] :
         /\ pos[0] = 0 /\ pos[n] = m
         /\ \A k \in 1 .. n :
               \/ pos[k] = pos[k - 1]
               \/ /\ pos[k] = pos[k - 1] + 1 /\ pos[k] \in 1 .. m
                  /\ mu[pos[k]] = cu[k] /\ MayGet(au, d, cu[k])
  BY <1>1 DEF Passes
<1> DEFINE P(k) == \E j \in 1 .. n : mu[k] = cu[j] /\ MayGet(au, d, cu[j])
           S == {p \in Nat : p <= n => \A k \in 1 .. pos[p] : P(k)}
<1>3. 0 \in S
  BY <1>2
<1>4. ASSUME NEW p \in Nat, p \in S
      PROVE  p + 1 \in S
  <2>1. CASE p + 1 <= n
    <3>1. PICK j \in Nat : j = p + 1 /\ j \in 1 .. n /\ j - 1 = p
      BY <2>1
    <3>2. PICK a \in Nat, b \in Nat : a = pos[p] /\ b = pos[j]
      OBVIOUS
    <3>3. \A k \in 1 .. a : P(k)
      <4> HIDE DEF P
      <4>1. p <= n
        BY <3>1
      <4> QED
        BY <1>4, <3>2, <4>1
    <3>4. b = a \/ (b = a + 1 /\ P(b))
      BY <1>2, <3>1, <3>2
    <3> HIDE DEF P
    <3>5. \A k \in 1 .. b : P(k)
      <4>1. \A k \in 1 .. b : k \in 1 .. a \/ (b = a + 1 /\ k = b)
        BY <3>4
      <4> QED
        BY <3>3, <3>4, <4>1
    <3> QED
      BY <3>1, <3>2, <3>5
  <2>2. CASE ~(p + 1 <= n)
    BY <2>2
  <2> QED
    BY <2>1, <2>2
<1> HIDE DEF S
<1>5. n \in S
  BY <1>3, <1>4, SetInduction
<1>6. \A k \in 1 .. m : P(k)
  BY <1>2, <1>5 DEF S
<1> QED
  BY <1>1, <1>6

-----------------------------------------------------------------------------
\* c receives mu, what it is told of diff l of somebody else.
Receiving(au, c, l, mu) ==
    /\ Moving(c, l) /\ l.cid # c /\ mu \in Seq(Update) /\ Passes(au, c, l.cu, mu)
    /\ copy'[c] = FoldLeft(Received, copy[c], mu) /\ unsent'[c] = unsent[c]

\* Diff l as it was entered.
LEMMA NextIs ==
    ASSUME Types, NEW st, NEW au, Past(st, au), NEW c \in Client, NEW l, Moving(c, l),
           NEW v \in Nat, v = ver[c]
    PROVE  /\ st[v + 1] = Run(st[v], l.cu)
           /\ st[v + 1].ok = TRUE \/ \A i \in Id : Concerns(l.cu, i) => i \in failed
           /\ Sourced(au, l.cid, l.cu, l.acts, v) /\ Coherent(l.cu)
           /\ \A i \in Id \ failed : au[i] \notin OwnOnly => Fits(st[v].com, l.cu, i)
<1>1. PICK n \in Nat : n = Len(hist) /\ v < n /\ l = hist[v + 1]
  BY LenProperties DEF Types, Moving
<1>2. v + 1 \in 1 .. n /\ (v + 1) - 1 = v
  BY <1>1
<1>3. Entered(st, au, v + 1)
  BY <1>1, <1>2 DEF Past
<1> QED
  BY <1>1, <1>2, <1>3 DEF Entered, Sane

\* c does not know of what l carries.
LEMMA NotKnown ==
    ASSUME Types, NEW st, NEW au, Past(st, au), Authored(au), NEW c \in Client,
           NEW l, Moving(c, l), l.cid # c, NEW x \in Range(l.acts)
    PROVE  ~Knows(c, x)
<1>1. PICK v \in Nat : v = ver[c]
  BY DEF Types
<1>2. l.cid \in Client /\ l.acts \in Seq(Act)
  BY MovingIs
<1>3. PICK j \in 1 .. Len(l.acts) : l.acts[j] = x
  BY <1>2, LenProperties DEF Range
<1>4. x \in Range(done[l.cid])
  BY <1>1, <1>3, NextIs DEF Sourced
<1>5. x \notin Range(done[c])
  <2>1. \A d \in Client : \A n \in Range(done[d]) : au[n] = d
    BY Zenon DEF Authored
  <2>2. au[x] = l.cid /\ l.cid # c
    BY Zenon, <1>2, <1>4, <2>1
  <2> QED
    BY Zenon, <2>1, <2>2
<1>6. x # 0
  <2>1. x \in Act
    BY <1>2, <1>3, ElementOfSeq
  <2> QED
    BY <2>1, NumberAssumption DEF Act
<1>7. ~HeardBy(ver[c], x)
  BY MovingNew
<1> QED
  BY <1>5, <1>6, <1>7 DEF Knows

\* What c shows stays with its authors.
LEMMA ReceivingShelf ==
    ASSUME Types, NEW st, NEW au, Past(st, au), NEW c \in Client, Shelf(au, c),
           NEW l, NEW mu, Receiving(au, c, l, mu)
    PROVE  Shelf(au, c)'
<1>1. PICK v \in Nat : v = ver[c]
  BY DEF Types
<1>2. Moving(c, l) /\ mu \in Seq(Update) /\ Passes(au, c, l.cu, mu)
  BY DEF Receiving
<1>3. /\ l.cu \in Seq(Update) /\ l.acts \in Seq(Act)
      /\ \A x : Knows(c, x)' <=> Knows(c, x) \/ x \in Range(l.acts)
  <2>1. l.cu \in Seq(Update) /\ l.acts \in Seq(Act)
    BY <1>2, MovingIs
  <2>2. \A x : Knows(c, x)' <=> Knows(c, x) \/ x \in Range(l.acts)
    BY <1>2, MovingIs
  <2> QED
    BY <2>1, <2>2
<1>4. Sourced(au, l.cid, l.cu, l.acts, v)
  BY <1>1, <1>2, NextIs
<1> DEFINE K == {x \in Id : Knows(c, x)'}
<1>5. \A x \in Id : Told(v, l.acts, x) => x \in K
  BY <1>1, <1>3 DEF Told, Knows
<1>6. copy[c] \in Store
  BY DEF Types
<1>7. Shelved(au, c, K, copy[c])
  <2>1. \A i \in DOMAIN copy[c] : i \in Id /\ \A x \in copy[c][i].answers : x.id \in Id
    <3>1. \A i \in DOMAIN copy[c] : i \in Id /\ copy[c][i] \in Comment
      BY <1>6, StoreIs
    <3>2. \A y \in Comment : \A x \in y.answers : x \in Answers
      BY DEF Comment
    <3>3. \A x \in Answers : x.id \in Id
      BY ActIsId DEF Answers
    <3> QED
      BY <3>1, <3>2, <3>3
  <2> QED
    BY <1>3, <2>1 DEF Shelf, Shelved
<1>8. ASSUME NEW k \in 1 .. Len(mu), mu[k] # Ignored
      PROVE  Tells(au, c, K, mu[k])
  <2>1. Len(l.cu) \in Nat /\ Len(mu) \in Nat
    BY <1>2, <1>3, LenProperties
  <2>2. PICK j \in 1 .. Len(l.cu) : mu[k] = l.cu[j] /\ MayGet(au, c, l.cu[j])
    BY <1>2, <2>1, PassedIs
  <2>3. PICK e \in Update : e = mu[k]
    BY <1>2, ElementOfSeq
  <2>4. /\ Told(v, l.acts, e.id)
        /\ e.type \in OfAnswer => Told(v, l.acts, e.answer.id)
        /\ e.type \in {"create", "update"} =>
              e.note.by = au[e.id] /\ \A x \in e.note.answers : Told(v, l.acts, x.id)
    BY <1>4, <1>8, <2>2, <2>3 DEF Sourced
  <2>5. e.type \in {"create", "update"} => (c \in OwnOnly => au[e.id] = c)
    BY <2>2, <2>3 DEF MayGet
  <2>6. /\ e.type \in {"create", "update"} => e.id \in Id /\ e.note \in Comment
        /\ e.type \in OfAnswer => e.answer \in Answers
    BY <2>3, UpdateTyped DEF OfAnswer
  <2>7. \A x \in Answers : x.id \in Id
    BY ActIsId DEF Answers
  <2>8. e.type \in {"create", "update"} => \A x \in e.note.answers : x \in Answers
    BY <2>6 DEF Comment
  <2> HIDE DEF K
  <2> QED
    BY <1>5, <2>3, <2>4, <2>5, <2>6, <2>7, <2>8 DEF Tells
<1> HIDE DEF K
<1>9. Shelved(au, c, K, FoldLeft(Received, copy[c], mu))
  BY <1>2, <1>6, <1>7, <1>8, ShelvedAll
<1>10. Shelved(au, c, K, copy'[c])
  BY <1>9 DEF Receiving
<1> QED
  BY <1>10 DEF Shelved, Shelf, K

\* None of its own acts are in the diff of another.
LEMMA ReceivingQueue ==
    ASSUME Types, NEW st, NEW au, Past(st, au), Authored(au), NEW c \in Client,
           Queue(au, c), Complete(c), NEW l, NEW mu, Receiving(au, c, l, mu)
    PROVE  Queue(au, c)' /\ Complete(c)'
<1>1. Moving(c, l) /\ l.cid # c /\ unsent'[c] = unsent[c] /\ done'[c] = done[c]
  BY DEF Receiving, Moving
<1>2. \A x : HeardBy(ver[c], x)' <=> HeardBy(ver[c], x) \/ x \in Range(l.acts)
  BY <1>1, MovingIs
<1>3. \A x : Knows(c, x) => Knows(c, x)'
  BY <1>1, MovingIs
<1>4. \A x \in Range(l.acts) : ~Knows(c, x)
  BY <1>1, NotKnown
<1>5. ASSUME NEW k \in 1 .. Len(unsent[c]), NEW w, w = unsent[c][k]
      PROVE  /\ Knows(c, w.id)' /\ (c \in OwnOnly => au[w.id] = c)
             /\ w.act \in Range(done[c]) /\ ~HeardBy(ver[c], w.act)'
             /\ w.type = "create" => w.id = w.act
             /\ w.type = "add_answer" => w.aid = w.act
             /\ \A j \in 1 .. Len(unsent[c]) : unsent[c][j].act = w.act => j = k
  <2>1. /\ Knows(c, w.id) /\ (c \in OwnOnly => au[w.id] = c)
        /\ w.act \in Range(done[c]) /\ ~HeardBy(ver[c], w.act)
        /\ w.type = "create" => w.id = w.act
        /\ w.type = "add_answer" => w.aid = w.act
        /\ \A j \in 1 .. Len(unsent[c]) : unsent[c][j].act = w.act => j = k
    BY <1>5 DEF Queue
  <2>2. Knows(c, w.act)
    BY <2>1 DEF Knows
  <2>3. Knows(c, w.id)' /\ ~HeardBy(ver[c], w.act)'
    BY <1>2, <1>3, <1>4, <2>1, <2>2
  <2> QED
    BY <2>1, <2>3
<1>6. Queue(au, c)'
  BY <1>1, <1>5 DEF Queue
<1>7. Complete(c)'
  BY <1>1, <1>2 DEF Complete
<1> QED
  BY <1>6, <1>7

\* What l creates and adds has the numbers of its acts.
LEMMA NextNumbers ==
    ASSUME Types, NEW st, NEW au, Past(st, au), Authored(au), NEW c \in Client,
           NEW l, Moving(c, l), l.cid # c, NEW i
    PROVE  /\ \A j \in Later(l.cu, 0, "create", i) : ~Knows(c, i)
           /\ \A j \in Later(l.cu, 0, "add_answer", i) : ~Knows(c, l.cu[j].answer.id)
           /\ \A j, k \in Later(l.cu, 0, "create", i) : j = k
<1>1. PICK v \in Nat : v = ver[c]
  BY DEF Types
<1>2. l.cu \in Seq(Update) /\ l.acts \in Seq(Act)
  BY MovingIs
<1>3. Sourced(au, l.cid, l.cu, l.acts, v)
  BY <1>1, NextIs
<1>4. PICK n \in Nat : n = Len(l.cu) /\ n = Len(l.acts) /\ DOMAIN l.acts = 1 .. n
  BY <1>2, <1>3, LenProperties DEF Sourced
<1>5. \A j \in 1 .. n : l.acts[j] \in Range(l.acts) /\ ~Knows(c, l.acts[j])
  BY <1>4, NotKnown DEF Range
<1>6. \A j \in Later(l.cu, 0, "create", i) : j \in 1 .. n /\ l.acts[j] = i
  BY <1>3, <1>4 DEF Later, Sourced
<1>7. \A j \in Later(l.cu, 0, "add_answer", i) : j \in 1 .. n /\ l.acts[j] = l.cu[j].answer.id
  BY <1>3, <1>4 DEF Later, Sourced
<1>8. \A j, k \in Later(l.cu, 0, "create", i) : j = k
  BY <1>3, <1>4, <1>6 DEF Sourced
<1> QED
  BY <1>5, <1>6, <1>7, <1>8

\* No update waits for what l creates, and the store has nothing of it.
LEMMA ReceivingFirst ==
    ASSUME Types, NEW st, NEW au, Past(st, au), Authored(au), NEW c \in Client,
           Shelf(au, c), Queue(au, c), NEW l, Moving(c, l), l.cid # c, NEW i, NEW t,
           Mirror(au, c, Rest(c, 0), copy[c], t, i), Open(au, c, i) => Fits(t, l.cu, i)
    PROVE  Meets(au, c, Rest(c, 0), l.cu, 0, copy[c], t, i)
<1>1. l.cu \in Seq(Update)
  BY MovingIs
<1>2. /\ \A j \in Later(l.cu, 0, "create", i) : ~Knows(c, i)
      /\ \A j \in Later(l.cu, 0, "add_answer", i) : ~Knows(c, l.cu[j].answer.id)
  BY NextNumbers
<1>3. Later(l.cu, 0, "create", i) # {} =>
         i \notin DOMAIN copy[c] /\ ~Has(Rest(c, 0), {"delete"}, i)
  <2>1. i \in DOMAIN copy[c] => Knows(c, i)
    BY DEF Shelf
  <2>2. Has(Rest(c, 0), {"delete"}, i) => Knows(c, i)
    BY DEF Has, Rest, Queue
  <2> QED
    BY <1>2, <2>1, <2>2
<1>4. i \in DOMAIN copy[c] => \A k \in Later(l.cu, 0, "add_answer", i) :
         Named(copy[c][i].answers, l.cu[k].answer.id) = {}
  BY <1>2 DEF Shelf, Named
<1> QED
  BY <1>1, <1>3, <1>4, MeetsFirst

\* c and the server handle the same diff, each its own way, and end up alike.
LEMMA ReceivingMirrors ==
    ASSUME Types, NEW st \in [Nat -> Sound], NEW au, Past(st, au), Authored(au), NEW c \in Client,
           Shelf(au, c), Queue(au, c), Faithful(st, au, c), NEW l, NEW mu,
           Receiving(au, c, l, mu), NEW w, w = ver'[c]
    PROVE  Mirrors(au, c, 0, st[w].com)'
<1>1. /\ Moving(c, l) /\ l.cid # c /\ mu \in Seq(Update) /\ Passes(au, c, l.cu, mu)
      /\ copy'[c] = FoldLeft(Received, copy[c], mu) /\ unsent'[c] = unsent[c]
  BY DEF Receiving
<1>2. PICK v \in Nat : v = ver[c] /\ w = v + 1
  BY <1>1 DEF Types, Moving
<1>3. /\ st[w] = Run(st[v], l.cu)
      /\ st[w].ok = TRUE \/ \A i \in Id : Concerns(l.cu, i) => i \in failed
      /\ Coherent(l.cu)
      /\ \A i \in Id \ failed : au[i] \notin OwnOnly => Fits(st[v].com, l.cu, i)
  <2>1. /\ st[v + 1] = Run(st[v], l.cu)
        /\ st[v + 1].ok = TRUE \/ \A i \in Id : Concerns(l.cu, i) => i \in failed
    BY <1>1, <1>2, NextIs
  <2>2. Coherent(l.cu) /\ \A i \in Id \ failed : au[i] \notin OwnOnly => Fits(st[v].com, l.cu, i)
    BY <1>1, <1>2, NextIs
  <2> QED
    BY <1>2, <2>1, <2>2
<1>4. l.cu \in Seq(Update) /\ copy[c] \in Store
  BY <1>1, MovingIs DEF Types
<1>5. PICK b \in Sound : b = Ready(st[v]) /\ b.com = st[v].com
  BY ReadyIs
<1>6. st[w] = FoldLeft(Applied, b, l.cu)
  BY <1>3, <1>5 DEF Run
<1>7. ASSUME NEW i \in Id \ failed, Sees(au, c, i)
      PROVE  Mirror(au, c, Rest(c, 0), copy'[c], st[w].com, i)
  <2>1. Mirror(au, c, Rest(c, 0), copy[c], b.com, i)
    BY <1>2, <1>5, <1>7 DEF Faithful, Mirrors
  <2>2. Open(au, c, i) => Fits(b.com, l.cu, i)
    BY <1>3, <1>5 DEF Open
  <2>3. Meets(au, c, Rest(c, 0), l.cu, 0, copy[c], b.com, i)
    BY <1>1, <2>1, <2>2, ReceivingFirst
  <2>4. \A j, k \in Later(l.cu, 0, "create", i) : j = k
    BY <1>1, NextNumbers
  <2>5. FoldLeft(Applied, b, l.cu).ok = TRUE \/ ~Concerns(l.cu, i)
    BY <1>3, <1>6
  <2>6. Mirror(au, c, Rest(c, 0), FoldLeft(Received, copy[c], mu),
               FoldLeft(Applied, b, l.cu).com, i)
    BY <1>1, <1>3, <1>4, <1>7, <2>3, <2>4, <2>5, ReceivedMirrors
  <2> QED
    BY <1>1, <1>6, <2>6
<1>8. Rest(c, 0)' = Rest(c, 0) /\ failed' = failed
  BY <1>1 DEF Rest, Moving
<1> QED
  BY <1>7, <1>8 DEF Mirrors

-----------------------------------------------------------------------------
\* So the diff of another keeps the invariant.
LEMMA OtherShared ==
    ASSUME IInv, IInv', NEW st \in [Nat -> Sound], NEW au, Shared(st, au), NEW c \in Client,
           down[c] # <<>>, down' = [down EXCEPT ![c] = Tail(@)],
           seen' = [seen EXCEPT ![c] = @ + 1], NEW m, m = Head(down[c]), m.type = "diff",
           m.cid # c, m.v = ver[c], ver' = [ver EXCEPT ![c] = @ + 1],
           copy' = [copy EXCEPT ![c] = FoldLeft(Received, @, m.cu)],
           UNCHANGED <<com, listed, hist, up, unsent, done, failed>>
    PROVE  Shared(st, au)'
<1>1. Types /\ ClientInv(c)
  BY DEF IInv
<1>2. /\ m \in DownMsg /\ m.v < Len(hist) /\ hist[m.v + 1].cid = m.cid
  BY <1>1, FirstDown
<1>3. m.cu \in Seq(Update)
  BY <1>2, DownTyped
<1>4. PICK l : l = hist[ver[c] + 1]
  OBVIOUS
<1>5. /\ ver'[c] = ver[c] + 1 /\ copy'[c] = FoldLeft(Received, copy[c], m.cu)
      /\ unsent'[c] = unsent[c]
      /\ \A d \in Client \ {c} : /\ ver'[d] = ver[d] /\ copy'[d] = copy[d]
                                 /\ unsent'[d] = unsent[d]
  BY <1>1 DEF Types
<1>6. Moving(c, l) /\ l.cid # c
  BY <1>2, <1>4, <1>5 DEF Moving
<1>7. Past(st, au) /\ Authored(au) /\ Reader(st, au, c)
  BY DEF Shared
<1>8. Passes(au, c, l.cu, m.cu)
  <2>1. 1 \in 1 .. Len(down[c]) /\ m = down[c][1]
    BY <1>1, EmptySeq, HeadTailProperties DEF Types
  <2> QED
    BY <1>4, <1>7, <2>1 DEF Reader, Hearing
<1>9. Receiving(au, c, l, m.cu)
  BY <1>3, <1>5, <1>6, <1>8 DEF Receiving
<1>10. Shelf(au, c) /\ Queue(au, c) /\ Complete(c) /\ Faithful(st, au, c)
  BY <1>7 DEF Reader
<1>11. Shelf(au, c)'
  BY <1>1, <1>7, <1>9, <1>10, ReceivingShelf
<1>12. Queue(au, c)' /\ Complete(c)'
  BY <1>1, <1>7, <1>9, <1>10, ReceivingQueue
<1>13. PICK w : w = ver'[c]
  OBVIOUS
<1>14. Mirrors(au, c, 0, st[w].com)'
  BY <1>1, <1>7, <1>9, <1>10, <1>13, ReceivingMirrors
<1> QED
  BY <1>5, <1>6, <1>11, <1>12, <1>13, <1>14, MovingShared

\* Whatever a browser receives.
LEMMA ReceiveShared ==
    ASSUME IInv, IInv', NEW st \in [Nat -> Sound], NEW au, Shared(st, au), NEW c \in Client,
           ClientReceive(c)
    PROVE  Shared(st, au)'
<1>0. PICK m : m = Head(down[c])
  OBVIOUS
<1>1. Types /\ Types' /\ ClientInv(c)
  BY DEF IInv
<1>2. /\ down[c] # <<>> /\ down' = [down EXCEPT ![c] = Tail(@)]
      /\ seen' = [seen EXCEPT ![c] = @ + 1]
      /\ UNCHANGED <<com, listed, hist, done, failed>>
      /\ \/ ReceiveConfirmDiff(c, m) \/ ReceiveRejectDiff(c, m)
         \/ ReceiveDiff(c, m) \/ ReceiveConfirmVersion(c, m)
  BY <1>0 DEF ClientReceive, serverVars, ghosts
<1>3. Confirms(c, m) => OwnNext(c) /\ hist[ver[c] + 1].rid = m.rid
  BY <1>0, <1>1, <1>2, FirstDown
<1>4. ASSUME ConfirmDiff(c, m.rid), Confirms(c, m), UNCHANGED <<up, copy>>
      PROVE  Shared(st, au)'
  BY <1>2, <1>3, <1>4, ConfirmShared
<1>5. ASSUME UNCHANGED <<ver, copy, unsent>>, up' = up \/ CheckVersion(c)
      PROVE  Shared(st, au)'
  <2>1. Asks(c) /\ \A d \in Client \ {c} : up'[d] = up[d]
    <3>1. CASE up' = up
      BY <3>1 DEF Asks
    <3>2. CASE CheckVersion(c)
      BY <1>1, <1>5, <3>2, CheckIs DEF Types
    <3> QED
      BY <1>5, <3>1, <3>2
  <2> QED
    BY <1>2, <1>5, <2>1, QuietReceive
<1>6. CASE ReceiveConfirmDiff(c, m)
  BY <1>4, <1>6 DEF ReceiveConfirmDiff, Confirms
<1>7. CASE ReceiveRejectDiff(c, m)
  BY <1>5, <1>7 DEF ReceiveRejectDiff, storeVars
<1>8. CASE ReceiveDiff(c, m)
  <2>1. CASE m.cid = c
    BY <1>4, <1>8, <2>1 DEF ReceiveDiff, Confirms
  <2>2. CASE m.cid # c /\ m.v # ver[c]
    BY <1>5, <1>8, <2>2 DEF ReceiveDiff, storeVars
  <2>3. CASE m.cid # c /\ m.v = ver[c]
    <3>1. /\ ver' = [ver EXCEPT ![c] = @ + 1]
          /\ copy' = [copy EXCEPT ![c] = FoldLeft(Received, @, m.cu)]
          /\ m.type = "diff" /\ UNCHANGED <<up, unsent>>
      BY <1>8, <2>3 DEF ReceiveDiff
    <3> QED
      BY <1>0, <1>2, <2>3, <3>1, OtherShared
  <2> QED
    BY <2>1, <2>2, <2>3
<1>9. CASE ReceiveConfirmVersion(c, m)
  BY <1>5, <1>9 DEF ReceiveConfirmVersion, storeVars
<1> QED
  BY <1>2, <1>6, <1>7, <1>8, <1>9

\* With nothing waiting, a store mirrors the comments that it is.
LEMMA MirrorSelf ==
    ASSUME NEW au, NEW c, NEW s, NEW i
    PROVE  Mirror(au, c, {}, s, s, i)
  BY DEF Mirror, Shows, Has, Covers

\* At first everyone has the first comment and the history is that.
LEMMA StartsShared ==
    ASSUME Init
    PROVE  SInv
<1> DEFINE x == [by |-> First, text |-> 0, answers |-> {}]
           b == [com |-> StartComments, listed |-> {}, ok |-> TRUE]
<1>1. IInv
  BY Starts
<1>2. /\ com = StartComments /\ listed = {} /\ Len(hist) = 0
      /\ DOMAIN com = {0} /\ com[0].by = First /\ com[0].answers = {}
  <2>1. hist = <<>> /\ Len(<<>>) = 0
    BY EmptySeq DEF Init
  <2>2. com = [i \in {0} |-> x]
    BY DEF Init, StartComments
  <2> QED
    BY <2>1, <2>2 DEF Init
<1>3. PICK y \in Sound : y = b
  <2>1. StartComments \in Store
    BY <1>1, <1>2 DEF IInv, Types
  <2> QED
    BY <2>1, SoundIs
<1>4. PICK st \in [Nat -> Sound] : \A k \in Nat : st[k] = y
  <2>1. [k \in Nat |-> y] \in [Nat -> Sound]
    OBVIOUS
  <2> QED
    BY <2>1
<1>5. PICK au \in [Id -> Client] : \A i \in Id : au[i] = First
  <2>1. [i \in Id |-> First] \in [Id -> Client]
    BY ClientAssumption
  <2> QED
    BY <2>1
<1>6. 0 \in Id /\ au[0] = First
  BY <1>5, ActIsId
<1>7. \A c \in Client : /\ done[c] = <<>> /\ unsent[c] = <<>> /\ ver[c] = 0 /\ up[c] = <<>>
                        /\ down[c] = <<>> /\ Range(done[c]) = {} /\ Len(<<>>) = 0
                        /\ copy[c] = IF c \in OwnOnly \ {First} THEN <<>> ELSE com
  BY EmptySeq DEF Init, Range
<1>8. Authored(au)
  BY <1>6, <1>7 DEF Authored
<1>9. Past(st, au)
  <2>1. st[0].com = com /\ st[0].listed = listed
    BY <1>2, <1>3, <1>4
  <2>2. \A k \in 0 .. 0 : k = 0
    OBVIOUS
  <2> QED
    BY <1>2, <1>6, <2>1, <2>2 DEF Past
<1>10. ASSUME NEW c \in Client
       PROVE  Reader(st, au, c)
  <2>1. /\ unsent[c] = <<>> /\ Len(unsent[c]) = 0 /\ ver[c] = 0 /\ Range(done[c]) = {}
        /\ Len(up[c]) = 0 /\ Len(down[c]) = 0
    BY <1>7
  <2>2. CASE c \in OwnOnly \ {First}
    <3>1. DOMAIN copy[c] = {}
      BY <1>7, <2>2
    <3>2. \A i \in Id : ~Sees(au, c, i)
      BY <1>5, <2>2 DEF Sees
    <3> QED
      BY <1>2, <2>1, <3>1, <3>2
      DEF Reader, Shelf, Queue, Complete, Faithful, Mirrors, OwnNext, Sending, Hearing
  <2>3. CASE c \notin OwnOnly \ {First}
    <3>1. copy[c] = com
      BY <1>7, <2>3
    <3>2. Shelf(au, c)
      BY <1>2, <1>6, <2>3, <3>1 DEF Shelf, Knows
    <3>3. Faithful(st, au, c)
      <4>1. Rest(c, 0) = {}
        BY <2>1 DEF Rest
      <4>2. st[ver[c]].com = com
        BY <1>2, <1>3, <1>4, <2>1
      <4>3. Mirrors(au, c, 0, st[ver[c]].com)
        BY <3>1, <4>1, <4>2, MirrorSelf DEF Mirrors
      <4>4. ~OwnNext(c)
        BY <1>2, <2>1 DEF OwnNext
      <4> QED
        BY <4>3, <4>4 DEF Faithful
    <3> QED
      BY <2>1, <3>2, <3>3 DEF Reader, Queue, Complete, Sending, Hearing
  <2> QED
    BY <2>2, <2>3
<1>11. Shared(st, au)
  BY <1>8, <1>9, <1>10 DEF Shared
<1> QED
  BY <1>11 DEF SInv

\* Every step keeps the invariant, some of them with more history or one author
\* more.
LEMMA NextShared ==
    ASSUME IInv, IInv', SInv, [Next]_vars
    PROVE  SInv'
<1>1. PICK st \in [Nat -> Sound], au \in [Id -> Client] : Shared(st, au)
  BY DEF SInv
<1>2. ASSUME NEW s2 \in [Nat -> Sound], NEW a2 \in [Id -> Client], Shared(s2, a2)'
      PROVE  SInv'
  BY <1>2 DEF SInv
<1>3. CASE UNCHANGED vars
  <2>1. Shared(st, au)'
    BY <1>1, <1>3, QuietTimeout
  <2> QED
    BY <1>2, <2>1
<1>4. CASE Next
  <2>1. PICK c \in Client : \/ Acting(c) \/ Send(c) \/ SendTimeout(c)
                            \/ ServerReceive(c) \/ ClientReceive(c) \/ Reconnect(c)
    BY <1>4 DEF Next
  <2>2. CASE Acting(c)
    <3>1. PICK a2 \in [Id -> Client] : Shared(st, a2)'
      BY <1>1, <2>2, ActingShared
    <3> QED
      BY <1>2, <3>1
  <2>3. CASE ServerReceive(c)
    <3>1. PICK s2 \in [Nat -> Sound] : Shared(s2, au)'
      BY <1>1, <2>3, ServerShared
    <3> QED
      BY <1>2, <3>1
  <2>4. CASE Send(c) \/ SendTimeout(c) \/ ClientReceive(c) \/ Reconnect(c)
    <3>1. Shared(st, au)'
      BY <1>1, <2>4, SendShared, QuietTimeout, ReceiveShared, QuietReconnect
    <3> QED
      BY <1>2, <3>1
  <2> QED
    BY <2>1, <2>2, <2>3, <2>4
<1> QED
  BY <1>3, <1>4

\* It holds always.
LEMMA AlwaysShared == Spec => []SInv
<1>1. Init => SInv
  BY StartsShared
<1>2. IInv /\ IInv' /\ SInv /\ [Next]_vars => SInv'
  BY NextShared
<1> QED
  BY <1>1, <1>2, Always, PTL DEF Spec

\* What c shows of a comment when it is up to date and none of its updates is about it.
LEMMA UpToDate ==
    ASSUME IInv, NEW st \in [Nat -> Sound], NEW au \in [Id -> Client], Shared(st, au),
           NEW c \in Client, ver[c] = Len(hist), NEW i \in Id \ (Touched(c) \cup failed)
    PROVE  /\ Sees(au, c, i) => /\ i \in DOMAIN com <=> i \in DOMAIN copy[c]
                                /\ i \in DOMAIN com => com[i].text = copy[c][i].text
                                /\ Open(au, c, i) /\ i \in DOMAIN com =>
                                      com[i].answers \subseteq copy[c][i].answers
           /\ i \in DOMAIN com => com[i].by = au[i]
           /\ i \in DOMAIN copy[c] /\ c \in OwnOnly => au[i] = c
<1>1. Types /\ Past(st, au) /\ Reader(st, au, c)
  BY DEF IInv, Shared
<1>2. PICK n \in Nat : n = Len(hist) /\ st[n].com = com
  BY <1>1, LenProperties DEF Types, Past
<1>3. i \in DOMAIN com => com[i].by = au[i]
  <2>1. n \in 0 .. n
    OBVIOUS
  <2> QED
    BY <1>1, <1>2, <2>1 DEF Past
<1>4. i \in DOMAIN copy[c] /\ c \in OwnOnly => au[i] = c
  BY <1>1 DEF Reader, Shelf
<1>5. ASSUME NEW w \in Rest(c, 0)
      PROVE  w.id # i
  <2>1. PICK k \in 0 + 1 .. Len(unsent[c]) : w = unsent[c][k]
    BY <1>5 DEF Rest
  <2>2. k \in DOMAIN unsent[c]
    BY <1>1, <2>1, LenProperties DEF Types
  <2> QED
    BY <2>1, <2>2 DEF Touched
<1>6. ASSUME Sees(au, c, i)
      PROVE  /\ i \in DOMAIN com <=> i \in DOMAIN copy[c]
             /\ i \in DOMAIN com => com[i].text = copy[c][i].text
             /\ Open(au, c, i) /\ i \in DOMAIN com => com[i].answers \subseteq copy[c][i].answers
  <2>1. Mirror(au, c, Rest(c, 0), copy[c], com, i)
    BY <1>1, <1>2, <1>6 DEF Reader, Faithful, Mirrors
  <2>2. \A kinds : ~Has(Rest(c, 0), kinds, i)
    BY <1>5 DEF Has
  <2>3. \A kind : Waits(Rest(c, 0), kind, i) = {}
    BY <1>5 DEF Waits
  <2>4. /\ i \in DOMAIN com <=> i \in DOMAIN copy[c]
        /\ i \in DOMAIN com => com[i].text = copy[c][i].text
    BY <2>1, <2>2 DEF Mirror, Shows
  <2>5. Open(au, c, i) /\ i \in DOMAIN com => com[i].answers \subseteq copy[c][i].answers
    BY <2>1, <2>3, <2>4 DEF Mirror, Covers
  <2> QED
    BY <2>4, <2>5
<1> QED
  BY <1>3, <1>4, <1>6

\* Whatever is rejected, crosses or fails half way: a browser that has the
\* version of the server and no update about a comment shows it as the server
\* has it (store.receive against handle_diff), unless a diff with it has failed;
\* and with all answers, if its author sees them all.
THEOREM ShownAlike == Spec => []SameComments
<1>1. ASSUME IInv, SInv
      PROVE  SameComments
  <2>1. PICK st \in [Nat -> Sound], au \in [Id -> Client] : Shared(st, au)
    BY <1>1 DEF SInv
  <2>2. ASSUME NEW c \in Client \ OwnOnly, ver[c] = Len(hist),
               NEW i \in Id \ (Touched(c) \cup failed)
        PROVE  /\ i \in DOMAIN com <=> i \in DOMAIN copy[c]
               /\ i \in DOMAIN com =>
                     /\ com[i].text = copy[c][i].text
                     /\ com[i].by \notin OwnOnly => com[i].answers \subseteq copy[c][i].answers
    <3>1. Sees(au, c, i)
      BY DEF Sees
    <3>2. /\ i \in DOMAIN com <=> i \in DOMAIN copy[c]
          /\ i \in DOMAIN com => com[i].text = copy[c][i].text
      BY <1>1, <2>1, <2>2, <3>1, UpToDate
    <3>3. i \in DOMAIN com => com[i].by = au[i]
      BY <1>1, <2>1, <2>2, UpToDate
    <3>4. Open(au, c, i) /\ i \in DOMAIN com => com[i].answers \subseteq copy[c][i].answers
      BY <1>1, <2>1, <2>2, <3>1, UpToDate
    <3> QED
      BY <3>2, <3>3, <3>4 DEF Open
  <2> QED
    BY <2>2 DEF SameComments
<1>2. IInv /\ SInv => SameComments
  BY <1>1
<1> QED
  BY <1>2, Always, AlwaysShared, PTL

\* The same of those who see their own comments only: what the filter of the
\* server keeps from them (filter_cu_list) never leaves a deleted comment in
\* their browsers or an own one out of date.
THEOREM OwnShownAlike == Spec => []OwnComments
<1>1. ASSUME IInv, SInv
      PROVE  OwnComments
  <2>1. PICK st \in [Nat -> Sound], au \in [Id -> Client] : Shared(st, au)
    BY <1>1 DEF SInv
  <2>2. ASSUME NEW c \in OwnOnly, ver[c] = Len(hist), NEW i \in Id \ (Touched(c) \cup failed)
        PROVE  /\ i \in DOMAIN com /\ com[i].by = c => /\ i \in DOMAIN copy[c]
                                                       /\ com[i].text = copy[c][i].text
               /\ i \in DOMAIN copy[c] => i \in DOMAIN com
    <3>1. c \in Client
      BY ClientAssumption
    <3>2. Sees(au, c, i) => /\ i \in DOMAIN com <=> i \in DOMAIN copy[c]
                            /\ i \in DOMAIN com => com[i].text = copy[c][i].text
      BY <1>1, <2>1, <2>2, <3>1, UpToDate
    <3>3. /\ i \in DOMAIN com => com[i].by = au[i]
          /\ i \in DOMAIN copy[c] /\ c \in OwnOnly => au[i] = c
      BY <1>1, <2>1, <2>2, <3>1, UpToDate
    <3> QED
      BY <3>2, <3>3 DEF Sees
  <2> QED
    BY <2>2 DEF OwnComments
<1>2. IInv /\ SInv => OwnComments
  BY <1>1
<1> QED
  BY <1>2, Always, AlwaysShared, PTL
=============================================================================
