---------------------------- MODULE Concatenation ----------------------------
(***************************************************************************)
(* Facts about sequences that the proofs of other modules need: beginnings *)
(* of sequences, FlattenSeq of one sequence more, and folds.  These are    *)
(* recursive functions; what they compute is proved by induction over a set*)
(* of numbers, from the fact that < is well-founded on them.               *)
(***************************************************************************)
EXTENDS Integers, SequencesExt, SequenceTheorems, WellFoundedInduction, TLAPS

\* A set with 0 and with the successor of each of its numbers has all numbers.
LEMMA SetInduction ==
    ASSUME NEW S, 0 \in S, \A n \in Nat : n \in S => n + 1 \in S
    PROVE  Nat \subseteq S
<1> SUFFICES ASSUME Nat \ S # {} PROVE FALSE
  OBVIOUS
<1> DEFINE R == OpToRel(<, Nat)
           T == Nat \ S
<1>1. IsWellFoundedOn(R, Nat)
  BY NatLessThanWellFounded
<1>2. T \subseteq Nat /\ T # {}
  OBVIOUS
<1> HIDE DEF R, T
<1>3. \E x \in T : \A y \in T : ~ (<<y, x>> \in R)
  BY <1>1, <1>2, WFMin
<1>4. PICK x \in T : \A y \in T : ~ (<<y, x>> \in R)
  BY <1>3
<1>5. x \in Nat /\ x \notin S
  BY DEF T
<1>6. x - 1 \in Nat /\ x - 1 + 1 = x
  BY <1>5
<1>7. x - 1 \in T
  BY <1>5, <1>6 DEF T
<1>8. <<x - 1, x>> \in R
  BY <1>5, <1>6 DEF R, OpToRel
<1> QED
  BY <1>4, <1>7, <1>8

\* f holds the concatenations of the first n sequences of s.
Flattens(f, s, n) == f = [i \in 1 .. n |-> IF i = 1 THEN s[i] ELSE f[i - 1] \o s[i]]

\* There is such a function for each sequence.
LEMMA FlattensExists ==
    ASSUME NEW s, NEW n \in Nat
    PROVE  \E f : Flattens(f, s, n)
<1> DEFINE S == {k \in Nat : \E f : Flattens(f, s, k)}
<1>1. 0 \in S
  <2>1. Flattens([i \in 1 .. 0 |-> 0], s, 0)
    BY DEF Flattens
  <2> QED
    BY <2>1
<1>2. ASSUME NEW k \in Nat, k \in S
      PROVE  k + 1 \in S
  <2>1. PICK f : Flattens(f, s, k)
    BY <1>2
  <2> DEFINE g == [i \in 1 .. k + 1 |-> IF i = k + 1
                                        THEN IF k = 0 THEN s[1] ELSE f[k] \o s[k + 1]
                                        ELSE f[i]]
  <2>2. \A i \in 1 .. k : f[i] = IF i = 1 THEN s[i] ELSE f[i - 1] \o s[i]
    BY <2>1 DEF Flattens
  <2>3. \A i \in 1 .. k + 1 : g[i] = IF i = 1 THEN s[i] ELSE g[i - 1] \o s[i]
    <3> TAKE i \in 1 .. k + 1
    <3>1. CASE i = k + 1
      BY <3>1
    <3>2. CASE i # k + 1
      <4>1. i \in 1 .. k /\ (i # 1 => i - 1 \in 1 .. k)
        BY <3>2
      <4> QED
        BY <2>2, <4>1
    <3> QED
      BY <3>1, <3>2
  <2>4. Flattens(g, s, k + 1)
    <3> HIDE DEF g
    <3>1. g = [i \in 1 .. k + 1 |-> g[i]]
      BY DEF g
    <3> QED
      BY <2>3, <3>1 DEF Flattens
  <2> QED
    BY <2>4
<1> HIDE DEF S
<1>3. Nat \subseteq S
  BY <1>1, <1>2, SetInduction
<1> QED
  BY <1>3 DEF S

\* It is the same on a common beginning, and holds sequences.
LEMMA FlattensAgree ==
    ASSUME NEW T, NEW s \in Seq(Seq(T)), NEW t \in Seq(Seq(T)), NEW n \in Nat, NEW m \in Nat,
           n <= Len(s), m <= Len(t), n <= m, \A i \in 1 .. n : s[i] = t[i],
           NEW f, Flattens(f, s, n), NEW g, Flattens(g, t, m)
    PROVE  \A i \in 1 .. n : f[i] = g[i] /\ f[i] \in Seq(T)
<1> DEFINE S == {k \in Nat : k + 1 <= n => f[k + 1] = g[k + 1] /\ f[k + 1] \in Seq(T)}
<1>1. /\ \A i \in 1 .. n : f[i] = IF i = 1 THEN s[i] ELSE f[i - 1] \o s[i]
      /\ \A i \in 1 .. m : g[i] = IF i = 1 THEN t[i] ELSE g[i - 1] \o t[i]
  BY DEF Flattens
<1>2. \A i \in 1 .. n : s[i] \in Seq(T) /\ i \in 1 .. m
  BY ElementOfSeq
<1>3. 0 \in S
  BY <1>1, <1>2
<1>4. ASSUME NEW k \in Nat, k \in S
      PROVE  k + 1 \in S
  <2> SUFFICES ASSUME k + 1 + 1 <= n
               PROVE  f[k + 2] = g[k + 2] /\ f[k + 2] \in Seq(T)
    OBVIOUS
  <2>1. f[k + 1] = g[k + 1] /\ f[k + 1] \in Seq(T)
    BY <1>4
  <2>2. k + 2 \in 1 .. n /\ k + 2 \in 1 .. m /\ k + 2 # 1 /\ k + 2 - 1 = k + 1
    OBVIOUS
  <2> DEFINE i == k + 2
  <2>3. f[i] = f[i - 1] \o s[i] /\ g[i] = g[i - 1] \o t[i]
    <3> HIDE DEF i
    <3> QED
      BY <1>1, <2>2 DEF i
  <2>4. i - 1 = k + 1 /\ s[i] \in Seq(T) /\ s[i] = t[i]
    BY <1>2, <2>2
  <2> HIDE DEF i
  <2>5. f[i - 1] = g[i - 1] /\ f[i - 1] \in Seq(T)
    BY <2>1, <2>4
  <2>6. f[i] = g[i] /\ f[i] \in Seq(T)
    BY <2>3, <2>4, <2>5, ConcatProperties
  <2> QED
    BY <2>6 DEF i
<1> HIDE DEF S
<1>5. Nat \subseteq S
  BY <1>3, <1>4, SetInduction
<1>6. ASSUME NEW i \in 1 .. n
      PROVE  f[i] = g[i] /\ f[i] \in Seq(T)
  <2>1. i - 1 \in Nat /\ i - 1 + 1 = i
    OBVIOUS
  <2>2. i - 1 \in S
    BY <1>5, <2>1
  <2> QED
    BY <2>1, <2>2 DEF S
<1> QED
  BY <1>6

\* FlattenSeq is its last value.
LEMMA FlattenIs ==
    ASSUME NEW s, NEW n \in Nat, Len(s) = n, n # 0
    PROVE  \E f : Flattens(f, s, n) /\ FlattenSeq(s) = f[n]
<1> DEFINE f == CHOOSE f : f = [i \in 1 .. n |-> IF i = 1 THEN s[i] ELSE f[i - 1] \o s[i]]
<1>1. FlattenSeq(s) = f[n]
  BY DEF FlattenSeq
<1>2. \E x : x = [i \in 1 .. n |-> IF i = 1 THEN s[i] ELSE x[i - 1] \o s[i]]
  BY FlattensExists DEF Flattens
<1>3. Flattens(f, s, n)
  BY <1>2 DEF Flattens
<1> QED
  BY <1>1, <1>3

\* One more sequence is put at the end.
OneMore(T, s, t, n, m) ==
    /\ s \in Seq(Seq(T)) /\ t \in Seq(Seq(T)) /\ n \in Nat /\ m \in Nat
    /\ m = n + 1 /\ Len(s) = n /\ Len(t) = m /\ \A i \in 1 .. n : s[i] = t[i]

LEMMA FlattenStep ==
    ASSUME NEW T, NEW s, NEW t, NEW n, NEW m, OneMore(T, s, t, n, m)
    PROVE  /\ FlattenSeq(s) \in Seq(T)
           /\ FlattenSeq(t) = FlattenSeq(s) \o t[m]
           /\ n = 0 => FlattenSeq(s) = <<>>
<1>0. /\ s \in Seq(Seq(T)) /\ t \in Seq(Seq(T)) /\ n \in Nat /\ m \in Nat
      /\ m \in 1 .. m /\ m # 0 /\ m - 1 = n /\ n <= m /\ m = n + 1
      /\ Len(s) = n /\ Len(t) = m /\ \A i \in 1 .. n : s[i] = t[i]
  BY DEF OneMore
<1>1. PICK g : Flattens(g, t, m) /\ FlattenSeq(t) = g[m]
  BY <1>0, FlattenIs
<1>2. g[m] = IF m = 1 THEN t[m] ELSE g[n] \o t[m]
  BY <1>0, <1>1 DEF Flattens
<1>3. t[m] \in Seq(T)
  BY <1>0, ElementOfSeq
<1>4. CASE n = 0
  <2>1. s = <<>> /\ FlattenSeq(s) = s
    BY <1>0, <1>4, EmptySeq DEF FlattenSeq
  <2>2. g[m] = t[m]
    BY <1>0, <1>2, <1>4
  <2>3. <<>> \in Seq(T)
    BY EmptySeq
  <2>4. <<>> \o t[m] = t[m]
    BY <1>3, ConcatEmptySeq
  <2> QED
    BY <1>1, <1>4, <2>1, <2>2, <2>3, <2>4
<1>5. CASE n # 0
  <2>1. PICK f : Flattens(f, s, n) /\ FlattenSeq(s) = f[n]
    BY <1>0, <1>5, FlattenIs
  <2>2. n <= Len(s) /\ m <= Len(t) /\ n \in 1 .. n
    BY <1>0, <1>5
  <2>3. \A i \in 1 .. n : f[i] = g[i] /\ f[i] \in Seq(T)
    BY <1>0, <1>1, <2>1, <2>2, FlattensAgree
  <2>4. f[n] = g[n] /\ f[n] \in Seq(T)
    BY <1>0, <2>2, <2>3
  <2>5. m # 1
    BY <1>0, <1>5
  <2>6. FlattenSeq(t) = g[n] \o t[m]
    BY <1>1, <1>2, <2>5
  <2>7. FlattenSeq(s) = g[n] /\ g[n] \in Seq(T)
    BY <2>1, <2>4
  <2> HIDE <2>1, <1>1
  <2> QED
    BY <1>5, <2>6, <2>7
<1> QED
  BY <1>0, <1>4, <1>5

-----------------------------------------------------------------------------
(* Beginnings.                                                             *)

\* A beginning has the same elements.
LEMMA PrefixElements ==
    ASSUME NEW T, NEW s \in Seq(T), NEW t \in Seq(T)
    PROVE  IsPrefix(s, t) <=> Len(s) <= Len(t) /\ \A i \in 1 .. Len(s) : s[i] = t[i]
<1>1. Len(s) \in Nat /\ Len(t) \in Nat
  BY LenProperties
<1>2. ASSUME Len(s) <= Len(t)
      PROVE  /\ SubSeq(t, 1, Len(s)) \in Seq(T) /\ Len(SubSeq(t, 1, Len(s))) = Len(s)
             /\ \A i \in 1 .. Len(s) : SubSeq(t, 1, Len(s))[i] = t[i]
  <2>1. \A i \in 1 .. Len(s) : t[i] \in T
    BY <1>1, <1>2, ElementOfSeq
  <2> QED
    BY <1>1, <2>1, SubSeqProperties
<1>3. SubSeq(s, 1, Len(s)) = s
  BY SubSeqFull
<1>4. ASSUME Len(s) <= Len(t), \A i \in 1 .. Len(s) : s[i] = t[i]
      PROVE  s = SubSeq(t, 1, Len(s))
  BY <1>2, <1>4, SeqEqual
<1> QED
  BY <1>2, <1>3, <1>4 DEF IsPrefix

\* A sequence is a beginning of it and the rest.
LEMMA PrefixSplit ==
    ASSUME NEW T, NEW s \in Seq(T), NEW t \in Seq(T), IsPrefix(s, t)
    PROVE  /\ SubSeq(t, 1, Len(s)) = s
           /\ SubSeq(t, Len(s) + 1, Len(t)) \in Seq(T)
           /\ Len(SubSeq(t, Len(s) + 1, Len(t))) = Len(t) - Len(s)
           /\ \A i \in 1 .. Len(t) - Len(s) :
                  SubSeq(t, Len(s) + 1, Len(t))[i] = t[Len(s) + i]
<1>1. Len(s) \in Nat /\ Len(t) \in Nat /\ Len(s) <= Len(t)
  BY LenProperties DEF IsPrefix
<1>2. SubSeq(s, 1, Len(s)) = s
  BY SubSeqFull
<1> DEFINE m == Len(s) + 1
           n == Len(t)
<1>3. m \in Int /\ n \in Int /\ \A i \in m .. n : t[i] \in T
  BY <1>1, ElementOfSeq
<1>4. /\ SubSeq(t, m, n) \in Seq(T)
      /\ Len(SubSeq(t, m, n)) = IF m <= n THEN n - m + 1 ELSE 0
      /\ \A i \in 1 .. n - m + 1 : SubSeq(t, m, n)[i] = t[m + i - 1]
  <2> HIDE DEF m, n
  <2> QED
    BY <1>3, SubSeqProperties
<1> QED
  BY <1>1, <1>2, <1>4 DEF IsPrefix

\* More at the end of the longer one.
LEMMA PrefixConcat ==
    ASSUME NEW T, NEW s \in Seq(T), NEW t \in Seq(T), NEW u \in Seq(T), IsPrefix(s, t)
    PROVE  IsPrefix(s, t \o u)
<1>1. t \o u \in Seq(T) /\ Len(t \o u) = Len(t) + Len(u)
  BY ConcatProperties
<1>2. Len(s) <= Len(t) /\ \A i \in 1 .. Len(s) : s[i] = t[i]
  BY PrefixElements
<1>3. Len(s) \in Nat /\ Len(t) \in Nat /\ Len(u) \in Nat
  BY LenProperties
<1>4. \A i \in 1 .. Len(s) : i \in 1 .. Len(t) + Len(u) /\ i <= Len(t)
  BY <1>2, <1>3
<1>5. \A i \in 1 .. Len(s) : (t \o u)[i] = t[i]
  BY <1>4, ConcatProperties
<1>6. Len(s) <= Len(t \o u) /\ \A i \in 1 .. Len(s) : s[i] = (t \o u)[i]
  BY <1>1, <1>2, <1>3, <1>5
<1> QED
  BY <1>1, <1>6, PrefixElements

\* The elements of a concatenation, of a sequence with one more element, and
\* of a beginning.
LEMMA RangeConcat ==
    ASSUME NEW T, NEW s \in Seq(T), NEW t \in Seq(T)
    PROVE  Range(s \o t) = Range(s) \cup Range(t)
<1>1. /\ Len(s) \in Nat /\ Len(t) \in Nat /\ s \o t \in Seq(T)
      /\ Len(s \o t) = Len(s) + Len(t)
      /\ \A i \in 1 .. Len(s) + Len(t) :
            (s \o t)[i] = IF i <= Len(s) THEN s[i] ELSE t[i - Len(s)]
  BY ConcatProperties, LenProperties
<1>2. /\ DOMAIN s = 1 .. Len(s) /\ DOMAIN t = 1 .. Len(t)
      /\ DOMAIN (s \o t) = 1 .. Len(s) + Len(t)
  BY <1>1, LenProperties
<1> DEFINE u == s \o t
<1>3. DOMAIN u = 1 .. Len(s) + Len(t)
      /\ \A i \in DOMAIN u : u[i] = IF i <= Len(s) THEN s[i] ELSE t[i - Len(s)]
  BY <1>1, <1>2
<1> HIDE DEF u
<1>4. ASSUME NEW i \in DOMAIN u
      PROVE  u[i] \in Range(s) \cup Range(t)
  <2>1. CASE i <= Len(s)
    BY <1>1, <1>2, <1>3, <2>1 DEF Range
  <2>2. CASE ~(i <= Len(s))
    <3>1. i - Len(s) \in 1 .. Len(t)
      BY <1>1, <1>3, <2>2
    <3> QED
      BY <1>2, <1>3, <2>2, <3>1 DEF Range
  <2> QED
    BY <2>1, <2>2
<1>5. ASSUME NEW i \in 1 .. Len(s)
      PROVE  s[i] \in Range(u)
  BY <1>1, <1>3 DEF Range
<1>6. ASSUME NEW i \in 1 .. Len(t)
      PROVE  t[i] \in Range(u)
  <2> DEFINE j == Len(s) + i
  <2>1. j \in 1 .. Len(s) + Len(t) /\ ~(j <= Len(s)) /\ j - Len(s) = i
    BY <1>1
  <2> HIDE DEF j
  <2>2. u[j] = t[i]
    BY <1>3, <2>1
  <2> QED
    BY <1>3, <2>1, <2>2 DEF Range
<1>7. Range(u) = Range(s) \cup Range(t)
  BY <1>2, <1>4, <1>5, <1>6 DEF Range
<1> QED
  BY <1>7 DEF u

LEMMA RangeAppend ==
    ASSUME NEW T, NEW s \in Seq(T), NEW e \in T
    PROVE  Range(Append(s, e)) = Range(s) \cup {e}
<1>1. Append(s, e) = s \o <<e>> /\ <<e>> \in Seq(T)
  BY AppendIsConcat
<1>2. Range(<<e>>) = {e}
  BY DEF Range
<1>3. Range(s \o <<e>>) = Range(s) \cup Range(<<e>>)
  BY <1>1, RangeConcat
<1> QED
  BY <1>1, <1>2, <1>3

LEMMA RangePrefix ==
    ASSUME NEW T, NEW s \in Seq(T), NEW t \in Seq(T), IsPrefix(s, t)
    PROVE  Range(s) \subseteq Range(t)
<1>1. Len(s) <= Len(t) /\ \A i \in 1 .. Len(s) : s[i] = t[i]
  BY PrefixElements
<1>2. DOMAIN s = 1 .. Len(s) /\ DOMAIN t = 1 .. Len(t) /\ Len(s) \in Nat /\ Len(t) \in Nat
  BY LenProperties
<1> QED
  BY <1>1, <1>2 DEF Range

\* A sequence cut in two.
LEMMA Cut ==
    ASSUME NEW T, NEW s \in Seq(T), NEW n \in 0 .. Len(s)
    PROVE  /\ SubSeq(s, 1, n) \in Seq(T) /\ SubSeq(s, n + 1, Len(s)) \in Seq(T)
           /\ Range(s) = Range(SubSeq(s, 1, n)) \cup Range(SubSeq(s, n + 1, Len(s)))
<1>1. Len(s) \in Nat /\ \A i \in 1 .. Len(s) : s[i] \in T
  BY LenProperties, ElementOfSeq
<1> DEFINE a == SubSeq(s, 1, n)
           b == SubSeq(s, n + 1, Len(s))
<1>2. /\ a \in Seq(T) /\ Len(a) = n /\ \A i \in 1 .. n : a[i] = s[i]
  BY <1>1, SubSeqProperties
<1>3. /\ b \in Seq(T) /\ Len(b) = Len(s) - n
      /\ \A i \in 1 .. Len(s) - n : b[i] = s[n + i]
  <2> DEFINE m == n + 1
             l == Len(s)
  <2>1. /\ m \in Int /\ l \in Int /\ l - m + 1 = Len(s) - n /\ Len(s) - n \in Nat
        /\ (m <= l \/ l - m + 1 = 0)
    BY <1>1
  <2>2. \A i \in m .. l : i \in 1 .. Len(s)
    BY <1>1
  <2>3. \A i \in 1 .. Len(s) - n : m + i - 1 = n + i
    BY <1>1
  <2>4. b = SubSeq(s, m, l)
    OBVIOUS
  <2> HIDE DEF m, l, b
  <2>5. \A i \in m .. l : s[i] \in T
    BY <1>1, <2>2
  <2>6. /\ b \in Seq(T) /\ Len(b) = IF m <= l THEN l - m + 1 ELSE 0
        /\ \A i \in 1 .. l - m + 1 : b[i] = s[m + i - 1]
    BY <2>1, <2>4, <2>5, SubSeqProperties
  <2> QED
    BY <2>1, <2>3, <2>6
<1> HIDE DEF a, b
<1>4. /\ Len(a) + Len(b) = Len(s)
      /\ \A i \in 1 .. Len(s) : s[i] = IF i <= Len(a) THEN a[i] ELSE b[i - Len(a)]
  <2>1. Len(a) + Len(b) = Len(s)
    BY <1>1, <1>2, <1>3
  <2>2. ASSUME NEW i \in 1 .. Len(s), i <= n
        PROVE  a[i] = s[i]
    BY <1>2, <2>2
  <2>3. ASSUME NEW i \in 1 .. Len(s), ~(i <= n)
        PROVE  b[i - n] = s[i]
    <3>1. i - n \in 1 .. Len(s) - n /\ n + (i - n) = i
      BY <1>1, <2>3
    <3> DEFINE h == i - n
    <3>2. h \in 1 .. Len(s) - n /\ n + h = i
      BY <3>1
    <3> HIDE DEF h
    <3>3. b[h] = s[i]
      BY <1>3, <3>2
    <3> QED
      BY <3>3 DEF h
  <2> QED
    BY <1>2, <2>1, <2>2, <2>3
<1>5. /\ a \o b \in Seq(T) /\ Len(a \o b) = Len(a) + Len(b)
      /\ \A i \in 1 .. Len(a) + Len(b) :
            (a \o b)[i] = IF i <= Len(a) THEN a[i] ELSE b[i - Len(a)]
  BY <1>2, <1>3, ConcatProperties
<1>6. a \o b = s
  BY <1>4, <1>5, SeqEqual
<1> QED
  BY ZenonT(30), <1>2, <1>3, <1>6, RangeConcat DEF a, b

-----------------------------------------------------------------------------
(* Sequences without repetition.                                           *)

Distinct(s) == \A i, j \in 1 .. Len(s) : s[i] = s[j] => i = j

LEMMA DistinctConcat ==
    ASSUME NEW T, NEW s \in Seq(T), NEW t \in Seq(T), Distinct(s), Distinct(t),
           Range(s) \cap Range(t) = {}
    PROVE  Distinct(s \o t)
<1> DEFINE u == s \o t
<1>1. /\ Len(s) \in Nat /\ Len(t) \in Nat /\ Len(u) = Len(s) + Len(t)
      /\ \A i \in 1 .. Len(s) + Len(t) : u[i] = IF i <= Len(s) THEN s[i] ELSE t[i - Len(s)]
      /\ DOMAIN s = 1 .. Len(s) /\ DOMAIN t = 1 .. Len(t)
  BY ConcatProperties, LenProperties
<1> HIDE DEF u
<1>2. \A i \in 1 .. Len(s), j \in 1 .. Len(t) : s[i] # t[j]
  BY <1>1 DEF Range
<1>3. ASSUME NEW i \in 1 .. Len(u), NEW j \in 1 .. Len(u), u[i] = u[j]
      PROVE  i = j
  <2>1. /\ i <= Len(s) => i \in 1 .. Len(s) /\ u[i] = s[i]
        /\ j <= Len(s) => j \in 1 .. Len(s) /\ u[j] = s[j]
    BY <1>1
  <2>2. /\ ~(i <= Len(s)) => i - Len(s) \in 1 .. Len(t) /\ u[i] = t[i - Len(s)]
        /\ ~(j <= Len(s)) => j - Len(s) \in 1 .. Len(t) /\ u[j] = t[j - Len(s)]
    BY <1>1
  <2>3. CASE i <= Len(s) /\ j <= Len(s)
    BY <1>3, <2>1, <2>3 DEF Distinct
  <2>4. CASE ~(i <= Len(s)) /\ ~(j <= Len(s))
    <3>1. i - Len(s) = j - Len(s)
      BY <1>3, <2>2, <2>4 DEF Distinct
    <3> QED
      BY <1>1, <3>1
  <2>5. CASE (i <= Len(s)) # (j <= Len(s))
    BY <1>2, <1>3, <2>1, <2>2, <2>5
  <2> QED
    BY <2>3, <2>4, <2>5
<1> QED
  BY <1>3 DEF Distinct, u

\* A beginning of such a sequence, and the rest.
LEMMA DistinctSplit ==
    ASSUME NEW T, NEW s \in Seq(T), NEW t \in Seq(T), IsPrefix(s, t), Distinct(t)
    PROVE  LET rest == SubSeq(t, Len(s) + 1, Len(t))
           IN  /\ Distinct(s) /\ Distinct(rest)
               /\ Range(s) \subseteq Range(t) /\ Range(rest) \subseteq Range(t)
               /\ Range(s) \cap Range(rest) = {}
<1> DEFINE rest == SubSeq(t, Len(s) + 1, Len(t))
<1>1. /\ Len(s) \in Nat /\ Len(t) \in Nat
      /\ DOMAIN s = 1 .. Len(s) /\ DOMAIN t = 1 .. Len(t)
      /\ Len(s) <= Len(t) /\ \A i \in 1 .. Len(s) : s[i] = t[i]
  BY PrefixElements, LenProperties
<1>2. /\ rest \in Seq(T) /\ Len(rest) = Len(t) - Len(s)
      /\ \A i \in 1 .. Len(t) - Len(s) : rest[i] = t[Len(s) + i]
  BY PrefixSplit
<1> HIDE DEF rest
<1>3. DOMAIN rest = 1 .. Len(t) - Len(s)
  BY <1>2, LenProperties
<1>4. /\ \A i \in 1 .. Len(s) : i \in 1 .. Len(t)
      /\ \A i \in 1 .. Len(t) - Len(s) : Len(s) + i \in 1 .. Len(t)
      /\ \A i \in 1 .. Len(s), j \in 1 .. Len(t) - Len(s) : i # Len(s) + j
      /\ \A i, j \in 1 .. Len(t) - Len(s) : Len(s) + i = Len(s) + j => i = j
  BY <1>1
<1>5. Distinct(s)
  BY <1>1, <1>4 DEF Distinct
<1>6. Distinct(rest)
  <2> SUFFICES ASSUME NEW i \in 1 .. Len(t) - Len(s), NEW j \in 1 .. Len(t) - Len(s),
                      rest[i] = rest[j]
               PROVE  i = j
    BY <1>2 DEF Distinct
  <2>1. t[Len(s) + i] = t[Len(s) + j]
    BY <1>2
  <2>2. Len(s) + i = Len(s) + j
    BY <1>4, <2>1 DEF Distinct
  <2> QED
    BY <1>4, <2>2
<1>7. Range(s) \subseteq Range(t)
  BY RangePrefix
<1>8. Range(rest) \subseteq Range(t)
  BY <1>1, <1>2, <1>3, <1>4 DEF Range
<1>9. Range(s) \cap Range(rest) = {}
  <2> SUFFICES ASSUME NEW i \in 1 .. Len(s), NEW j \in 1 .. Len(t) - Len(s), s[i] = rest[j]
               PROVE  FALSE
    BY <1>1, <1>3 DEF Range
  <2>1. t[i] = t[Len(s) + j]
    BY <1>1, <1>2
  <2>2. i = Len(s) + j
    BY <1>4, <2>1 DEF Distinct
  <2> QED
    BY <1>4, <2>2
<1> QED
  BY <1>5, <1>6, <1>7, <1>8, <1>9 DEF rest

-----------------------------------------------------------------------------
(* Folds.  FoldLeft is a recursive function on sets of positions.          *)

\* A set of numbers that has an upper bound has a greatest one.
LEMMA MaxIs ==
    ASSUME NEW b \in Nat, NEW S, S \subseteq 0 .. b, S # {}
    PROVE  Max(S) \in S /\ \A x \in S : x <= Max(S)
<1>0. \A x \in S : x \in Nat /\ x <= b
  OBVIOUS
<1> DEFINE P == {k \in Nat : (\A x \in S : x <= k) => \E m \in S : \A x \in S : m >= x}
<1>1. 0 \in P
  <2>1. ASSUME \A x \in S : x <= 0
        PROVE  \E m \in S : \A x \in S : m >= x
    <3>1. \A x \in S : x = 0
      BY <1>0, <2>1
    <3>2. PICK m \in S : TRUE
      OBVIOUS
    <3> QED
      BY <3>1, <3>2
  <2> QED
    BY <2>1
<1>2. ASSUME NEW k \in Nat, k \in P
      PROVE  k + 1 \in P
  <2> SUFFICES ASSUME \A x \in S : x <= k + 1
               PROVE  \E m \in S : \A x \in S : m >= x
    OBVIOUS
  <2>1. CASE k + 1 \in S
    BY <1>0, <2>1
  <2>2. CASE k + 1 \notin S
    <3>1. \A x \in S : x <= k
      BY <1>0, <2>2
    <3> QED
      BY <1>2, <3>1
  <2> QED
    BY <2>1, <2>2
<1> HIDE DEF P
<1>3. Nat \subseteq P
  BY <1>1, <1>2, SetInduction
<1>4. \E m \in S : \A x \in S : m >= x
  <2>1. b \in P
    BY <1>3
  <2> QED
    BY <1>0, <2>1 DEF P
<1>5. Max(S) \in S /\ \A x \in S : Max(S) >= x
  BY <1>4 DEF Max
<1> QED
  BY <1>0, <1>5

\* Taking the greatest of some numbers up to k + 1 away leaves numbers up to k.
LEMMA LessTheGreatest ==
    ASSUME NEW k \in Nat, NEW s, s \subseteq 1 .. k + 1, s # {}
    PROVE  /\ Max(s) \in s /\ Max(s) \in 1 .. k + 1
           /\ s \ {Max(s)} \subseteq 1 .. k
<1>1. s \subseteq 0 .. k + 1 /\ k + 1 \in Nat
  OBVIOUS
<1>2. Max(s) \in s /\ \A x \in s : x <= Max(s)
  <2>1. PICK b \in Nat : b = k + 1
    OBVIOUS
  <2>2. s \subseteq 0 .. b
    BY <1>1, <2>1
  <2> QED
    BY <2>2, MaxIs
<1>3. PICK m \in s : m = Max(s)
  BY <1>2
<1>4. m \in 1 .. k + 1 /\ \A x \in s : x \in 1 .. k + 1 /\ x <= m
  BY <1>2, <1>3
<1>5. \A x \in s \ {m} : x \in 1 .. k
  BY <1>4
<1> QED
  BY <1>3, <1>4, <1>5

\* f folds g over the sets of numbers up to n.
FoldsSets(f, T, b, n, g) ==
    /\ f \in [SUBSET (1 .. n) -> T]
    /\ \A s \in SUBSET (1 .. n) :
          f[s] = IF s = {} THEN b ELSE g[<<f[s \ {Max(s)}], Max(s)>>]

\* There is such a function.
LEMMA FoldExists ==
    ASSUME NEW T, NEW b \in T, NEW n \in Nat, NEW G \in [T \X (1 .. n) -> T]
    PROVE  \E f : FoldsSets(f, T, b, n, G)
<1> DEFINE Q(k) == \E f \in [SUBSET (1 .. k) -> T] : \A s \in SUBSET (1 .. k) :
                      f[s] = IF s = {} THEN b ELSE G[<<f[s \ {Max(s)}], Max(s)>>]
           P == {k \in Nat : k <= n => Q(k)}
<1>1. 0 \in P
  <2> DEFINE f == [s \in SUBSET (1 .. 0) |-> b]
  <2>1. f \in [SUBSET (1 .. 0) -> T] /\ \A s \in SUBSET (1 .. 0) : s = {} /\ f[s] = b
    OBVIOUS
  <2> HIDE DEF f
  <2> QED
    BY <2>1
<1>2. ASSUME NEW k \in Nat, k \in P
      PROVE  k + 1 \in P
  <2> SUFFICES ASSUME k + 1 <= n
               PROVE  \E f \in [SUBSET (1 .. k + 1) -> T] : \A s \in SUBSET (1 .. k + 1) :
                        f[s] = IF s = {} THEN b ELSE G[<<f[s \ {Max(s)}], Max(s)>>]
    BY k + 1 \in Nat
  <2>0. k <= n
    OBVIOUS
  <2>1. PICK f \in [SUBSET (1 .. k) -> T] : \A s \in SUBSET (1 .. k) :
                f[s] = IF s = {} THEN b ELSE G[<<f[s \ {Max(s)}], Max(s)>>]
    BY <1>2, <2>0
  <2> DEFINE g == [s \in SUBSET (1 .. k + 1) |->
                     IF s = {} THEN b ELSE G[<<f[s \ {Max(s)}], Max(s)>>]]
  <2>2. ASSUME NEW s \in SUBSET (1 .. k + 1), s # {}
        PROVE  s \ {Max(s)} \in SUBSET (1 .. k) /\ Max(s) \in 1 .. n
    <3>1. s \subseteq 1 .. k + 1 /\ Max(s) \in 1 .. k + 1 /\ s \ {Max(s)} \subseteq 1 .. k
      BY <2>2, LessTheGreatest
    <3> QED
      BY <3>1
  <2>3. \A s \in SUBSET (1 .. k + 1) : s # {} =>
            f[s \ {Max(s)}] \in T /\ G[<<f[s \ {Max(s)}], Max(s)>>] \in T
    BY <2>2
  <2>4. g \in [SUBSET (1 .. k + 1) -> T]
    BY <2>3
  <2>5. \A s \in SUBSET (1 .. k) : s \in SUBSET (1 .. k + 1)
    OBVIOUS
  <2>6. \A s \in SUBSET (1 .. k + 1) :
           g[s] = IF s = {} THEN b ELSE G[<<f[s \ {Max(s)}], Max(s)>>]
    OBVIOUS
  <2> HIDE DEF g
  <2>7. \A s \in SUBSET (1 .. k) : g[s] = f[s]
    BY <2>1, <2>5, <2>6
  <2>8. \A s \in SUBSET (1 .. k + 1) : s # {} => g[s \ {Max(s)}] = f[s \ {Max(s)}]
    BY <2>2, <2>7
  <2> QED
    BY <2>4, <2>6, <2>8
<1> HIDE DEF P
<1>3. Nat \subseteq P
  BY <1>1, <1>2, SetInduction
<1>4. Q(n)
  <2> HIDE DEF Q
  <2>1. n \in P
    BY <1>3
  <2> QED
    BY <2>1 DEF P
<1> QED
  BY <1>4 DEF FoldsSets

\* What a recursive function on these sets has for all of them is in T if each
\* step stays within T.
LEMMA FoldType ==
    ASSUME NEW T, NEW n \in Nat, NEW h, h[{}] \in T,
           \A s \in SUBSET (1 .. n) : s # {} /\ h[s \ {Max(s)}] \in T => h[s] \in T
    PROVE  h[1 .. n] \in T
<1> DEFINE Q(k) == \A s \in SUBSET (1 .. k) : h[s] \in T
           P == {k \in Nat : k <= n => Q(k)}
<1>1. 0 \in P
  <2>1. \A s \in SUBSET (1 .. 0) : s = {}
    OBVIOUS
  <2> QED
    BY <2>1
<1>2. ASSUME NEW k \in Nat, k \in P
      PROVE  k + 1 \in P
  <2> SUFFICES ASSUME k + 1 <= n, NEW s \in SUBSET (1 .. k + 1), s # {}
               PROVE  h[s] \in T
    <3>1. k + 1 <= n => Q(k + 1)
      OBVIOUS
    <3> HIDE DEF Q
    <3> QED
      BY <3>1
  <2>1. k <= n /\ s \in SUBSET (1 .. n) /\ s \subseteq 1 .. k + 1
    OBVIOUS
  <2>2. s \ {Max(s)} \in SUBSET (1 .. k)
    <3>1. s \ {Max(s)} \subseteq 1 .. k
      BY <2>1, LessTheGreatest
    <3> QED
      BY <3>1
  <2>3. h[s \ {Max(s)}] \in T
    BY <1>2, <2>1, <2>2
  <2> QED
    BY <2>1, <2>3
<1> HIDE DEF P
<1>3. Nat \subseteq P
  BY <1>1, <1>2, SetInduction
<1>4. n \in P
  BY <1>3
<1> QED
  BY <1>4 DEF P

\* The greatest of some positions is one, and without it there are fewer.
LEMMA LastPosition ==
    ASSUME NEW n \in Nat, NEW s \in SUBSET (1 .. n), s # {}
    PROVE  s \ {Max(s)} \in SUBSET (1 .. n) /\ Max(s) \in 1 .. n
<1>1. s \subseteq 1 .. n + 1
  OBVIOUS
<1>2. Max(s) \in s
  BY <1>1, LessTheGreatest
<1> QED
  BY <1>2

\* The concatenation of sequences over T is one.
LEMMA FlattenType ==
    ASSUME NEW T, NEW s \in Seq(Seq(T))
    PROVE  FlattenSeq(s) \in Seq(T)
<1> DEFINE t == Append(s, <<>>)
<1>1. <<>> \in Seq(T)
  OBVIOUS
<1>2. PICK n \in Nat, m \in Nat : n = Len(s) /\ m = n + 1
  BY LenProperties
<1>3. t \in Seq(Seq(T)) /\ Len(t) = m /\ \A i \in 1 .. n : s[i] = t[i]
  BY <1>1, <1>2, AppendProperties
<1> HIDE DEF t
<1>4. OneMore(T, s, t, n, m)
  BY <1>2, <1>3 DEF OneMore
<1> QED
  BY <1>4, FlattenStep
=============================================================================
