--------------------------- MODULE SequenceLemmas ---------------------------
(***************************************************************************)
(* Facts about sequences: prefixes and concatenations, for the proofs that *)
(* something implements a Pipe; queues whose last relevant element decides *)
(* what is left once they are worked off; and the orders of a finite set.  *)
(***************************************************************************)
EXTENDS Integers, Sequences, SequencesExt, SequenceTheorems, FiniteSetTheorems, TLAPS

-----------------------------------------------------------------------------
(* Prefixes.                                                               *)

\* A prefix is as long at most and agrees in every position.
LEMMA PrefixPointwise ==
    ASSUME NEW S, NEW s \in Seq(S), NEW t \in Seq(S)
    PROVE  IsPrefix(s, t) <=> Len(s) <= Len(t) /\ \A i \in 1 .. Len(s) : s[i] = t[i]
<1>1. Len(s) \in Nat /\ Len(t) \in Nat
  BY LenProperties
<1>2. CASE Len(s) <= Len(t)
  <2>1. \A i \in 1 .. Len(s) : s[i] \in S /\ t[i] \in S
    BY <1>1, <1>2, ElementOfSeq
  <2>2. /\ SubSeq(s, 1, Len(s)) \in Seq(S)
        /\ Len(SubSeq(s, 1, Len(s))) = Len(s)
        /\ \A i \in 1 .. Len(s) : SubSeq(s, 1, Len(s))[i] = s[i]
    BY <1>1, <2>1, SubSeqProperties
  <2>3. /\ SubSeq(t, 1, Len(s)) \in Seq(S)
        /\ Len(SubSeq(t, 1, Len(s))) = Len(s)
        /\ \A i \in 1 .. Len(s) : SubSeq(t, 1, Len(s))[i] = t[i]
    BY <1>1, <2>1, SubSeqProperties
  <2>4. (\A i \in 1 .. Len(s) : s[i] = t[i]) => SubSeq(s, 1, Len(s)) = SubSeq(t, 1, Len(s))
    <3> SUFFICES ASSUME \A i \in 1 .. Len(s) : s[i] = t[i]
                 PROVE  SubSeq(s, 1, Len(s)) = SubSeq(t, 1, Len(s))
      OBVIOUS
    <3> DEFINE a == SubSeq(s, 1, Len(s))
    <3> DEFINE b == SubSeq(t, 1, Len(s))
    <3>1. a \in Seq(S) /\ b \in Seq(S) /\ Len(a) = Len(b) /\ \A i \in 1 .. Len(a) : a[i] = b[i]
      BY <2>2, <2>3
    <3> HIDE DEF a, b
    <3>2. a = b
      BY <3>1, SeqEqual
    <3> QED
      BY <3>2 DEF a, b
  <2>5. SubSeq(s, 1, Len(s)) = SubSeq(t, 1, Len(s)) => \A i \in 1 .. Len(s) : s[i] = t[i]
    BY <2>2, <2>3
  <2> QED
    BY <1>2, <2>4, <2>5 DEF IsPrefix
<1>3. CASE ~(Len(s) <= Len(t))
  BY <1>3 DEF IsPrefix
<1> QED
  BY <1>2, <1>3

\* A sequence is a prefix of itself.
LEMMA PrefixReflexive ==
    ASSUME NEW S, NEW s \in Seq(S)
    PROVE  IsPrefix(s, s)
BY PrefixPointwise, LenProperties

\* A prefix of a prefix is a prefix.
LEMMA PrefixTransitive ==
    ASSUME NEW S, NEW s \in Seq(S), NEW t \in Seq(S), NEW u \in Seq(S),
           IsPrefix(s, t), IsPrefix(t, u)
    PROVE  IsPrefix(s, u)
<1>1. Len(s) \in Nat /\ Len(t) \in Nat /\ Len(u) \in Nat
  BY LenProperties
<1>2. Len(s) <= Len(t) /\ \A i \in 1 .. Len(s) : s[i] = t[i]
  BY PrefixPointwise
<1>3. Len(t) <= Len(u) /\ \A i \in 1 .. Len(t) : t[i] = u[i]
  BY PrefixPointwise
<1>4. Len(s) <= Len(u) /\ \A i \in 1 .. Len(s) : s[i] = u[i]
  BY <1>1, <1>2, <1>3
<1> QED
  BY <1>4, PrefixPointwise

\* Whatever is put behind a sequence, the sequence is a prefix.
LEMMA PrefixOfConcat ==
    ASSUME NEW S, NEW s \in Seq(S), NEW t \in Seq(S)
    PROVE  IsPrefix(s, s \o t)
<1>1. Len(s) \in Nat /\ Len(t) \in Nat
  BY LenProperties
<1>2. /\ s \o t \in Seq(S) /\ Len(s \o t) = Len(s) + Len(t)
      /\ \A i \in 1 .. Len(s) + Len(t) : (s \o t)[i] = IF i <= Len(s) THEN s[i] ELSE t[i - Len(s)]
  BY ConcatProperties
<1>3. Len(s) <= Len(s \o t) /\ \A i \in 1 .. Len(s) : s[i] = (s \o t)[i]
  BY <1>1, <1>2
<1> QED
  BY <1>2, <1>3, PrefixPointwise

\* What is appended comes after the prefix.
LEMMA PrefixOfAppend ==
    ASSUME NEW S, NEW s \in Seq(S), NEW e \in S
    PROVE  IsPrefix(s, Append(s, e))
<1>1. Append(s, e) = s \o << e >> /\ << e >> \in Seq(S)
  BY AppendIsConcat
<1> QED
  BY <1>1, PrefixOfConcat

\* A prefix that grows by the next element is still a prefix.
LEMMA PrefixGrows ==
    ASSUME NEW S, NEW s \in Seq(S), NEW t \in Seq(S), IsPrefix(s, t), Len(s) < Len(t)
    PROVE  IsPrefix(Append(s, t[Len(s) + 1]), t)
<1>1. Len(s) \in Nat /\ Len(t) \in Nat
  BY LenProperties
<1> DEFINE e == t[Len(s) + 1]
<1>2. e \in S
  BY <1>1, ElementOfSeq
<1> HIDE DEF e
<1>3. /\ Append(s, e) \in Seq(S) /\ Len(Append(s, e)) = Len(s) + 1
      /\ \A i \in 1 .. Len(s) : Append(s, e)[i] = s[i]
      /\ Append(s, e)[Len(s) + 1] = e
  BY <1>2, AppendProperties
<1>4. \A i \in 1 .. Len(s) : s[i] = t[i]
  BY PrefixPointwise
<1>5. \A i \in 1 .. Len(s) + 1 : Append(s, e)[i] = t[i]
  BY <1>1, <1>3, <1>4 DEF e
<1>6. IsPrefix(Append(s, e), t)
  <2> DEFINE a == Append(s, e)
  <2>1. a \in Seq(S) /\ Len(a) <= Len(t) /\ \A i \in 1 .. Len(a) : a[i] = t[i]
    BY <1>1, <1>3, <1>5
  <2> HIDE DEF a
  <2>2. IsPrefix(a, t)
    BY <2>1, PrefixPointwise
  <2> QED
    BY <2>2 DEF a
<1> QED
  BY <1>6 DEF e

\* A prefix of full length is all of the sequence.
LEMMA FullPrefix ==
    ASSUME NEW S, NEW s \in Seq(S), NEW t \in Seq(S), IsPrefix(s, t), Len(s) = Len(t)
    PROVE  s = t
<1>1. \A i \in 1 .. Len(s) : s[i] = t[i]
  BY PrefixPointwise
<1> QED
  BY <1>1, SeqEqual

\* Moving the head of one sequence to the end of the one before it.
LEMMA MoveHead ==
    ASSUME NEW S, NEW s \in Seq(S), NEW t \in Seq(S), t # << >>
    PROVE  Append(s, Head(t)) \o Tail(t) = s \o t
<1>1. Head(t) \in S /\ Tail(t) \in Seq(S) /\ << Head(t) >> \in Seq(S)
  BY HeadTailProperties
<1>2. Append(s, Head(t)) = s \o << Head(t) >>
  BY <1>1, AppendIsConcat
<1>3. (s \o << Head(t) >>) \o Tail(t) = s \o (<< Head(t) >> \o Tail(t))
  BY <1>1, ConcatAssociative
<1>4. << Head(t) >> \o Tail(t) = t
  BY HeadTailProperties
<1> QED
  BY <1>2, <1>3, <1>4

-----------------------------------------------------------------------------
(* The elements of a sequence.                                             *)

\* They are elements of the set it is over.
LEMMA ElementsTyped ==
    ASSUME NEW S, NEW q \in Seq(S)
    PROVE  ToSet(q) \subseteq S /\ ToSet(q) = {q[i] : i \in 1 .. Len(q)}
<1>1. DOMAIN q = 1 .. Len(q) /\ \A i \in 1 .. Len(q) : q[i] \in S
  BY LenProperties, ElementOfSeq
<1> QED
  BY <1>1 DEF ToSet

\* The empty sequence has none.
LEMMA ElementsOfEmpty == ToSet(<< >>) = {}
BY DEF ToSet

\* The elements of two sequences, one after the other.
LEMMA ElementsOfConcat ==
    ASSUME NEW S, NEW s \in Seq(S), NEW t \in Seq(S)
    PROVE  s \o t \in Seq(S) /\ ToSet(s \o t) = ToSet(s) \cup ToSet(t)
<1>1. /\ Len(s) \in Nat /\ Len(t) \in Nat
      /\ DOMAIN s = 1 .. Len(s) /\ DOMAIN t = 1 .. Len(t)
  BY LenProperties
<1>2. /\ s \o t \in Seq(S) /\ Len(s \o t) = Len(s) + Len(t)
      /\ \A i \in 1 .. Len(s) + Len(t) : (s \o t)[i] = IF i <= Len(s) THEN s[i] ELSE t[i - Len(s)]
  BY ConcatProperties
<1> DEFINE u == s \o t
<1>3. /\ u \in Seq(S) /\ DOMAIN u = 1 .. Len(s) + Len(t)
      /\ \A i \in 1 .. Len(s) : u[i] = s[i]
      /\ \A i \in 1 .. Len(t) : u[Len(s) + i] = t[i]
  BY <1>1, <1>2, LenProperties
<1> HIDE DEF u
<1>4. ASSUME NEW i \in DOMAIN u PROVE u[i] \in ToSet(s) \cup ToSet(t)
  <2>1. CASE i <= Len(s)
    BY <1>1, <1>3, <2>1 DEF ToSet
  <2>2. CASE ~(i <= Len(s))
    <3>1. i - Len(s) \in DOMAIN t /\ Len(s) + (i - Len(s)) = i
      BY <1>1, <1>3, <2>2
    <3>2. u[i] = t[i - Len(s)]
      BY <1>1, <1>3, <3>1
    <3> QED
      BY <3>1, <3>2 DEF ToSet
  <2> QED
    BY <2>1, <2>2
<1>5. ASSUME NEW i \in DOMAIN s PROVE s[i] \in ToSet(u)
  <2>1. i \in DOMAIN u /\ u[i] = s[i]
    BY <1>1, <1>3
  <2> QED
    BY <2>1 DEF ToSet
<1>6. ASSUME NEW i \in DOMAIN t PROVE t[i] \in ToSet(u)
  <2>1. Len(s) + i \in DOMAIN u /\ u[Len(s) + i] = t[i]
    BY <1>1, <1>3
  <2> QED
    BY <2>1 DEF ToSet
<1>7. ToSet(u) = ToSet(s) \cup ToSet(t)
  BY <1>4, <1>5, <1>6 DEF ToSet
<1> QED
  BY <1>3, <1>7 DEF u

\* The elements of three sequences, one after the other.
LEMMA ElementsOfThree ==
    ASSUME NEW S, NEW a \in Seq(S), NEW b \in Seq(S), NEW c \in Seq(S)
    PROVE  /\ a \o b \o c \in Seq(S)
           /\ ToSet(a \o b \o c) = ToSet(a) \cup ToSet(b) \cup ToSet(c)
<1> DEFINE ab == a \o b
<1>1. ab \in Seq(S) /\ ToSet(ab) = ToSet(a) \cup ToSet(b)
  BY ElementsOfConcat
<1> HIDE DEF ab
<1>2. ab \o c \in Seq(S) /\ ToSet(ab \o c) = ToSet(ab) \cup ToSet(c)
  BY <1>1, ElementsOfConcat
<1>3. ab \o c \in Seq(S) /\ ToSet(ab \o c) = ToSet(a) \cup ToSet(b) \cup ToSet(c)
  BY <1>1, <1>2
<1> QED
  BY <1>3 DEF ab

\* Appending adds one.
LEMMA ElementsOfAppend ==
    ASSUME NEW S, NEW q \in Seq(S), NEW e \in S
    PROVE  Append(q, e) \in Seq(S) /\ ToSet(Append(q, e)) = ToSet(q) \cup {e}
<1> DEFINE one == << e >>
<1>1. Append(q, e) = q \o one /\ one \in Seq(S)
  BY AppendIsConcat
<1>2. ToSet(one) = {e}
  BY DEF ToSet
<1> HIDE DEF one
<1>3. q \o one \in Seq(S) /\ ToSet(q \o one) = ToSet(q) \cup {e}
  BY <1>1, <1>2, ElementsOfConcat
<1> QED
  BY <1>1, <1>3, Zenon

\* The head and those of the tail.
LEMMA ElementsOfTail ==
    ASSUME NEW S, NEW q \in Seq(S), q # << >>
    PROVE  /\ Head(q) \in S /\ Tail(q) \in Seq(S)
           /\ ToSet(q) = {Head(q)} \cup ToSet(Tail(q))
<1>1. /\ Head(q) \in S /\ Tail(q) \in Seq(S) /\ << Head(q) >> \in Seq(S)
      /\ << Head(q) >> \o Tail(q) = q
  BY HeadTailProperties
<1>2. ToSet(<< Head(q) >>) = {Head(q)}
  BY DEF ToSet
<1>3. ToSet(<< Head(q) >> \o Tail(q)) = ToSet(<< Head(q) >>) \cup ToSet(Tail(q))
  BY <1>1, ElementsOfConcat
<1> QED
  BY <1>1, <1>2, <1>3

\* A part from the front has no others.
LEMMA ElementsOfFront ==
    ASSUME NEW S, NEW q \in Seq(S), NEW n \in 0 .. Len(q)
    PROVE  SubSeq(q, 1, n) \in Seq(S) /\ ToSet(SubSeq(q, 1, n)) \subseteq ToSet(q)
<1>1. Len(q) \in Nat /\ DOMAIN q = 1 .. Len(q)
  BY LenProperties
<1>2. n \in Nat /\ \A i \in 1 .. n : i \in 1 .. Len(q) /\ q[i] \in S
  BY <1>1, ElementOfSeq
<1> DEFINE f == SubSeq(q, 1, n)
<1>3. f \in Seq(S) /\ Len(f) = n /\ \A i \in 1 .. n : f[i] = q[i]
  BY <1>2, SubSeqProperties
<1> HIDE DEF f
<1>4. DOMAIN f = 1 .. n
  BY <1>3, LenProperties
<1>5. ToSet(f) \subseteq ToSet(q)
  BY <1>1, <1>2, <1>3, <1>4 DEF ToSet
<1> QED
  BY <1>3, <1>5 DEF f

-----------------------------------------------------------------------------
(* Queues.                                                                 *)

\* The places of the elements of q that f knows.
Hits(q, f) == {i \in 1 .. Len(q) : q[i] \in DOMAIN f}

\* Working off q, each element that f knows replaces x by what f makes of it; y is
\* what is left in the end.
Settles(q, f, x, y) ==
    \/ Hits(q, f) = {} /\ y = x
    \/ \E i \in Hits(q, f) : (\A j \in Hits(q, f) : j <= i) /\ y = f[q[i]]

\* Nothing is left to do.
LEMMA SettlesEmpty ==
    ASSUME NEW f, NEW x
    PROVE  Settles(<< >>, f, x, x)
BY DEF Settles, Hits

\* An element that f knows decides, if it is the last.
LEMMA SettlesOnLast ==
    ASSUME NEW S, NEW q \in Seq(S), NEW e \in S, NEW f, NEW x, NEW y,
           e \in DOMAIN f, Settles(Append(q, e), f, x, y)
    PROVE  y = f[e]
<1> DEFINE a == Append(q, e)
<1>1. a \in Seq(S) /\ Len(a) = Len(q) + 1 /\ a[Len(q) + 1] = e /\ Len(q) \in Nat
  BY AppendProperties, LenProperties
<1> HIDE DEF a
<1>2. Len(q) + 1 \in Hits(a, f) /\ \A i \in Hits(a, f) : i \in Nat /\ i <= Len(q) + 1
  BY <1>1 DEF Hits
<1>3. Settles(a, f, x, y)
  BY DEF a
<1>4. PICK i \in Hits(a, f) : (\A j \in Hits(a, f) : j <= i) /\ y = f[a[i]]
  BY <1>2, <1>3 DEF Settles
<1>5. i = Len(q) + 1
  BY <1>1, <1>2, <1>4
<1> QED
  BY <1>1, <1>4, <1>5

\* An element that f does not know makes no difference.
LEMMA SettlesBefore ==
    ASSUME NEW S, NEW q \in Seq(S), NEW e \in S, NEW f, NEW x, NEW y,
           e \notin DOMAIN f
    PROVE  /\ Hits(Append(q, e), f) = Hits(q, f)
           /\ Settles(Append(q, e), f, x, y) => Settles(q, f, x, y)
<1> DEFINE a == Append(q, e)
<1>1. /\ a \in Seq(S) /\ Len(a) = Len(q) + 1 /\ a[Len(q) + 1] = e /\ Len(q) \in Nat
      /\ \A i \in 1 .. Len(q) : a[i] = q[i]
  BY AppendProperties, LenProperties
<1> HIDE DEF a
<1>2. 1 .. Len(q) + 1 = 1 .. Len(q) \cup {Len(q) + 1}
  BY <1>1
<1>3. Hits(a, f) = Hits(q, f)
  BY <1>1, <1>2 DEF Hits
<1>4. \A i \in Hits(q, f) : a[i] = q[i]
  BY <1>1 DEF Hits
<1>5. Settles(a, f, x, y) => Settles(q, f, x, y)
  BY <1>3, <1>4 DEF Settles
<1> QED
  BY <1>3, <1>5 DEF a

\* Working off the first element leads to the same end.
LEMMA SettlesTail ==
    ASSUME NEW S, NEW q \in Seq(S), q # << >>, NEW f, NEW x, NEW y,
           Settles(Tail(q), f, IF Head(q) \in DOMAIN f THEN f[Head(q)] ELSE x, y)
    PROVE  Settles(q, f, x, y)
<1> DEFINE t == Tail(q)
<1> DEFINE z == IF Head(q) \in DOMAIN f THEN f[Head(q)] ELSE x
<1>1. /\ t \in Seq(S) /\ Len(t) = Len(q) - 1 /\ Len(q) \in Nat /\ Len(q) > 0 /\ Head(q) = q[1]
      /\ \A i \in 1 .. Len(t) : t[i] = q[i + 1]
  BY HeadTailProperties, LenProperties, EmptySeq
<1> HIDE DEF t
<1>2. \A i \in Hits(t, f) : i \in Nat /\ 1 <= i /\ i + 1 \in Hits(q, f) /\ t[i] = q[i + 1]
  BY <1>1 DEF Hits
<1>3. \A j \in Hits(q, f) : j \in Nat /\ 1 <= j /\ (j # 1 => j - 1 \in Hits(t, f))
  BY <1>1 DEF Hits
<1>4. 1 \in Hits(q, f) <=> Head(q) \in DOMAIN f
  BY <1>1 DEF Hits
<1>5. Settles(t, f, z, y)
  BY DEF t
<1>6. CASE Hits(t, f) = {} /\ y = z
  <2>1. \A j \in Hits(q, f) : j = 1
    BY <1>3, <1>6
  <2>2. CASE Head(q) \in DOMAIN f
    <3>1. 1 \in Hits(q, f) /\ (\A j \in Hits(q, f) : j <= 1) /\ y = f[q[1]]
      BY <2>1, <2>2, <1>1, <1>4, <1>6
    <3> QED
      BY <3>1 DEF Settles
  <2>3. CASE Head(q) \notin DOMAIN f
    <3>1. Hits(q, f) = {} /\ y = x
      BY <2>1, <2>3, <1>4, <1>6
    <3> QED
      BY <3>1 DEF Settles
  <2> QED
    BY <2>2, <2>3
<1>7. CASE \E i \in Hits(t, f) : (\A j \in Hits(t, f) : j <= i) /\ y = f[t[i]]
  <2>1. PICK i \in Hits(t, f) : (\A j \in Hits(t, f) : j <= i) /\ y = f[t[i]]
    BY <1>7
  <2>2. i \in Nat /\ 1 <= i /\ i + 1 \in Hits(q, f) /\ y = f[q[i + 1]]
    BY <2>1, <1>2
  <2>3. ASSUME NEW j \in Hits(q, f) PROVE j <= i + 1
    <3>1. CASE j = 1
      BY <2>2, <3>1
    <3>2. CASE j # 1
      <4>1. j \in Nat /\ j - 1 \in Hits(t, f)
        BY <3>2, <1>3
      <4>2. j - 1 <= i
        BY <4>1, <2>1
      <4> QED
        BY <4>1, <4>2, <2>2
    <3> QED
      BY <3>1, <3>2
  <2> QED
    BY <2>2, <2>3 DEF Settles
<1> QED
  BY <1>5, <1>6, <1>7 DEF Settles

\* What is left is what was there, if f knows no element, or what f makes of one.
LEMMA SettlesWithin ==
    ASSUME NEW S, NEW q \in Seq(S), NEW f, NEW x, NEW y, Settles(q, f, x, y)
    PROVE  \/ ToSet(q) \cap DOMAIN f = {} /\ y = x
           \/ \E e \in ToSet(q) \cap DOMAIN f : y = f[e]
<1>1. ToSet(q) = {q[i] : i \in 1 .. Len(q)}
  BY ElementsTyped
<1> QED
  BY <1>1 DEF Settles, Hits

\* If f knows an element, it does not matter what was there.
LEMMA SettlesAnyway ==
    ASSUME NEW S, NEW q \in Seq(S), NEW f, NEW x, NEW y, NEW z, Settles(q, f, x, y)
    PROVE  (ToSet(q) \cap DOMAIN f = {} /\ y = x) \/ Settles(q, f, z, y)
<1>1. ToSet(q) = {q[i] : i \in 1 .. Len(q)}
  BY ElementsTyped
<1> QED
  BY <1>1 DEF Settles, Hits

-----------------------------------------------------------------------------
(* Orders of a finite set.                                                 *)

\* Each of them is a sequence of the set's elements in which every one occurs.
LEMMA SetToSeqsCovers ==
    ASSUME NEW S, IsFiniteSet(S), NEW s \in SetToSeqs(S)
    PROVE  s \in Seq(S) /\ \A x \in S : \E i \in 1 .. Len(s) : s[i] = x
<1> DEFINE n == Cardinality(S)
<1>1. n \in Nat
  BY FS_CardinalityType
<1>2. s \in [1 .. n -> S] /\ \A i, j \in 1 .. n : i # j => s[i] # s[j]
  BY DEF SetToSeqs
<1>3. Cardinality(1 .. n) = n
  BY <1>1, FS_Interval
<1> HIDE DEF n
<1>4. s \in Injection(1 .. n, S)
  BY <1>2 DEF Injection, IsInjective
<1>5. s \in Surjection(1 .. n, S)
  BY <1>3, <1>4, FS_Injection DEF n
<1>6. \A x \in S : \E i \in 1 .. n : s[i] = x
  BY <1>5 DEF Surjection
<1>7. s \in Seq(S)
  BY <1>1, <1>2, SeqDef
<1>8. Len(s) = n
  <2>1. DOMAIN s = 1 .. n /\ DOMAIN s = 1 .. Len(s) /\ Len(s) \in Nat
    BY <1>2, <1>7, LenProperties
  <2> QED
    BY <1>1, <2>1
<1> QED
  BY <1>6, <1>7, <1>8

\* Orders of three subsets of a finite set, one after the other.
LEMMA OrdersInThreeParts ==
    ASSUME NEW S, IsFiniteSet(S), NEW A \in SUBSET S, NEW B \in SUBSET S, NEW C \in SUBSET S,
           NEW a \in SetToSeqs(A), NEW b \in SetToSeqs(B), NEW c \in SetToSeqs(C)
    PROVE  /\ a \o b \o c \in Seq(S)
           /\ ToSet(a \o b \o c) = A \cup B \cup C
<1>1. ASSUME NEW T \in SUBSET S, NEW s \in SetToSeqs(T)
      PROVE  s \in Seq(S) /\ ToSet(s) = T
  <2>1. s \in Seq(T) /\ \A x \in T : \E i \in 1 .. Len(s) : s[i] = x
    BY FS_Subset, SetToSeqsCovers
  <2>2. DOMAIN s = 1 .. Len(s) /\ \A i \in 1 .. Len(s) : s[i] \in T
    BY <2>1, LenProperties, ElementOfSeq
  <2>3. ToSet(s) = T
    BY <2>1, <2>2 DEF ToSet
  <2>4. Seq(T) \subseteq Seq(S)
    BY SeqMonotonic
  <2> QED
    BY <2>1, <2>3, <2>4
<1>2. /\ a \in Seq(S) /\ b \in Seq(S) /\ c \in Seq(S)
      /\ ToSet(a) = A /\ ToSet(b) = B /\ ToSet(c) = C
  BY <1>1
<1> QED
  BY <1>2, ElementsOfThree

=============================================================================
