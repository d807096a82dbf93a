-------------------------------- MODULE Lists --------------------------------
(***************************************************************************)
(* Lemmas about numbers and sequences that several proofs need: induction, *)
(* stated for sets rather than predicates, and what it says of functions   *)
(* that are defined by recursion over a sequence.                          *)
(***************************************************************************)
EXTENDS Integers, SequencesExt, FiniteSetsExt, SequenceTheorems, FiniteSetTheorems, WellFoundedInduction, TLAPS

LEMMA Least ==
    ASSUME NEW T, T \subseteq Nat, T # {}
    PROVE  \E x \in T : \A y \in T : ~ (y < x)
<1> DEFINE R == {p \in Nat \X Nat : p[1] < p[2]}
<1>1. IsWellFoundedOn(R, Nat)
  BY NatLessThanWellFounded DEF OpToRel
<1>2. PICK x \in T : \A y \in T : <<y, x>> \notin R
  <2> HIDE DEF R
  <2> QED  BY <1>1, WFMin
<1>3. \A y \in T : ~ (y < x)
  <2> TAKE y \in T
  <2>1. <<y, x>> \in Nat \X Nat /\ <<y, x>>[1] = y /\ <<y, x>>[2] = x
    OBVIOUS
  <2> QED  BY <1>2, <2>1
<1> QED  BY <1>3

LEMMA Induction ==
    ASSUME NEW S, 0 \in S, \A n \in Nat : n \in S => n + 1 \in S
    PROVE  Nat \subseteq S
<1> SUFFICES ASSUME Nat \ S # {}
             PROVE  FALSE
  OBVIOUS
<1>1. PICK n \in Nat \ S : \A k \in Nat \ S : ~ (k < n)
  BY Least
<1>2. n # 0
  BY <1>1
<1>3. n - 1 \in Nat /\ n - 1 < n /\ (n - 1) + 1 = n
  BY <1>1, <1>2
<1>4. n - 1 \in S
  BY <1>1, <1>3
<1> QED  BY <1>1, <1>3, <1>4

\* A set of sequences that has the empty one and grows by one element at the end
\* has all of them.
LEMMA SequenceInduction ==
    ASSUME NEW E, NEW S, << >> \in S, \A q \in Seq(E), x \in E : q \in S => Append(q, x) \in S
    PROVE  Seq(E) \subseteq S
<1> DEFINE L == {n \in Nat : \A q \in Seq(E) : Len(q) = n => q \in S}
<1>1. 0 \in L
  <2> SUFFICES ASSUME NEW q \in Seq(E), Len(q) = 0
               PROVE  q \in S
    OBVIOUS
  <2>1. q = << >>
    BY EmptySeq
  <2> QED  BY <2>1
<1>2. ASSUME NEW n \in Nat, n \in L
      PROVE  n + 1 \in L
  <2> SUFFICES ASSUME NEW q \in Seq(E), Len(q) = n + 1
               PROVE  q \in S
    OBVIOUS
  <2>1. q # << >>
    OBVIOUS
  <2>2. PICK r \in Seq(E), x \in E : q = Append(r, x)
    BY <2>1, SequenceEmptyOrAppend
  <2>3. Len(r) = n
    BY <2>2
  <2> QED  BY <1>2, <2>2, <2>3
<1>3. Nat \subseteq L
  <2> HIDE DEF L
  <2> QED  BY <1>1, <1>2, Induction
<1> QED  BY <1>3, LenProperties

-----------------------------------------------------------------------------
\* A function over 0 .. N that starts with a value and goes on by a step exists,
\* and is the only one.
Iterates(f, v, step, N) == f[0] = v /\ \A n \in 1 .. N : f[n] = step[<<n, f[n - 1]>>]

LEMMA Recursion ==
    ASSUME NEW V, NEW v \in V, NEW N \in Nat, NEW step \in [(1 .. N) \X V -> V]
    PROVE  \E f \in [0 .. N -> V] : Iterates(f, v, step, N)
<1> DEFINE Good(f, m) == Iterates(f, v, step, m)
           S == {m \in Nat : m <= N => \E f \in [0 .. m -> V] : Good(f, m)}
<1>1. 0 \in S
  <2>1. [n \in 0 .. 0 |-> v] \in [0 .. 0 -> V] /\ Good([n \in 0 .. 0 |-> v], 0)
    BY DEF Iterates
  <2> QED  BY <2>1
<1>2. ASSUME NEW m \in Nat, m \in S
      PROVE  m + 1 \in S
  <2> SUFFICES ASSUME m + 1 <= N
               PROVE  \E f \in [0 .. m + 1 -> V] : Good(f, m + 1)
    OBVIOUS
  <2>1. PICK f \in [0 .. m -> V] : Good(f, m)
    BY <1>2
  <2>2. step[<<m + 1, f[m]>>] \in V
    OBVIOUS
  <2> DEFINE g == [n \in 0 .. m + 1 |-> IF n = m + 1 THEN step[<<m + 1, f[m]>>] ELSE f[n]]
  <2>3. g \in [0 .. m + 1 -> V]
    BY <2>2
  <2>4. g[0] = v /\ \A n \in 0 .. m : g[n] = f[n]
    BY <2>1 DEF Iterates
  <2>5. ASSUME NEW n \in 1 .. m + 1
        PROVE  g[n] = step[<<n, g[n - 1]>>]
    <3>1. CASE n = m + 1
      <4>1. g[n] = step[<<m + 1, f[m]>>]
        BY <3>1
      <4>2. n - 1 = m /\ g[m] = f[m]
        BY <2>4, <3>1
      <4> HIDE DEF g
      <4> QED  BY <3>1, <4>1, <4>2
    <3>2. CASE n # m + 1
      <4>1. n \in 1 .. m /\ n - 1 \in 0 .. m /\ n \in 0 .. m
        BY <3>2
      <4> HIDE DEF g
      <4> QED  BY <2>1, <2>4, <4>1 DEF Iterates
    <3> QED  BY <3>1, <3>2
  <2> HIDE DEF g
  <2> QED  BY <2>3, <2>4, <2>5 DEF Iterates
<1>3. Nat \subseteq S
  <2> HIDE DEF S
  <2> QED  BY <1>1, <1>2, Induction
<1>4. N \in S /\ N <= N
  BY <1>3
<1> QED  BY <1>4

LEMMA RecursionUnique ==
    ASSUME NEW N \in Nat, NEW f, NEW g, f[0] = g[0],
           \A n \in 1 .. N : f[n - 1] = g[n - 1] => f[n] = g[n]
    PROVE  \A n \in 0 .. N : f[n] = g[n]
<1> DEFINE S == {n \in Nat : n <= N => f[n] = g[n]}
<1>1. 0 \in S
  OBVIOUS
<1>2. ASSUME NEW n \in Nat, n \in S
      PROVE  n + 1 \in S
  <2> SUFFICES ASSUME n + 1 <= N
               PROVE  f[n + 1] = g[n + 1]
    OBVIOUS
  <2>1. n + 1 \in 1 .. N /\ (n + 1) - 1 = n /\ f[n] = g[n]
    BY <1>2
  <2> QED  BY <2>1
<1>3. Nat \subseteq S
  <2> HIDE DEF S
  <2> QED  BY <1>1, <1>2, Induction
<1> QED  BY <1>3

-----------------------------------------------------------------------------
LEMMA ConcatAppend ==
    ASSUME NEW E, NEW q \in Seq(E), NEW r \in Seq(E), NEW x \in E
    PROVE  q \o Append(r, x) = Append(q \o r, x)
<1>1. Append(r, x) = r \o <<x>> /\ <<x>> \in Seq(E)
  BY AppendIsConcat
<1>2. q \o r \in Seq(E)
  BY ConcatProperties
<1>3. Append(q \o r, x) = (q \o r) \o <<x>>
  BY <1>2, AppendIsConcat
<1> QED  BY <1>1, <1>3, ConcatAssociative

LEMMA HeadFirst ==
    ASSUME NEW E, NEW q \in Seq(E), q # << >>
    PROVE  q = <<Head(q)>> \o Tail(q) /\ Head(q) \in E /\ Tail(q) \in Seq(E)
<1>1. Head(q) \in E /\ Tail(q) \in Seq(E) /\ Len(Tail(q)) = Len(q) - 1 /\ Len(q) \in Nat \ {0}
  BY HeadTailProperties, EmptySeq
<1>2. <<Head(q)>> \in Seq(E) /\ Len(<<Head(q)>>) = 1
  BY <1>1
<1>3. \A i \in 1 .. Len(Tail(q)) : Tail(q)[i] = q[i + 1]
  BY HeadTailProperties
<1>4. Head(q) = q[1]
  OBVIOUS
<1> DEFINE r == <<Head(q)>> \o Tail(q)
<1>5. /\ r \in Seq(E) /\ Len(r) = Len(q)
      /\ \A i \in 1 .. Len(q) : r[i] = IF i <= 1 THEN <<Head(q)>>[i] ELSE Tail(q)[i - 1]
  BY <1>1, <1>2, ConcatProperties
<1>6. \A i \in 1 .. Len(q) : r[i] = q[i]
  <2> SUFFICES ASSUME NEW i \in 1 .. Len(q)
               PROVE  r[i] = q[i]
    OBVIOUS
  <2> HIDE DEF r
  <2>1. CASE i = 1
    BY <1>4, <1>5, <2>1
  <2>2. CASE i # 1
    <3>1. i - 1 \in 1 .. Len(Tail(q)) /\ (i - 1) + 1 = i /\ ~ (i <= 1)
      BY <1>1, <2>2
    <3> QED  BY <1>3, <1>5, <3>1
  <2> QED  BY <2>1, <2>2
<1>7. r = q
  <2> HIDE DEF r
  <2> QED  BY <1>5, <1>6, SeqEqual
<1> QED  BY <1>1, <1>7

-----------------------------------------------------------------------------
\* How many elements of a sequence are in a set.
Count(q, P) == Cardinality({i \in DOMAIN q : q[i] \in P})

LEMMA CountNat ==
    ASSUME NEW E, NEW q \in Seq(E), NEW P
    PROVE  IsFiniteSet({i \in DOMAIN q : q[i] \in P}) /\ Count(q, P) \in Nat
<1>1. Len(q) \in Nat /\ DOMAIN q = 1 .. Len(q)
  BY LenProperties
<1>2. IsFiniteSet(1 .. Len(q))
  BY <1>1, FS_Interval
<1>3. IsFiniteSet({i \in DOMAIN q : q[i] \in P})
  BY <1>1, <1>2, FS_Subset
<1> QED  BY <1>3, FS_CardinalityType DEF Count

LEMMA CountEmpty == ASSUME NEW P PROVE Count(<<>>, P) = 0
<1>1. {i \in DOMAIN <<>> : <<>>[i] \in P} = {}
  OBVIOUS
<1> QED  BY <1>1, FS_EmptySet DEF Count

LEMMA CountAppend ==
    ASSUME NEW E, NEW q \in Seq(E), NEW x \in E, NEW P
    PROVE  Count(Append(q, x), P) = Count(q, P) + (IF x \in P THEN 1 ELSE 0)
<1> DEFINE r == Append(q, x)
           S == {i \in DOMAIN q : q[i] \in P}
           T == {i \in DOMAIN r : r[i] \in P}
           n == Len(q) + 1
<1>1. /\ DOMAIN q = 1 .. Len(q) /\ DOMAIN r = 1 .. n /\ Len(q) \in Nat
      /\ \A i \in 1 .. Len(q) : r[i] = q[i]
      /\ r[n] = x
  BY AppendProperties, LenProperties
<1>2. IsFiniteSet(S) /\ Cardinality(S) \in Nat
  BY CountNat DEF Count
<1>3. n \notin S
  BY <1>1
<1>4. T = IF x \in P THEN S \cup {n} ELSE S
  <2> HIDE DEF r
  <2>1. ASSUME NEW i \in T
        PROVE  i \in S \/ (i = n /\ x \in P)
    BY <1>1
  <2>2. S \subseteq T
    BY <1>1
  <2>3. x \in P => n \in T
    BY <1>1
  <2> QED  BY <2>1, <2>2, <2>3
<1>5. Cardinality(S \cup {n}) = Cardinality(S) + 1
  <2> HIDE DEF S, n
  <2> QED  BY <1>2, <1>3, FS_AddElement
<1>6. Cardinality(T) = Cardinality(S) + (IF x \in P THEN 1 ELSE 0)
  <2> HIDE DEF S, T, n
  <2> QED  BY <1>2, <1>4, <1>5
<1> QED  BY <1>6 DEF Count

LEMMA CountTail ==
    ASSUME NEW E, NEW q \in Seq(E), q # <<>>, NEW P
    PROVE  Count(q, P) = Count(Tail(q), P) + (IF Head(q) \in P THEN 1 ELSE 0)
<1> DEFINE S == {r \in Seq(E) : r = <<>> \/ Count(r, P) = Count(Tail(r), P) + (IF Head(r) \in P THEN 1 ELSE 0)}
<1>1. <<>> \in S
  OBVIOUS
<1>2. ASSUME NEW r \in Seq(E), NEW x \in E, r \in S
      PROVE  Append(r, x) \in S
  <2>1. Append(r, x) \in Seq(E) /\ Count(Append(r, x), P) = Count(r, P) + (IF x \in P THEN 1 ELSE 0)
    BY CountAppend, AppendProperties
  <2>2. CASE r = <<>>
    <3>1. Tail(Append(r, x)) = <<>> /\ Head(Append(r, x)) = x
      BY <2>2
    <3> QED  BY <2>1, <2>2, <3>1
  <2>3. CASE r # <<>>
    <3>1. Tail(r) \in Seq(E) /\ Tail(Append(r, x)) = Append(Tail(r), x) /\ Head(Append(r, x)) = Head(r)
      BY <2>3
    <3>2. Count(Tail(Append(r, x)), P) = Count(Tail(r), P) + (IF x \in P THEN 1 ELSE 0)
      BY <3>1, CountAppend
    <3>3. Count(r, P) = Count(Tail(r), P) + (IF Head(r) \in P THEN 1 ELSE 0)
      BY <1>2, <2>3
    <3>4. Count(r, P) \in Nat /\ Count(Tail(r), P) \in Nat
      BY <3>1, CountNat
    <3>5. Count(Append(r, x), P) = Count(Tail(Append(r, x)), P) + (IF Head(Append(r, x)) \in P THEN 1 ELSE 0)
      <4> DEFINE a == IF x \in P THEN 1 ELSE 0
                 b == IF Head(r) \in P THEN 1 ELSE 0
      <4>1. a \in Nat /\ b \in Nat
        OBVIOUS
      <4>2. /\ Count(Append(r, x), P) = Count(r, P) + a
            /\ Count(r, P) = Count(Tail(r), P) + b
            /\ Count(Tail(Append(r, x)), P) = Count(Tail(r), P) + a
        BY <2>1, <3>2, <3>3
      <4> HIDE DEF a, b
      <4>3. Count(Append(r, x), P) = Count(Tail(Append(r, x)), P) + b
        BY <3>4, <4>1, <4>2
      <4> QED  BY <3>1, <4>3 DEF b
    <3> QED  BY <2>1, <3>5
  <2> QED  BY <2>2, <2>3
<1>3. Seq(E) \subseteq S
  <2> HIDE DEF S
  <2> QED  BY <1>1, <1>2, SequenceInduction
<1> QED  BY <1>3

-----------------------------------------------------------------------------
\* Where the elements of a longer and of a shorter sequence come from.
LEMMA TailElements ==
    ASSUME NEW E, NEW q \in Seq(E), q # <<>>
    PROVE  /\ 1 \in DOMAIN q /\ Head(q) = q[1]
           /\ \A i \in DOMAIN Tail(q) : i + 1 \in DOMAIN q /\ Tail(q)[i] = q[i + 1]
<1>1. /\ Tail(q) \in Seq(E) /\ Len(Tail(q)) = Len(q) - 1 /\ Len(q) \in Nat \ {0}
      /\ \A i \in 1 .. Len(Tail(q)) : Tail(q)[i] = q[i + 1]
  BY HeadTailProperties, EmptySeq
<1>2. DOMAIN Tail(q) = 1 .. Len(Tail(q)) /\ DOMAIN q = 1 .. Len(q)
  BY <1>1, LenProperties
<1>3. Head(q) = q[1]
  OBVIOUS
<1> QED  BY <1>1, <1>2, <1>3

LEMMA AppendElements ==
    ASSUME NEW E, NEW q \in Seq(E), NEW x \in E
    PROVE  /\ \A i \in DOMAIN q : i \in DOMAIN Append(q, x) /\ Append(q, x)[i] = q[i]
           /\ \A i \in DOMAIN Append(q, x) : (i \in DOMAIN q /\ Append(q, x)[i] = q[i]) \/ Append(q, x)[i] = x
           /\ \E i \in DOMAIN Append(q, x) : Append(q, x)[i] = x
<1>1. /\ Append(q, x) \in Seq(E) /\ Len(Append(q, x)) = Len(q) + 1 /\ Len(q) \in Nat
      /\ \A i \in 1 .. Len(q) : Append(q, x)[i] = q[i]
      /\ Append(q, x)[Len(q) + 1] = x
  BY AppendProperties, LenProperties
<1>2. DOMAIN Append(q, x) = 1 .. Len(q) + 1 /\ DOMAIN q = 1 .. Len(q)
  BY <1>1, LenProperties
<1> QED  BY <1>1, <1>2

-----------------------------------------------------------------------------
(* Sequences cut, joined and searched.                                      *)

\* The minimum of a set of naturals is one of them.
LEMMA MinOfSet ==
    ASSUME NEW I \in SUBSET Nat, I # {}
    PROVE  /\ Min(I) \in I
           /\ \A i \in I : Min(I) <= i
<1> DEFINE R == OpToRel(<, Nat)
<1>1. PICK n \in I : \A m \in I : <<m, n>> \notin R
  <2>1. IsWellFoundedOn(R, Nat)
    BY NatLessThanWellFounded
  <2> QED  BY <2>1, WFMin
<1>2. \A m \in I : n <= m
  <2>1. ASSUME NEW m \in Nat, m < n  PROVE <<m, n>> \in R
    BY <2>1 DEF OpToRel
  <2> HIDE DEF R
  <2>2. ASSUME NEW m \in I  PROVE n <= m
    <3>1. m \in Nat /\ n \in Nat
      OBVIOUS
    <3>2. ~(m < n)
      BY <1>1, <2>1, <3>1
    <3> QED  BY <3>1, <3>2
  <2> QED  BY <2>2
<1> QED  BY <1>2 DEF Min

\* A prefix no longer than n.
LEMMA Capped ==
    ASSUME NEW S, NEW q \in Seq(S), NEW n \in Nat
    PROVE  /\ SubSeq(q, 1, Min({Len(q), n})) \in Seq(S)
           /\ Len(SubSeq(q, 1, Min({Len(q), n}))) <= n
<1> DEFINE m == Min({Len(q), n})
<1>1. m \in {Len(q), n} /\ m <= Len(q) /\ m <= n
  <2> DEFINE I == {Len(q), n}
  <2>1. I \in SUBSET Nat /\ I # {} /\ Len(q) \in I /\ n \in I
    OBVIOUS
  <2> HIDE DEF I
  <2>2. Min(I) \in I /\ Min(I) <= Len(q) /\ Min(I) <= n
    BY <2>1, MinOfSet
  <2> QED  BY <2>2 DEF I
<1>2. \A i \in 1 .. m : q[i] \in S
  BY <1>1
<1> HIDE DEF m
<1>3. SubSeq(q, 1, m) \in Seq(S) /\ Len(SubSeq(q, 1, m)) <= n
  BY <1>1, <1>2, SubSeqProperties
<1> QED  BY <1>3 DEF m

\* RemoveFirst keeps a sequence over the same set, and shortens it by at most
\* one element.
LEMMA RemoveFirstType ==
    ASSUME NEW S, NEW q \in Seq(S), NEW e
    PROVE  /\ RemoveFirst(q, e) \in Seq(S)
           /\ Len(RemoveFirst(q, e)) >= Len(q) - 1
<1> DEFINE I == {i \in 1 .. Len(q) : q[i] = e}
<1>1. CASE ~\E i \in 1 .. Len(q) : q[i] = e
  BY <1>1 DEF RemoveFirst
<1>2. CASE \E i \in 1 .. Len(q) : q[i] = e
  <2>1. I # {} /\ I \in SUBSET Nat
    BY <1>2
  <2>2. Min(I) \in 1 .. Len(q)
    <3> HIDE DEF I
    <3>1. Min(I) \in I
      BY <2>1, MinOfSet
    <3> QED  BY <3>1 DEF I
  <2>3. SelectInSeq(q, LAMBDA v : v = e) = Min(I)
    BY <2>1 DEF SelectInSeq
  <2> DEFINE k == Min(I)
  <2>4. RemoveFirst(q, e) = SubSeq(q, 1, k - 1) \o SubSeq(q, k + 1, Len(q))
    BY <1>2, <2>3 DEF RemoveFirst, RemoveAt
  <2>5. k \in 1 .. Len(q)
    BY <2>2
  <2> HIDE DEF k
  <2>6. /\ SubSeq(q, 1, k - 1) \in Seq(S)
        /\ Len(SubSeq(q, 1, k - 1)) = k - 1
    BY <2>5, SubSeqProperties
  <2>7. /\ SubSeq(q, k + 1, Len(q)) \in Seq(S)
        /\ Len(SubSeq(q, k + 1, Len(q))) = Len(q) - k
    BY <2>5, SubSeqProperties
  <2> DEFINE a == SubSeq(q, 1, k - 1)
             b == SubSeq(q, k + 1, Len(q))
  <2>8. a \in Seq(S) /\ b \in Seq(S) /\ Len(a) = k - 1 /\ Len(b) = Len(q) - k
    BY <2>6, <2>7
  <2> HIDE DEF a, b
  <2>9. a \o b \in Seq(S) /\ Len(a \o b) = Len(a) + Len(b)
    BY <2>8, ConcatProperties
  <2>10. RemoveFirst(q, e) = a \o b
    BY <2>4 DEF a, b
  <2> QED  BY <2>5, <2>8, <2>9, <2>10
<1> QED  BY <1>1, <1>2

LEMMA RemoveFirstRoot ==
    ASSUME NEW S, NEW q \in Seq(S), q # <<>>, NEW e, q[1] # e
    PROVE  RemoveFirst(q, e) # <<>> /\ RemoveFirst(q, e)[1] = q[1]
<1> DEFINE I == {i \in 1 .. Len(q) : q[i] = e}
<1>1. CASE ~\E i \in 1 .. Len(q) : q[i] = e
  BY <1>1 DEF RemoveFirst
<1>2. CASE \E i \in 1 .. Len(q) : q[i] = e
  <2>1. I # {} /\ I \in SUBSET Nat
    BY <1>2
  <2>2. Min(I) \in 2 .. Len(q)
    <3> HIDE DEF I
    <3>1. Min(I) \in I
      BY <2>1, MinOfSet
    <3> QED  BY <3>1 DEF I
  <2>3. SelectInSeq(q, LAMBDA v : v = e) = Min(I)
    BY <2>1 DEF SelectInSeq
  <2> DEFINE k == Min(I)
             a == SubSeq(q, 1, k - 1)
             b == SubSeq(q, k + 1, Len(q))
  <2>4. RemoveFirst(q, e) = a \o b
    BY <1>2, <2>3 DEF RemoveFirst, RemoveAt
  <2>5. k \in 2 .. Len(q)
    BY <2>2
  <2> HIDE DEF k
  <2>6. a \in Seq(S) /\ Len(a) = k - 1 /\ a[1] = q[1]
    BY <2>5, SubSeqProperties
  <2>7. b \in Seq(S)
    BY <2>5, SubSeqProperties
  <2> HIDE DEF a, b
  <2>8. a \o b \in Seq(S) /\ Len(a \o b) = Len(a) + Len(b) /\ (a \o b)[1] = a[1]
    <3>1. 1 <= Len(a) /\ 1 \in 1 .. Len(a) + Len(b)
      BY <2>5, <2>6, <2>7
    <3>2. a \o b \in Seq(S) /\ Len(a \o b) = Len(a) + Len(b)
      BY <2>6, <2>7, ConcatProperties
    <3>3. \A i \in 1 .. Len(a) + Len(b) : (a \o b)[i] = IF i <= Len(a) THEN a[i] ELSE b[i - Len(a)]
      BY <2>6, <2>7, ConcatProperties
    <3> QED  BY <3>1, <3>2, <3>3
  <2> QED  BY <2>4, <2>5, <2>6, <2>7, <2>8
<1> QED  BY <1>1, <1>2

\* What is left of a list without one of its elements.
LEMMA RemoveAtSet ==
    ASSUME NEW S, NEW q \in Seq(S), NEW k \in 1 .. Len(q)
    PROVE  /\ RemoveAt(q, k) \in Seq(S) /\ Len(RemoveAt(q, k)) = Len(q) - 1
           /\ ToSet(RemoveAt(q, k)) \subseteq ToSet(q)
           /\ ToSet(q) \subseteq ToSet(RemoveAt(q, k)) \cup {q[k]}
<1> DEFINE a == SubSeq(q, 1, k - 1)
           b == SubSeq(q, k + 1, Len(q))
           n == Len(q)
           z == RemoveAt(q, k)
<1>1. n \in Nat /\ k \in 1 .. n /\ DOMAIN q = 1 .. n
  BY LenProperties
<1>2. a \in Seq(S) /\ Len(a) = k - 1 /\ \A i \in 1 .. k - 1 : a[i] = q[i]
  BY <1>1, SubSeqProperties
<1>3. b \in Seq(S) /\ Len(b) = n - k /\ \A i \in 1 .. n - k : b[i] = q[k + i]
  <2>1. \A i \in k + 1 .. Len(q) : q[i] \in S
    BY <1>1
  <2>0. k + 1 \in Int /\ n \in Int /\ k \in Int /\ k <= n
    BY <1>1
  <2> DEFINE m == k + 1
             u == SubSeq(q, m, n)
  <2> HIDE DEF m, n
  <2>a. /\ u \in Seq(S)
        /\ Len(u) = IF m <= n THEN n - m + 1 ELSE 0
        /\ \A i \in 1 .. n - m + 1 : u[i] = q[m + i - 1]
    <3>1. m \in Int /\ n \in Int /\ \A i \in m .. n : q[i] \in S
      BY <2>0, <2>1 DEF m, n
    <3> QED  BY <3>1, SubSeqProperties
  <2>b. b = u
    BY DEF m, n
  <2> HIDE DEF u
  <2>2. Len(b) = n - k
    BY <2>0, <2>a, <2>b DEF m
  <2>3. ASSUME NEW i \in 1 .. n - k  PROVE b[i] = q[k + i]
    <3>1. i \in 1 .. n - m + 1 /\ m + i - 1 = k + i
      BY <2>0 DEF m
    <3> QED  BY <2>a, <2>b, <3>1
  <2>4. b \in Seq(S)
    BY <2>a, <2>b
  <2> QED  BY <2>2, <2>3, <2>4
<1>4. z = a \o b
  BY DEF RemoveAt
<1> HIDE DEF a, b, z, n
<1>5. /\ z \in Seq(S) /\ DOMAIN z = 1 .. Len(z) /\ Len(z) = (k - 1) + (n - k)
      /\ \A i \in 1 .. Len(z) : z[i] = IF i <= k - 1 THEN a[i] ELSE b[i - (k - 1)]
  <2>1. /\ z \in Seq(S) /\ Len(z) = Len(a) + Len(b)
        /\ \A i \in 1 .. Len(a) + Len(b) : z[i] = IF i <= Len(a) THEN a[i] ELSE b[i - Len(a)]
    BY <1>2, <1>3, <1>4, ConcatProperties
  <2>2. DOMAIN z = 1 .. Len(z)
    BY <2>1, LenProperties
  <2> QED  BY <1>2, <1>3, <2>1, <2>2
<1>6. Len(z) = n - 1
  BY <1>1, <1>5
<1>7. ASSUME NEW i \in 1 .. n - 1
      PROVE  i \in 1 .. n /\ i + 1 \in 1 .. n /\ z[i] = IF i < k THEN q[i] ELSE q[i + 1]
  <2>1. CASE i < k
    BY <1>1, <1>2, <1>5, <1>6, <2>1
  <2>2. CASE ~ (i < k)
    <3>1. /\ i - (k - 1) \in 1 .. n - k /\ k + (i - (k - 1)) = i + 1 /\ ~ (i <= k - 1)
          /\ i \in 1 .. n /\ i + 1 \in 1 .. n
      BY <1>1, <2>2
    <3>2. z[i] = b[i - (k - 1)]
      BY <1>5, <1>6, <3>1
    <3>3. z[i] = q[i + 1]
      BY <1>3, <3>1, <3>2
    <3> QED  BY <2>2, <3>1, <3>3
  <2> QED  BY <2>1, <2>2
<1>8. ToSet(z) \subseteq ToSet(q)
  <2>1. \A i \in 1 .. n - 1 : \E j \in 1 .. n : z[i] = q[j]
    BY <1>7
  <2>2. DOMAIN z = 1 .. n - 1 /\ DOMAIN q = 1 .. n
    BY <1>1, <1>5, <1>6
  <2> QED  BY <2>1, <2>2 DEF ToSet
<1>9. ToSet(q) \subseteq ToSet(z) \cup {q[k]}
  <2>0. DOMAIN z = 1 .. n - 1 /\ DOMAIN q = 1 .. n
    BY <1>1, <1>5, <1>6
  <2> SUFFICES ASSUME NEW j \in 1 .. n, j # k
               PROVE  \E i \in 1 .. n - 1 : z[i] = q[j]
    BY <2>0 DEF ToSet
  <2>1. CASE j < k
    <3>1. j \in 1 .. n - 1 /\ z[j] = q[j]
      BY <1>1, <1>7, <2>1
    <3> QED  BY <3>1
  <2>2. CASE ~ (j < k)
    <3>1. j - 1 \in 1 .. n - 1 /\ ~ (j - 1 < k) /\ (j - 1) + 1 = j
      BY <1>1, <2>2
    <3>2. z[j - 1] = q[j]
      BY <1>7, <3>1
    <3> QED  BY <3>1, <3>2
  <2> QED  BY <2>1, <2>2
<1> QED  BY <1>5, <1>6, <1>8, <1>9 DEF z, n

NoDup(q) == \A i, j \in DOMAIN q : q[i] = q[j] => i = j

LEMMA TailSet ==
    ASSUME NEW S, NEW q \in Seq(S), q # <<>>
    PROVE  ToSet(q) = {Head(q)} \cup ToSet(Tail(q)) /\ Len(Tail(q)) = Len(q) - 1
<1>1. /\ Len(q) \in Nat \ {0} /\ Head(q) = q[1] /\ Len(Tail(q)) = Len(q) - 1
      /\ \A i \in 1 .. Len(q) - 1 : Tail(q)[i] = q[i + 1]
  BY HeadTailProperties
<1>2. DOMAIN q = 1 .. Len(q) /\ DOMAIN Tail(q) = 1 .. Len(q) - 1
  BY <1>1
<1>3. \A i \in 1 .. Len(q) : i = 1 \/ (i - 1 \in 1 .. Len(q) - 1 /\ i = (i - 1) + 1)
  BY <1>1
<1>4. ToSet(q) \subseteq {Head(q)} \cup ToSet(Tail(q))
  <2> SUFFICES ASSUME NEW i \in 1 .. Len(q), q[i] # Head(q)
               PROVE  q[i] \in ToSet(Tail(q))
    BY <1>2 DEF ToSet
  <2>1. i - 1 \in 1 .. Len(q) - 1 /\ q[i] = Tail(q)[i - 1]
    BY <1>1, <1>3
  <2> QED  BY <1>2, <2>1 DEF ToSet
<1>5. \A i \in 1 .. Len(q) - 1 : i + 1 \in 1 .. Len(q)
  BY <1>1
<1>6. 1 \in 1 .. Len(q)
  BY <1>1
<1> QED  BY <1>1, <1>2, <1>4, <1>5, <1>6 DEF ToSet

LEMMA AppendSet ==
    ASSUME NEW S, NEW q \in Seq(S), NEW e \in S
    PROVE  ToSet(Append(q, e)) = ToSet(q) \cup {e}
<1>1. /\ DOMAIN q = 1 .. Len(q) /\ DOMAIN Append(q, e) = 1 .. Len(q) + 1 /\ Len(q) \in Nat
      /\ \A i \in 1 .. Len(q) : Append(q, e)[i] = q[i]
      /\ Append(q, e)[Len(q) + 1] = e
  BY AppendProperties
<1>2. \A i \in 1 .. Len(q) + 1 : i \in 1 .. Len(q) \/ i = Len(q) + 1
  BY <1>1
<1>3. \A i \in 1 .. Len(q) : i \in 1 .. Len(q) + 1
  BY <1>1
<1>4. Len(q) + 1 \in 1 .. Len(q) + 1
  BY <1>1
<1> QED  BY <1>1, <1>2, <1>3, <1>4 DEF ToSet

LEMMA ConcatSet ==
    ASSUME NEW S, NEW q \in Seq(S), NEW r \in Seq(S)
    PROVE  ToSet(q \o r) = ToSet(q) \cup ToSet(r)
<1> DEFINE z == q \o r
           m == Len(q)
           n == Len(r)
<1>1. /\ DOMAIN q = 1 .. m /\ DOMAIN r = 1 .. n /\ DOMAIN z = 1 .. m + n /\ m \in Nat /\ n \in Nat
      /\ \A i \in 1 .. m + n : z[i] = IF i <= m THEN q[i] ELSE r[i - m]
  BY ConcatProperties
<1> HIDE DEF z, m, n
<1>2. \A i \in 1 .. m + n : (i \in 1 .. m /\ i <= m) \/ (i - m \in 1 .. n /\ ~(i <= m))
  BY <1>1
<1>3. \A i \in 1 .. m : i \in 1 .. m + n /\ i <= m
  BY <1>1
<1>4. \A i \in 1 .. n : i + m \in 1 .. m + n /\ ~(i + m <= m) /\ (i + m) - m = i
  BY <1>1
<1>5. ToSet(z) \subseteq ToSet(q) \cup ToSet(r)
  BY <1>1, <1>2 DEF ToSet
<1>6. ToSet(q) \subseteq ToSet(z)
  BY <1>1, <1>3 DEF ToSet
<1>7. ASSUME NEW i \in 1 .. n
      PROVE  r[i] \in ToSet(z)
  <2>1. z[i + m] = r[i] /\ i + m \in DOMAIN z
    BY <1>1, <1>4
  <2> QED  BY <2>1 DEF ToSet
<1>8. ToSet(r) \subseteq ToSet(z)
  BY <1>1, <1>7 DEF ToSet
<1> QED  BY <1>5, <1>6, <1>8 DEF z

\* Removing the first occurrence from a list without duplicates removes all.
LEMMA RemoveFirstSet ==
    ASSUME NEW S, NEW q \in Seq(S), NoDup(q), NEW e
    PROVE  ToSet(RemoveFirst(q, e)) = ToSet(q) \ {e} /\ NoDup(RemoveFirst(q, e))
<1> DEFINE I == {i \in 1 .. Len(q) : q[i] = e}
<1>1. CASE ~\E i \in 1 .. Len(q) : q[i] = e
  BY <1>1 DEF RemoveFirst, ToSet
<1>2. CASE \E i \in 1 .. Len(q) : q[i] = e
  <2>1. I # {} /\ I \in SUBSET Nat
    BY <1>2
  <2>2. SelectInSeq(q, LAMBDA v : v = e) = Min(I)
    BY <2>1 DEF SelectInSeq
  <2>3. Min(I) \in I
    <3> HIDE DEF I
    <3> QED  BY <2>1, MinOfSet
  <2> DEFINE k == Min(I)
             a == SubSeq(q, 1, k - 1)
             b == SubSeq(q, k + 1, Len(q))
             n == Len(q)
             z == a \o b
  <2>4. RemoveFirst(q, e) = z
    BY <1>2, <2>2 DEF RemoveFirst, RemoveAt
  <2>5. k \in 1 .. n /\ q[k] = e /\ n \in Nat
    BY <2>3
  <2> HIDE DEF I, k
  <2>6. /\ a \in Seq(S) /\ Len(a) = k - 1
        /\ \A i \in 1 .. k - 1 : a[i] = q[i]
    BY <2>5, SubSeqProperties
  <2>7. /\ b \in Seq(S) /\ Len(b) = n - k
        /\ \A i \in 1 .. n - k : b[i] = q[k + i]
    <3>1. \A i \in k + 1 .. Len(q) : q[i] \in S
      BY <2>5
    <3>2. Len(b) = n - k
      BY <2>5, SubSeqProperties
    <3>3. ASSUME NEW i \in 1 .. n - k  PROVE b[i] = q[k + i]
      <4>1. b[i] = q[(k + 1) + i - 1]
        BY <2>5, <3>1, SubSeqProperties
      <4> QED  BY <2>5, <4>1
    <3> QED  BY <2>5, <3>1, <3>2, <3>3, SubSeqProperties
  <2>8. /\ z \in Seq(S) /\ Len(z) = (k - 1) + (n - k)
        /\ \A i \in 1 .. (k - 1) + (n - k) : z[i] = IF i <= k - 1 THEN a[i] ELSE b[i - (k - 1)]
    <3>1. a \in Seq(S) /\ b \in Seq(S) /\ Len(a) = k - 1 /\ Len(b) = n - k
      BY <2>6, <2>7
    <3> HIDE DEF a, b, n
    <3>2. /\ z \in Seq(S) /\ Len(z) = Len(a) + Len(b)
          /\ \A i \in 1 .. Len(a) + Len(b) : z[i] = IF i <= Len(a) THEN a[i] ELSE b[i - Len(a)]
      BY <3>1, ConcatProperties
    <3> QED  BY <3>1, <3>2
  <2> DEFINE at(i) == IF i < k THEN i ELSE i + 1
  <2>9. DOMAIN z = 1 .. n - 1 /\ DOMAIN q = 1 .. n
    <3>1. DOMAIN z = 1 .. Len(z) /\ (k - 1) + (n - k) = n - 1
      BY <2>5, <2>8
    <3> QED  BY <2>8, <3>1
  <2>10. ASSUME NEW i \in 1 .. n - 1
         PROVE  at(i) \in 1 .. n /\ at(i) # k /\ z[i] = q[at(i)]
    <3>1. i \in 1 .. (k - 1) + (n - k)
      BY <2>5
    <3>2. CASE i < k
      <4>1. i <= k - 1 /\ i \in 1 .. k - 1 /\ i \in 1 .. n /\ i # k
        BY <2>5, <3>2
      <4> QED  BY <2>6, <2>8, <3>1, <3>2, <4>1
    <3>3. CASE ~(i < k)
      <4>1. /\ ~(i <= k - 1) /\ i - (k - 1) \in 1 .. n - k /\ k + (i - (k - 1)) = i + 1
            /\ i + 1 \in 1 .. n /\ i + 1 # k
        BY <2>5, <3>3
      <4> QED  BY <2>7, <2>8, <3>1, <3>3, <4>1
    <3> QED  BY <3>2, <3>3
  <2>11. ASSUME NEW j \in 1 .. n, j # k
         PROVE  \E i \in 1 .. n - 1 : at(i) = j
    <3>1. CASE j < k
      <4>1. j \in 1 .. n - 1
        BY <2>5, <3>1
      <4> QED  BY <3>1, <4>1
    <3>2. CASE ~(j < k)
      <4>1. j - 1 \in 1 .. n - 1 /\ ~(j - 1 < k) /\ (j - 1) + 1 = j
        BY <2>5, <2>11, <3>2
      <4> QED  BY <4>1
    <3> QED  BY <3>1, <3>2
  <2>12. \A i, j \in 1 .. n - 1 : at(i) = at(j) => i = j
    BY <2>5
  <2> HIDE DEF at, z, n
  <2>13. ToSet(z) \subseteq ToSet(q) \ {e}
    <3> SUFFICES ASSUME NEW i \in 1 .. n - 1
                 PROVE  z[i] \in ToSet(q) /\ z[i] # e
      BY <2>9 DEF ToSet
    <3> QED  BY <2>5, <2>9, <2>10 DEF ToSet, NoDup
  <2>14. ToSet(q) \ {e} \subseteq ToSet(z)
    <3> SUFFICES ASSUME NEW j \in 1 .. n, q[j] # e
                 PROVE  q[j] \in ToSet(z)
      BY <2>9 DEF ToSet
    <3>1. PICK i \in 1 .. n - 1 : at(i) = j
      BY <2>5, <2>11
    <3> QED  BY <2>9, <2>10, <3>1 DEF ToSet
  <2>15. NoDup(z)
    BY <2>9, <2>10, <2>12 DEF NoDup
  <2> QED  BY <2>4, <2>13, <2>14, <2>15
<1> QED  BY <1>1, <1>2

LEMMA CappedIs ==
    ASSUME NEW S, NEW q \in Seq(S), NEW n \in Nat
    PROVE  LET m == SubSeq(q, 1, Min({Len(q), n}))
           IN  /\ ToSet(m) \subseteq ToSet(q) /\ Len(m) <= Len(q)
               /\ Len(q) <= n => m = q
<1> DEFINE k == Min({Len(q), n})
           m == SubSeq(q, 1, k)
<1>1. k \in {Len(q), n} /\ k <= Len(q) /\ k <= n
  <2> DEFINE I == {Len(q), n}
  <2>1. I \in SUBSET Nat /\ I # {} /\ Len(q) \in I /\ n \in I
    OBVIOUS
  <2> HIDE DEF I
  <2>2. Min(I) \in I /\ Min(I) <= Len(q) /\ Min(I) <= n
    BY <2>1, MinOfSet
  <2> QED  BY <2>2 DEF I
<1> HIDE DEF k
<1>2. k \in Nat /\ k <= Len(q) /\ Len(q) \in Nat
  BY <1>1
<1>3. Len(m) = k /\ m \in Seq(S) /\ \A i \in 1 .. k : m[i] = q[i]
  BY <1>2, SubSeqProperties
<1>4. ToSet(m) \subseteq ToSet(q)
  <2> HIDE DEF m
  <2>1. DOMAIN m = 1 .. k /\ \A i \in 1 .. k : i \in DOMAIN q
    BY <1>2, <1>3
  <2> QED  BY <1>3, <2>1 DEF ToSet
<1>5. Len(q) <= n => m = q
  <2> SUFFICES ASSUME Len(q) <= n  PROVE m = q
    OBVIOUS
  <2>1. k = Len(q)
    BY <1>1
  <2> QED  BY <2>1
<1> QED  BY <1>2, <1>3, <1>4, <1>5 DEF k, m

\* The sequences of a finite set's elements.
LEMMA SetToSeqsElements ==
    ASSUME NEW S, IsFiniteSet(S), NEW q \in SetToSeqs(S)
    PROVE  q \in Seq(S) /\ ToSet(q) = S
<1> DEFINE n == Cardinality(S)
           D == 1 .. n
<1>1. n \in Nat
  BY FS_CardinalityType
<1>2. q \in [D -> S] /\ \A i, j \in D : i # j => q[i] # q[j]
  BY DEF SetToSeqs
<1>3. IsFiniteSet(D) /\ Cardinality(D) = n
  <2>1. IsFiniteSet(1 .. n) /\ Cardinality(1 .. n) = IF 1 > n THEN 0 ELSE n - 1 + 1
    BY <1>1, FS_Interval
  <2> HIDE DEF n
  <2>2. (IF 1 > n THEN 0 ELSE n - 1 + 1) = n
    BY <1>1
  <2> QED  BY <2>1, <2>2
<1>4. Cardinality(D) = Cardinality(S)
  BY <1>3
<1>5. q \in Seq(S)
  <2> HIDE DEF n
  <2> QED  BY <1>1, <1>2
<1> HIDE DEF n, D
<1>6. q \in Injection(D, S)
  BY <1>2 DEF Injection, IsInjective
<1>7. q \in Surjection(D, S)
  BY <1>4, <1>6, FS_Injection
<1>8. \A x \in S : \E i \in D : q[i] = x
  BY <1>7 DEF Surjection
<1> QED  BY <1>2, <1>5, <1>8 DEF ToSet

\* Joined, sequences are put behind one another.
LEMMA FlattenSteps ==
    ASSUME NEW E, NEW q \in Seq(Seq(E)), q # << >>
    PROVE  \E f \in [1 .. Len(q) -> Seq(E)] :
             /\ f[1] = q[1] /\ f[Len(q)] = FlattenSeq(q)
             /\ \A i \in 2 .. Len(q) : f[i] = f[i - 1] \o q[i]
<1> DEFINE N == Len(q)
           Flat(f) == f = [i \in 1 .. N |-> IF i = 1 THEN q[i] ELSE f[i - 1] \o q[i]]
<1>1. N \in Nat \ {0} /\ DOMAIN q = 1 .. N /\ \A i \in 1 .. N : q[i] \in Seq(E)
  BY EmptySeq
<1> DEFINE step == [a \in (1 .. N) \X Seq(E) |-> a[2] \o q[a[1]]]
<1>2. step \in [(1 .. N) \X Seq(E) -> Seq(E)]
  <2>1. \A a \in (1 .. N) \X Seq(E) : a[2] \o q[a[1]] \in Seq(E)
    BY <1>1, ConcatProperties
  <2> QED  BY <2>1
<1>3. \A n \in 1 .. N, x \in Seq(E) : step[<<n, x>>] = x \o q[n]
  OBVIOUS
<1>0. << >> \in Seq(E)
  OBVIOUS
<1> HIDE DEF step, N
<1>4. PICK f \in [0 .. N -> Seq(E)] : Iterates(f, << >>, step, N)
  BY <1>0, <1>1, <1>2, Recursion
<1> DEFINE g == [i \in 1 .. N |-> f[i]]
<1>5. ASSUME NEW i \in 1 .. N
      PROVE  /\ i = 1 => f[i] = q[i]
             /\ i # 1 => i - 1 \in 1 .. N /\ f[i] = g[i - 1] \o q[i]
  <2>1. i - 1 \in 0 .. N /\ f[i - 1] \in Seq(E)
    BY <1>1
  <2>2. f[i] = f[i - 1] \o q[i]
    <3>1. f[i] = step[<<i, f[i - 1]>>]
      BY <1>4 DEF Iterates
    <3> QED  BY <1>3, <2>1, <3>1
  <2>3. CASE i = 1
    <3>1. f[0] = << >> /\ q[i] \in Seq(E) /\ i - 1 = 0
      BY <1>1, <1>4, <2>3 DEF Iterates
    <3>2. << >> \o q[i] = q[i]
      BY <3>1
    <3> QED  BY <2>2, <2>3, <3>1, <3>2
  <2>4. CASE i # 1
    <3>1. i - 1 \in 1 .. N
      BY <1>1, <2>4
    <3> QED  BY <2>2, <2>4, <3>1
  <2> QED  BY <2>3, <2>4
<1>6. Flat(g)
  <2>1. g = [i \in 1 .. N |-> IF i = 1 THEN q[i] ELSE g[i - 1] \o q[i]]
    BY <1>5
  <2> QED  BY <2>1
<1> DEFINE h == CHOOSE h : Flat(h)
<1>7. Flat(h)
  <2> HIDE DEF Flat, g
  <2> QED  BY <1>6
<1>8. FlattenSeq(q) = h[N]
  BY <1>1 DEF FlattenSeq, N
<1> HIDE DEF h
<1>9. \A i \in 1 .. N : h[i] = IF i = 1 THEN q[i] ELSE h[i - 1] \o q[i]
  BY <1>7
<1>10. DOMAIN h = 1 .. N
  BY <1>7
<1> DEFINE S == {n \in Nat : n + 1 <= N => h[n + 1] \in Seq(E)}
<1> HIDE DEF Flat
<1>11. 0 \in S
  BY <1>1, <1>9
<1>12. ASSUME NEW n \in Nat, n \in S
       PROVE  n + 1 \in S
  <2> SUFFICES ASSUME n + 2 <= N
               PROVE  h[n + 2] \in Seq(E)
    OBVIOUS
  <2>1. n + 2 \in 1 .. N /\ n + 2 # 1 /\ (n + 2) - 1 = n + 1 /\ h[n + 1] \in Seq(E)
    BY <1>1, <1>12
  <2>2. h[n + 2] = h[n + 1] \o q[n + 2]
    BY <1>9, <2>1
  <2> QED  BY <1>1, <2>1, <2>2, ConcatProperties
<1>13. Nat \subseteq S
  <2> HIDE DEF S
  <2> QED  BY <1>11, <1>12, Induction
<1>14. ASSUME NEW i \in 1 .. N
       PROVE  h[i] \in Seq(E)
  <2>1. i - 1 \in Nat /\ (i - 1) + 1 = i /\ i <= N
    BY <1>1
  <2> QED  BY <1>13, <2>1
<1>15. h \in [1 .. N -> Seq(E)]
  <2>0. h = [i \in 1 .. N |-> h[i]]
    BY <1>7 DEF Flat
  <2> QED  BY <1>14, <2>0
<1>16. h[1] = q[1] /\ \A i \in 2 .. N : h[i] = h[i - 1] \o q[i]
  <2> HIDE DEF g, S
  <2>1. 1 \in 1 .. N /\ \A i \in 2 .. N : i \in 1 .. N /\ i # 1
    BY <1>1
  <2> QED  BY <1>9, <2>1
<1> QED  BY <1>8, <1>15, <1>16 DEF N

LEMMA FlattenAppend ==
    ASSUME NEW E, NEW q \in Seq(Seq(E)), NEW s \in Seq(E)
    PROVE  FlattenSeq(Append(q, s)) = FlattenSeq(q) \o s /\ FlattenSeq(q) \in Seq(E)
<1> DEFINE N == Len(q)
           r == Append(q, s)
<1>1. /\ N \in Nat /\ r \in Seq(Seq(E)) /\ r # << >> /\ Len(r) = N + 1 /\ r[N + 1] = s
      /\ \A i \in 1 .. N : r[i] = q[i] /\ q[i] \in Seq(E)
  BY AppendProperties
<1>2. PICK g \in [1 .. Len(r) -> Seq(E)] :
        /\ g[1] = r[1] /\ g[Len(r)] = FlattenSeq(r)
        /\ \A i \in 2 .. Len(r) : g[i] = g[i - 1] \o r[i]
  <2>1. r \in Seq(Seq(E)) /\ r # << >>
    BY <1>1
  <2> HIDE DEF r
  <2> QED  BY <2>1, FlattenSteps, Zenon
<1>3. CASE q = << >>
  <2>1. N = 0 /\ FlattenSeq(q) = << >>
    BY <1>3 DEF FlattenSeq
  <2>2. FlattenSeq(r) = s
    <3> HIDE DEF r
    <3> QED  BY <1>1, <1>2, <2>1
  <2> QED  BY <2>1, <2>2
<1>4. CASE q # << >>
  <2>1. PICK f \in [1 .. N -> Seq(E)] :
          /\ f[1] = q[1] /\ f[N] = FlattenSeq(q)
          /\ \A i \in 2 .. N : f[i] = f[i - 1] \o q[i]
    BY <1>4, FlattenSteps
  <2>2. N \in Nat \ {0}
    BY <1>1, <1>4, EmptySeq
  <2> HIDE DEF N, r
  <2> DEFINE S == {n \in Nat : n + 1 <= N => g[n + 1] = f[n + 1]}
  <2>3. 0 \in S
    BY <1>1, <1>2, <2>1, <2>2
  <2>4. ASSUME NEW n \in Nat, n \in S
        PROVE  n + 1 \in S
    <3> SUFFICES ASSUME n + 2 <= N
                 PROVE  g[n + 2] = f[n + 2]
      OBVIOUS
    <3>1. /\ n + 2 \in 2 .. N /\ n + 2 \in 2 .. Len(r) /\ n + 2 \in 1 .. N /\ (n + 2) - 1 = n + 1
          /\ g[n + 1] = f[n + 1]
      BY <1>1, <2>2, <2>4
    <3>2. g[n + 2] = g[n + 1] \o r[n + 2] /\ f[n + 2] = f[n + 1] \o q[n + 2] /\ r[n + 2] = q[n + 2]
      BY <1>1, <1>2, <2>1, <3>1
    <3> QED  BY <3>1, <3>2
  <2>5. Nat \subseteq S
    <3> HIDE DEF S
    <3> QED  BY <2>3, <2>4, Induction
  <2>6. g[N] = f[N]
    <3>1. N - 1 \in Nat /\ (N - 1) + 1 = N
      BY <2>2
    <3> QED  BY <2>5, <3>1
  <2>7. N + 1 \in 2 .. Len(r) /\ (N + 1) - 1 = N
    BY <1>1, <2>2
  <2>8. g[N + 1] = g[N] \o s
    BY <1>1, <1>2, <2>7
  <2>9. FlattenSeq(r) = FlattenSeq(q) \o s
    BY <1>1, <1>2, <2>1, <2>6, <2>8
  <2>10. FlattenSeq(q) \in Seq(E)
    BY <2>1, <2>2
  <2> QED  BY <2>9, <2>10 DEF r
<1> QED  BY <1>3, <1>4

\* Joined, sequences have the elements of all of them.
LEMMA FlattenElements ==
    ASSUME NEW E, NEW q \in Seq(Seq(E))
    PROVE  /\ FlattenSeq(q) \in Seq(E)
           /\ \A x : x \in ToSet(FlattenSeq(q)) <=> \E i \in DOMAIN q : x \in ToSet(q[i])
<1> DEFINE S == {p \in Seq(Seq(E)) :
                  \A x : x \in ToSet(FlattenSeq(p)) <=> \E i \in DOMAIN p : x \in ToSet(p[i])}
<1>1. << >> \in S
  <2>1. << >> \in Seq(Seq(E)) /\ FlattenSeq(<< >>) = << >> /\ DOMAIN << >> = {}
    BY DEF FlattenSeq
  <2> QED  BY <2>1 DEF ToSet
<1>2. ASSUME NEW p \in Seq(Seq(E)), NEW s \in Seq(E), p \in S
      PROVE  Append(p, s) \in S
  <2>1. FlattenSeq(Append(p, s)) = FlattenSeq(p) \o s /\ FlattenSeq(p) \in Seq(E)
    BY FlattenAppend
  <2>2. ToSet(FlattenSeq(Append(p, s))) = ToSet(FlattenSeq(p)) \cup ToSet(s)
    BY <2>1, ConcatSet
  <2>3. /\ Append(p, s) \in Seq(Seq(E)) /\ DOMAIN p = 1 .. Len(p) /\ Len(p) \in Nat
        /\ DOMAIN Append(p, s) = 1 .. Len(p) + 1 /\ Append(p, s)[Len(p) + 1] = s
        /\ \A i \in 1 .. Len(p) : Append(p, s)[i] = p[i]
    BY AppendProperties
  <2>4. \A i \in 1 .. Len(p) + 1 : i \in 1 .. Len(p) \/ i = Len(p) + 1
    BY <2>3
  <2>5. Len(p) + 1 \in 1 .. Len(p) + 1 /\ \A i \in 1 .. Len(p) : i \in 1 .. Len(p) + 1
    BY <2>3
  <2> QED  BY <1>2, <2>2, <2>3, <2>4, <2>5
<1>3. Seq(Seq(E)) \subseteq S
  <2> HIDE DEF S
  <2> QED  BY <1>1, <1>2, SequenceInduction
<1>4. FlattenSeq(q) \in Seq(E)
  <2>1. << >> \in Seq(E)
    OBVIOUS
  <2> QED  BY <2>1, FlattenAppend
<1> QED  BY <1>3, <1>4

\* The elements of a finite set of positive numbers are counted from the least on.
LEMMA Rank ==
    ASSUME NEW F, NEW m \in Nat, F \subseteq 1 .. m, NEW i \in Nat \ {0}, i <= Cardinality(F)
    PROVE  \E x \in F : Cardinality({y \in F : y <= x}) = i
<1> DEFINE Below(k) == {y \in F : y <= k}
           c(k) == Cardinality(Below(k))
<1>0. \A x \in F : x \in Nat /\ 0 < x /\ x <= m
  OBVIOUS
<1>1. IsFiniteSet(F)
  <2>1. IsFiniteSet(1 .. m)
    BY FS_Interval
  <2> QED  BY <2>1, FS_Subset
<1>2. \A k \in Nat : IsFiniteSet(Below(k)) /\ c(k) \in Nat
  <2> TAKE k \in Nat
  <2>1. IsFiniteSet(Below(k))
    BY <1>1, FS_Subset
  <2> QED  BY <2>1, FS_CardinalityType
<1>3. c(0) = 0
  <2>1. Below(0) = {}
    <3>1. \A x \in F : ~ (x <= 0)
      BY <1>0
    <3> QED  BY <3>1
  <2> QED  BY <2>1, FS_EmptySet
<1>4. ASSUME NEW k \in Nat
      PROVE  c(k + 1) = IF k + 1 \in F THEN c(k) + 1 ELSE c(k)
  <2>1. Below(k + 1) = IF k + 1 \in F THEN Below(k) \cup {k + 1} ELSE Below(k)
    <3>1. \A x \in F : x <= k + 1 <=> (x <= k \/ x = k + 1)
      BY <1>0
    <3> QED  BY <3>1
  <2>2. k + 1 \notin Below(k)
    OBVIOUS
  <2>3. IsFiniteSet(Below(k))
    BY <1>2
  <2>4. Cardinality(Below(k) \cup {k + 1}) = c(k) + 1
    <3> DEFINE B == Below(k)
    <3>1. IsFiniteSet(B) /\ k + 1 \notin B
      BY <2>2, <2>3
    <3> HIDE DEF B
    <3>2. Cardinality(B \cup {k + 1}) = Cardinality(B) + 1
      BY <3>1, FS_AddElement
    <3> QED  BY <3>2 DEF B
  <2> HIDE DEF Below
  <2> QED  BY <2>1, <2>4
<1> DEFINE T == {k \in Nat : c(k) >= i}
<1>5. m \in T
  <2>1. Below(m) = F
    BY <1>0
  <2> HIDE DEF Below
  <2>2. c(m) = Cardinality(F) /\ c(m) \in Nat
    BY <1>2, <2>1
  <2> QED  BY <2>2
<1> HIDE DEF c
<1>6. PICK k \in T : \A j \in T : ~ (j < k)
  <2>1. T \subseteq Nat /\ T # {}
    BY <1>5
  <2> HIDE DEF T
  <2> QED  BY <2>1, Least
<1>7. k # 0
  BY <1>3, <1>6
<1>8. k - 1 \in Nat /\ (k - 1) + 1 = k /\ k - 1 < k /\ c(k - 1) \in Nat /\ c(k) \in Nat
  <2>1. k \in Nat /\ k - 1 \in Nat /\ (k - 1) + 1 = k /\ k - 1 < k
    BY <1>7
  <2> QED  BY <1>2, <2>1
<1>9. c(k - 1) < i
  BY <1>6, <1>8
<1>10. c(k) = IF k \in F THEN c(k - 1) + 1 ELSE c(k - 1)
  <2>1. c((k - 1) + 1) = IF (k - 1) + 1 \in F THEN c(k - 1) + 1 ELSE c(k - 1)
    BY <1>4, <1>8
  <2> QED  BY <1>8, <2>1
<1>11. k \in F /\ c(k) = i
  BY <1>6, <1>8, <1>9, <1>10
<1> QED  BY <1>11 DEF c

\* However many numbers are taken, there are n free ones among the first.
LEMMA FreeNumbers ==
    ASSUME NEW T, IsFiniteSet(T), NEW n \in Nat
    PROVE  /\ Cardinality(T) \in Nat /\ Cardinality((1 .. Cardinality(T) + n) \ T) \in Nat
           /\ n <= Cardinality((1 .. Cardinality(T) + n) \ T)
<1> DEFINE c == Cardinality(T)
           A == 1 .. c + n
           B == A \ T
           C == A \cap T
<1>1. c \in Nat
  BY FS_CardinalityType
<1>2. IsFiniteSet(A) /\ Cardinality(A) = c + n
  <2> DEFINE d == c + n
  <2>1. d \in Nat
    BY <1>1
  <2> HIDE DEF d
  <2>2. IsFiniteSet(1 .. d) /\ Cardinality(1 .. d) = IF 1 > d THEN 0 ELSE d - 1 + 1
    BY <2>1, FS_Interval
  <2>3. IsFiniteSet(1 .. d) /\ Cardinality(1 .. d) = d
    BY <2>1, <2>2
  <2> QED  BY <2>3 DEF d
<1>3. C \subseteq T /\ IsFiniteSet(C) /\ Cardinality(C) <= c /\ Cardinality(C) \in Nat
  <2>1. C \in SUBSET T
    OBVIOUS
  <2> HIDE DEF C
  <2> QED  BY <2>1, FS_Subset, FS_CardinalityType
<1>4. IsFiniteSet(B) /\ Cardinality(B) = Cardinality(A) - Cardinality(C) /\ Cardinality(B) \in Nat
  <2> HIDE DEF A
  <2>1. IsFiniteSet(B) /\ Cardinality(B) = Cardinality(A) - Cardinality(C)
    BY <1>2, FS_Difference
  <2> QED  BY <2>1, FS_CardinalityType
<1> HIDE DEF c, A, B, C
<1>5. n <= Cardinality(B)
  BY <1>1, <1>2, <1>3, <1>4
<1> QED  BY <1>1, <1>4, <1>5 DEF c, A, B

\* A finite set, put in some order.
LEMMA SetToSeqIs ==
    ASSUME NEW S, IsFiniteSet(S)
    PROVE  SetToSeq(S) \in Seq(S) /\ NoDup(SetToSeq(S)) /\ ToSet(SetToSeq(S)) = S
<1> DEFINE n == Cardinality(S)
           D == 1 .. n
           q == SetToSeq(S)
<1>1. n \in Nat /\ ExistsBijection(D, S)
  BY FS_CardinalityType
<1>2. \E f \in [D -> S] : IsInjective(f)
  BY <1>1 DEF ExistsBijection, Bijection, Injection, IsInjective
<1>3. q \in [D -> S] /\ IsInjective(q)
  <2> HIDE DEF n
  <2> QED  BY <1>2 DEF SetToSeq, n
<1>4. IsFiniteSet(D) /\ Cardinality(D) = Cardinality(S)
  <2>1. IsFiniteSet(1 .. n) /\ Cardinality(1 .. n) = IF 1 > n THEN 0 ELSE n - 1 + 1
    BY <1>1, FS_Interval
  <2> HIDE DEF n
  <2>2. (IF 1 > n THEN 0 ELSE n - 1 + 1) = n
    BY <1>1
  <2> QED  BY <2>1, <2>2 DEF n
<1>5. q \in Seq(S)
  <2> HIDE DEF n, q
  <2> QED  BY <1>1, <1>3
<1> HIDE DEF n, D, q
<1>6. q \in Injection(D, S)
  BY <1>3 DEF Injection
<1>7. q \in Surjection(D, S)
  BY <1>4, <1>6, FS_Injection
<1>8. \A x \in S : \E i \in D : q[i] = x
  BY <1>7 DEF Surjection
<1> QED  BY <1>3, <1>5, <1>8 DEF ToSet, NoDup, IsInjective, q

=============================================================================
