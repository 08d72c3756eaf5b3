--------------------------- MODULE SelectionProofs ---------------------------
(***************************************************************************)
(* Induction on numbers and on sequences, stated for sets: a property is   *)
(* proved by showing that the set of what has it is everything.  With it,  *)
(* what Only collects, for any sequences and sets.                         *)
(***************************************************************************)
EXTENDS Selection, SequenceTheorems, WellFoundedInduction, TLAPS

\* A set of numbers that is not empty has a least one.
LEMMA LeastNumber ==
  ASSUME NEW T, T \subseteq Nat, T # {}
  PROVE  \E x \in T : \A y \in T : x <= y
<1> DEFINE R == {ss \in Nat \X Nat : ss[1] < ss[2]}
<1>1. IsWellFoundedOn(R, Nat)
  BY NatLessThanWellFounded DEF OpToRel
<1> HIDE DEF R
<1>2. PICK x \in T : \A y \in T : ~(<<y, x>> \in R)
  BY <1>1, WFMin
<1>3. ASSUME NEW y \in T PROVE x <= y
  <2>1. <<y, x>> \notin R /\ x \in Nat /\ y \in Nat
    BY <1>2
  <2>2. ~(y < x)
    BY <2>1 DEF R
  <2> QED
    BY <2>1, <2>2
<1> QED
  BY <1>3

\* Induction on numbers, for a set: it holds 0 and is closed under successor.
LEMMA NumberInduction ==
  ASSUME NEW T, 0 \in T, \A n \in Nat : n \in T => n + 1 \in T
  PROVE  Nat \subseteq T
<1> SUFFICES ASSUME Nat \ T # {} PROVE FALSE
  OBVIOUS
<1>1. PICK n \in Nat \ T : \A m \in Nat \ T : n <= m
  BY LeastNumber
<1>2. n - 1 \in Nat /\ (n - 1) + 1 = n /\ ~(n <= n - 1)
  BY <1>1
<1> QED
  BY <1>1, <1>2

\* The same with every smaller number to lean on.
LEMMA LessInduction ==
  ASSUME NEW T, \A n \in Nat : (\A m \in Nat : m < n => m \in T) => n \in T
  PROVE  Nat \subseteq T
<1> SUFFICES ASSUME Nat \ T # {} PROVE FALSE
  OBVIOUS
<1>1. PICK n \in Nat \ T : \A m \in Nat \ T : n <= m
  BY LeastNumber
<1>2. ASSUME NEW m \in Nat, m < n PROVE m \in T
  BY <1>1, <1>2
<1> QED
  BY <1>1, <1>2

\* Induction on sequences, for a set: it holds <<>> and is closed under Append.
LEMMA SequenceInduction ==
  ASSUME NEW S, NEW T, <<>> \in T, \A s \in Seq(S), e \in S : s \in T => Append(s, e) \in T
  PROVE  Seq(S) \subseteq T
<1> DEFINE L == {n \in Nat : \A s \in Seq(S) : Len(s) = n => s \in T}
<1>1. 0 \in L
  BY EmptySeq
<1>2. ASSUME NEW n \in Nat, n \in L PROVE n + 1 \in L
  <2> SUFFICES ASSUME NEW s \in Seq(S), Len(s) = n + 1 PROVE s \in T
    OBVIOUS
  <2>1. s # <<>>
    BY EmptySeq
  <2>2. PICK t \in Seq(S), e \in S : s = Append(t, e)
    BY <2>1, SequenceEmptyOrAppend
  <2>3. Len(t) \in Nat /\ Len(s) = Len(t) + 1
    BY <2>2, AppendProperties, LenProperties
  <2>4. t \in T
    BY <1>2, <2>3
  <2> QED
    BY <2>2, <2>4
<1>3. Nat \subseteq L
  <2> HIDE DEF L
  <2> QED
    BY <1>1, <1>2, NumberInduction
<1> QED
  BY <1>3, LenProperties

-----------------------------------------------------------------------------
(* The recursive function of Only is well defined.                         *)

\* f collects what is in K from the first n elements of s.
Collects(f, s, K, n) ==
  f = [i \in 0..n |-> IF i = 0 THEN <<>>
                      ELSE IF s[i] \in K THEN Append(f[i - 1], s[i]) ELSE f[i - 1]]

\* There is such a function for each n.
LEMMA CollectsExists ==
  ASSUME NEW s, NEW K, NEW n \in Nat
  PROVE  \E f : Collects(f, s, K, n)
<1> DEFINE T == {m \in Nat : \E f : Collects(f, s, K, m)}
<1>1. 0 \in T
  <2> DEFINE f == [i \in 0..0 |-> <<>>]
  <2>1. Collects(f, s, K, 0)
    BY DEF Collects
  <2> QED
    BY <2>1
<1>2. ASSUME NEW m \in Nat, m \in T PROVE m + 1 \in T
  <2>1. PICK f : Collects(f, s, K, m)
    BY <1>2
  <2> DEFINE e == s[m + 1]
             g == [i \in 0..(m + 1) |->
                     IF i = m + 1 THEN (IF e \in K THEN Append(f[m], e) ELSE f[m]) ELSE f[i]]
  <2>2. ASSUME NEW i \in 0..(m + 1)
        PROVE  g[i] = IF i = 0 THEN <<>>
                      ELSE IF s[i] \in K THEN Append(g[i - 1], s[i]) ELSE g[i - 1]
    <3>1. CASE i = m + 1
      <4>1. i # 0 /\ i - 1 = m /\ m \in 0..(m + 1) /\ m # m + 1
        BY <3>1
      <4>2. g[i - 1] = f[m]
        BY <4>1
      <4> QED
        BY <3>1, <4>1, <4>2
    <3>2. CASE i # m + 1
      <4>1. i \in 0..m /\ g[i] = f[i]
        BY <3>2
      <4>2. i # 0 => i - 1 \in 0..(m + 1) /\ i - 1 # m + 1 /\ g[i - 1] = f[i - 1]
        BY <3>2
      <4> QED
        BY <2>1, <4>1, <4>2 DEF Collects
    <3> QED
      BY <3>1, <3>2
  <2>3. Collects(g, s, K, m + 1)
    <3>1. g = [i \in 0..(m + 1) |-> g[i]]
      OBVIOUS
    <3> HIDE DEF g
    <3> QED
      BY <2>2, <3>1 DEF Collects
  <2> QED
    BY <2>3
<1>3. Nat \subseteq T
  <2> HIDE DEF T
  <2> QED
    BY <1>1, <1>2, NumberInduction
<1> QED
  BY <1>3

\* Two of them agree wherever their sequences do.
LEMMA CollectsUnique ==
  ASSUME NEW s, NEW t, NEW K, NEW m \in Nat, NEW n \in Nat, NEW f, NEW g,
         Collects(f, s, K, m), Collects(g, t, K, n),
         NEW k \in Nat, k <= m, k <= n, \A i \in 1..k : s[i] = t[i]
  PROVE  f[k] = g[k]
<1> DEFINE T == {i \in Nat : i <= k => f[i] = g[i]}
<1>1. 0 \in T
  <2>1. 0 \in 0..m /\ 0 \in 0..n
    OBVIOUS
  <2>2. f[0] = <<>> /\ g[0] = <<>>
    BY <2>1 DEF Collects
  <2> QED
    BY <2>2
<1>2. ASSUME NEW i \in Nat, i \in T PROVE i + 1 \in T
  <2> SUFFICES ASSUME i + 1 <= k PROVE f[i + 1] = g[i + 1]
    OBVIOUS
  <2>1. /\ i + 1 \in 0..m /\ i + 1 \in 0..n /\ i + 1 # 0 /\ (i + 1) - 1 = i /\ i + 1 \in 1..k
        /\ i <= k
    OBVIOUS
  <2>2. f[i] = g[i] /\ s[i + 1] = t[i + 1]
    BY <1>2, <2>1
  <2>3. /\ f[i + 1] = IF s[i + 1] \in K THEN Append(f[i], s[i + 1]) ELSE f[i]
        /\ g[i + 1] = IF t[i + 1] \in K THEN Append(g[i], t[i + 1]) ELSE g[i]
    BY <2>1 DEF Collects
  <2> QED
    BY <2>2, <2>3
<1>3. Nat \subseteq T
  <2> HIDE DEF T
  <2> QED
    BY <1>1, <1>2, NumberInduction
<1> QED
  BY <1>3

\* What Only is, by the function that collects it.
LEMMA OnlyIs ==
  ASSUME NEW s, NEW K, Len(s) \in Nat
  PROVE  \E f : Collects(f, s, K, Len(s)) /\ Only(s, K) = f[Len(s)]
<1> DEFINE F == CHOOSE f : Collects(f, s, K, Len(s))
<1>1. Collects(F, s, K, Len(s))
  BY CollectsExists
<1>2. Only(s, K) = F[Len(s)]
  BY DEF Only, Collects
<1> QED
  BY <1>1, <1>2

-----------------------------------------------------------------------------
(* What Only returns.                                                      *)

\* From nothing, nothing.
LEMMA OnlyEmpty == ASSUME NEW K PROVE Only(<<>>, K) = <<>>
<1>1. Len(<<>>) = 0 /\ 0 \in 0..0
  BY EmptySeq
<1>2. PICK f : Collects(f, <<>>, K, 0) /\ Only(<<>>, K) = f[0]
  BY <1>1, OnlyIs
<1> QED
  BY <1>1, <1>2 DEF Collects

\* The last element is looked at last.
LEMMA OnlyAppend ==
  ASSUME NEW S, NEW s \in Seq(S), NEW e \in S, NEW K
  PROVE  Only(Append(s, e), K) = IF e \in K THEN Append(Only(s, K), e) ELSE Only(s, K)
<1> DEFINE t == Append(s, e)
           n == Len(s)
<1>1. /\ t \in Seq(S) /\ n \in Nat /\ Len(t) = n + 1 /\ t[n + 1] = e
      /\ \A i \in 1..n : t[i] = s[i]
  BY AppendProperties, LenProperties
<1> HIDE DEF t, n
<1>2. PICK f : Collects(f, s, K, n) /\ Only(s, K) = f[n]
  BY <1>1, OnlyIs DEF n
<1>3. PICK g : Collects(g, t, K, n + 1) /\ Only(t, K) = g[n + 1]
  BY <1>1, OnlyIs
<1>4. g[n] = f[n]
  BY <1>1, <1>2, <1>3, CollectsUnique
<1>5. n + 1 \in 0..(n + 1) /\ n + 1 # 0 /\ (n + 1) - 1 = n
  BY <1>1
<1>6. g[n + 1] = IF t[n + 1] \in K THEN Append(g[n], t[n + 1]) ELSE g[n]
  BY <1>3, <1>5 DEF Collects
<1> QED
  BY <1>1, <1>2, <1>3, <1>4, <1>6 DEF t

\* It returns a sequence of elements of s that are in K.
LEMMA OnlyType ==
  ASSUME NEW S, NEW K, NEW s \in Seq(S)
  PROVE  Only(s, K) \in Seq(S \intersect K) /\ Only(s, K) \in Seq(S)
<1> DEFINE T == {t \in Seq(S) : Only(t, K) \in Seq(S \intersect K)}
<1>1. <<>> \in T
  BY OnlyEmpty, EmptySeq
<1>2. ASSUME NEW t \in Seq(S), NEW e \in S, t \in T PROVE Append(t, e) \in T
  <2>1. Append(t, e) \in Seq(S) /\ Only(t, K) \in Seq(S \intersect K)
    BY <1>2
  <2>2. CASE e \in K
    <3>1. e \in S \intersect K
      BY <2>2
    <3>2. Append(Only(t, K), e) \in Seq(S \intersect K)
      BY <2>1, <3>1
    <3> QED
      BY <2>1, <2>2, <3>2, OnlyAppend
  <2>3. CASE e \notin K
    BY <2>1, <2>3, OnlyAppend
  <2> QED
    BY <2>2, <2>3
<1>3. Seq(S) \subseteq T
  <2> HIDE DEF T
  <2> QED
    BY <1>1, <1>2, SequenceInduction
<1>4. Only(s, K) \in Seq(S \intersect K)
  BY <1>3
<1>5. S \intersect K \subseteq S
  OBVIOUS
<1> QED
  BY <1>4, <1>5, SeqMonotonic

\* Of two sequences in a row it returns what it returns of each.
LEMMA OnlyConcat ==
  ASSUME NEW S, NEW K, NEW s \in Seq(S), NEW t \in Seq(S)
  PROVE  Only(s \o t, K) = Only(s, K) \o Only(t, K)
<1> DEFINE T == {u \in Seq(S) : Only(s \o u, K) = Only(s, K) \o Only(u, K)}
<1>0. Only(s, K) \in Seq(S)
  BY OnlyType
<1>1. <<>> \in T
  <2>1. s \o <<>> = s /\ Only(s, K) \o <<>> = Only(s, K) /\ <<>> \in Seq(S)
    BY <1>0, ConcatEmptySeq, EmptySeq
  <2> QED
    BY <2>1, OnlyEmpty
<1>2. ASSUME NEW u \in Seq(S), NEW e \in S, u \in T PROVE Append(u, e) \in T
  <2>1. Only(s \o u, K) = Only(s, K) \o Only(u, K)
    BY <1>2
  <2>2. s \o Append(u, e) = Append(s \o u, e) /\ s \o u \in Seq(S)
    OBVIOUS
  <2>3. Only(s \o Append(u, e), K) =
          IF e \in K THEN Append(Only(s \o u, K), e) ELSE Only(s \o u, K)
    BY <2>2, OnlyAppend
  <2>4. Only(Append(u, e), K) = IF e \in K THEN Append(Only(u, K), e) ELSE Only(u, K)
    BY OnlyAppend
  <2>5. Only(u, K) \in Seq(S)
    BY OnlyType
  <2>6. Append(Only(s, K) \o Only(u, K), e) = Only(s, K) \o Append(Only(u, K), e)
    <3> DEFINE x == Only(s, K)
               y == Only(u, K)
    <3>1. x \in Seq(S) /\ y \in Seq(S)
      BY <1>0, <2>5
    <3> HIDE DEF x, y
    <3>2. x \o y \in Seq(S) /\ <<e>> \in Seq(S)
      BY <3>1, ConcatProperties
    <3>3. Append(x \o y, e) = (x \o y) \o <<e>> /\ Append(y, e) = y \o <<e>>
      BY <3>1, <3>2, AppendIsConcat
    <3>4. (x \o y) \o <<e>> = x \o (y \o <<e>>)
      BY <3>1, <3>2, ConcatAssociative
    <3> QED
      BY <3>3, <3>4 DEF x, y
  <2>7. Only(s \o Append(u, e), K) = Only(s, K) \o Only(Append(u, e), K)
    BY <2>1, <2>3, <2>4, <2>6
  <2> QED
    BY <2>7
<1>3. Seq(S) \subseteq T
  <2> HIDE DEF T
  <2> QED
    BY <1>1, <1>2, SequenceInduction
<1> QED
  BY <1>3

\* Of a single element it returns that element or nothing.
LEMMA OnlyOne ==
  ASSUME NEW S, NEW K, NEW e \in S
  PROVE  Only(<<e>>, K) = IF e \in K THEN <<e>> ELSE <<>>
<1>1. <<e>> = Append(<<>>, e) /\ <<>> \in Seq(S)
  OBVIOUS
<1>2. Only(<<>>, K) = <<>>
  BY OnlyEmpty
<1>3. Only(Append(<<>>, e), K) = IF e \in K THEN Append(Only(<<>>, K), e) ELSE Only(<<>>, K)
  BY <1>1, OnlyAppend
<1> QED
  BY <1>1, <1>2, <1>3

\* The same of a sequence that is cut in two.
LEMMA OnlySplit ==
  ASSUME NEW S, NEW K, NEW s \in Seq(S), NEW k \in 0..Len(s)
  PROVE  /\ SubSeq(s, 1, k) \in Seq(S) /\ SubSeq(s, k + 1, Len(s)) \in Seq(S)
         /\ Only(s, K) = Only(SubSeq(s, 1, k), K) \o Only(SubSeq(s, k + 1, Len(s)), K)
<1>0. Len(s) \in Nat /\ 1 \in 1..(Len(s) + 1) /\ k \in (1 - 1)..Len(s) /\ Len(s) \in k..Len(s)
  BY LenProperties
<1>1. SubSeq(s, 1, k) \in Seq(S) /\ SubSeq(s, k + 1, Len(s)) \in Seq(S)
  BY <1>0, SubSeqProperties, ElementOfSeq
<1>2. s = SubSeq(s, 1, k) \o SubSeq(s, k + 1, Len(s))
  BY <1>0, ConcatAdjacentSubSeq, SubSeqFull
<1> QED
  BY <1>1, <1>2, OnlyConcat

\* What it selects twice is in both sets.
LEMMA OnlyTwice ==
  ASSUME NEW S, NEW A, NEW B, NEW s \in Seq(S)
  PROVE  Only(Only(s, A), B) = Only(s, A \intersect B)
<1> DEFINE T == {t \in Seq(S) : Only(Only(t, A), B) = Only(t, A \intersect B)}
<1>1. <<>> \in T
  BY OnlyEmpty, EmptySeq
<1>2. ASSUME NEW t \in Seq(S), NEW e \in S, t \in T PROVE Append(t, e) \in T
  <2>1. Only(Only(t, A), B) = Only(t, A \intersect B) /\ Only(t, A) \in Seq(S)
    BY <1>2, OnlyType
  <2>2. Only(Append(t, e), A) = IF e \in A THEN Append(Only(t, A), e) ELSE Only(t, A)
    BY OnlyAppend
  <2>3. Only(Append(Only(t, A), e), B) =
          IF e \in B THEN Append(Only(Only(t, A), B), e) ELSE Only(Only(t, A), B)
    BY <2>1, OnlyAppend, ZenonT(60)
  <2>4. Only(Append(t, e), A \intersect B) =
          IF e \in A \intersect B THEN Append(Only(t, A \intersect B), e)
          ELSE Only(t, A \intersect B)
    BY OnlyAppend
  <2>5. Only(Only(Append(t, e), A), B) = Only(Append(t, e), A \intersect B)
    <3>1. CASE e \in A
      <4>1. e \in A \intersect B <=> e \in B
        BY <3>1
      <4>2. Only(Append(t, e), A) = Append(Only(t, A), e)
        BY <2>2, <3>1
      <4>3. CASE e \in B
        BY <2>1, <2>3, <2>4, <4>1, <4>2, <4>3
      <4>4. CASE e \notin B
        BY <2>1, <2>3, <2>4, <4>1, <4>2, <4>4
      <4> QED
        BY <4>3, <4>4
    <3>2. CASE e \notin A
      BY <2>1, <2>2, <2>4, <3>2
    <3> QED
      BY <3>1, <3>2
  <2> QED
    BY <2>5
<1>3. Seq(S) \subseteq T
  <2> HIDE DEF T
  <2> QED
    BY <1>1, <1>2, SequenceInduction
<1> QED
  BY <1>3

\* Sets that agree on the elements select the same.
LEMMA OnlySame ==
  ASSUME NEW S, NEW A, NEW B, NEW s \in Seq(S), S \intersect A = S \intersect B
  PROVE  Only(s, A) = Only(s, B)
<1> DEFINE T == {t \in Seq(S) : Only(t, A) = Only(t, B)}
<1>1. <<>> \in T
  BY OnlyEmpty, EmptySeq
<1>2. ASSUME NEW t \in Seq(S), NEW e \in S, t \in T PROVE Append(t, e) \in T
  <2>1. e \in A <=> e \in B
    OBVIOUS
  <2>2. Only(t, A) = Only(t, B)
    BY <1>2
  <2>3. Only(Append(t, e), A) = IF e \in A THEN Append(Only(t, A), e) ELSE Only(t, A)
    BY OnlyAppend
  <2>4. Only(Append(t, e), B) = IF e \in B THEN Append(Only(t, B), e) ELSE Only(t, B)
    BY OnlyAppend
  <2>5. Only(Append(t, e), A) = Only(Append(t, e), B)
    BY <2>1, <2>2, <2>3, <2>4
  <2> QED
    BY <2>5
<1>3. Seq(S) \subseteq T
  <2> HIDE DEF T
  <2> QED
    BY <1>1, <1>2, SequenceInduction
<1> QED
  BY <1>3

\* Nothing is selected where nothing is in K.
LEMMA OnlyNothing ==
  ASSUME NEW S, NEW K, NEW s \in Seq(S), S \intersect K = {}
  PROVE  Only(s, K) = <<>>
<1>1. Only(s, K) \in Seq({})
  BY OnlyType
<1>2. Only(s, K) = <<>>
  <2> SUFFICES ASSUME Only(s, K) # <<>> PROVE FALSE
    OBVIOUS
  <2>1. Head(Only(s, K)) \in {}
    BY <1>1, HeadTailProperties
  <2> QED
    BY <2>1
<1> QED
  BY <1>2
=============================================================================
