-------------------------- MODULE InductionLemmas --------------------------
(***************************************************************************)
(* Facts about the data the models are built from that need induction:     *)
(* least numbers, finite sets listed in order, sequences of sequences made *)
(* one, sums over finite sets.                                             *)
(*                                                                         *)
(* An induction theorem whose parameter is a predicate cannot be used by   *)
(* the provers.  Here what is to be shown is given as the set of those     *)
(* that satisfy it; all inductions rest on the theorem that each nonempty  *)
(* set has a minimal element for a well-founded relation.                  *)
(***************************************************************************)
EXTENDS Integers, FiniteSetsExt, SequencesExt, FiniteSetTheorems,
        SequenceTheorems, TLAPS

-----------------------------------------------------------------------------
(* Induction.                                                              *)

\* A nonempty set of natural numbers has a least element.
LEMMA LeastExists ==
    ASSUME NEW S, S \subseteq Nat, S # {}
    PROVE  \E x \in S : \A y \in S : x <= y
<1> DEFINE R == OpToRel(<, Nat)
<1>1. IsWellFoundedOn(R, Nat)
  BY NatLessThanWellFounded
<1>2. PICK x \in S : \A y \in S : <<y, x>> \notin R
  <2> HIDE DEF R
  <2> QED BY <1>1, WFMin
<1>3. ASSUME NEW y \in S, ~ x <= y PROVE FALSE
  <2>1. <<y, x>> \in R
    BY <1>3 DEF OpToRel
  <2> QED BY <2>1, <1>2
<1> QED BY <1>2, <1>3

\* A set with 0 and with every successor has all natural numbers.
LEMMA NatSetInduction ==
    ASSUME NEW S, 0 \in S, \A n \in Nat : n \in S => n + 1 \in S
    PROVE  Nat \subseteq S
<1> DEFINE T == Nat \ S
<1> SUFFICES ASSUME T # {} PROVE FALSE
  OBVIOUS
<1>1. PICK x \in T : \A y \in T : x <= y
  <2>1. T \subseteq Nat
    OBVIOUS
  <2> HIDE DEF T
  <2> QED BY <2>1, LeastExists
<1>2. x - 1 \in Nat /\ x - 1 \notin T
  BY <1>1
<1> QED BY <1>1, <1>2

\* What holds of a subset of a finite set whenever it holds of those of one
\* element less, holds of all.
LEMMA SubsetInduction ==
    ASSUME NEW U, IsFiniteSet(U), NEW P,
           \A T \in SUBSET U : (\A x \in T : T \ {x} \in P) => T \in P
    PROVE  SUBSET U \subseteq P
<1> DEFINE S == {n \in Nat : \A T \in SUBSET U : Cardinality(T) = n => T \in P}
<1>1. \A T \in SUBSET U : IsFiniteSet(T) /\ Cardinality(T) \in Nat
  BY FS_Subset, FS_CardinalityType
<1>2. 0 \in S
  <2>1. ASSUME NEW T \in SUBSET U, Cardinality(T) = 0 PROVE T \in P
    <3>1. T = {}
      BY <1>1, <2>1, FS_EmptySet
    <3> QED BY <3>1
  <2> QED BY <2>1
<1>3. ASSUME NEW n \in Nat, n \in S,
             NEW T \in SUBSET U, Cardinality(T) = n + 1
      PROVE  T \in P
  <2>1. ASSUME NEW x \in T PROVE T \ {x} \in P
    <3>1. Cardinality(T \ {x}) = n
      BY <1>3, <1>1, FS_RemoveElement
    <3> QED BY <3>1, <1>3
  <2> QED BY <2>1
<1>4. Nat \subseteq S
  <2>1. \A n \in Nat : n \in S => n + 1 \in S
    BY <1>3
  <2> HIDE DEF S
  <2> QED BY <1>2, <2>1, NatSetInduction
<1> QED BY <1>1, <1>4

-----------------------------------------------------------------------------
(* Finite sets listed in order.                                            *)

\* R orders the elements of T, each before or after each other.
Orders(R, T) ==
    /\ \A x \in T : <<x, x>> \notin R
    /\ \A x, y \in T : x = y \/ <<x, y>> \in R \/ <<y, x>> \in R
    /\ \A x, y, z \in T : <<x, y>> \in R /\ <<y, z>> \in R => <<x, z>> \in R

\* q lists the elements of T in the order R.
Lists(q, R, T) ==
    /\ q \in [1 .. Cardinality(T) -> T]
    /\ \A i, j \in 1 .. Cardinality(T) : i < j => <<q[i], q[j]>> \in R

\* Position of x in the list.
Rank(x, R, T) == Cardinality({y \in T : <<y, x>> \in R}) + 1

\* In a finite ordered set the rank of an element grows with the order.
LEMMA RankGrows ==
    ASSUME NEW R, NEW T, IsFiniteSet(T), Orders(R, T)
    PROVE  /\ \A x \in T : Rank(x, R, T) \in 1 .. Cardinality(T)
           /\ \A x, y \in T :
                  <<x, y>> \in R => Rank(x, R, T) < Rank(y, R, T)
<1> DEFINE D(x) == {y \in T : <<y, x>> \in R}
<1>1. \A x : IsFiniteSet(D(x)) /\ Cardinality(D(x)) \in Nat
  BY FS_Subset, FS_CardinalityType
<1>2. Cardinality(T) \in Nat
  BY FS_CardinalityType
<1>3. ASSUME NEW x \in T PROVE Rank(x, R, T) \in 1 .. Cardinality(T)
  <2>1. D(x) \in SUBSET T /\ D(x) # T
    BY DEF Orders
  <2>2. Cardinality(D(x)) <= Cardinality(T) /\ Cardinality(D(x)) # Cardinality(T)
    BY <2>1, FS_Subset
  <2>3. Cardinality(D(x)) \in Nat /\ Rank(x, R, T) = Cardinality(D(x)) + 1
    BY <1>1 DEF Rank
  <2> HIDE DEF D
  <2> QED BY <2>2, <2>3, <1>2
<1>4. ASSUME NEW x \in T, NEW y \in T, <<x, y>> \in R
      PROVE  Rank(x, R, T) < Rank(y, R, T)
  <2>1. D(x) \in SUBSET D(y) /\ D(x) # D(y)
    BY <1>4 DEF Orders
  <2>2. Cardinality(D(x)) <= Cardinality(D(y)) /\ Cardinality(D(x)) # Cardinality(D(y))
    BY <2>1, <1>1, FS_Subset
  <2>3. /\ Cardinality(D(x)) \in Nat /\ Rank(x, R, T) = Cardinality(D(x)) + 1
        /\ Cardinality(D(y)) \in Nat /\ Rank(y, R, T) = Cardinality(D(y)) + 1
    BY <1>1 DEF Rank
  <2> HIDE DEF D
  <2> QED BY <2>2, <2>3
<1> QED BY <1>3, <1>4

\* A finite ordered set can be listed in order.
LEMMA ListExists ==
    ASSUME NEW R, NEW T, IsFiniteSet(T), Orders(R, T)
    PROVE  \E q : Lists(q, R, T)
<1> DEFINE n == Cardinality(T)
           r == [x \in T |-> Rank(x, R, T)]
           q == [i \in 1 .. n |-> CHOOSE x \in T : r[x] = i]
<1>1. n \in Nat
  BY FS_CardinalityType
<1>2. r \in [T -> 1 .. n]
  BY RankGrows
<1>3. \A x, y \in T : <<x, y>> \in R => r[x] < r[y]
  BY RankGrows
<1> HIDE DEF r, n
<1>4. ASSUME NEW x \in T, NEW y \in T, r[x] = r[y] PROVE x = y
  <2>1. r[x] \in 1 .. n /\ r[y] \in 1 .. n
    BY <1>2
  <2>2. ~ r[x] < r[y] /\ ~ r[y] < r[x]
    BY <2>1, <1>4, <1>1
  <2> QED BY <2>2, <1>3 DEF Orders
<1>5. r \in Injection(T, 1 .. n)
  BY <1>2, <1>4 DEF Injection, IsInjective
<1>6. IsFiniteSet(1 .. n) /\ Cardinality(1 .. n) = n
  BY <1>1, FS_Interval
<1>7. r \in Surjection(T, 1 .. n)
  BY <1>5, <1>6, FS_Injection DEF n
<1>8. \A i \in 1 .. n : \E x \in T : r[x] = i
  BY <1>7 DEF Surjection
<1>9. \A i \in 1 .. n : q[i] \in T /\ r[q[i]] = i
  BY <1>8
<1>10. q \in [1 .. n -> T]
  BY <1>9
<1> HIDE DEF q
<1>11. ASSUME NEW i \in 1 .. n, NEW j \in 1 .. n, i < j
       PROVE  <<q[i], q[j]>> \in R
  <2>1. r[q[i]] = i /\ r[q[j]] = j /\ q[i] \in T /\ q[j] \in T
    BY <1>9
  <2>2. q[i] # q[j] /\ ~ r[q[j]] < r[q[i]]
    BY <2>1, <1>11, <1>1
  <2> QED BY <2>1, <2>2, <1>3 DEF Orders
<1> QED BY <1>10, <1>11 DEF Lists, n

\* The list has each element of the set.
LEMMA ListIsComplete ==
    ASSUME NEW R, NEW T, IsFiniteSet(T), Orders(R, T), NEW q, Lists(q, R, T)
    PROVE  /\ q \in Seq(T)
           /\ Len(q) = Cardinality(T)
           /\ \A x \in T : \E i \in 1 .. Len(q) : q[i] = x
<1> DEFINE n == Cardinality(T)
<1>1. n \in Nat
  BY FS_CardinalityType
<1>2. q \in [1 .. n -> T]
  BY DEF Lists
<1>3. q \in Seq(T) /\ Len(q) = n
  BY <1>1, <1>2
<1>4. ASSUME NEW i \in 1 .. n, NEW j \in 1 .. n, q[i] = q[j] PROVE i = j
  <2>1. q[i] \in T /\ <<q[i], q[i]>> \notin R
    BY <1>2 DEF Orders
  <2>2. ~ i < j /\ ~ j < i
    BY <2>1, <1>4 DEF Lists
  <2> QED BY <2>2, <1>1
<1>5. q \in Injection(1 .. n, T)
  BY <1>2, <1>4 DEF Injection, IsInjective
<1>6. IsFiniteSet(1 .. n) /\ Cardinality(1 .. n) = n
  BY <1>1, FS_Interval
<1>7. q \in Surjection(1 .. n, T)
  BY <1>5, <1>6, FS_Injection
<1> QED BY <1>3, <1>7 DEF Surjection

-----------------------------------------------------------------------------
(* A sequence of sequences made one.                                       *)

\* f[i] is what the first i sequences of s make.
FlattensTo(f, s, k) ==
    \A i \in 1 .. k : f[i] = IF i = 1 THEN s[i] ELSE f[i - 1] \o s[i]

\* Sequences can be joined from the first to any of them.
LEMMA FlatteningExists ==
    ASSUME NEW S, NEW n \in Nat, NEW s \in [1 .. n -> Seq(S)]
    PROVE  \E f \in [1 .. n -> Seq(S)] : FlattensTo(f, s, n)
<1> DEFINE P(k) == k <= n => \E f \in [1 .. k -> Seq(S)] : FlattensTo(f, s, k)
           K == {k \in Nat : P(k)}
<1>1. P(0)
  <2>1. [i \in 1 .. 0 |-> <<>>] \in [1 .. 0 -> Seq(S)]
    OBVIOUS
  <2>2. FlattensTo([i \in 1 .. 0 |-> <<>>], s, 0)
    BY DEF FlattensTo
  <2> QED BY <2>1, <2>2
<1>2. ASSUME NEW k \in Nat, P(k) PROVE P(k + 1)
  <2> SUFFICES ASSUME k + 1 <= n
               PROVE  \E f \in [1 .. k + 1 -> Seq(S)] : FlattensTo(f, s, k + 1)
    OBVIOUS
  <2>1. PICK f \in [1 .. k -> Seq(S)] : FlattensTo(f, s, k)
    BY <1>2
  <2> DEFINE e(i) == IF i = 1 THEN s[i] ELSE f[i - 1] \o s[i]
             g == [i \in 1 .. k + 1 |-> e(i)]
  <2>2. ASSUME NEW i \in 1 .. k + 1 PROVE e(i) \in Seq(S)
    <3>1. s[i] \in Seq(S)
      OBVIOUS
    <3>2. CASE i # 1
      <4>1. i - 1 \in 1 .. k
        BY <3>2
      <4>2. f[i - 1] \in Seq(S)
        BY <4>1, <2>1
      <4> QED BY <4>2, <3>1, ConcatProperties
    <3> QED BY <3>1, <3>2
  <2>3. g \in [1 .. k + 1 -> Seq(S)]
    BY <2>2
  <2>4. ASSUME NEW i \in 1 .. k PROVE g[i] = f[i]
    <3>1. g[i] = e(i)
      OBVIOUS
    <3>2. f[i] = e(i)
      BY <2>1 DEF FlattensTo
    <3> QED BY <3>1, <3>2
  <2>5. ASSUME NEW i \in 1 .. k + 1
        PROVE  g[i] = IF i = 1 THEN s[i] ELSE g[i - 1] \o s[i]
    <3>1. CASE i # 1
      <4>1. i - 1 \in 1 .. k
        BY <3>1
      <4>2. g[i - 1] = f[i - 1]
        BY <4>1, <2>4
      <4> QED BY <4>2
    <3> QED BY <3>1
  <2>6. FlattensTo(g, s, k + 1)
    BY <2>5 DEF FlattensTo
  <2> QED BY <2>3, <2>6
<1>3. Nat \subseteq K
  <2>1. 0 \in K
    BY <1>1
  <2>2. \A k \in Nat : k \in K => k + 1 \in K
    BY <1>2
  <2> HIDE DEF K
  <2> QED BY <2>1, <2>2, NatSetInduction
<1> HIDE DEF P
<1>4. P(n)
  BY <1>3
<1> QED BY <1>4 DEF P

\* What is made of the first k sequences has the elements of these.
LEMMA FlattenedSoFar ==
    ASSUME NEW S, NEW s \in Seq(Seq(S)), NEW f, FlattensTo(f, s, Len(s))
    PROVE  \A k \in 1 .. Len(s) :
              /\ f[k] \in Seq(S)
              /\ \A x : x \in Range(f[k]) <=> \E i \in 1 .. k : x \in Range(s[i])
<1> DEFINE n == Len(s)
           Q(j) == /\ f[j] \in Seq(S)
                   /\ \A x : x \in Range(f[j]) <=>
                                 \E i \in 1 .. j : x \in Range(s[i])
           P(j) == j \in 1 .. n => Q(j)
           K == {j \in Nat : P(j)}
<1>0. n \in Nat /\ \A i \in 1 .. n : s[i] \in Seq(S)
  OBVIOUS
<1> HIDE DEF n
<1>1. P(0)
  OBVIOUS
<1>2. ASSUME NEW j \in Nat, P(j), j + 1 \in 1 .. n PROVE Q(j + 1)
  <2>1. s[j + 1] \in Seq(S)
    BY <1>2, <1>0
  <2>2. f[j + 1] = IF j + 1 = 1 THEN s[j + 1] ELSE f[j + 1 - 1] \o s[j + 1]
    BY <1>2 DEF FlattensTo, n
  <2>3. CASE j = 0
    <3>1. f[j + 1] = s[j + 1] /\ 1 .. j + 1 = {j + 1}
      BY <2>2, <2>3
    <3> QED BY <3>1, <2>1
  <2>4. CASE j # 0
    <3>1. j \in 1 .. n
      BY <1>0, <1>2, <2>4
    <3>2. f[j + 1] = f[j] \o s[j + 1]
      <4>1. j + 1 # 1 /\ j + 1 - 1 = j
        BY <2>4
      <4> QED BY <4>1, <2>2
    <3>3. Q(j)
      BY <3>1, <1>2
    <3>4. Range(f[j + 1]) = Range(f[j]) \cup Range(s[j + 1])
      BY <3>2, <3>3, <2>1, RangeConcatenation
    <3>5. 1 .. j + 1 = (1 .. j) \cup {j + 1}
      OBVIOUS
    <3>6. f[j + 1] \in Seq(S)
      BY <3>2, <3>3, <2>1, ConcatProperties
    <3>7. ASSUME NEW x
          PROVE  x \in Range(f[j + 1]) <=>
                     \E i \in 1 .. j + 1 : x \in Range(s[i])
      BY <3>3, <3>4, <3>5
    <3> QED BY <3>6, <3>7
  <2> QED BY <2>3, <2>4
<1> HIDE DEF Q
<1>3. Nat \subseteq K
  <2>1. 0 \in K
    BY <1>1
  <2>2. \A j \in Nat : j \in K => j + 1 \in K
    BY <1>2
  <2> HIDE DEF K
  <2> QED BY <2>1, <2>2, NatSetInduction
<1>4. \A k \in 1 .. n : Q(k)
  BY <1>0, <1>3
<1> QED BY <1>4 DEF Q, n

\* That is what FlattenSeq does.
LEMMA FlattenSeqFlattens ==
    ASSUME NEW S, NEW s \in Seq(Seq(S)), Len(s) # 0
    PROVE  \E f : FlattensTo(f, s, Len(s)) /\ FlattenSeq(s) = f[Len(s)]
<1> DEFINE n == Len(s)
           f == CHOOSE f : f = [i \in 1 .. n |->
                                   IF i = 1 THEN s[i] ELSE f[i - 1] \o s[i]]
<1>1. n \in Nat /\ s \in [1 .. n -> Seq(S)]
  OBVIOUS
<1>2. FlattenSeq(s) = f[n]
  BY Zenon DEF FlattenSeq
<1> HIDE DEF n
<1>3. PICK g \in [1 .. n -> Seq(S)] : FlattensTo(g, s, n)
  BY <1>1, FlatteningExists
<1>4. g = [i \in 1 .. n |-> IF i = 1 THEN s[i] ELSE g[i - 1] \o s[i]]
  BY <1>3 DEF FlattensTo
<1>5. f = [i \in 1 .. n |-> IF i = 1 THEN s[i] ELSE f[i - 1] \o s[i]]
  BY <1>4, Zenon
<1> HIDE DEF f
<1>6. FlattensTo(f, s, n)
  BY <1>5 DEF FlattensTo
<1> QED BY <1>2, <1>6 DEF n

\* The elements of the sequence it returns are those of the parts.
LEMMA FlattenProperties ==
    ASSUME NEW S, NEW s \in Seq(Seq(S))
    PROVE  /\ FlattenSeq(s) \in Seq(S)
           /\ \A x : x \in Range(FlattenSeq(s)) <=>
                        \E i \in DOMAIN s : x \in Range(s[i])
<1>1. Len(s) \in Nat /\ s \in [1 .. Len(s) -> Seq(S)] /\ DOMAIN s = 1 .. Len(s)
  OBVIOUS
<1>2. CASE Len(s) = 0
  <2>1. s = <<>> /\ FlattenSeq(s) = s
    BY <1>2, EmptySeq DEF FlattenSeq
  <2>2. DOMAIN s = {}
    BY <1>1, <1>2
  <2>3. Range(s) = {}
    BY <2>2 DEF Range
  <2>4. <<>> \in Seq(S)
    BY EmptySeq
  <2> QED BY <2>1, <2>2, <2>3, <2>4
<1>3. CASE Len(s) # 0
  <2>1. PICK f : FlattensTo(f, s, Len(s)) /\ FlattenSeq(s) = f[Len(s)]
    BY <1>3, FlattenSeqFlattens
  <2>2. \A k \in 1 .. Len(s) :
           /\ f[k] \in Seq(S)
           /\ \A x : x \in Range(f[k]) <=> \E i \in 1 .. k : x \in Range(s[i])
    BY <2>1, <1>1, FlattenedSoFar
  <2>3. Len(s) \in 1 .. Len(s)
    BY <1>1, <1>3
  <2> QED BY <2>1, <2>2, <2>3, <1>1
<1> QED BY <1>2, <1>3

-----------------------------------------------------------------------------
(* Sums over finite sets.                                                  *)

\* The sum of v[x] over the elements of S.
Total(v, S) == MapThenSumSet(LAMBDA x : v[x], S)

\* i adds up v over each subset of U, in some order.
AddsUp(i, v, U) ==
    \A s \in SUBSET U :
        i[s] = IF s = {} THEN 0
               ELSE LET x == CHOOSE x \in s : TRUE IN v[x] + i[s \ {x}]

\* A function can be summed over every part of a finite set.
LEMMA AddingUpExists ==
    ASSUME NEW U, IsFiniteSet(U), NEW v, \A x \in U : v[x] \in Int
    PROVE  \E i \in [SUBSET U -> Int] : AddsUp(i, v, U)
<1> DEFINE c(s) == CHOOSE x \in s : TRUE
           e(i, s) == IF s = {} THEN 0 ELSE v[c(s)] + i[s \ {c(s)}]
           Upto(n) == {s \in SUBSET U : Cardinality(s) <= n}
           P(n) == \E i \in [Upto(n) -> Int] : \A s \in Upto(n) : i[s] = e(i, s)
           K == {n \in Nat : P(n)}
<1>1. \A s \in SUBSET U : IsFiniteSet(s) /\ Cardinality(s) \in Nat
  BY FS_Subset, FS_CardinalityType
<1>2. \A s \in SUBSET U : s # {} => c(s) \in s
  OBVIOUS
<1>3. ASSUME NEW s \in SUBSET U, s # {}
      PROVE  /\ s \ {c(s)} \in SUBSET U
             /\ Cardinality(s \ {c(s)}) = Cardinality(s) - 1
  BY <1>1, <1>2, <1>3, FS_RemoveElement
<1> HIDE DEF c
<1>4. P(0)
  <2>1. \A s \in Upto(0) : s = {}
    BY <1>1, FS_EmptySet
  <2>2. \A s \in Upto(0) : e([t \in Upto(0) |-> 0], s) = 0
    BY <2>1
  <2> HIDE DEF Upto
  <2>3. [t \in Upto(0) |-> 0] \in [Upto(0) -> Int]
    OBVIOUS
  <2> QED BY <2>2, <2>3
<1>5. ASSUME NEW n \in Nat, P(n) PROVE P(n + 1)
  <2>1. PICK i \in [Upto(n) -> Int] : \A s \in Upto(n) : i[s] = e(i, s)
    BY <1>5
  <2> DEFINE g == [s \in Upto(n + 1) |-> e(i, s)]
  <2>2. Upto(n) \subseteq Upto(n + 1)
    BY <1>1
  <2>3. ASSUME NEW s \in Upto(n + 1), s # {}
        PROVE  c(s) \in U /\ s \ {c(s)} \in Upto(n)
    BY <1>1, <1>2, <1>3, <2>3
  <2> HIDE DEF Upto
  <2>4. \A s \in Upto(n + 1) : e(i, s) \in Int
    BY <2>3
  <2>5. g \in [Upto(n + 1) -> Int]
    BY <2>4
  <2>6. \A s \in Upto(n) : g[s] = i[s]
    BY <2>1, <2>2
  <2>7. ASSUME NEW s \in Upto(n + 1) PROVE g[s] = e(g, s)
    <3>1. CASE s # {}
      <4>1. g[s \ {c(s)}] = i[s \ {c(s)}]
        BY <3>1, <2>3, <2>6
      <4> QED BY <4>1
    <3> QED BY <3>1
  <2> HIDE DEF g
  <2> QED BY <2>5, <2>7
<1> HIDE DEF P
<1>6. Nat \subseteq K
  <2>1. 0 \in K
    BY <1>4
  <2>2. \A n \in Nat : n \in K => n + 1 \in K
    BY <1>5
  <2> HIDE DEF K
  <2> QED BY <2>1, <2>2, NatSetInduction
<1>7. Upto(Cardinality(U)) = SUBSET U
  BY <1>1, FS_Subset
<1> HIDE DEF Upto, e
<1>8. P(Cardinality(U))
  BY <1>6, FS_CardinalityType
<1>9. \E i \in [SUBSET U -> Int] : \A s \in SUBSET U : i[s] = e(i, s)
  BY <1>7, <1>8 DEF P
<1> QED BY <1>9 DEF AddsUp, e, c

\* The sum is what the recursion says.
LEMMA TotalAddsUp ==
    ASSUME NEW U, IsFiniteSet(U), NEW v, \A x \in U : v[x] \in Int
    PROVE  \E i : AddsUp(i, v, U) /\ Total(v, U) = i[U]
<1> DEFINE e(i, s) == IF s = {} THEN 0
                      ELSE LET x == CHOOSE x \in s : TRUE IN v[x] + i[s \ {x}]
           i == CHOOSE i : i = [s \in SUBSET U |-> e(i, s)]
<1>1. Total(v, U) = i[U]
  BY DEF Total, MapThenSumSet, MapThenFoldSet
<1>2. PICK g \in [SUBSET U -> Int] : AddsUp(g, v, U)
  BY AddingUpExists
<1>3. g = [s \in SUBSET U |-> e(g, s)]
  BY <1>2 DEF AddsUp
<1>4. i = [s \in SUBSET U |-> e(i, s)]
  <2> HIDE DEF e
  <2> QED BY <1>3, Zenon
<1> HIDE DEF i
<1>5. AddsUp(i, v, U)
  BY <1>4 DEF AddsUp
<1> QED BY <1>1, <1>5

\* The sums of the subsets do not depend on the set they are taken from.
LEMMA SumsAgree ==
    ASSUME NEW U, IsFiniteSet(U), NEW W \in SUBSET U, NEW v,
           \A x \in U : v[x] \in Int,
           NEW i, AddsUp(i, v, U), NEW j, AddsUp(j, v, W)
    PROVE  \A s \in SUBSET W : i[s] = j[s] /\ i[s] \in Int
<1> DEFINE P == {s \in SUBSET W : i[s] = j[s] /\ i[s] \in Int}
<1>1. IsFiniteSet(W)
  BY FS_Subset
<1>2. ASSUME NEW s \in SUBSET W, \A x \in s : s \ {x} \in P PROVE s \in P
  <2>1. s \in SUBSET U
    OBVIOUS
  <2>2. CASE s = {}
    BY <2>1, <2>2 DEF AddsUp
  <2>3. CASE s # {}
    <3> DEFINE x == CHOOSE x \in s : TRUE
    <3>1. x \in s
      BY <2>3
    <3>2. i[s] = v[x] + i[s \ {x}] /\ j[s] = v[x] + j[s \ {x}]
      BY <2>1, <2>3 DEF AddsUp
    <3> HIDE DEF x
    <3>3. i[s \ {x}] = j[s \ {x}] /\ i[s \ {x}] \in Int /\ v[x] \in Int
      BY <3>1, <1>2
    <3> QED BY <3>2, <3>3
  <2> QED BY <2>2, <2>3
<1>3. SUBSET W \subseteq P
  <2> HIDE DEF P
  <2> QED BY <1>1, <1>2, SubsetInduction
<1> QED BY <1>3

\* Whatever element is taken out, the rest of the sum is the sum of the rest.
LEMMA AnyElementFirst ==
    ASSUME NEW U, IsFiniteSet(U), NEW v, \A x \in U : v[x] \in Int,
           NEW i, AddsUp(i, v, U)
    PROVE  \A s \in SUBSET U : \A x \in s : i[s] = v[x] + i[s \ {x}]
<1> DEFINE P == {s \in SUBSET U : \A x \in s : i[s] = v[x] + i[s \ {x}]}
<1>0. \A s \in SUBSET U : i[s] \in Int
  BY SumsAgree
<1>1. ASSUME NEW s \in SUBSET U, \A x \in s : s \ {x} \in P PROVE s \in P
  <2> SUFFICES ASSUME NEW x \in s PROVE i[s] = v[x] + i[s \ {x}]
    OBVIOUS
  <2> DEFINE c == CHOOSE c \in s : TRUE
  <2>1. c \in s
    OBVIOUS
  <2>2. i[s] = v[c] + i[s \ {c}]
    BY DEF AddsUp
  <2> HIDE DEF c
  <2>3. CASE x # c
    <3> DEFINE d == i[(s \ {x}) \ {c}]
    <3>1. (s \ {c}) \ {x} = (s \ {x}) \ {c}
      OBVIOUS
    <3>2. i[s \ {c}] = v[x] + d
      BY <1>1, <2>1, <2>3, <3>1
    <3>3. i[s \ {x}] = v[c] + d
      BY <1>1, <2>1, <2>3
    <3>4. v[x] \in Int /\ v[c] \in Int /\ d \in Int
      BY <2>1, <1>0
    <3> HIDE DEF d
    <3>5. v[c] + (v[x] + d) = v[x] + (v[c] + d)
      BY <3>4
    <3> QED BY <2>2, <3>2, <3>3, <3>5
  <2> QED BY <2>2, <2>3
<1>2. SUBSET U \subseteq P
  <2> HIDE DEF P
  <2> QED BY <1>1, SubsetInduction
<1> QED BY <1>2

\* Total is that sum.
LEMMA TotalProperties ==
    ASSUME NEW U, IsFiniteSet(U), NEW v, \A x \in U : v[x] \in Int
    PROVE  /\ Total(v, {}) = 0
           /\ \A s \in SUBSET U :
                 /\ Total(v, s) \in Int
                 /\ \A x \in s : Total(v, s) = v[x] + Total(v, s \ {x})
<1>1. PICK i : AddsUp(i, v, U)
  BY TotalAddsUp
<1>2. ASSUME NEW s \in SUBSET U PROVE Total(v, s) = i[s] /\ i[s] \in Int
  <2>1. IsFiniteSet(s) /\ \A x \in s : v[x] \in Int
    BY FS_Subset
  <2>2. PICK j : AddsUp(j, v, s) /\ Total(v, s) = j[s]
    BY <2>1, TotalAddsUp
  <2>3. \A r \in SUBSET s : i[r] = j[r] /\ i[r] \in Int
    BY <1>1, <2>2, SumsAgree
  <2> QED BY <2>2, <2>3
<1>3. ASSUME NEW s \in SUBSET U, NEW x \in s PROVE i[s] = v[x] + i[s \ {x}]
  BY <1>1, AnyElementFirst
<1>4. i[{}] = 0
  BY <1>1 DEF AddsUp
<1>5. ASSUME NEW s \in SUBSET U, NEW x \in s
      PROVE  Total(v, s) = v[x] + Total(v, s \ {x})
  BY <1>2, <1>3
<1> QED BY <1>2, <1>4, <1>5

\* The sum depends on the values of the elements only.
LEMMA TotalOfEqual ==
    ASSUME NEW U, IsFiniteSet(U), NEW v, \A x \in U : v[x] \in Int,
           NEW w, \A x \in U : w[x] = v[x]
    PROVE  Total(w, U) = Total(v, U)
<1> DEFINE P == {s \in SUBSET U : Total(w, s) = Total(v, s)}
<1>1. /\ Total(v, {}) = 0
      /\ \A s \in SUBSET U : \A x \in s : Total(v, s) = v[x] + Total(v, s \ {x})
  BY TotalProperties
<1>2. /\ Total(w, {}) = 0
      /\ \A s \in SUBSET U : \A x \in s : Total(w, s) = w[x] + Total(w, s \ {x})
  <2>1. \A x \in U : w[x] \in Int
    OBVIOUS
  <2> QED BY <2>1, TotalProperties
<1>3. ASSUME NEW s \in SUBSET U, \A x \in s : s \ {x} \in P PROVE s \in P
  <2>1. CASE s = {}
    BY <1>1, <1>2, <2>1
  <2>2. CASE s # {}
    BY <1>1, <1>2, <1>3, <2>2
  <2> QED BY <2>1, <2>2
<1>4. SUBSET U \subseteq P
  <2> HIDE DEF P
  <2> QED BY <1>3, SubsetInduction
<1> QED BY <1>4

\* Over disjoint sets, totals add up.
LEMMA TotalOfUnion ==
    ASSUME NEW U, IsFiniteSet(U), NEW v, \A x \in U : v[x] \in Int,
           NEW S \in SUBSET U, NEW T \in SUBSET U, S \cap T = {}
    PROVE  Total(v, S \cup T) = Total(v, S) + Total(v, T)
<1> DEFINE P == {s \in SUBSET T : Total(v, S \cup s) = Total(v, S) + Total(v, s)}
<1>1. /\ Total(v, {}) = 0
      /\ \A s \in SUBSET U :
            /\ Total(v, s) \in Int
            /\ \A x \in s : Total(v, s) = v[x] + Total(v, s \ {x})
  BY TotalProperties
<1>2. ASSUME NEW s \in SUBSET T, \A x \in s : s \ {x} \in P PROVE s \in P
  <2>1. CASE s = {}
    <3>1. S \cup s = S
      BY <2>1
    <3> QED BY <1>1, <2>1, <3>1
  <2>2. CASE s # {}
    <3>1. PICK x \in s : TRUE
      BY <2>2
    <3>2. (S \cup s) \ {x} = S \cup (s \ {x})
      BY <3>1
    <3>3. Total(v, S \cup s) = v[x] + Total(v, S \cup (s \ {x}))
      BY <1>1, <3>1, <3>2
    <3>4. Total(v, S \cup (s \ {x})) = Total(v, S) + Total(v, s \ {x})
      BY <1>2, <3>1
    <3>5. Total(v, s) = v[x] + Total(v, s \ {x})
      BY <1>1, <3>1
    <3>6. /\ v[x] \in Int /\ Total(v, S) \in Int /\ Total(v, s \ {x}) \in Int
      BY <1>1, <3>1
    <3> QED BY <3>3, <3>4, <3>5, <3>6
  <2> QED BY <2>1, <2>2
<1>3. IsFiniteSet(T)
  BY FS_Subset
<1>4. SUBSET T \subseteq P
  <2> HIDE DEF P
  <2> QED BY <1>2, <1>3, SubsetInduction
<1> QED BY <1>4

\* Of natural numbers the sum is one, and grows with the set.
LEMMA TotalOfNaturals ==
    ASSUME NEW U, IsFiniteSet(U), NEW v, \A x \in U : v[x] \in Nat
    PROVE  /\ \A s \in SUBSET U : Total(v, s) \in Nat
           /\ \A s, t \in SUBSET U : s \subseteq t => Total(v, s) <= Total(v, t)
<1> DEFINE P == {s \in SUBSET U : Total(v, s) \in Nat}
<1>0. \A x \in U : v[x] \in Int
  OBVIOUS
<1>1. /\ Total(v, {}) = 0
      /\ \A s \in SUBSET U :
            /\ Total(v, s) \in Int
            /\ \A x \in s : Total(v, s) = v[x] + Total(v, s \ {x})
  BY <1>0, TotalProperties
<1>2. ASSUME NEW s \in SUBSET U, \A x \in s : s \ {x} \in P PROVE s \in P
  <2>1. CASE s = {}
    BY <1>1, <2>1
  <2>2. CASE s # {}
    <3>1. PICK x \in s : Total(v, s) = v[x] + Total(v, s \ {x})
      BY <1>1, <2>2
    <3>2. Total(v, s \ {x}) \in Nat /\ v[x] \in Nat
      BY <1>2, <3>1
    <3> QED BY <3>1, <3>2
  <2> QED BY <2>1, <2>2
<1>3. SUBSET U \subseteq P
  <2> HIDE DEF P
  <2> QED BY <1>2, SubsetInduction
<1>4. ASSUME NEW s \in SUBSET U, NEW t \in SUBSET U, s \subseteq t
      PROVE  Total(v, s) <= Total(v, t)
  <2>1. Total(v, s \cup (t \ s)) = Total(v, s) + Total(v, t \ s)
    BY <1>0, TotalOfUnion
  <2>2. s \cup (t \ s) = t
    BY <1>4
  <2>3. Total(v, s) \in Nat /\ Total(v, t \ s) \in Nat
    BY <1>3
  <2>4. Total(v, t) = Total(v, s) + Total(v, t \ s)
    BY <2>1, <2>2
  <2> HIDE DEF P
  <2> QED BY <2>3, <2>4
<1> QED BY <1>3, <1>4

=============================================================================
