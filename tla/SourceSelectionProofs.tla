----------------------- MODULE SourceSelectionProofs -----------------------
(***************************************************************************)
(* Theorems about SourceSelection for any finite sets of chains and        *)
(* unspent transactions, any values and amounts and any width of an int.   *)
(***************************************************************************)
EXTENDS SourceSelection, InductionLemmas

-----------------------------------------------------------------------------
(* Powers of two, by the number of subsets a set has.                      *)

\* A power of two is a positive number.
LEMMA PowerType ==
    ASSUME NEW n \in Nat
    PROVE  2 ^ n \in Nat \ {0}
<1>1. IsFiniteSet(1 .. n) /\ Cardinality(1 .. n) = n
  BY FS_Interval
<1>2. /\ IsFiniteSet(SUBSET (1 .. n))
      /\ Cardinality(SUBSET (1 .. n)) = 2 ^ n
  BY <1>1, FS_SUBSET
<1>3. SUBSET (1 .. n) # {}
  OBVIOUS
<1> QED BY <1>2, <1>3, FS_CardinalityType, FS_EmptySet

\* The next power of two is twice as much.
LEMMA PowerDoubles ==
    ASSUME NEW n \in Nat
    PROVE  2 ^ (n + 1) = 2 ^ n + 2 ^ n
<1> DEFINE A == SUBSET (1 .. n)
           B == {T \cup {n + 1} : T \in A}
           f == [T \in A |-> T \cup {n + 1}]
<1>1. IsFiniteSet(1 .. n) /\ Cardinality(1 .. n) = n
  BY FS_Interval
<1>2. IsFiniteSet(1 .. n + 1) /\ Cardinality(1 .. n + 1) = n + 1
  BY FS_Interval
<1>3. IsFiniteSet(A) /\ Cardinality(A) = 2 ^ n
  BY <1>1, FS_SUBSET
<1>4. Cardinality(SUBSET (1 .. n + 1)) = 2 ^ (n + 1)
  BY <1>2, FS_SUBSET
<1>5. \A T \in A : n + 1 \notin T
  OBVIOUS
<1>6. f \in Bijection(A, B)
  <2>1. f \in [A -> B]
    OBVIOUS
  <2>2. \A S, T \in A : f[S] = f[T] => S = T
    BY <1>5
  <2>3. \A S \in B : \E T \in A : f[T] = S
    OBVIOUS
  <2> HIDE DEF f
  <2>4. f \in Injection(A, B)
    BY <2>1, <2>2 DEF Injection, IsInjective
  <2>5. f \in Surjection(A, B)
    BY <2>1, <2>3 DEF Surjection
  <2> QED BY <2>4, <2>5 DEF Bijection
<1>7. IsFiniteSet(B) /\ Cardinality(B) = 2 ^ n
  BY <1>3, <1>6, FS_Bijection DEF ExistsBijection
<1>8. A \cap B = {}
  BY <1>5
<1>9. SUBSET (1 .. n + 1) = A \cup B
  <2>1. ASSUME NEW S \in SUBSET (1 .. n + 1) PROVE S \in A \cup B
    <3>1. CASE n + 1 \in S
      <4>1. S \ {n + 1} \in A /\ S = (S \ {n + 1}) \cup {n + 1}
        BY <3>1
      <4> QED BY <4>1
    <3>2. CASE n + 1 \notin S
      <4>1. S \in A
        BY <3>2
      <4> QED BY <4>1
    <3> QED BY <3>1, <3>2
  <2>2. 1 .. n \subseteq 1 .. n + 1 /\ n + 1 \in 1 .. n + 1
    OBVIOUS
  <2> QED BY <2>1, <2>2
<1>10. Cardinality(A \cup B) = Cardinality(A) + Cardinality(B) - Cardinality(A \cap B)
  BY <1>3, <1>7, FS_Union
<1> HIDE DEF A, B
<1>11. Cardinality({}) = 0 /\ 2 ^ n \in Nat
  BY FS_EmptySet, PowerType
<1>12. Cardinality(A \cup B) = 2 ^ n + 2 ^ n - 0
  BY <1>3, <1>7, <1>8, <1>10, <1>11
<1>13. Cardinality(A \cup B) = 2 ^ (n + 1)
  BY <1>4, <1>9
<1> HIDE DEF f
<1> QED BY <1>11, <1>12, <1>13

\* A number below the modulus is its own remainder.
LEMMA SmallModulus ==
    ASSUME NEW a \in Nat, NEW b \in Nat \ {0}, a < b
    PROVE  a % b = a
OBVIOUS

\* What fits into an int is kept as it is.
LEMMA WrappedType ==
    ASSUME NEW n \in Nat
    PROVE  /\ Wrapped(n) \in Int
           /\ n < 2 ^ (Bits - 1) => Wrapped(n) = n
<1> DEFINE h == 2 ^ (Bits - 1)
<1>1. Bits - 1 \in Nat /\ Bits = (Bits - 1) + 1
  BY SelectionAssumption
<1>2. h \in Nat \ {0} /\ 2 ^ Bits = h + h
  BY <1>1, PowerType, PowerDoubles
<1>3. Wrapped(n) = ((n + h) % (h + h)) - h
  BY <1>2 DEF Wrapped
<1> HIDE DEF h
<1>4. (n + h) % (h + h) \in Int
  BY <1>2
<1>5. ASSUME n < h PROVE (n + h) % (h + h) = n + h
  BY <1>2, <1>5, SmallModulus
<1>6. ASSUME n < h PROVE Wrapped(n) = n
  BY <1>2, <1>3, <1>5, <1>6
<1> QED BY <1>2, <1>3, <1>4, <1>6 DEF h

-----------------------------------------------------------------------------
(* What the search is about.                                               *)

\* The transactions there are to spend before any is spent.
Base == Unspent \cup (IF received THEN {Late} ELSE {})

\* The search only combines transactions there are, and the store has those
\* that were not spent and the remainder.
FromBase ==
    /\ value \in [Transaction -> Nat]
    /\ required \in [Transaction -> SUBSET Chain]
    /\ amount \in Amounts
    /\ received \in BOOLEAN
    /\ pc \in {"start", "group", "first", "round", "spend", "rest", "paid",
               "refused"}
    /\ unspent = (IF pc \in {"rest", "paid"} THEN Base \ bestTuple ELSE Base)
                     \cup (IF value[Rest] > 0 THEN {Rest} ELSE {})
    /\ pc # "paid" => value[Rest] = 0
    /\ candidates \subseteq SUBSET Base
    /\ bestTuple \in SUBSET Base
    /\ currentRound \subseteq SUBSET Base
    /\ nextRound \subseteq SUBSET Base
    /\ todo \subseteq IF pc = "round" THEN (SUBSET Base) \X (SUBSET Base)
                                      ELSE SUBSET Base

BestKnown ==
    /\ currentBest \in 0 .. Unbounded
    /\ previousBest \in 0 .. Unbounded
    /\ bestTuple # {} => currentBest = Cost(bestTuple)
    /\ bestTuple # {} => Amount(bestTuple) >= amount
    /\ pc \in {"rest", "paid"} => bestTuple # {}

FewRounds ==
    /\ IsFiniteSet(candidates)
    /\ Cardinality(candidates) <= Cardinality(Unspent) + 1
    /\ round \in 0 .. Cardinality(Unspent) + 1
    /\ pc \in {"start", "group", "first"} => round = 0
    /\ pc = "round" => round < RoundCount

\* The sources the search starts from are finitely many.
LEMMA BaseIsFinite ==
    ASSUME FromBase
    PROVE  /\ IsFiniteSet(Transaction) /\ IsFiniteSet(Unspent \cup {Late})
           /\ Base \subseteq Unspent \cup {Late}
           /\ Unspent \cup {Late} \subseteq Transaction
           /\ Rest \in Transaction /\ Rest \notin Unspent \cup {Late}
<1>1. IsFiniteSet(Unspent \cup {Late})
  BY SelectionAssumption, FS_AddElement
<1>2. IsFiniteSet((Unspent \cup {Late}) \cup {Rest})
  BY <1>1, FS_AddElement
<1>3. Transaction = (Unspent \cup {Late}) \cup {Rest}
  BY DEF Transaction
<1> QED BY <1>1, <1>2, <1>3, SelectionAssumption DEF Base

\* A tuple costs no more than all chains.
LEMMA CostType ==
    ASSUME FromBase, NEW tuple \in SUBSET Base
    PROVE  Cost(tuple) \in 0 .. Cardinality(Chain)
<1>1. Chains(tuple) \in SUBSET Chain
  BY BaseIsFinite DEF Chains, FromBase
<1>2. IsFiniteSet(Chain)
  BY SelectionAssumption
<1> QED BY <1>1, <1>2, FS_Subset, FS_CardinalityType DEF Cost

\* The worth of a tuple is the sum over its transactions.
LEMMA WorthIsTotal ==
    \A tuple : Worth(tuple) = Total(value, tuple)
BY DEF Worth, Total

\* And so it is after a step.
LEMMA NextWorthIsTotal ==
    \A tuple : Worth(tuple)' = Total(value', tuple)
BY DEF Worth, Total, MapThenSumSet, MapThenFoldSet

\* Worth, cost and amount change with values and requirements only.
LEMMA SameWorth ==
    ASSUME UNCHANGED <<value, required>>
    PROVE  \A tuple : /\ Worth(tuple)' = Worth(tuple)
                      /\ Cost(tuple)' = Cost(tuple)
                      /\ Amount(tuple)' = Amount(tuple)
BY WorthIsTotal, NextWorthIsTotal DEF Amount, Cost, Chains

\* Worth adds up over disjoint tuples and grows with them.
LEMMA WorthType ==
    ASSUME FromBase
    PROVE  /\ Worth({}) = 0
           /\ \A s \in SUBSET Transaction : Worth(s) \in Nat
           /\ \A s, t \in SUBSET Transaction :
                 /\ s \subseteq t => Worth(s) <= Worth(t)
                 /\ s \cap t = {} => Worth(s \cup t) = Worth(s) + Worth(t)
           /\ \A t \in Transaction : Worth({t}) = value[t]
<1>1. IsFiniteSet(Transaction) /\ \A t \in Transaction : value[t] \in Nat
  BY BaseIsFinite DEF FromBase
<1>2. \A t \in Transaction : value[t] \in Int
  BY <1>1
<1>3. /\ Total(value, {}) = 0
      /\ \A s \in SUBSET Transaction : \A t \in s :
            Total(value, s) = value[t] + Total(value, s \ {t})
  BY <1>1, <1>2, TotalProperties
<1>4. \A s \in SUBSET Transaction : Total(value, s) \in Nat
  BY <1>1, TotalOfNaturals
<1>5. ASSUME NEW s \in SUBSET Transaction, NEW t \in SUBSET Transaction,
             s \subseteq t
      PROVE  Total(value, s) <= Total(value, t)
  BY <1>1, <1>5, TotalOfNaturals
<1>6. ASSUME NEW s \in SUBSET Transaction, NEW t \in SUBSET Transaction,
             s \cap t = {}
      PROVE  Total(value, s \cup t) = Total(value, s) + Total(value, t)
  BY <1>1, <1>2, <1>6, TotalOfUnion
<1>7. ASSUME NEW t \in Transaction PROVE Total(value, {t}) = value[t]
  <2>1. {t} \in SUBSET Transaction /\ t \in {t} /\ {t} \ {t} = {}
    OBVIOUS
  <2>2. Total(value, {t}) = value[t] + Total(value, {})
    BY <1>3, <2>1
  <2> QED BY <1>2, <1>3, <2>2
<1> QED BY <1>3, <1>4, <1>5, <1>6, <1>7, WorthIsTotal

-----------------------------------------------------------------------------
(* The search stays within the transactions there are.                     *)

\* The search begins with the unspent transactions there are.
LEMMA InitFromBase ==
    ASSUME Init
    PROVE  FromBase
<1>1. value \in [Transaction -> Nat]
  <2>1. PICK v \in [Unspent \cup {Late} -> Values] :
            value = [t \in Transaction |-> IF t = Rest THEN 0 ELSE v[t]]
    BY DEF Init
  <2>2. \A t \in Unspent \cup {Late} : v[t] \in Nat
    BY SelectionAssumption
  <2> QED BY <2>1, <2>2 DEF Transaction
<1>2. required \in [Transaction -> SUBSET Chain]
  BY DEF Init, Transaction
<1>3. value[Rest] = 0
  BY DEF Init, Transaction
<1>4. unspent = Base /\ bestTuple = {} /\ candidates = {}
  BY DEF Init, Base
<1>5. /\ amount \in Amounts /\ received = FALSE /\ pc = "start"
      /\ currentRound = {} /\ nextRound = {} /\ todo = {}
  BY DEF Init
<1>6. unspent = (IF pc \in {"rest", "paid"} THEN Base \ bestTuple ELSE Base)
                    \cup (IF value[Rest] > 0 THEN {Rest} ELSE {})
  BY <1>3, <1>4, <1>5
<1> QED BY <1>1, <1>2, <1>3, <1>4, <1>5, <1>6 DEF FromBase

\* Cleaning only removes tuples.
LEMMA CleanIsSubset ==
    \A tuples, previous : Clean(tuples, previous) \subseteq tuples
BY DEF Clean

\* Pairs are made of the tuples there are.
LEMMA PairsOf ==
    ASSUME NEW S, NEW base \in SUBSET S, NEW current \in SUBSET S
    PROVE  Pairs(base, current) \subseteq S \X S
BY DEF Pairs

\* Every step has values and requirements from those there were.
LEMMA StepFromBase ==
    ASSUME FromBase, [Next]_vars
    PROVE  FromBase'
<1>1. CASE Receive
  <2>1. /\ ~received /\ received' /\ pc # "paid" /\ unspent' = unspent \cup {Late}
        /\ UNCHANGED <<inputs, pc, search>>
    BY <1>1 DEF Receive, AddUnspent
  <2>2. value[Rest] = 0 /\ value' = value /\ bestTuple' = bestTuple
    BY <2>1 DEF FromBase, inputs, search
  <2>3. Base = Unspent /\ Base' = Base \cup {Late} /\ Late \notin Base
    BY <2>1, SelectionAssumption DEF Base
  <2>4. unspent = (IF pc \in {"rest", "paid"} THEN Base \ bestTuple ELSE Base)
    BY <2>2 DEF FromBase
  <2>5. bestTuple \in SUBSET Base
    BY DEF FromBase
  <2>6. unspent' = (IF pc \in {"rest", "paid"} THEN Base' \ bestTuple ELSE Base')
    BY <2>1, <2>3, <2>4, <2>5
  <2>7. SUBSET Base \subseteq SUBSET (Base')
    BY <2>3
  <2>8. (SUBSET Base) \X (SUBSET Base) \subseteq (SUBSET (Base')) \X (SUBSET (Base'))
    BY <2>7
  <2>9. todo' \subseteq IF pc = "round" THEN (SUBSET (Base')) \X (SUBSET (Base'))
                                        ELSE SUBSET (Base')
    BY <2>1, <2>7, <2>8 DEF FromBase, search
  <2>10. /\ candidates' \subseteq SUBSET (Base') /\ bestTuple' \in SUBSET (Base')
         /\ currentRound' \subseteq SUBSET (Base')
         /\ nextRound' \subseteq SUBSET (Base')
    BY <2>1, <2>7 DEF FromBase, search
  <2> QED BY <2>1, <2>2, <2>6, <2>9, <2>10 DEF FromBase, inputs
<1>2. CASE CheckMoney
  BY <1>2 DEF CheckMoney, FromBase, Base, inputs, store, search
<1>3. CASE Group
  <2>1. unspent = Base
    BY <1>3 DEF Group, FromBase
  <2>2. Base' = Base
    BY <1>3 DEF Group, Base, store
  <2>3. candidates' \subseteq SUBSET Base
    BY <1>3, <2>1 DEF Group
  <2> QED BY <1>3, <2>2, <2>3 DEF Group, FromBase, inputs, store
<1>4. CASE VisitGroup
  <2>1. Base' = Base /\ pc' = pc /\ pc = "first"
    BY <1>4 DEF VisitGroup, Base, store
  <2>2. todo' \subseteq todo /\ candidates' \subseteq candidates
    BY <1>4 DEF VisitGroup
  <2>3. bestTuple' \in SUBSET Base
    BY <1>4, <2>1 DEF VisitGroup, FromBase, SameBest, Best
  <2> QED BY <1>4, <2>1, <2>2, <2>3 DEF VisitGroup, FromBase, inputs, store
<1>5. CASE EndFirstRound
  <2>1. /\ Base' = Base /\ bestTuple' = bestTuple /\ nextRound' = nextRound
        /\ UNCHANGED <<inputs, store>>
        /\ pc = "first" /\ todo = {}
    BY <1>5 DEF EndFirstRound, Base, store
  <2>2. PICK left : /\ left = Clean(candidates, Unbounded)
                    /\ candidates' = left
                    /\ \/ pc' = "spend" /\ UNCHANGED <<currentRound, todo>>
                       \/ /\ pc' = "round" /\ currentRound' = left
                          /\ todo' = Pairs(left, left)
    BY <1>5 DEF EndFirstRound
  <2>3. left \in SUBSET (SUBSET Base)
    BY <2>2, CleanIsSubset DEF FromBase
  <2>4. Pairs(left, left) \subseteq (SUBSET Base) \X (SUBSET Base)
    BY <2>3, PairsOf
  <2> QED BY <2>1, <2>2, <2>3, <2>4 DEF FromBase, inputs, store
<1>6. CASE Combine
  <2>1. /\ Base' = Base /\ pc' = pc /\ pc = "round"
        /\ UNCHANGED <<inputs, store, candidates, currentRound>>
    BY <1>6 DEF Combine, Base, store
  <2>2. PICK pair \in NextPairs :
            /\ todo' = todo \ {pair}
            /\ bestTuple' \in {bestTuple, pair[1] \cup pair[2]}
            /\ nextRound' \subseteq nextRound \cup {pair[1] \cup pair[2]}
    BY <1>6 DEF Combine, SameBest, Best
  <2>3. pair \in (SUBSET Base) \X (SUBSET Base)
    BY <2>1 DEF NextPairs, FromBase
  <2>4. pair[1] \cup pair[2] \in SUBSET Base
    BY <2>3
  <2> QED BY <2>1, <2>2, <2>4 DEF FromBase, inputs, store
<1>7. CASE EndRound
  <2>1. /\ Base' = Base /\ pc = "round" /\ todo = {}
        /\ UNCHANGED <<inputs, store, candidates, bestTuple>>
    BY <1>7 DEF EndRound, Base, store
  <2>2. CASE pc' = "spend" /\ UNCHANGED <<currentRound, nextRound, todo>>
    BY <2>1, <2>2 DEF FromBase, inputs, store
  <2>3. CASE /\ currentRound' = Clean(nextRound, previousBest)
             /\ todo' = Pairs(candidates, currentRound')
             /\ nextRound' = {} /\ pc' = pc
    <3>1. currentRound' \in SUBSET (SUBSET Base)
      BY <2>3, CleanIsSubset DEF FromBase
    <3>2. candidates \in SUBSET (SUBSET Base)
      BY DEF FromBase
    <3>3. todo' \subseteq (SUBSET Base) \X (SUBSET Base)
      BY <2>3, <3>1, <3>2, PairsOf
    <3> QED BY <2>1, <2>3, <3>1, <3>3 DEF FromBase, inputs, store
  <2> QED BY <1>7, <2>2, <2>3 DEF EndRound
<1>8. CASE Spend
  <2>1. /\ Base' = Base /\ pc = "spend" /\ pc' = "rest"
        /\ unspent' = unspent \ bestTuple
        /\ UNCHANGED <<inputs, received, search>>
    BY <1>8 DEF Spend, RemoveUnspent, Base
  <2>2. unspent = Base /\ value[Rest] = 0
    BY <2>1 DEF FromBase
  <2> QED BY <2>1, <2>2 DEF FromBase, inputs, search
<1>9. CASE Refuse
  BY <1>9 DEF Refuse, FromBase, Base, inputs, store, search
<1>10. CASE AddRemainder
  <2>1. /\ Base' = Base /\ pc = "rest" /\ pc' = "paid"
        /\ UNCHANGED <<required, amount, received, search>>
    BY <1>10 DEF AddRemainder, Base
  <2>2. unspent = Base \ bestTuple /\ value[Rest] = 0
    BY <2>1 DEF FromBase
  <2>3. Remainder \in Int
    <3>1. Worth(bestTuple) \in Nat
      BY WorthType, BaseIsFinite DEF FromBase
    <3>2. Amount(bestTuple) \in Int
      BY <3>1, WrappedType DEF Amount
    <3>3. amount \in Nat
      BY SelectionAssumption DEF FromBase
    <3> QED BY <3>2, <3>3 DEF Remainder
  <2>4. /\ value' \in [Transaction -> Nat]
        /\ unspent' = (Base \ bestTuple)
                          \cup (IF value'[Rest] > 0 THEN {Rest} ELSE {})
    <3>1. CASE Remainder > 0
      <4>1. /\ unspent' = unspent \cup {Rest}
            /\ value' = [value EXCEPT ![Rest] = Remainder]
        BY <1>10, <3>1 DEF AddRemainder, AddUnspent
      <4>2. Rest \in Transaction
        BY DEF Transaction
      <4> QED BY <2>2, <2>3, <3>1, <4>1, <4>2 DEF FromBase
    <3>2. CASE ~ Remainder > 0
      BY <1>10, <2>2, <3>2 DEF AddRemainder, FromBase
    <3> QED BY <3>1, <3>2
  <2> QED BY <2>1, <2>4 DEF FromBase, search
<1>11. CASE UNCHANGED vars
  BY <1>11 DEF vars, FromBase, Base, inputs, store, search
<1> QED BY <1>1, <1>2, <1>3, <1>4, <1>5, <1>6, <1>7, <1>8, <1>9, <1>10, <1>11
        DEF Next

-----------------------------------------------------------------------------
(* The best combination so far, and the number of rounds.                  *)

\* The cost to beat at the beginning is a number.
LEMMA UnboundedType == Unbounded \in Nat /\ IsFiniteSet(Unspent)
BY SelectionAssumption, FS_CardinalityType DEF Unbounded

\* There is no best tuple at the beginning.
LEMMA InitBest ==
    ASSUME Init
    PROVE  BestKnown /\ FewRounds
<1>1. Unbounded \in Nat /\ Cardinality(Unspent) \in Nat
  BY UnboundedType, FS_CardinalityType
<1>2. BestKnown
  BY <1>1 DEF Init, BestKnown
<1>3. IsFiniteSet({}) /\ Cardinality({}) = 0
  BY FS_EmptySet
<1>4. candidates = {} /\ pc = "start" /\ round = 0
  BY DEF Init
<1> QED BY <1>1, <1>2, <1>3, <1>4 DEF FewRounds

\* A step that looks at a combination keeps the best or takes this one.
LEMMA VisitBest ==
    ASSUME FromBase, BestKnown, NEW tuple \in SUBSET Base,
           \/ SameBest
           \/ /\ Cost(tuple) < currentBest /\ Amount(tuple) >= amount
              /\ Best(tuple),
           pc \notin {"rest", "paid"}, UNCHANGED <<inputs, pc, previousBest>>
    PROVE  BestKnown'
<1>1. Cost(tuple) \in Nat /\ Unbounded \in Nat
  BY CostType, UnboundedType, SelectionAssumption, FS_CardinalityType
<1>2. UNCHANGED <<value, required, amount, pc, previousBest>>
  BY DEF inputs
<1>3. \A t : Cost(t)' = Cost(t) /\ Amount(t)' = Amount(t)
  BY <1>2, SameWorth
<1>4. CASE SameBest
  BY <1>2, <1>3, <1>4 DEF SameBest, BestKnown, Unbounded
<1>5. CASE /\ Cost(tuple) < currentBest /\ Amount(tuple) >= amount
           /\ Best(tuple)
  <2>1. currentBest' = Cost(tuple) /\ bestTuple' = tuple
    BY <1>5 DEF Best
  <2>2. currentBest' \in 0 .. Unbounded
    BY <1>1, <1>5, <2>1 DEF BestKnown
  <2> QED BY <1>2, <1>3, <1>5, <2>1, <2>2 DEF BestKnown, Unbounded
<1> QED BY <1>4, <1>5

\* A step that looks at no combination.
LEMMA SameBestKnown ==
    ASSUME BestKnown, UNCHANGED <<value, required, amount, currentBest, bestTuple>>,
           previousBest' \in {previousBest, currentBest},
           pc' \in {"rest", "paid"} => pc \in {"rest", "paid"} \/ bestTuple # {}
    PROVE  BestKnown'
<1>1. \A t : Cost(t)' = Cost(t) /\ Amount(t)' = Amount(t)
  BY SameWorth
<1> QED BY <1>1 DEF BestKnown, Unbounded

\* Every step keeps the best cost that of the best tuple.
LEMMA StepBest ==
    ASSUME FromBase, BestKnown, [Next]_vars
    PROVE  BestKnown'
<1>1. CASE VisitGroup
  <2>1. PICK tuple \in todo :
            \/ SameBest
            \/ /\ Cost(tuple) < currentBest /\ Amount(tuple) >= amount
               /\ Best(tuple)
    BY <1>1 DEF VisitGroup
  <2>2. tuple \in SUBSET Base /\ pc = "first"
    BY <1>1 DEF VisitGroup, FromBase
  <2>3. UNCHANGED <<inputs, pc, previousBest>>
    BY <1>1 DEF VisitGroup
  <2> QED BY <2>1, <2>2, <2>3, VisitBest
<1>2. CASE Combine
  <2>1. pc = "round" /\ UNCHANGED <<inputs, pc, previousBest>>
    BY <1>2 DEF Combine
  <2>2. PICK pair \in NextPairs :
            \/ SameBest
            \/ /\ Cost(pair[1] \cup pair[2]) < currentBest
               /\ Amount(pair[1] \cup pair[2]) >= amount
               /\ Best(pair[1] \cup pair[2])
    BY <1>2 DEF Combine
  <2>3. pair \in (SUBSET Base) \X (SUBSET Base)
    BY <2>1 DEF NextPairs, FromBase
  <2>4. pair[1] \cup pair[2] \in SUBSET Base
    BY <2>3
  <2> QED BY <2>1, <2>2, <2>4, VisitBest
<1>3. CASE Receive
  BY <1>3, SameBestKnown DEF Receive, inputs, search
<1>4. CASE CheckMoney
  BY <1>4, SameBestKnown DEF CheckMoney, inputs, search
<1>5. CASE Group
  BY <1>5, SameBestKnown DEF Group, inputs
<1>6. CASE EndFirstRound
  BY <1>6, SameBestKnown DEF EndFirstRound, inputs
<1>7. CASE EndRound
  BY <1>7, SameBestKnown DEF EndRound, inputs
<1>8. CASE Spend
  BY <1>8, SameBestKnown DEF Spend, inputs, search
<1>9. CASE Refuse
  BY <1>9, SameBestKnown DEF Refuse, inputs, search
<1>10. CASE AddRemainder
  <2>1. /\ pc = "rest" /\ pc' = "paid"
        /\ UNCHANGED <<required, amount, bestTuple, currentBest, previousBest>>
    BY <1>10 DEF AddRemainder, search
  <2>2. \A t \in Unspent \cup {Late} : value'[t] = value[t]
    BY <1>10, BaseIsFinite DEF AddRemainder, FromBase
  <2>3. Worth(bestTuple)' = Worth(bestTuple)
    <3>1. /\ IsFiniteSet(bestTuple)
          /\ \A t \in bestTuple : value[t] \in Int /\ value'[t] = value[t]
      BY <2>2, BaseIsFinite, FS_Subset DEF FromBase
    <3>2. Total(value', bestTuple) = Total(value, bestTuple)
      BY <3>1, TotalOfEqual
    <3> QED BY <2>1, <3>2, WorthIsTotal, NextWorthIsTotal
  <2>4. /\ Cost(bestTuple)' = Cost(bestTuple)
        /\ Amount(bestTuple)' = Amount(bestTuple)
    BY <2>1, <2>3 DEF Amount, Cost, Chains
  <2> QED BY <2>1, <2>4 DEF BestKnown, Unbounded
<1>11. CASE UNCHANGED vars
  BY <1>11, SameBestKnown DEF vars, inputs, search
<1> QED BY <1>1, <1>2, <1>3, <1>4, <1>5, <1>6, <1>7, <1>8, <1>9, <1>10, <1>11
        DEF Next

\* A step that neither groups nor combines.
LEMMA SameRounds ==
    ASSUME FewRounds, UNCHANGED <<candidates, round>>,
           \/ pc' \in {pc, "refused", "rest", "paid"}
           \/ pc = "start" /\ pc' = "group"
    PROVE  FewRounds'
BY DEF FewRounds, RoundCount

\* Every step leaves no more rounds than there are groups.
LEMMA StepRounds ==
    ASSUME FromBase, FewRounds, [Next]_vars
    PROVE  FewRounds'
<1>1. CASE Group
  <2> DEFINE group(u) == {t \in unspent : required[t] = required[u]}
             f == [u \in unspent |-> group(u)]
  <2>1. candidates' = {group(u) : u \in unspent} /\ pc = "group" /\ pc' = "first"
        /\ round' = round
    BY <1>1 DEF Group
  <2>2. unspent \in SUBSET (Unspent \cup {Late})
    BY <2>1 DEF FromBase, Base
  <2>3. f \in Surjection(unspent, candidates')
    BY <2>1 DEF Surjection
  <2>4. IsFiniteSet(Unspent)
        /\ IsFiniteSet(Unspent \cup {Late})
        /\ Cardinality(Unspent \cup {Late}) = Cardinality(Unspent) + 1
    BY SelectionAssumption, FS_AddElement
  <2>5. /\ IsFiniteSet(unspent)
        /\ Cardinality(unspent) <= Cardinality(Unspent) + 1
    BY <2>2, <2>4, FS_Subset
  <2>6. /\ IsFiniteSet(candidates')
        /\ Cardinality(candidates') <= Cardinality(unspent)
    BY <2>3, <2>5, FS_Surjection
  <2>7. /\ Cardinality(unspent) \in Nat /\ Cardinality(candidates') \in Nat
        /\ Cardinality(Unspent) \in Nat
    BY <2>4, <2>5, <2>6, FS_CardinalityType
  <2>8. Cardinality(candidates') <= Cardinality(Unspent) + 1
    BY <2>5, <2>6, <2>7
  <2> QED BY <2>1, <2>6, <2>8 DEF FewRounds
<1>2. CASE VisitGroup
  <2>1. pc = "first" /\ UNCHANGED <<pc, round>> /\ candidates' \in SUBSET candidates
    BY <1>2 DEF VisitGroup
  <2>2. /\ IsFiniteSet(candidates')
        /\ Cardinality(candidates') <= Cardinality(candidates)
    BY <2>1, FS_Subset DEF FewRounds
  <2>3. Cardinality(candidates') \in Nat /\ Cardinality(candidates) \in Nat
    BY <2>2, FS_CardinalityType DEF FewRounds
  <2>4. Cardinality(Unspent) \in Nat
    BY UnboundedType, FS_CardinalityType
  <2> QED BY <2>1, <2>2, <2>3, <2>4 DEF FewRounds
<1>3. CASE EndFirstRound
  <2>1. PICK left : /\ left = Clean(candidates, Unbounded)
                    /\ candidates' = left
                    /\ IF Cardinality(left) <= 1 THEN pc' = "spend"
                                                 ELSE pc' = "round"
    BY <1>3 DEF EndFirstRound
  <2>2. pc = "first" /\ round' = round /\ round = 0
    BY <1>3 DEF EndFirstRound, FewRounds
  <2>3. left \in SUBSET candidates
    BY <2>1, CleanIsSubset
  <2>4. IsFiniteSet(left) /\ Cardinality(left) <= Cardinality(candidates)
    BY <2>3, FS_Subset DEF FewRounds
  <2>5. Cardinality(left) \in Nat /\ Cardinality(candidates) \in Nat
    BY <2>4, FS_CardinalityType DEF FewRounds
  <2>6. Cardinality(Unspent) \in Nat
    BY UnboundedType, FS_CardinalityType
  <2>7. pc' = "round" => round' < RoundCount'
    BY <2>1, <2>2, <2>5 DEF RoundCount
  <2> QED BY <2>1, <2>2, <2>4, <2>5, <2>6, <2>7 DEF FewRounds
<1>4. CASE EndRound
  <2>1. /\ pc = "round" /\ round' = round + 1 /\ candidates' = candidates
        /\ \/ pc' = "spend"
           \/ pc' = "round" /\ ~ (round + 1 >= RoundCount)
    BY <1>4 DEF EndRound
  <2>2. Cardinality(candidates) \in Nat /\ Cardinality(Unspent) \in Nat
    BY UnboundedType, FS_CardinalityType DEF FewRounds
  <2> QED BY <2>1, <2>2 DEF FewRounds, RoundCount
<1>5. CASE Combine
  BY <1>5 DEF Combine, FewRounds, RoundCount
<1>7. CASE Receive
  BY <1>7, SameRounds DEF Receive, search
<1>8. CASE CheckMoney
  BY <1>8, SameRounds DEF CheckMoney, search
<1>9. CASE Spend
  BY <1>9, SameRounds DEF Spend, search
<1>10. CASE Refuse
  BY <1>10, SameRounds DEF Refuse, search
<1>11. CASE AddRemainder
  BY <1>11, SameRounds DEF AddRemainder, search
<1>12. CASE UNCHANGED vars
  BY <1>12, SameRounds DEF vars, search
<1> QED BY <1>1, <1>2, <1>3, <1>4, <1>5, <1>7, <1>8, <1>9, <1>10, <1>11, <1>12
        DEF Next

-----------------------------------------------------------------------------
(* The balance.                                                            *)

Balanced == availableMoney = Worth(unspent)

\* What was paid: the difference of the sources and the remainder.
Paid ==
    pc = "paid" =>
        value[Rest] = (IF Remainder > 0 THEN Remainder ELSE 0)

SInv ==
    /\ FromBase
    /\ BestKnown
    /\ FewRounds
    /\ Balanced
    /\ Paid

\* Unspent and best transactions are transactions.
LEMMA UnspentType ==
    ASSUME FromBase
    PROVE  /\ unspent \in SUBSET Transaction
           /\ Base \in SUBSET Transaction /\ Rest \notin Base
           /\ bestTuple \in SUBSET Transaction
BY BaseIsFinite DEF FromBase

\* The remainder is a number.
LEMMA RemainderType ==
    ASSUME FromBase
    PROVE  Remainder \in Int
<1>1. Worth(bestTuple) \in Nat
  BY WorthType, UnspentType
<1>2. Amount(bestTuple) \in Int
  BY <1>1, WrappedType DEF Amount
<1>3. amount \in Nat
  BY SelectionAssumption DEF FromBase
<1> QED BY <1>2, <1>3 DEF Remainder

\* Balance is about values, unspent transactions and money.
LEMMA SameBalance ==
    ASSUME Balanced, UNCHANGED <<value, unspent, availableMoney>>
    PROVE  Balanced'
BY WorthIsTotal, NextWorthIsTotal DEF Balanced

\* Every step keeps the money equal to the unspent transactions.
LEMMA StepBalanced ==
    ASSUME FromBase, Balanced, [Next]_vars
    PROVE  Balanced'
<1>1. CASE Receive
  <2>1. /\ ~received /\ pc # "paid" /\ value' = value
        /\ unspent' = unspent \cup {Late}
        /\ availableMoney' = availableMoney + value[Late]
    BY <1>1 DEF Receive, AddUnspent, inputs
  <2>2. Late \notin unspent /\ {Late} \in SUBSET Transaction
    <3>1. Late \notin Base /\ Late # Rest
      BY <2>1, SelectionAssumption DEF Base
    <3> QED BY <3>1 DEF FromBase, Transaction
  <2>3. Worth(unspent \cup {Late}) = Worth(unspent) + Worth({Late})
    BY <2>2, UnspentType, WorthType
  <2>4. Worth({Late}) = value[Late]
    BY <2>2, WorthType
  <2>5. Worth(unspent)' = Worth(unspent \cup {Late})
    BY <2>1, NextWorthIsTotal, WorthIsTotal
  <2> QED BY <2>1, <2>3, <2>4, <2>5 DEF Balanced
<1>2. CASE Spend
  <2>1. /\ pc = "spend" /\ value' = value
        /\ unspent' = unspent \ bestTuple
        /\ availableMoney' = availableMoney - Worth(bestTuple)
    BY <1>2 DEF Spend, RemoveUnspent, inputs
  <2>2. bestTuple \subseteq unspent
    BY <2>1 DEF FromBase
  <2>3. (unspent \ bestTuple) \cap bestTuple = {}
        /\ (unspent \ bestTuple) \cup bestTuple = unspent
    BY <2>2
  <2>4. Worth(unspent) = Worth(unspent \ bestTuple) + Worth(bestTuple)
    BY <2>3, UnspentType, WorthType
  <2>5. Worth(unspent \ bestTuple) \in Nat /\ Worth(bestTuple) \in Nat
    BY UnspentType, WorthType
  <2>6. Worth(unspent)' = Worth(unspent \ bestTuple)
    BY <2>1, NextWorthIsTotal, WorthIsTotal
  <2>7. availableMoney' = Worth(unspent \ bestTuple)
    BY <2>1, <2>4, <2>5 DEF Balanced
  <2> QED BY <2>6, <2>7 DEF Balanced
<1>3. CASE AddRemainder
  <2>1. pc = "rest" /\ Rest \notin unspent
    BY <1>3, UnspentType DEF AddRemainder, FromBase
  <2>2. CASE Remainder > 0
    <3>1. /\ unspent' = unspent \cup {Rest}
          /\ availableMoney' = availableMoney + Remainder
          /\ value' = [value EXCEPT ![Rest] = Remainder]
      BY <1>3, <2>2 DEF AddRemainder, AddUnspent
    <3>2. FromBase'
      BY <1>3, StepFromBase DEF Next
    <3>3. /\ IsFiniteSet(unspent)
          /\ \A t \in unspent : value[t] \in Int /\ value'[t] = value[t]
      BY <2>1, <3>1, UnspentType, BaseIsFinite, FS_Subset DEF FromBase
    <3>4. Total(value', unspent) = Total(value, unspent)
      BY <3>3, TotalOfEqual
    <3>5. /\ IsFiniteSet(Transaction)
          /\ \A t \in Transaction : value'[t] \in Int
      BY <3>2, BaseIsFinite DEF FromBase
    <3>6. /\ unspent \in SUBSET Transaction /\ {Rest} \in SUBSET Transaction
          /\ unspent \cap {Rest} = {} /\ Rest \in {Rest} /\ {Rest} \ {Rest} = {}
      BY <2>1, UnspentType, BaseIsFinite
    <3>7. Total(value', unspent \cup {Rest}) =
              Total(value', unspent) + Total(value', {Rest})
      BY <3>5, <3>6, TotalOfUnion
    <3>8. Total(value', {Rest}) = value'[Rest] + Total(value', {})
          /\ Total(value', {}) = 0
      BY <3>5, <3>6, TotalProperties
    <3>9. value'[Rest] = Remainder /\ Remainder \in Int
      BY <3>1, BaseIsFinite, RemainderType DEF FromBase
    <3>10. Total(value', {Rest}) = Remainder
      BY <3>8, <3>9
    <3>11. Worth(unspent)' = Worth(unspent) + Remainder
      BY <3>1, <3>4, <3>7, <3>10, NextWorthIsTotal, WorthIsTotal
    <3> QED BY <3>1, <3>11 DEF Balanced
  <2>3. CASE ~ Remainder > 0
    BY <1>3, <2>3, SameBalance DEF AddRemainder
  <2> QED BY <2>2, <2>3
<1>4. CASE CheckMoney
  BY <1>4, SameBalance DEF CheckMoney, inputs, store
<1>5. CASE Group
  BY <1>5, SameBalance DEF Group, inputs, store
<1>6. CASE VisitGroup
  BY <1>6, SameBalance DEF VisitGroup, inputs, store
<1>7. CASE EndFirstRound
  BY <1>7, SameBalance DEF EndFirstRound, inputs, store
<1>8. CASE Combine
  BY <1>8, SameBalance DEF Combine, inputs, store
<1>9. CASE EndRound
  BY <1>9, SameBalance DEF EndRound, inputs, store
<1>10. CASE Refuse
  BY <1>10, SameBalance DEF Refuse, inputs, store
<1>11. CASE UNCHANGED vars
  BY <1>11, SameBalance DEF vars, inputs, store
<1> QED BY <1>1, <1>2, <1>3, <1>4, <1>5, <1>6, <1>7, <1>8, <1>9, <1>10, <1>11
        DEF Next

\* Every step leaves what was paid for accounted for.
LEMMA StepPaid ==
    ASSUME FromBase, Paid, [Next]_vars
    PROVE  Paid'
<1>1. CASE AddRemainder
  <2>1. /\ pc = "rest" /\ UNCHANGED <<amount, bestTuple>>
        /\ value' = IF Remainder > 0 THEN [value EXCEPT ![Rest] = Remainder]
                                     ELSE value
    BY <1>1 DEF AddRemainder, search
  <2>2. value[Rest] = 0 /\ Rest \in DOMAIN value
    BY <2>1, BaseIsFinite DEF FromBase
  <2>3. /\ IsFiniteSet(bestTuple)
        /\ \A t \in bestTuple : value[t] \in Int /\ value'[t] = value[t]
    BY <2>1, UnspentType, BaseIsFinite, FS_Subset DEF FromBase
  <2>4. Total(value', bestTuple) = Total(value, bestTuple)
    BY <2>3, TotalOfEqual
  <2>5. Worth(bestTuple)' = Worth(bestTuple)
    BY <2>1, <2>4, WorthIsTotal, NextWorthIsTotal
  <2>6. Remainder' = Remainder
    BY <2>1, <2>5 DEF Remainder, Amount
  <2> QED BY <2>1, <2>2, <2>6 DEF Paid
<1>2. ASSUME pc' # "paid" PROVE Paid'
  BY <1>2 DEF Paid
<1>3. CASE pc = "paid" /\ ~AddRemainder
  <2>1. UNCHANGED vars
    BY <1>3 DEF Next, Receive, CheckMoney, Group, VisitGroup, EndFirstRound,
                Combine, EndRound, Spend, Refuse
  <2>2. Amount(bestTuple)' = Amount(bestTuple)
    BY <2>1, SameWorth DEF vars, inputs, search
  <2> QED BY <2>1, <2>2 DEF vars, inputs, search, Paid, Remainder
<1>4. CASE pc # "paid" /\ ~AddRemainder
  <2>1. pc' # "paid"
    BY <1>4 DEF Next, Receive, CheckMoney, Group, VisitGroup, EndFirstRound,
                Combine, EndRound, Spend, Refuse, vars
  <2> QED BY <1>2, <2>1
<1> QED BY <1>1, <1>3, <1>4

\* Both hold at the beginning.
LEMMA InitPays ==
    ASSUME Init
    PROVE  Balanced /\ Paid
BY DEF Init, Balanced, Paid

\* So the invariant of the search holds always.
LEMMA InvariantHolds ==
    Spec => []SInv
<1>1. Init => SInv
  BY InitFromBase, InitBest, InitPays DEF SInv
<1>2. SInv /\ [Next]_vars => SInv'
  BY StepFromBase, StepBest, StepRounds, StepBalanced, StepPaid DEF SInv
<1> QED BY <1>1, <1>2, PTL DEF Spec

-----------------------------------------------------------------------------
(* The theorems.                                                           *)

\* And every variable has its type where it holds.
LEMMA InvariantTypes ==
    ASSUME SInv
    PROVE  TypeOK
<1>1. FromBase /\ BestKnown /\ FewRounds /\ Balanced
  BY DEF SInv
<1>2. Base \subseteq Unspent \cup {Late}
  BY <1>1, BaseIsFinite
<1>3. SUBSET Base \subseteq Tuple
  BY <1>2 DEF Tuple
<1>4. (SUBSET Base) \X (SUBSET Base) \subseteq Tuple \X Tuple
  BY <1>3
<1>5. unspent \in SUBSET Transaction
  BY <1>1, UnspentType
<1>6. availableMoney \in Nat
  BY <1>1, <1>5, WorthType DEF Balanced
<1>7. /\ value \in [Transaction -> Nat]
      /\ required \in [Transaction -> SUBSET Chain]
      /\ amount \in Amounts
      /\ received \in BOOLEAN
      /\ pc \in {"start", "group", "first", "round", "spend", "rest", "paid",
                 "refused"}
  BY <1>1 DEF FromBase
<1>8. /\ candidates \subseteq Tuple /\ bestTuple \in Tuple
      /\ currentRound \subseteq Tuple /\ nextRound \subseteq Tuple
  BY <1>1, <1>3 DEF FromBase
<1>9. todo \subseteq IF pc = "round" THEN Tuple \X Tuple ELSE Tuple
  BY <1>1, <1>3, <1>4 DEF FromBase
<1>10. /\ currentBest \in 0 .. Unbounded /\ previousBest \in 0 .. Unbounded
       /\ bestTuple # {} => currentBest = Cost(bestTuple)
       /\ round \in 0 .. Cardinality(Unspent) + 1
  BY <1>1 DEF BestKnown, FewRounds
<1> QED BY <1>5, <1>6, <1>7, <1>8, <1>9, <1>10 DEF TypeOK

\* The types of the search: it only ever combines transactions there are, the
\* best combination goes with the number of chains it requires, and there are
\* no more rounds than unspent transactions.
THEOREM TypeCorrect ==
    Spec => []TypeOK
<1>1. SInv => TypeOK
  BY InvariantTypes
<1> QED BY <1>1, InvariantHolds, PTL

\* After a payment, what is left and what was paid are what there was.
LEMMA PaymentAddsUp ==
    ASSUME SInv, pc = "paid", Fits
    PROVE  availableMoney + amount =
               Worth(Unspent) + (IF received THEN value[Late] ELSE 0)
<1>1. FromBase /\ BestKnown /\ Balanced /\ Paid
  BY DEF SInv
<1> DEFINE all == Unspent \cup {Late}
           kept == Base \ bestTuple
<1>2. /\ Base \in SUBSET Transaction /\ bestTuple \in SUBSET Base
      /\ all \in SUBSET Transaction /\ bestTuple \in SUBSET all
      /\ Rest \notin Base /\ {Rest} \in SUBSET Transaction
      /\ Rest \in Transaction /\ Late \in Transaction
  BY <1>1, UnspentType, BaseIsFinite DEF FromBase
<1>3. Worth(bestTuple) \in Nat /\ Worth(bestTuple) < 2 ^ (Bits - 1)
  <2>1. Worth(bestTuple) <= Worth(all)
    BY <1>1, <1>2, WorthType
  <2>2. Worth(bestTuple) \in Nat /\ Worth(all) \in Nat
    BY <1>1, <1>2, WorthType
  <2>3. 2 ^ (Bits - 1) \in Nat
    BY SelectionAssumption, PowerType
  <2> QED BY <2>1, <2>2, <2>3 DEF Fits
<1>4. Amount(bestTuple) = Worth(bestTuple)
  BY <1>3, WrappedType DEF Amount
<1>5. bestTuple # {} /\ Worth(bestTuple) >= amount /\ amount \in Nat
  BY <1>1, <1>4, SelectionAssumption DEF BestKnown, FromBase
<1>6. value[Rest] = Worth(bestTuple) - amount
  BY <1>1, <1>3, <1>4, <1>5 DEF Paid, Remainder
<1>7. Worth(Base) = Worth(kept) + Worth(bestTuple)
      /\ Worth(kept) \in Nat
  <2>1. kept \cap bestTuple = {} /\ kept \cup bestTuple = Base
        /\ kept \in SUBSET Transaction /\ bestTuple \in SUBSET Transaction
    BY <1>2
  <2> QED BY <1>1, <2>1, WorthType
<1>8. Worth(unspent) = Worth(kept) + value[Rest]
  <2>1. CASE value[Rest] > 0
    <3>1. unspent = kept \cup {Rest} /\ kept \cap {Rest} = {}
          /\ kept \in SUBSET Transaction
      BY <1>1, <1>2, <2>1 DEF FromBase
    <3>2. Worth(kept \cup {Rest}) = Worth(kept) + Worth({Rest})
      BY <1>1, <1>2, <3>1, WorthType
    <3>3. Worth({Rest}) = value[Rest]
      BY <1>1, <1>2, WorthType
    <3> QED BY <3>1, <3>2, <3>3
  <2>2. CASE ~ value[Rest] > 0
    <3>1. unspent = kept
      BY <1>1, <2>2 DEF FromBase
    <3>2. value[Rest] = 0
      BY <1>1, <1>2, <2>2 DEF FromBase
    <3> QED BY <1>7, <3>1, <3>2
  <2> QED BY <2>1, <2>2
<1>9. Worth(Base) = Worth(Unspent) + (IF received THEN value[Late] ELSE 0)
  <2>1. Unspent \in SUBSET Transaction /\ {Late} \in SUBSET Transaction
        /\ Unspent \cap {Late} = {}
    BY SelectionAssumption DEF Transaction
  <2>2. Worth(Unspent \cup {Late}) = Worth(Unspent) + Worth({Late})
    BY <1>1, <2>1, WorthType
  <2>3. Worth({Late}) = value[Late]
    BY <1>1, <1>2, WorthType
  <2>4. Worth(Unspent) \in Nat
    BY <1>1, <2>1, WorthType
  <2>5. CASE received
    <3>1. Base = Unspent \cup {Late}
      BY <2>5 DEF Base
    <3> QED BY <2>2, <2>3, <2>5, <3>1
  <2>6. CASE ~received
    <3>1. Base = Unspent
      BY <2>6 DEF Base
    <3> QED BY <2>4, <2>6, <3>1
  <2> QED BY <2>5, <2>6
<1> HIDE DEF kept, all
<1>10. availableMoney = Worth(kept) + (Worth(bestTuple) - amount)
  BY <1>1, <1>6, <1>8 DEF Balanced
<1>11. availableMoney + amount = Worth(Base)
  BY <1>3, <1>5, <1>7, <1>10
<1> QED BY <1>9, <1>11

\* LocalStore's balance is the worth of the unspent transactions at every
\* moment, and a payment changes the money of the node by its amount, with a
\* transaction of another node received in between or not, as long as all the
\* money fits into the int of TransactionTuple.
THEOREM MoneyIsConserved ==
    Spec => []MoneyConserved
<1>1. SInv => MoneyConserved
  <2>1. SInv => availableMoney = Worth(unspent)
    BY DEF SInv, Balanced
  <2> QED BY <2>1, PaymentAddsUp DEF MoneyConserved
<1> QED BY <1>1, InvariantHolds, PTL

-----------------------------------------------------------------------------
(* The search finds the cheapest sources.                                  *)

\* Groups are disjoint, and the transactions of a group require the same.
Apart(C) ==
    \A g \in C :
        /\ g # {}
        /\ \A t, u \in g : required[t] = required[u]
        /\ \A h \in C : g # h => g \cap h = {}

\* A transaction without a group requires too many chains.
NoneIsLost ==
    pc \in {"first", "round"} =>
        \A u \in Unspent :
            Cardinality(required[u]) < currentBest => \E g \in candidates : u \in g

\* Groups that were visited and kept do not cover the amount.
VisitedFallShort ==
    /\ pc = "first" => \A g \in candidates : g \in todo \/ Worth(g) < amount
    /\ pc \in {"start", "group", "first"} => nextRound = {}

\* Up to n groups that require fewer chains than the best do not cover it.
TooLittle(n) ==
    \A S \in SUBSET candidates :
        Cardinality(S) <= n /\ Cost(UNION S) < currentBest => Worth(UNION S) < amount

\* Rounds combine more and more groups: the last round left the combinations
\* of round + 1 groups that may still be improved, this one makes those of
\* one group more.
EachCombination ==
    pc = "round" =>
        /\ TooLittle(round + 1)
        /\ \A S \in SUBSET candidates :
              Cardinality(S) = round + 1 /\ Cost(UNION S) < currentBest =>
                  UNION S \in currentRound
        /\ \A S \in SUBSET candidates :
              Cardinality(S) = round + 2 /\ Cost(UNION S) < currentBest =>
                  \/ UNION S \in nextRound
                  \/ \E pair \in todo : pair[1] \cup pair[2] = UNION S
        /\ \A tuple \in nextRound : Worth(tuple) < amount

\* What covers the amount is not cheaper than the best.
NothingCheaper ==
    pc \in {"spend", "rest", "paid"} =>
        \A tuple \in SUBSET Unspent :
            Worth(tuple) >= amount => Cost(tuple) >= currentBest

RefusedIsTooMuch == pc = "refused" => Worth(Unspent) < amount

\* As long as all the money fits into an int.
Thorough ==
    /\ NoneIsLost
    /\ VisitedFallShort
    /\ EachCombination
    /\ NothingCheaper
    /\ RefusedIsTooMuch

SearchInv ==
    /\ Apart(candidates)
    /\ bestTuple = {} => currentBest = Unbounded
    /\ Fits => Thorough

\* What no step changes: the transactions there were, and what they require.
LEMMA WorthKept ==
    ASSUME FromBase, [Next]_vars
    PROVE  /\ amount' = amount /\ required' = required
           /\ \A t \in SUBSET (Unspent \cup {Late}) :
                 /\ Worth(t)' = Worth(t)
                 /\ Cost(t)' = Cost(t)
                 /\ Amount(t)' = Amount(t)
           /\ Fits' <=> Fits
<1>1. amount' = amount /\ required' = required
  BY DEF Next, vars, inputs, Receive, CheckMoney, Group, VisitGroup,
         EndFirstRound, Combine, EndRound, Spend, Refuse, AddRemainder
<1>2. \A u \in Unspent \cup {Late} : value'[u] = value[u]
  <2>1. CASE AddRemainder
    BY <2>1, BaseIsFinite DEF AddRemainder, FromBase
  <2>2. CASE ~AddRemainder
    <3>1. value' = value
      BY <2>2 DEF Next, vars, inputs, Receive, CheckMoney, Group, VisitGroup,
                  EndFirstRound, Combine, EndRound, Spend, Refuse
    <3> QED BY <3>1
  <2> QED BY <2>1, <2>2
<1>3. ASSUME NEW t \in SUBSET (Unspent \cup {Late})
      PROVE  /\ Worth(t)' = Worth(t)
             /\ Cost(t)' = Cost(t)
             /\ Amount(t)' = Amount(t)
  <2>1. /\ IsFiniteSet(t)
        /\ \A u \in t : value[u] \in Int /\ value'[u] = value[u]
    BY <1>2, BaseIsFinite, FS_Subset DEF FromBase
  <2>2. Total(value', t) = Total(value, t)
    BY <2>1, TotalOfEqual
  <2>3. Worth(t)' = Worth(t)
    BY <2>2, WorthIsTotal, NextWorthIsTotal
  <2> QED BY <1>1, <2>3 DEF Amount, Cost, Chains
<1>4. Worth(Unspent \cup {Late})' = Worth(Unspent \cup {Late})
  BY <1>3
<1> QED BY <1>1, <1>3, <1>4 DEF Fits

\* Sums that fit into an int are those of the transactions.
LEMMA AmountIsWorth ==
    ASSUME FromBase, Fits, NEW tuple \in SUBSET Base
    PROVE  Amount(tuple) = Worth(tuple)
<1> DEFINE all == Unspent \cup {Late}
<1>1. all \in SUBSET Transaction /\ tuple \in SUBSET all
      /\ tuple \in SUBSET Transaction
  BY BaseIsFinite
<1>2. Worth(tuple) <= Worth(all) /\ Worth(tuple) \in Nat /\ Worth(all) \in Nat
  BY <1>1, WorthType
<1>3. 2 ^ (Bits - 1) \in Nat
  BY SelectionAssumption, PowerType
<1>4. Worth(tuple) < 2 ^ (Bits - 1)
  BY <1>2, <1>3 DEF Fits
<1> QED BY <1>2, <1>4, WrappedType DEF Amount

\* The empty tuple covers no amount.
LEMMA NothingIsNotEnough ==
    ASSUME FromBase
    PROVE  ~ Amount({}) >= amount
<1>1. Worth({}) = 0
  BY WorthType
<1>2. 2 ^ (Bits - 1) \in Nat \ {0}
  BY SelectionAssumption, PowerType
<1>3. 0 < 2 ^ (Bits - 1) /\ 0 \in Nat
  BY <1>2
<1>4. Wrapped(0) = 0
  BY <1>3, WrappedType
<1>5. amount \in Nat \ {0}
  BY SelectionAssumption DEF FromBase
<1> QED BY <1>1, <1>4, <1>5 DEF Amount

\* Whatever requires more chains costs more.
LEMMA CostGrows ==
    ASSUME FromBase, NEW s \in SUBSET Base, NEW t \in SUBSET Base,
           Chains(s) \subseteq Chains(t)
    PROVE  Cost(s) \in Nat /\ Cost(t) \in Nat /\ Cost(s) <= Cost(t)
<1>1. Chains(t) \in SUBSET Chain
  BY BaseIsFinite DEF Chains, FromBase
<1>2. IsFiniteSet(Chains(t))
  BY <1>1, SelectionAssumption, FS_Subset
<1>3. Cardinality(Chains(s)) <= Cardinality(Chains(t))
  BY <1>2, FS_Subset
<1>4. Cost(s) \in 0 .. Cardinality(Chain) /\ Cost(t) \in 0 .. Cardinality(Chain)
  BY CostType
<1>5. Cardinality(Chain) \in Nat
  BY SelectionAssumption, FS_CardinalityType
<1> QED BY <1>3, <1>4, <1>5 DEF Cost

\* A part of a tuple costs no more than the whole.
LEMMA CostOfPart ==
    ASSUME FromBase, NEW s \in SUBSET Base, NEW t \in SUBSET s
    PROVE  Cost(t) \in Nat /\ Cost(s) \in Nat /\ Cost(t) <= Cost(s)
<1>1. Chains(t) \subseteq Chains(s) /\ t \in SUBSET Base
  BY DEF Chains
<1> QED BY <1>1, CostGrows

\* If no combination of groups covers the amount, no other sources that
\* require fewer chains than the best do.
LEMMA GroupsAreEnough ==
    ASSUME FromBase, NEW C \in SUBSET (SUBSET Base), Apart(C),
           currentBest \in Nat,
           \A u \in Unspent :
               Cardinality(required[u]) < currentBest => \E g \in C : u \in g,
           \A S \in SUBSET C : Cost(UNION S) < currentBest => Worth(UNION S) < amount
    PROVE  \A tuple \in SUBSET Unspent :
               Worth(tuple) >= amount => Cost(tuple) >= currentBest
<1> SUFFICES ASSUME NEW tuple \in SUBSET Unspent, Worth(tuple) >= amount,
                    ~ (Cost(tuple) >= currentBest)
             PROVE  FALSE
  OBVIOUS
<1> DEFINE S == {g \in C : g \cap tuple # {}}
<1>1. S \in SUBSET C /\ UNION S \in SUBSET Base /\ tuple \in SUBSET Base
  BY DEF Base
<1>2. Chains(UNION S) \subseteq Chains(tuple)
  <2>1. ASSUME NEW t \in UNION S PROVE required[t] \subseteq Chains(tuple)
    <3>1. PICK g \in C : t \in g /\ g \cap tuple # {}
      BY <2>1
    <3>2. PICK u \in g : u \in tuple
      BY <3>1
    <3>3. required[t] = required[u]
      BY <3>1, <3>2 DEF Apart
    <3> QED BY <3>2, <3>3 DEF Chains
  <2> QED BY <2>1 DEF Chains
<1>3. Cost(UNION S) <= Cost(tuple) /\ Cost(UNION S) \in Nat /\ Cost(tuple) \in Nat
  BY <1>1, <1>2, CostGrows
<1>4. Cost(UNION S) < currentBest
  BY <1>3
<1>5. Worth(UNION S) < amount
  BY <1>1, <1>4
<1>6. tuple \subseteq UNION S
  <2>1. ASSUME NEW u \in tuple PROVE \E g \in C : u \in g
    <3>1. {u} \in SUBSET tuple /\ Chains({u}) = required[u] /\ u \in Unspent
      BY <2>1 DEF Chains
    <3>2. Cost({u}) <= Cost(tuple) /\ Cost({u}) \in Nat
      BY <1>1, <3>1, CostOfPart
    <3>3. Cardinality(required[u]) = Cost({u})
      BY <3>1 DEF Cost
    <3>4. Cardinality(required[u]) < currentBest
      BY <1>3, <3>2, <3>3
    <3> QED BY <3>1, <3>4
  <2> QED BY <2>1
<1>7. Worth(tuple) <= Worth(UNION S) /\ Worth(tuple) \in Nat /\ Worth(UNION S) \in Nat
  <2>1. tuple \in SUBSET Transaction /\ UNION S \in SUBSET Transaction
    BY <1>1, UnspentType
  <2> QED BY <1>6, <2>1, WorthType
<1>8. amount \in Nat
  BY SelectionAssumption DEF FromBase
<1> HIDE DEF S
<1> QED BY <1>5, <1>7, <1>8

\* A finite set has subsets of every size up to its own.
LEMMA SubsetOfSize ==
    ASSUME NEW U, IsFiniteSet(U), NEW m \in Nat, m <= Cardinality(U)
    PROVE  \E R \in SUBSET U : Cardinality(R) = m
<1> DEFINE P == {T \in SUBSET U : m <= Cardinality(T) =>
                                     \E R \in SUBSET T : Cardinality(R) = m}
<1>1. ASSUME NEW T \in SUBSET U, \A x \in T : T \ {x} \in P PROVE T \in P
  <2>0. IsFiniteSet(T) /\ Cardinality(T) \in Nat
    BY FS_Subset, FS_CardinalityType
  <2>1. CASE Cardinality(T) = m
    BY <2>1
  <2>2. CASE Cardinality(T) < m
    BY <2>0, <2>2
  <2>3. CASE Cardinality(T) > m
    <3>1. T # {}
      BY <2>3, FS_EmptySet
    <3>2. PICK x \in T : TRUE
      BY <3>1
    <3>3. Cardinality(T \ {x}) = Cardinality(T) - 1
      BY <2>0, <3>2, FS_RemoveElement
    <3>4. m <= Cardinality(T \ {x})
      BY <2>0, <2>3, <3>3
    <3>5. \E R \in SUBSET (T \ {x}) : Cardinality(R) = m
      BY <1>1, <3>2, <3>4
    <3>6. SUBSET (T \ {x}) \subseteq SUBSET T
      OBVIOUS
    <3> QED BY <3>5, <3>6
  <2> QED BY <2>0, <2>1, <2>2, <2>3
<1> HIDE DEF P
<1>2. SUBSET U \subseteq P
  BY <1>1, SubsetInduction
<1>3. U \in P
  BY <1>2
<1> QED BY <1>3 DEF P

Halves(R, g, h, m) ==
    /\ Cardinality(R \ {g}) = m /\ Cardinality(R \ {h}) = m
    /\ UNION (R \ {g}) # UNION (R \ {h})
    /\ (UNION (R \ {g})) \cup (UNION (R \ {h})) = UNION R
    /\ g \cup UNION (R \ {g}) = UNION R
    /\ ~ (g \subseteq UNION (R \ {g}))

\* Two different parts of a combination, each with one group less, make the
\* whole.
LEMMA TwoParts ==
    ASSUME NEW C, Apart(C), IsFiniteSet(C), NEW m \in Nat \ {0},
           NEW R \in SUBSET C, Cardinality(R) = m + 1
    PROVE  \E g, h \in R : Halves(R, g, h, m)
<1>1. IsFiniteSet(R)
  BY FS_Subset
<1>2. PICK g \in R : TRUE
  BY FS_EmptySet
<1>3. Cardinality(R \ {g}) = m
  <2>1. Cardinality(R \ {g}) = Cardinality(R) - 1
    BY <1>1, <1>2, FS_RemoveElement
  <2> QED BY <2>1
<1>4. PICK h \in R \ {g} : TRUE
  BY <1>3, FS_EmptySet
<1>5. Cardinality(R \ {h}) = m
  <2>1. Cardinality(R \ {h}) = Cardinality(R) - 1
    BY <1>1, <1>4, FS_RemoveElement
  <2> QED BY <2>1
<1>6. g # {} /\ \A x \in R \ {g} : g \cap x = {}
  BY <1>2 DEF Apart
<1>7. ~ (g \subseteq UNION (R \ {g}))
  BY <1>6
<1>8. g \subseteq UNION (R \ {h}) /\ g \in R \ {h} /\ h \in R \ {g}
  BY <1>2, <1>4
<1>9. (UNION (R \ {g})) \cup (UNION (R \ {h})) = UNION R
      /\ g \cup UNION (R \ {g}) = UNION R
  <2>1. UNION (R \ {g}) \subseteq UNION R /\ UNION (R \ {h}) \subseteq UNION R
    OBVIOUS
  <2>2. g \subseteq UNION R
    BY <1>2
  <2>3. UNION R \subseteq g \cup UNION (R \ {g})
    OBVIOUS
  <2>4. g \cup UNION (R \ {g}) = UNION R
    BY <2>1, <2>2, <2>3
  <2> DEFINE A == UNION (R \ {g})
             B == UNION (R \ {h})
             X == UNION R
  <2>5. A \subseteq X /\ B \subseteq X /\ X \subseteq g \cup A /\ g \subseteq B
    BY <1>8, <2>1, <2>3
  <2> HIDE DEF A, B, X
  <2>6. A \cup B = X
    BY <2>5
  <2> QED BY <2>4, <2>6 DEF A, B, X
<1>10. UNION (R \ {g}) # UNION (R \ {h})
  BY <1>7, <1>8
<1> QED BY <1>2, <1>3, <1>4, <1>5, <1>7, <1>9, <1>10 DEF Halves

\* A round finds, whichever way it iterates, a pair for each combination of
\* one group more.
LEMMA PairsAreThere ==
    ASSUME FromBase, NEW C \in SUBSET (SUBSET Base), Apart(C), IsFiniteSet(C),
           NEW n \in Nat, NEW current, NEW best \in Nat,
           \A S \in SUBSET C :
               Cardinality(S) = n + 1 /\ Cost(UNION S) < best => UNION S \in current
    PROVE  \A S \in SUBSET C :
               Cardinality(S) = n + 2 /\ Cost(UNION S) < best =>
                   \E pair \in Pairs(C, current) : pair[1] \cup pair[2] = UNION S
<1> SUFFICES ASSUME NEW S \in SUBSET C, Cardinality(S) = n + 2,
                    Cost(UNION S) < best
             PROVE  \E pair \in Pairs(C, current) : pair[1] \cup pair[2] = UNION S
  OBVIOUS
<1>1. n + 1 \in Nat \ {0} /\ Cardinality(S) = (n + 1) + 1
  OBVIOUS
<1>2. PICK g \in S, h \in S : Halves(S, g, h, n + 1)
  BY <1>1, TwoParts
<1> DEFINE A == S \ {g}
           B == S \ {h}
<1>3. /\ Cardinality(A) = n + 1 /\ Cardinality(B) = n + 1
      /\ UNION A # UNION B
      /\ (UNION A) \cup (UNION B) = UNION S
      /\ g \cup UNION A = UNION S
      /\ ~ (g \subseteq UNION A)
  BY <1>2 DEF Halves
<1>4. A \in SUBSET C /\ B \in SUBSET C /\ UNION S \in SUBSET Base
      /\ UNION A \in SUBSET (UNION S) /\ UNION B \in SUBSET (UNION S)
  OBVIOUS
<1>5. /\ Cost(UNION A) <= Cost(UNION S) /\ Cost(UNION A) \in Nat
      /\ Cost(UNION B) <= Cost(UNION S) /\ Cost(UNION B) \in Nat
      /\ Cost(UNION S) \in Nat
  BY <1>4, CostOfPart
<1>6. Cost(UNION A) < best /\ Cost(UNION B) < best
  BY <1>5
<1>7. UNION A \in current /\ UNION B \in current
  BY <1>4, <1>6, <1>3
<1>8. CASE Cardinality(current) < Cardinality(C)
  <2>1. <<UNION A, UNION B>> \in Pairs(C, current)
    BY <1>7, <1>8 DEF Pairs
  <2> QED BY <1>3, <2>1
<1>9. CASE ~ (Cardinality(current) < Cardinality(C))
  <2>1. g \in C /\ ~ (g \subseteq UNION A)
    BY <1>3
  <2>2. <<g, UNION A>> \in Pairs(C, current)
    BY <1>7, <1>9, <2>1 DEF Pairs
  <2> QED BY <1>3, <2>2
<1> QED BY <1>8, <1>9

\* All elements are equal where there is one at most.
LEMMA AtMostOne ==
    ASSUME NEW S, IsFiniteSet(S), Cardinality(S) <= 1
    PROVE  \A a, b \in S : a = b
<1> SUFFICES ASSUME NEW a \in S, NEW b \in S, a # b PROVE FALSE
  OBVIOUS
<1>1. Cardinality(S) \in Nat /\ Cardinality(S) # 0
  BY FS_CardinalityType, FS_EmptySet
<1>2. Cardinality(S) = 1
  BY <1>1
<1>3. \E x : S = {x}
  BY <1>2, FS_Singleton
<1> QED BY <1>3

\* If a round leaves at most one combination, larger ones are too expensive.
LEMMA OneLeft ==
    ASSUME FromBase, NEW C \in SUBSET (SUBSET Base), Apart(C), IsFiniteSet(C),
           NEW m \in Nat \ {0}, NEW left, IsFiniteSet(left), Cardinality(left) <= 1,
           NEW best \in Nat,
           \A S \in SUBSET C :
               Cardinality(S) = m /\ Cost(UNION S) < best => UNION S \in left
    PROVE  \A S \in SUBSET C : Cost(UNION S) < best => Cardinality(S) <= m
<1> SUFFICES ASSUME NEW S \in SUBSET C, Cost(UNION S) < best,
                    ~ (Cardinality(S) <= m)
             PROVE  FALSE
  OBVIOUS
<1>1. IsFiniteSet(S) /\ Cardinality(S) \in Nat
  BY FS_Subset, FS_CardinalityType
<1>2. m + 1 \in Nat /\ m + 1 <= Cardinality(S)
  BY <1>1
<1>3. PICK R \in SUBSET S : Cardinality(R) = m + 1
  BY <1>1, <1>2, SubsetOfSize
<1>4. R \in SUBSET C
  OBVIOUS
<1>5. PICK g \in R, h \in R : Halves(R, g, h, m)
  BY <1>3, <1>4, TwoParts
<1> DEFINE A == R \ {g}
           B == R \ {h}
<1>6. /\ Cardinality(A) = m /\ Cardinality(B) = m
      /\ UNION A # UNION B
      /\ (UNION A) \cup (UNION B) = UNION R
      /\ g \cup UNION A = UNION R
      /\ ~ (g \subseteq UNION A)
  BY <1>5 DEF Halves
<1>7. A \in SUBSET C /\ B \in SUBSET C /\ UNION S \in SUBSET Base
      /\ UNION A \in SUBSET (UNION S) /\ UNION B \in SUBSET (UNION S)
  BY <1>4
<1>8. /\ Cost(UNION A) <= Cost(UNION S) /\ Cost(UNION A) \in Nat
      /\ Cost(UNION B) <= Cost(UNION S) /\ Cost(UNION B) \in Nat
      /\ Cost(UNION S) \in Nat
  BY <1>7, CostOfPart
<1>9. Cost(UNION A) < best /\ Cost(UNION B) < best
  BY <1>8
<1>10. UNION A \in left /\ UNION B \in left /\ UNION A # UNION B
  BY <1>7, <1>9, <1>6
<1>11. \A a, b \in left : a = b
  BY AtMostOne
<1> QED BY <1>10, <1>11

\* Every step keeps the groups disjoint.
LEMMA StepApart ==
    ASSUME FromBase, Apart(candidates), [Next]_vars
    PROVE  Apart(candidates)'
<1>1. required' = required
  BY WorthKept
<1>2. CASE Group
  <2>1. candidates' = {{t \in unspent : required[t] = required[u]} : u \in unspent}
    BY <1>2 DEF Group
  <2>2. ASSUME NEW g \in candidates'
        PROVE  /\ g # {}
               /\ \A t, u \in g : required[t] = required[u]
               /\ \A h \in candidates' : g # h => g \cap h = {}
    <3>1. PICK u \in unspent : g = {t \in unspent : required[t] = required[u]}
      BY <2>1
    <3>2. ASSUME NEW h \in candidates', g \cap h # {} PROVE g = h
      <4>1. PICK v \in unspent : h = {t \in unspent : required[t] = required[v]}
        BY <2>1
      <4>2. required[u] = required[v]
        BY <3>1, <3>2, <4>1
      <4> QED BY <3>1, <4>1, <4>2
    <3>3. g # {} /\ \A t, s \in g : required[t] = required[s]
      BY <3>1
    <3> QED BY <3>2, <3>3
  <2> QED BY <1>1, <2>2 DEF Apart
<1>3. CASE ~Group
  <2>1. candidates' \subseteq candidates
    BY <1>3, CleanIsSubset
       DEF Next, vars, search, Receive, CheckMoney, VisitGroup, EndFirstRound,
           Combine, EndRound, Spend, Refuse, AddRemainder
  <2> QED BY <1>1, <2>1 DEF Apart
<1> QED BY <1>2, <1>3

\* Every step that leaves no best tuple leaves the cost unbounded.
LEMMA StepUnbounded ==
    ASSUME FromBase, bestTuple = {} => currentBest = Unbounded, [Next]_vars
    PROVE  (bestTuple = {} => currentBest = Unbounded)'
<1>1. Unbounded' = Unbounded
  BY DEF Unbounded
<1>2. CASE UNCHANGED <<currentBest, bestTuple>>
  BY <1>1, <1>2
<1>3. ASSUME NEW tuple, Amount(tuple) >= amount, Best(tuple)
      PROVE  bestTuple' # {}
  BY <1>3, NothingIsNotEnough DEF Best
<1>4. CASE VisitGroup
  <2>1. SameBest \/ \E tuple \in todo : Amount(tuple) >= amount /\ Best(tuple)
    BY <1>4 DEF VisitGroup
  <2> QED BY <1>2, <1>3, <2>1 DEF SameBest
<1>5. CASE Combine
  <2>1. \/ SameBest
        \/ \E pair \in NextPairs : /\ Amount(pair[1] \cup pair[2]) >= amount
                                   /\ Best(pair[1] \cup pair[2])
    BY <1>5 DEF Combine
  <2> QED BY <1>2, <1>3, <2>1 DEF SameBest
<1>6. CASE ~VisitGroup /\ ~Combine
  <2>1. UNCHANGED <<currentBest, bestTuple>>
    BY <1>6 DEF Next, vars, search, Receive, CheckMoney, Group, EndFirstRound,
                EndRound, Spend, Refuse, AddRemainder
  <2> QED BY <1>2, <2>1
<1> QED BY <1>4, <1>5, <1>6

\* The best combination gets cheaper or stays.
LEMMA BestImproves ==
    ASSUME FromBase, BestKnown, [Next]_vars
    PROVE  currentBest \in Nat /\ currentBest' \in Nat /\ currentBest' <= currentBest
<1>1. currentBest \in Nat
  BY UnboundedType DEF BestKnown
<1>2. currentBest' \in Nat
  <2>1. BestKnown'
    BY StepBest
  <2> QED BY <2>1, UnboundedType DEF BestKnown, Unbounded
<1>3. CASE UNCHANGED currentBest
  BY <1>1, <1>3
<1>4. CASE VisitGroup
  <2>1. SameBest \/ \E tuple : Cost(tuple) < currentBest /\ Best(tuple)
    BY <1>4 DEF VisitGroup
  <2> QED BY <1>1, <1>2, <2>1 DEF SameBest, Best
<1>5. CASE Combine
  <2>1. SameBest \/ \E tuple : Cost(tuple) < currentBest /\ Best(tuple)
    BY <1>5 DEF Combine
  <2> QED BY <1>1, <1>2, <2>1 DEF SameBest, Best
<1>6. CASE ~VisitGroup /\ ~Combine
  <2>1. UNCHANGED currentBest
    BY <1>6 DEF Next, vars, search, Receive, CheckMoney, Group, EndFirstRound,
                EndRound, Spend, Refuse, AddRemainder
  <2> QED BY <1>1, <2>1
<1> QED BY <1>4, <1>5, <1>6

\* The worth and cost of combinations, before and after a step.
LEMMA CombinationsKept ==
    ASSUME FromBase, [Next]_vars
    PROVE  \A S \in SUBSET candidates :
              /\ UNION S \in SUBSET Base
              /\ Worth(UNION S)' = Worth(UNION S)
              /\ Cost(UNION S)' = Cost(UNION S)
              /\ Cost(UNION S) \in Nat
<1>1. ASSUME NEW S \in SUBSET candidates
      PROVE  UNION S \in SUBSET Base /\ UNION S \in SUBSET (Unspent \cup {Late})
  <2>1. candidates \in SUBSET (SUBSET Base)
    BY DEF FromBase
  <2>2. UNION S \in SUBSET Base
    BY <2>1
  <2> QED BY <2>2, BaseIsFinite
<1>2. ASSUME NEW S \in SUBSET candidates
      PROVE  /\ Worth(UNION S)' = Worth(UNION S)
             /\ Cost(UNION S)' = Cost(UNION S)
  BY <1>1, WorthKept
<1>3. ASSUME NEW S \in SUBSET candidates PROVE Cost(UNION S) \in Nat
  <2>1. UNION S \in SUBSET Base /\ Chains(UNION S) \subseteq Chains(UNION S)
    BY <1>1
  <2> QED BY <2>1, CostGrows
<1> QED BY <1>1, <1>2, <1>3

\* A visited group is kept, or enough, or too expensive.
LEMMA VisitIsThorough ==
    ASSUME FromBase, BestKnown, Apart(candidates), Fits, Thorough, VisitGroup
    PROVE  Thorough'
<1>0. [Next]_vars
  BY DEF Next
<1>1. /\ pc = "first" /\ pc' = "first" /\ nextRound' = nextRound
      /\ amount' = amount /\ required' = required
  BY <1>0, WorthKept DEF VisitGroup
<1>2. PICK tuple \in todo :
          /\ todo' = todo \ {tuple}
          /\ \/ /\ Cost(tuple) >= currentBest
                /\ SameBest /\ candidates' = candidates \ {tuple}
             \/ /\ Cost(tuple) < currentBest /\ Amount(tuple) >= amount
                /\ Best(tuple) /\ candidates' = candidates \ {tuple}
             \/ /\ Cost(tuple) < currentBest /\ Amount(tuple) < amount
                /\ SameBest /\ UNCHANGED candidates
  BY DEF VisitGroup
<1>3. tuple \in SUBSET Base /\ Amount(tuple) = Worth(tuple)
  BY <1>1, AmountIsWorth DEF FromBase
<1>4. /\ currentBest \in Nat /\ currentBest' \in Nat /\ currentBest' <= currentBest
  BY <1>0, BestImproves
<1>5. Cost(tuple) \in Nat
  <2>1. Chains(tuple) \subseteq Chains(tuple)
    OBVIOUS
  <2> QED BY <1>3, <2>1, CostGrows
<1>6. \/ candidates' = candidates \ {tuple} /\ Cost(tuple) >= currentBest'
      \/ candidates' = candidates /\ Worth(tuple) < amount
  BY <1>2, <1>3, <1>5 DEF SameBest, Best
<1>7. NoneIsLost'
  <2>1. ASSUME NEW u \in Unspent, Cardinality(required[u]) < currentBest'
        PROVE  \E g \in candidates' : u \in g
    <3>0. u \in Base
      BY DEF Base
    <3>1. Cost({u}) = Cardinality(required[u]) /\ Cost({u}) \in Nat
      <4>1. Chains({u}) = required[u] /\ {u} \in SUBSET Base
        BY <3>0 DEF Chains
      <4> QED BY <4>1, CostOfPart DEF Cost
    <3>2. Cardinality(required[u]) < currentBest
      BY <1>4, <2>1, <3>1
    <3>3. PICK g \in candidates : u \in g
      BY <1>1, <3>2 DEF Thorough, NoneIsLost
    <3>4. CASE g \in candidates'
      BY <3>3, <3>4
    <3>5. CASE g \notin candidates'
      <4>1. g = tuple /\ Cost(tuple) >= currentBest'
        BY <1>6, <3>5
      <4>2. Chains(g) = required[u]
        BY <3>3 DEF Apart, Chains
      <4>3. Cost(tuple) = Cardinality(required[u])
        BY <4>1, <4>2 DEF Cost
      <4> QED BY <1>4, <1>5, <2>1, <4>1, <4>3
    <3> QED BY <3>4, <3>5
  <2> QED BY <1>1, <2>1 DEF NoneIsLost
<1>8. VisitedFallShort'
  <2>1. ASSUME NEW g \in candidates' PROVE g \in todo' \/ Worth(g)' < amount
    <3>1. g \in candidates /\ g \in SUBSET (Unspent \cup {Late})
      BY <1>6, BaseIsFinite DEF FromBase
    <3>2. Worth(g)' = Worth(g)
      BY <1>0, <3>1, WorthKept
    <3>3. g \in todo \/ Worth(g) < amount
      BY <1>1, <3>1 DEF Thorough, VisitedFallShort
    <3> QED BY <1>2, <1>6, <3>2, <3>3
  <2>2. nextRound' = {}
    BY <1>1 DEF Thorough, VisitedFallShort
  <2> QED BY <1>1, <2>1, <2>2 DEF VisitedFallShort
<1> QED BY <1>1, <1>7, <1>8
        DEF Thorough, EachCombination, NothingCheaper, RefusedIsTooMuch

\* The first round leaves out no group that could matter.
LEMMA FirstRoundIsThorough ==
    ASSUME FromBase, BestKnown, FewRounds, Apart(candidates), Fits, Thorough,
           EndFirstRound
    PROVE  Thorough'
<1>0. [Next]_vars
  BY DEF Next
<1>1. /\ pc = "first" /\ todo = {} /\ nextRound' = {} /\ round' = 0
      /\ currentBest' = currentBest /\ currentBest \in Nat /\ amount \in Nat
      /\ amount' = amount /\ required' = required
  BY <1>0, WorthKept, BestImproves, SelectionAssumption
     DEF EndFirstRound, FewRounds, Thorough, VisitedFallShort, FromBase
<1>2. PICK left :
          /\ left = Clean(candidates, Unbounded) /\ candidates' = left
          /\ IF Cardinality(left) <= 1
             THEN pc' = "spend"
             ELSE /\ pc' = "round" /\ currentRound' = left
                  /\ todo' = Pairs(left, left)
  BY DEF EndFirstRound
<1>3. /\ left \in SUBSET candidates /\ left \in SUBSET (SUBSET Base)
      /\ IsFiniteSet(left) /\ Cardinality(left) \in Nat
  <2>1. left \in SUBSET candidates
    BY <1>2, CleanIsSubset
  <2>2. IsFiniteSet(left)
    BY <2>1, FS_Subset DEF FewRounds
  <2> QED BY <2>1, <2>2, FS_CardinalityType DEF FromBase
<1>4. Apart(left)
  BY <1>3 DEF Apart
<1>5. \A S \in SUBSET left : /\ UNION S \in SUBSET Base
                             /\ Worth(UNION S)' = Worth(UNION S)
                             /\ Cost(UNION S)' = Cost(UNION S)
                             /\ Cost(UNION S) \in Nat
                             /\ IsFiniteSet(S) /\ Cardinality(S) \in Nat
  <2>1. ASSUME NEW S \in SUBSET left PROVE IsFiniteSet(S) /\ Cardinality(S) \in Nat
    BY <1>3, FS_Subset, FS_CardinalityType
  <2> QED BY <1>0, <1>3, <2>1, CombinationsKept
<1>6. ASSUME NEW u \in Unspent, Cardinality(required[u]) < currentBest
      PROVE  \E g \in left : u \in g
  <2>1. PICK g \in candidates : u \in g
    BY <1>1, <1>6 DEF Thorough, NoneIsLost
  <2>2. Chains(g) = required[u]
    BY <2>1 DEF Apart, Chains
  <2>3. g \in left
    BY <1>2, <1>6, <2>2 DEF Clean, Cost
  <2> QED BY <2>1, <2>3
<1>7. \A g \in left : Worth(g) < amount
  BY <1>1, <1>3 DEF Thorough, VisitedFallShort
<1>8. ASSUME NEW S \in SUBSET left, Cardinality(S) <= 1
      PROVE  Worth(UNION S) < amount
  <2>1. CASE S = {}
    <3>1. UNION S = {} /\ Worth({}) = 0
      BY <2>1, WorthType
    <3>2. amount # 0
      BY SelectionAssumption DEF FromBase
    <3> QED BY <1>1, <3>1, <3>2
  <2>2. CASE S # {}
    <3>1. IsFiniteSet(S) /\ Cardinality(S) \in Nat
      BY <1>5
    <3>2. Cardinality(S) # 0
      BY <2>2, <3>1, FS_EmptySet
    <3>3. Cardinality(S) = 1
      BY <1>8, <3>1, <3>2
    <3>4. PICK g : S = {g}
      BY <3>1, <3>3, FS_Singleton
    <3> QED BY <1>7, <3>4
  <2> QED BY <2>1, <2>2
<1>9. CASE Cardinality(left) <= 1
  <2>1. ASSUME NEW S \in SUBSET left PROVE Cardinality(S) <= 1
    <3>1. Cardinality(S) <= Cardinality(left)
      BY <1>3, FS_Subset
    <3>2. Cardinality(S) \in Nat /\ Cardinality(left) \in Nat
      BY <1>3, <1>5
    <3> QED BY <1>9, <3>1, <3>2
  <2>2. \A S \in SUBSET left : Cost(UNION S) < currentBest => Worth(UNION S) < amount
    BY <1>8, <2>1
  <2>3. \A tuple \in SUBSET Unspent :
            Worth(tuple) >= amount => Cost(tuple) >= currentBest
    BY <1>1, <1>3, <1>4, <1>6, <2>2, GroupsAreEnough
  <2>4. NothingCheaper'
    <3>1. \A tuple \in SUBSET Unspent :
              Worth(tuple)' = Worth(tuple) /\ Cost(tuple)' = Cost(tuple)
      BY <1>0, WorthKept
    <3> QED BY <1>1, <2>3, <3>1 DEF NothingCheaper
  <2> QED BY <1>2, <1>9, <2>4
          DEF Thorough, NoneIsLost, VisitedFallShort, EachCombination, RefusedIsTooMuch
<1>10. CASE ~ (Cardinality(left) <= 1)
  <2>1. pc' = "round" /\ currentRound' = left /\ todo' = Pairs(left, left)
    BY <1>2, <1>10
  <2>2. NoneIsLost'
    BY <1>1, <1>2, <1>6 DEF NoneIsLost
  <2>3. TooLittle(1)'
    BY <1>1, <1>2, <1>5, <1>8 DEF TooLittle
  <2>4. \A S \in SUBSET left : Cardinality(S) = 1 => UNION S \in left
    <3>1. ASSUME NEW S \in SUBSET left, Cardinality(S) = 1 PROVE UNION S \in left
      <4>1. PICK g : S = {g}
        BY <1>5, <3>1, FS_Singleton
      <4> QED BY <4>1
    <3> QED BY <3>1
  <2>5. ASSUME NEW n \in Nat, n = 0
        PROVE  \A S \in SUBSET left :
                   Cardinality(S) = n + 2 /\ Cost(UNION S) < currentBest =>
                       \E pair \in Pairs(left, left) : pair[1] \cup pair[2] = UNION S
    <3>1. \A S \in SUBSET left :
              Cardinality(S) = n + 1 /\ Cost(UNION S) < currentBest => UNION S \in left
      BY <2>4, <2>5
    <3> QED BY <1>1, <1>3, <1>4, <3>1, PairsAreThere
  <2>6. \A S \in SUBSET left :
            Cardinality(S) = 2 /\ Cost(UNION S) < currentBest =>
                \E pair \in Pairs(left, left) : pair[1] \cup pair[2] = UNION S
    BY <2>5
  <2>7. EachCombination'
    <3>1. TooLittle(round + 1)'
      BY <1>1, <2>3 DEF TooLittle
    <3>2. (\A S \in SUBSET candidates :
              Cardinality(S) = round + 1 /\ Cost(UNION S) < currentBest =>
                  UNION S \in currentRound)'
      BY <1>1, <1>2, <1>5, <2>1, <2>4
    <3>3. (\A S \in SUBSET candidates :
              Cardinality(S) = round + 2 /\ Cost(UNION S) < currentBest =>
                  \/ UNION S \in nextRound
                  \/ \E pair \in todo : pair[1] \cup pair[2] = UNION S)'
      <4>1. ASSUME NEW S \in SUBSET left, Cardinality(S) = round' + 2,
                   Cost(UNION S)' < currentBest'
            PROVE  \E pair \in todo' : pair[1] \cup pair[2] = UNION S
        <5>0. Cost(UNION S)' = Cost(UNION S)
          BY <1>5
        <5>1. Cardinality(S) = 2 /\ Cost(UNION S) < currentBest
          BY <1>1, <4>1, <5>0
        <5>2. \E pair \in Pairs(left, left) : pair[1] \cup pair[2] = UNION S
          BY <2>6, <5>1
        <5> QED BY <2>1, <5>2
      <4> QED BY <1>2, <4>1
    <3>4. (\A tuple \in nextRound : Worth(tuple) < amount)'
      BY <1>1
    <3> QED BY <3>1, <3>2, <3>3, <3>4 DEF EachCombination
  <2> QED BY <2>1, <2>2, <2>7
          DEF Thorough, VisitedFallShort, NothingCheaper, RefusedIsTooMuch
<1> QED BY <1>9, <1>10

\* A pair that is looked at loses no combination.
LEMMA CombineIsThorough ==
    ASSUME FromBase, BestKnown, FewRounds, Fits, Thorough, Combine
    PROVE  Thorough'
<1>0. [Next]_vars
  BY DEF Next
<1>1. /\ pc = "round" /\ pc' = "round" /\ round' = round /\ candidates' = candidates
      /\ currentRound' = currentRound
      /\ amount' = amount /\ required' = required
  BY <1>0, WorthKept DEF Combine
<1>2. /\ currentBest' \in Nat
       /\ \A c \in Nat : c < currentBest' => c < currentBest
  BY <1>0, BestImproves
<1>3. EachCombination /\ NoneIsLost
  BY DEF Thorough
<1>4. PICK pair \in NextPairs :
          LET tuple == pair[1] \cup pair[2]
          IN  /\ todo' = todo \ {pair}
              /\ \/ /\ Cost(tuple) >= currentBest
                    /\ SameBest /\ UNCHANGED nextRound
                 \/ /\ Cost(tuple) < currentBest /\ Amount(tuple) >= amount
                    /\ Best(tuple) /\ UNCHANGED nextRound
                 \/ /\ Cost(tuple) < currentBest /\ Amount(tuple) < amount
                    /\ SameBest /\ nextRound' = nextRound \cup {tuple}
  BY DEF Combine
<1> DEFINE tuple == pair[1] \cup pair[2]
<1>5. tuple \in SUBSET Base
  <2>1. pair \in (SUBSET Base) \X (SUBSET Base)
    BY <1>1 DEF NextPairs, FromBase
  <2> QED BY <2>1
<1>6. Amount(tuple) = Worth(tuple) /\ Worth(tuple)' = Worth(tuple)
      /\ Cost(tuple) \in Nat
  <2>1. tuple \in SUBSET (Unspent \cup {Late})
    BY <1>5, BaseIsFinite
  <2>2. Worth(tuple)' = Worth(tuple)
    BY <1>0, <2>1, WorthKept
  <2>3. Chains(tuple) \subseteq Chains(tuple)
    OBVIOUS
  <2> QED BY <1>5, <2>2, <2>3, AmountIsWorth, CostGrows
<1>7. /\ todo' = todo \ {pair}
      /\ \/ Cost(tuple) >= currentBest' /\ nextRound' = nextRound
         \/ Worth(tuple) < amount /\ nextRound' = nextRound \cup {tuple}
  BY <1>4, <1>6 DEF SameBest, Best
<1>8. \A S \in SUBSET candidates :
          /\ Worth(UNION S)' = Worth(UNION S)
          /\ Cost(UNION S)' = Cost(UNION S)
          /\ Cost(UNION S) \in Nat
  BY <1>0, CombinationsKept
<1> HIDE DEF tuple
<1>9. NoneIsLost'
  <2>1. ASSUME NEW u \in Unspent, Cardinality(required[u]) < currentBest'
        PROVE  \E g \in candidates : u \in g
    <3>1. Cardinality(required[u]) \in Nat
      <4>1. required[u] \in SUBSET Chain
        BY BaseIsFinite DEF FromBase
      <4> QED BY <4>1, SelectionAssumption, FS_Subset, FS_CardinalityType
    <3>2. Cardinality(required[u]) < currentBest
      BY <1>2, <2>1, <3>1
    <3> QED BY <1>1, <1>3, <3>2 DEF NoneIsLost
  <2> QED BY <1>1, <2>1 DEF NoneIsLost
<1>10. TooLittle(round + 1)'
  <2>1. ASSUME NEW S \in SUBSET candidates, Cardinality(S) <= round + 1,
               Cost(UNION S) < currentBest'
        PROVE  Worth(UNION S) < amount
    <3>1. Cost(UNION S) < currentBest
      BY <1>8, <1>2, <2>1
    <3> QED BY <1>1, <1>3, <2>1, <3>1 DEF EachCombination, TooLittle
  <2> QED BY <1>1, <1>8, <2>1 DEF TooLittle
<1>11. ASSUME NEW S \in SUBSET candidates, Cardinality(S) = round + 1,
              Cost(UNION S) < currentBest'
       PROVE  UNION S \in currentRound
  <2>1. Cost(UNION S) < currentBest
    BY <1>8, <1>11, <1>2
  <2> QED BY <1>1, <1>3, <1>11, <2>1 DEF EachCombination
<1>12. ASSUME NEW S \in SUBSET candidates, Cardinality(S) = round + 2,
              Cost(UNION S) < currentBest'
       PROVE  \/ UNION S \in nextRound'
              \/ \E p \in todo' : p[1] \cup p[2] = UNION S
  <2>1. Cost(UNION S) < currentBest
    BY <1>8, <1>12, <1>2
  <2>2. \/ UNION S \in nextRound
        \/ \E p \in todo : p[1] \cup p[2] = UNION S
    BY <1>1, <1>3, <1>12, <2>1 DEF EachCombination
  <2>3. CASE UNION S \in nextRound
    BY <1>7, <2>3
  <2>4. ASSUME NEW p \in todo, p[1] \cup p[2] = UNION S, p # pair
        PROVE  \E q \in todo' : q[1] \cup q[2] = UNION S
    BY <1>7, <2>4
  <2>5. ASSUME tuple = UNION S PROVE UNION S \in nextRound'
    <3>1. ~ (Cost(tuple) >= currentBest')
      BY <1>6, <1>12, <1>2, <2>5
    <3> QED BY <1>7, <2>5, <3>1
  <2> QED BY <2>2, <2>3, <2>4, <2>5 DEF tuple
<1>13. ASSUME NEW t \in nextRound' PROVE Worth(t)' < amount
  <2>1. CASE t \in nextRound
    <3>1. t \in SUBSET (Unspent \cup {Late})
      BY <2>1, BaseIsFinite DEF FromBase
    <3>2. Worth(t)' = Worth(t)
      BY <1>0, <3>1, WorthKept
    <3>3. Worth(t) < amount
      BY <1>1, <1>3, <2>1 DEF EachCombination
    <3> QED BY <3>2, <3>3
  <2>2. CASE t \notin nextRound
    <3>1. t = tuple /\ Worth(tuple) < amount
      BY <1>7, <2>2
    <3> QED BY <1>6, <3>1
  <2> QED BY <2>1, <2>2
<1>14. EachCombination'
  <2>1. (\A S \in SUBSET candidates :
            Cardinality(S) = round + 1 /\ Cost(UNION S) < currentBest =>
                UNION S \in currentRound)'
    BY <1>1, <1>8, <1>11
  <2>2. (\A S \in SUBSET candidates :
            Cardinality(S) = round + 2 /\ Cost(UNION S) < currentBest =>
                \/ UNION S \in nextRound
                \/ \E p \in todo : p[1] \cup p[2] = UNION S)'
    BY <1>1, <1>8, <1>12
  <2>3. (\A t \in nextRound : Worth(t) < amount)'
    BY <1>1, <1>13
  <2> QED BY <1>10, <2>1, <2>2, <2>3 DEF EachCombination
<1> QED BY <1>1, <1>9, <1>14
        DEF Thorough, VisitedFallShort, NothingCheaper, RefusedIsTooMuch

\* A round that ends has made all combinations of its size.
LEMMA EndRoundIsThorough ==
    ASSUME FromBase, BestKnown, FewRounds, Apart(candidates), Fits, Thorough,
           EndRound
    PROVE  Thorough'
<1>0. [Next]_vars
  BY DEF Next
<1>1. /\ pc = "round" /\ todo = {} /\ round' = round + 1 /\ round \in Nat
      /\ candidates' = candidates /\ currentBest' = currentBest
      /\ amount' = amount /\ required' = required
  BY <1>0, WorthKept DEF EndRound, FewRounds
<1>2. currentBest \in Nat
  BY <1>0, BestImproves
<1>3. EachCombination /\ NoneIsLost
  BY DEF Thorough
<1>4. /\ candidates \in SUBSET (SUBSET Base) /\ IsFiniteSet(candidates)
      /\ Cardinality(candidates) \in Nat
  BY FS_CardinalityType DEF FromBase, FewRounds
<1>5. \A S \in SUBSET candidates :
          /\ Worth(UNION S)' = Worth(UNION S)
          /\ Cost(UNION S)' = Cost(UNION S)
          /\ Cost(UNION S) \in Nat
  BY <1>0, CombinationsKept
<1>6. ASSUME NEW S \in SUBSET candidates
      PROVE  Cardinality(S) \in Nat /\ Cardinality(S) <= Cardinality(candidates)
  BY <1>4, FS_Subset, FS_CardinalityType
<1>7. \A S \in SUBSET candidates :
          Cardinality(S) = round + 2 /\ Cost(UNION S) < currentBest =>
              UNION S \in nextRound
  BY <1>1, <1>3 DEF EachCombination
<1>8. ASSUME NEW S \in SUBSET candidates, Cardinality(S) <= round + 2,
             Cost(UNION S) < currentBest
      PROVE  Worth(UNION S) < amount
  <2>1. CASE Cardinality(S) <= round + 1
    BY <1>1, <1>3, <1>8, <2>1 DEF EachCombination, TooLittle
  <2>2. CASE ~ (Cardinality(S) <= round + 1)
    <3>1. Cardinality(S) \in Nat
      BY <1>6
    <3>2. Cardinality(S) = round + 2
      BY <1>1, <1>8, <2>2, <3>1
    <3>3. UNION S \in nextRound
      BY <1>7, <1>8, <3>2
    <3> QED BY <1>1, <1>3, <3>3 DEF EachCombination
  <2> QED BY <2>1, <2>2
<1>9. ASSUME \A S \in SUBSET candidates :
                 Cost(UNION S) < currentBest => Cardinality(S) <= round + 2,
             pc' = "spend"
      PROVE  Thorough'
  <2>1. \A S \in SUBSET candidates :
            Cost(UNION S) < currentBest => Worth(UNION S) < amount
    BY <1>8, <1>9
  <2>2. \A u \in Unspent :
            Cardinality(required[u]) < currentBest => \E g \in candidates : u \in g
    BY <1>1, <1>3 DEF NoneIsLost
  <2>3. \A tuple \in SUBSET Unspent :
            Worth(tuple) >= amount => Cost(tuple) >= currentBest
    BY <1>2, <1>4, <2>1, <2>2, GroupsAreEnough
  <2>4. \A tuple \in SUBSET Unspent :
            Worth(tuple)' = Worth(tuple) /\ Cost(tuple)' = Cost(tuple)
    BY <1>0, WorthKept
  <2>5. NothingCheaper'
    BY <1>1, <2>3, <2>4 DEF NothingCheaper
  <2> QED BY <1>9, <2>5
          DEF Thorough, NoneIsLost, VisitedFallShort, EachCombination, RefusedIsTooMuch
<1>10. CASE round + 1 >= RoundCount /\ pc' = "spend"
  <2>1. Cardinality(candidates) <= round + 2
    BY <1>1, <1>4, <1>10 DEF RoundCount
  <2>2. ASSUME NEW S \in SUBSET candidates PROVE Cardinality(S) <= round + 2
    <3>1. Cardinality(S) \in Nat /\ Cardinality(S) <= Cardinality(candidates)
      BY <1>6
    <3> QED BY <1>1, <1>4, <2>1, <3>1
  <2> QED BY <1>9, <1>10, <2>2
<1>11. CASE Cardinality(nextRound) <= 1 /\ pc' = "spend"
  <2>1. IsFiniteSet(nextRound)
    <3>1. IsFiniteSet(Base) /\ nextRound \in SUBSET (SUBSET Base)
      BY BaseIsFinite, FS_Subset DEF FromBase
    <3>2. IsFiniteSet(SUBSET Base)
      BY <3>1, FS_SUBSET
    <3> QED BY <3>1, <3>2, FS_Subset
  <2>2. ASSUME NEW m \in Nat \ {0}, m = round + 2
        PROVE  \A S \in SUBSET candidates :
                   Cost(UNION S) < currentBest => Cardinality(S) <= m
    <3>1. \A S \in SUBSET candidates :
              Cardinality(S) = m /\ Cost(UNION S) < currentBest =>
                  UNION S \in nextRound
      BY <1>7, <2>2
    <3> QED BY <1>2, <1>4, <1>11, <2>1, <3>1, OneLeft
  <2>3. round + 2 \in Nat \ {0}
    BY <1>1
  <2>4. \A S \in SUBSET candidates :
            Cost(UNION S) < currentBest => Cardinality(S) <= round + 2
    BY <2>2, <2>3
  <2> QED BY <1>9, <1>11, <2>4
<1>12. CASE /\ pc' = pc /\ nextRound' = {}
            /\ currentRound' = Clean(nextRound, previousBest)
            /\ todo' = Pairs(candidates, currentRound')
  <2>1. NoneIsLost'
    BY <1>1, <1>3, <1>12 DEF NoneIsLost
  <2>2. \A S \in SUBSET candidates :
            Cardinality(S) = round + 2 /\ Cost(UNION S) < currentBest =>
                UNION S \in currentRound'
    BY <1>7, <1>12 DEF Clean
  <2>3. ASSUME NEW n \in Nat, n = round + 1, NEW current, current = currentRound'
        PROVE  \A S \in SUBSET candidates :
                   Cardinality(S) = n + 2 /\ Cost(UNION S) < currentBest =>
                       \E pair \in Pairs(candidates, current) :
                           pair[1] \cup pair[2] = UNION S
    <3>1. n + 1 = round + 2
      BY <1>1, <2>3
    <3>2. \A S \in SUBSET candidates :
              Cardinality(S) = n + 1 /\ Cost(UNION S) < currentBest =>
                  UNION S \in current
      BY <2>2, <2>3, <3>1
    <3>3. PICK C : C = candidates
      OBVIOUS
    <3>4. C \in SUBSET (SUBSET Base) /\ Apart(C) /\ IsFiniteSet(C)
      BY <1>4, <3>3
    <3>5. \A S \in SUBSET C :
              Cardinality(S) = n + 1 /\ Cost(UNION S) < currentBest =>
                  UNION S \in current
      BY <3>2, <3>3
    <3>6. \A S \in SUBSET C :
              Cardinality(S) = n + 2 /\ Cost(UNION S) < currentBest =>
                  \E pair \in Pairs(C, current) : pair[1] \cup pair[2] = UNION S
      BY <1>2, <3>4, <3>5, PairsAreThere
    <3> QED BY <3>3, <3>6
  <2>4. round' \in Nat /\ round' + 1 = round + 2
    BY <1>1
  <2>5. ASSUME NEW S \in SUBSET candidates, Cardinality(S) = round' + 2,
               Cost(UNION S) < currentBest
        PROVE  \E pair \in todo' : pair[1] \cup pair[2] = UNION S
    <3>1. PICK n \in Nat : n = round' /\ n = round + 1
      BY <1>1, <2>4
    <3>2. PICK current : current = currentRound'
      OBVIOUS
    <3>3. Cardinality(S) = n + 2
      BY <2>5, <3>1
    <3>4. \E pair \in Pairs(candidates, current) : pair[1] \cup pair[2] = UNION S
      BY <2>3, <2>5, <3>1, <3>2, <3>3
    <3> QED BY <1>12, <3>2, <3>4
  <2>6. TooLittle(round + 1)'
    BY <1>1, <1>5, <1>8, <2>4 DEF TooLittle
  <2>7. (\A S \in SUBSET candidates :
            Cardinality(S) = round + 1 /\ Cost(UNION S) < currentBest =>
                UNION S \in currentRound)'
    BY <1>1, <1>5, <2>2, <2>4
  <2>8. (\A S \in SUBSET candidates :
            Cardinality(S) = round + 2 /\ Cost(UNION S) < currentBest =>
                \/ UNION S \in nextRound
                \/ \E pair \in todo : pair[1] \cup pair[2] = UNION S)'
    BY <1>1, <1>5, <2>5
  <2>9. EachCombination'
    BY <1>12, <2>6, <2>7, <2>8 DEF EachCombination
  <2> QED BY <1>1, <1>12, <2>1, <2>9
          DEF Thorough, VisitedFallShort, NothingCheaper, RefusedIsTooMuch
<1> QED BY <1>10, <1>11, <1>12 DEF EndRound

\* So every step keeps what the search may have skipped.
LEMMA StepIsThorough ==
    ASSUME SInv, Apart(candidates), bestTuple = {} => currentBest = Unbounded,
           Fits, Thorough, [Next]_vars
    PROVE  Thorough'
<1>1. FromBase /\ BestKnown /\ FewRounds /\ Balanced
  BY DEF SInv
<1>2. /\ amount' = amount /\ required' = required
      /\ \A t \in SUBSET (Unspent \cup {Late}) :
            Worth(t)' = Worth(t) /\ Cost(t)' = Cost(t)
  BY <1>1, WorthKept
<1>3. \A t \in SUBSET Unspent : Worth(t)' = Worth(t) /\ Cost(t)' = Cost(t)
  BY <1>2
<1>4. ASSUME UNCHANGED search, pc' = pc PROVE Thorough'
  <2>1. NoneIsLost' /\ NothingCheaper' /\ RefusedIsTooMuch'
    BY <1>2, <1>3, <1>4
       DEF search, Thorough, NoneIsLost, NothingCheaper, RefusedIsTooMuch
  <2>2. VisitedFallShort'
    <3>1. \A g \in candidates : Worth(g)' = Worth(g)
      BY <1>1, <1>2, BaseIsFinite DEF FromBase
    <3> QED BY <1>2, <1>4, <3>1 DEF search, Thorough, VisitedFallShort
  <2>3. EachCombination'
    <3>1. \A S \in SUBSET candidates :
              Worth(UNION S)' = Worth(UNION S) /\ Cost(UNION S)' = Cost(UNION S)
      BY <1>1, CombinationsKept
    <3>2. \A t \in nextRound : Worth(t)' = Worth(t)
      BY <1>1, <1>2, BaseIsFinite DEF FromBase
    <3> QED BY <1>2, <1>4, <3>1, <3>2
            DEF search, Thorough, EachCombination, TooLittle
  <2> QED BY <2>1, <2>2, <2>3 DEF Thorough
<1>5. CASE Receive
  BY <1>4, <1>5 DEF Receive
<1>6. CASE CheckMoney
  <2>1. /\ pc = "start" /\ UNCHANGED search
        /\ pc' = IF availableMoney < amount THEN "refused" ELSE "group"
    BY <1>6 DEF CheckMoney
  <2>2. RefusedIsTooMuch'
    <3>1. Unspent \subseteq unspent /\ unspent \in SUBSET Transaction
          /\ Unspent \in SUBSET Transaction
      BY <1>1, <2>1, UnspentType DEF FromBase, Base, Transaction
    <3>2. Worth(Unspent) <= Worth(unspent) /\ Worth(Unspent) \in Nat
          /\ Worth(unspent) \in Nat
      BY <1>1, <3>1, WorthType
    <3>3. Worth(Unspent)' = Worth(Unspent)
      BY <1>3
    <3>4. amount \in Nat
      BY <1>1, SelectionAssumption DEF FromBase
    <3>5. availableMoney < amount => Worth(Unspent) < amount
      BY <1>1, <3>2, <3>4 DEF Balanced
    <3> QED BY <1>2, <2>1, <3>3, <3>5 DEF RefusedIsTooMuch
  <2> QED BY <2>1, <2>2
          DEF search, Thorough, NoneIsLost, VisitedFallShort, EachCombination,
              NothingCheaper
<1>7. CASE Group
  <2>1. /\ pc = "group" /\ pc' = "first" /\ todo' = candidates'
        /\ candidates' = {{t \in unspent : required[t] = required[u]} : u \in unspent}
        /\ nextRound' = nextRound
    BY <1>7 DEF Group
  <2>2. ASSUME NEW u \in Unspent PROVE \E g \in candidates' : u \in g
    <3>1. u \in unspent
      BY <1>1, <2>1 DEF FromBase, Base
    <3>2. {t \in unspent : required[t] = required[u]} \in candidates'
      BY <2>1, <3>1
    <3> QED BY <3>1, <3>2
  <2>3. NoneIsLost'
    BY <2>2 DEF NoneIsLost
  <2>4. VisitedFallShort'
    BY <2>1 DEF Thorough, VisitedFallShort
  <2> QED BY <2>1, <2>3, <2>4
          DEF Thorough, EachCombination, NothingCheaper, RefusedIsTooMuch
<1>8. CASE VisitGroup
  BY <1>1, <1>8, VisitIsThorough
<1>9. CASE EndFirstRound
  BY <1>1, <1>9, FirstRoundIsThorough
<1>10. CASE Combine
  BY <1>1, <1>10, CombineIsThorough
<1>11. CASE EndRound
  BY <1>1, <1>11, EndRoundIsThorough
<1>12. ASSUME pc \in {"spend", "rest"}, pc' \in {"rest", "paid"}, UNCHANGED search
       PROVE  Thorough'
  <2>1. NothingCheaper'
    BY <1>2, <1>3, <1>12 DEF search, Thorough, NothingCheaper
  <2> QED BY <1>12, <2>1
          DEF Thorough, NoneIsLost, VisitedFallShort, EachCombination,
              RefusedIsTooMuch
<1>13. CASE Spend \/ AddRemainder
  BY <1>12, <1>13 DEF Spend, AddRemainder
<1>14. CASE Refuse
  <2>1. /\ pc = "spend" /\ pc' = "refused" /\ currentBest = Unbounded
    BY <1>14 DEF Refuse
  <2>2. Unspent \in SUBSET Base /\ Unspent \in SUBSET Unspent
    BY DEF Base
  <2>3. Cost(Unspent) \in 0 .. Cardinality(Chain) /\ Cardinality(Chain) \in Nat
    BY <1>1, <2>2, CostType, SelectionAssumption, FS_CardinalityType
  <2>4. ~ (Cost(Unspent) >= currentBest)
    BY <2>1, <2>3 DEF Unbounded
  <2>5. ~ (Worth(Unspent) >= amount)
    BY <2>1, <2>2, <2>4 DEF Thorough, NothingCheaper
  <2>6. Worth(Unspent) \in Nat /\ amount \in Nat
    <3>1. Unspent \in SUBSET Transaction
      BY DEF Transaction
    <3> QED BY <1>1, <3>1, WorthType, SelectionAssumption DEF FromBase
  <2>7. Worth(Unspent) < amount /\ Worth(Unspent)' = Worth(Unspent)
    BY <1>3, <2>5, <2>6
  <2>8. RefusedIsTooMuch'
    BY <1>2, <2>7 DEF RefusedIsTooMuch
  <2> QED BY <2>1, <2>8
          DEF Thorough, NoneIsLost, VisitedFallShort, EachCombination, NothingCheaper
<1>15. CASE UNCHANGED vars
  BY <1>4, <1>15 DEF vars
<1> QED BY <1>5, <1>6, <1>7, <1>8, <1>9, <1>10, <1>11, <1>13, <1>14, <1>15 DEF Next

\* And that holds always.
LEMMA SearchIsThorough ==
    Spec => []SearchInv
<1>1. Init => SearchInv
  BY DEF Init, SearchInv, Apart, Thorough, NoneIsLost, VisitedFallShort,
         EachCombination, NothingCheaper, RefusedIsTooMuch
<1>2. SInv /\ SearchInv /\ [Next]_vars => SearchInv'
  <2> SUFFICES ASSUME SInv, SearchInv, [Next]_vars PROVE SearchInv'
    OBVIOUS
  <2>1. FromBase
    BY DEF SInv
  <2>2. Apart(candidates)'
    BY <2>1, StepApart DEF SearchInv
  <2>3. (bestTuple = {} => currentBest = Unbounded)'
    BY <2>1, StepUnbounded DEF SearchInv
  <2>4. Fits' => Thorough'
    <3>1. Fits' => Fits
      BY <2>1, WorthKept
    <3>2. Fits => Thorough'
      BY StepIsThorough DEF SearchInv
    <3> QED BY <3>1, <3>2
  <2> QED BY <2>2, <2>3, <2>4 DEF SearchInv
<1> QED BY <1>1, <1>2, InvariantHolds, PTL DEF Spec

\* Whatever order the groups and the combinations are visited in, the rounds
\* of TransactionCreator.bestSources prune nothing that could have been
\* cheaper: the sources that are spent cover the amount, no others that do
\* require fewer chains, and a payment is refused only if all the money is not
\* enough, as long as it fits into the int of TransactionTuple.
THEOREM SourcesAreCheapest ==
    Spec => []Cheapest
<1>1. SInv /\ SearchInv => Cheapest
  <2> SUFFICES ASSUME SInv, SearchInv, Fits PROVE Cheapest
    BY DEF Cheapest
  <2>1. FromBase /\ BestKnown /\ Thorough
    BY DEF SInv, SearchInv
  <2>2. ASSUME pc \in {"spend", "rest", "paid"}, bestTuple # {}
        PROVE  /\ Worth(bestTuple) >= amount
               /\ \A tuple \in SUBSET Unspent :
                     Worth(tuple) >= amount => Cost(tuple) >= Cost(bestTuple)
    <3>1. Amount(bestTuple) >= amount /\ currentBest = Cost(bestTuple)
      BY <2>1, <2>2 DEF BestKnown
    <3>2. Amount(bestTuple) = Worth(bestTuple)
      BY <2>1, AmountIsWorth DEF FromBase
    <3>3. \A tuple \in SUBSET Unspent :
              Worth(tuple) >= amount => Cost(tuple) >= currentBest
      BY <2>1, <2>2 DEF Thorough, NothingCheaper
    <3> QED BY <3>1, <3>2, <3>3
  <2>3. pc = "refused" => Worth(Unspent) < amount
    BY <2>1 DEF Thorough, RefusedIsTooMuch
  <2> QED BY <2>2, <2>3 DEF Cheapest
<1> QED BY <1>1, InvariantHolds, SearchIsThorough, PTL

=============================================================================
