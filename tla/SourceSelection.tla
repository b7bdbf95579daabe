-------------------------- MODULE SourceSelection --------------------------
(***************************************************************************)
(* How a node finds the money for a payment: TransactionCreator and        *)
(* TransactionTuple, on the unspent transactions of LocalStore.            *)
(*                                                                         *)
(* Every unspent transaction is worth something to the node and requires   *)
(* some chains, those the payee does not know yet.  The search groups the  *)
(* transactions that require the same chains, and combines groups round by *)
(* round, dropping what cannot get cheaper than the best combination so    *)
(* far.  The collections it iterates over are hashed: every order is       *)
(* possible.  Meanwhile a handler thread may add a transaction.            *)
(***************************************************************************)
EXTENDS Integers, FiniteSets, FiniteSetsExt

CONSTANTS
    Chain,        \* chains a transaction may require
    Values,       \* what an unspent transaction may be worth
    Amounts,      \* amounts to pay
    Unspent,      \* the transactions that are unspent at the start
    Late,         \* one that is received while the search goes on
    Rest,         \* the new transaction, as the source its remainder is
    Bits          \* width of TransactionTuple.amount, an int

ASSUME SelectionAssumption ==
    /\ Values \subseteq Nat \ {0}
    /\ Amounts \subseteq Nat \ {0}
    /\ IsFiniteSet(Chain) /\ IsFiniteSet(Unspent)
    /\ Late \notin Unspent /\ Rest \notin Unspent \cup {Late}
    /\ Bits \in Nat \ {0}

Transaction == Unspent \cup {Late, Rest}

VARIABLES
    value,           \* what each transaction is worth to the node
    required,        \* TransactionCreator.chainsRequired of each
    amount,          \* the amount to pay
    unspent,         \* LocalStore.unspent
    availableMoney,  \* LocalStore.availableMoney
    received,        \* Late has been received
    pc,              \* control point of the pattern thread
    candidates,      \* the groups of transactions
    currentBest,     \* chains the best combination requires
    bestTuple,       \* that combination; empty: none was found yet
    previousBest,    \* currentBest at the start of the round
    currentRound,    \* combinations of the last round
    nextRound,       \* combinations of this round
    round,           \* number of the round
    todo             \* what the loop of the first or of a later round has
                     \* still to visit

inputs == <<value, required, amount>>
store == <<unspent, availableMoney, received>>
search == <<candidates, currentBest, bestTuple, previousBest, currentRound,
            nextRound, round, todo>>
vars == <<inputs, store, pc, search>>

Worth(tuple) == MapThenSumSet(LAMBDA t : value[t], tuple)
Chains(tuple) == UNION {required[t] : t \in tuple}
Cost(tuple) == Cardinality(Chains(tuple))

\* Integer.MAX_VALUE, as a number of chains.
Unbounded == Cardinality(Chain) + 1

\* The sum in an int of that many bits.
Wrapped(n) == ((n + 2 ^ (Bits - 1)) % (2 ^ Bits)) - 2 ^ (Bits - 1)

Amount(tuple) == Wrapped(Worth(tuple))

Tuple == SUBSET (Unspent \cup {Late})

TypeOK ==
    /\ value \in [Transaction -> Nat]
    /\ required \in [Transaction -> SUBSET Chain]
    /\ amount \in Amounts
    /\ unspent \subseteq Transaction
    /\ availableMoney \in Nat
    /\ received \in BOOLEAN
    /\ pc \in {"start", "group", "first", "round", "spend", "rest", "paid",
               "refused"}
    /\ candidates \subseteq Tuple
    /\ currentBest \in 0 .. Unbounded
    /\ bestTuple \in Tuple /\ (bestTuple # {} => currentBest = Cost(bestTuple))
    /\ previousBest \in 0 .. Unbounded
    /\ currentRound \subseteq Tuple
    /\ nextRound \subseteq Tuple
    /\ round \in 0 .. Cardinality(Unspent) + 1
    /\ todo \subseteq IF pc = "round" THEN Tuple \X Tuple ELSE Tuple

Init ==
    /\ \E v \in [Unspent \cup {Late} -> Values] :
           value = [t \in Transaction |-> IF t = Rest THEN 0 ELSE v[t]]
    /\ \E c \in [Unspent \cup {Late} -> SUBSET Chain] :
           required = [t \in Transaction |-> IF t = Rest THEN {} ELSE c[t]]
    /\ amount \in Amounts
    /\ unspent = Unspent
    /\ availableMoney = Worth(Unspent)
    /\ received = FALSE
    /\ pc = "start"
    /\ candidates = {}
    /\ currentBest = Unbounded
    /\ bestTuple = {}
    /\ previousBest = Unbounded
    /\ currentRound = {}
    /\ nextRound = {}
    /\ round = 0
    /\ todo = {}

-----------------------------------------------------------------------------
(* LocalStore.                                                             *)

AddUnspent(t, worth) ==
    /\ unspent' = unspent \cup {t}
    /\ availableMoney' = availableMoney + worth

RemoveUnspent(tuple) ==
    /\ unspent' = unspent \ tuple
    /\ availableMoney' = availableMoney - Worth(tuple)

\* CommunicationHelper.receiveTransaction, in a handler thread.
Receive ==
    /\ ~received /\ pc \notin {"paid", "refused"}
    /\ received' = TRUE
    /\ AddUnspent(Late, value[Late])
    /\ UNCHANGED <<inputs, pc, search>>

-----------------------------------------------------------------------------
(* TransactionCreator.bestSources.                                         *)

CheckMoney ==
    /\ pc = "start"
    /\ pc' = IF availableMoney < amount THEN "refused" ELSE "group"
    /\ UNCHANGED <<inputs, store, search>>

\* Step 1, on a copy of the unspent transactions.
Group ==
    /\ pc = "group"
    /\ candidates' = {{t \in unspent : required[t] = required[u]} : u \in unspent}
    /\ todo' = candidates'
    /\ pc' = "first"
    /\ UNCHANGED <<inputs, store, currentBest, bestTuple, previousBest,
                   currentRound, nextRound, round>>

\* Slip: the number of chains is not updated.
BestOnly(tuple) == bestTuple' = tuple /\ UNCHANGED currentBest

Best(tuple) == currentBest' = Cost(tuple) /\ bestTuple' = tuple
SameBest == UNCHANGED <<currentBest, bestTuple>>

\* firstRound, one group.
VisitGroup ==
    /\ pc = "first"
    /\ \E tuple \in todo :
          /\ todo' = todo \ {tuple}
          /\ \/ /\ Cost(tuple) >= currentBest
                /\ SameBest /\ candidates' = candidates \ {tuple}
             \/ /\ Cost(tuple) < currentBest /\ Amount(tuple) >= amount
                /\ Best(tuple) /\ candidates' = candidates \ {tuple}
             \/ /\ Cost(tuple) < currentBest /\ Amount(tuple) < amount
                /\ SameBest /\ UNCHANGED candidates
    /\ UNCHANGED <<inputs, store, pc, previousBest, currentRound, nextRound,
                   round>>

\* cleanup: it is skipped when the best has not changed.
Clean(tuples, previous) ==
    IF currentBest = previous THEN tuples
    ELSE {tuple \in tuples : Cost(tuple) < currentBest}

\* doOneRound: over what it iterates.  When the combinations are fewer than
\* the groups they are combined with each other, each with itself too.
Pairs(base, current) ==
    IF Cardinality(current) < Cardinality(base) THEN current \X current
    ELSE {p \in base \X current : ~(p[1] \subseteq p[2])}

\* After the first round; unless one group is left there are more rounds.
EndFirstRound ==
    /\ pc = "first" /\ todo = {}
    /\ LET left == Clean(candidates, Unbounded)
       IN  /\ candidates' = left
           /\ IF Cardinality(left) <= 1
              THEN pc' = "spend" /\ UNCHANGED <<previousBest, currentRound, todo>>
              ELSE /\ pc' = "round"
                   /\ previousBest' = currentBest
                   /\ currentRound' = left
                   /\ todo' = Pairs(left, left)
    /\ UNCHANGED <<inputs, store, currentBest, bestTuple, nextRound, round>>

\* The outer loop visits the base, the inner one the combinations: once it is
\* begun, the inner loop for one element of the base is finished.
Begun(t1) ==
    \E p \in Pairs(candidates, currentRound) \ todo : p[1] = t1

NextPairs ==
    LET begun == {p \in todo : Begun(p[1])}
    IN  IF begun = {} THEN todo ELSE begun

\* doOneRound, one pair.
Combine ==
    /\ pc = "round"
    /\ \E pair \in NextPairs : LET tuple == pair[1] \cup pair[2] IN
          /\ todo' = todo \ {pair}
          /\ \/ /\ Cost(tuple) >= currentBest
                /\ SameBest /\ UNCHANGED nextRound
             \/ /\ Cost(tuple) < currentBest /\ Amount(tuple) >= amount
                /\ Best(tuple) /\ UNCHANGED nextRound
             \/ /\ Cost(tuple) < currentBest /\ Amount(tuple) < amount
                /\ SameBest /\ nextRound' = nextRound \cup {tuple}
    /\ UNCHANGED <<inputs, store, pc, candidates, previousBest, currentRound,
                   round>>

\* Slip: one round too few.
TooFewRounds == Cardinality(candidates) - 2

RoundCount == Cardinality(candidates) - 1

\* The loop ends when less than two combinations are left, and after as many
\* rounds as it takes to combine all groups.
EndRound ==
    /\ pc = "round" /\ todo = {}
    /\ round' = round + 1
    /\ IF Cardinality(nextRound) <= 1 \/ round + 1 >= RoundCount
       THEN /\ pc' = "spend"
            /\ UNCHANGED <<previousBest, currentRound, nextRound, todo>>
       ELSE /\ currentRound' = Clean(nextRound, previousBest)
            /\ todo' = Pairs(candidates, currentRound')
            /\ nextRound' = {}
            /\ previousBest' = currentBest
            /\ UNCHANGED pc
    /\ UNCHANGED <<inputs, store, candidates, currentBest, bestTuple>>

-----------------------------------------------------------------------------
(* TransactionCreator.createTransaction.                                   *)

\* Slip: the sources stay unspent.
SpendNothing ==
    /\ pc = "spend" /\ bestTuple # {}
    /\ pc' = "rest"
    /\ UNCHANGED <<inputs, store, search>>

Spend ==
    /\ pc = "spend" /\ bestTuple # {}
    /\ RemoveUnspent(bestTuple)
    /\ pc' = "rest"
    /\ UNCHANGED <<inputs, received, search>>

Refuse ==
    /\ pc = "spend" /\ bestTuple = {}
    /\ pc' = "refused"
    /\ UNCHANGED <<inputs, store, search>>

\* What the payer keeps.  No pattern pays the node itself.
Remainder == Amount(bestTuple) - amount

AddRemainder ==
    /\ pc = "rest"
    /\ IF Remainder > 0
       THEN /\ AddUnspent(Rest, Remainder)
            /\ value' = [value EXCEPT ![Rest] = Remainder]
       ELSE UNCHANGED <<unspent, availableMoney, value>>
    /\ pc' = "paid"
    /\ UNCHANGED <<required, amount, received, search>>

Next ==
    \/ Receive \/ CheckMoney \/ Group \/ VisitGroup \/ EndFirstRound
    \/ Combine \/ EndRound \/ Spend \/ Refuse \/ AddRemainder

Spec == Init /\ [][Next]_vars

-----------------------------------------------------------------------------
\* The sums fit into an int.
Fits == Worth(Unspent \cup {Late}) < 2 ^ (Bits - 1)

\* Whatever order the groups and their combinations are visited in, and in
\* spite of the pruning, the sources that are spent cover the amount and no
\* others that do require fewer chains; if there are none, all the money was
\* not enough.  A payment received meanwhile may or may not be used.
Cheapest ==
    /\ pc \in {"spend", "rest", "paid"} /\ bestTuple # {} /\ Fits =>
          /\ Worth(bestTuple) >= amount
          /\ \A tuple \in SUBSET Unspent :
                Worth(tuple) >= amount => Cost(tuple) >= Cost(bestTuple)
    /\ pc = "refused" /\ Fits => Worth(Unspent) < amount

\* The balance is the worth of the unspent transactions at every moment, and
\* no money is lost or made, with a payment that comes in between.
MoneyConserved ==
    /\ availableMoney = Worth(unspent)
    /\ pc = "paid" /\ Fits =>
          availableMoney + amount =
              Worth(Unspent) + (IF received THEN value[Late] ELSE 0)

=============================================================================
