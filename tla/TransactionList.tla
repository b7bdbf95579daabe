-------------------------- MODULE TransactionList --------------------------
(***************************************************************************)
(* TransactionList.js and Transaction.js: what the tracker server keeps of *)
(* the payments registered with it.                                        *)
(*                                                                         *)
(* Transactions between the same two nodes are kept under one key, of them *)
(* only how many there are is ever read.  Next to them are totals, and the *)
(* data points that are taken of these at regular intervals.               *)
(***************************************************************************)
EXTENDS Integers, Sequences, FiniteSets, SequencesExt

\* Transaction's constructor; the amount and the remainder are never read.
NewTransaction(from, to, numberOfChains, numberOfBlocks) ==
    [from |-> from, to |-> to,
     numberOfChains |-> numberOfChains, numberOfBlocks |-> numberOfBlocks]

\* TransactionList's constructor.
NewTransactionList ==
    [transactions |-> [key \in {} |-> 0],
     numberOfTransactions |-> 0,
     numberOfChains |-> 0,
     numberOfBlocks |-> 0,
     numbersArray |-> <<>>]

\* Slip: the key depends on the direction of the payment.
DirectedKey(node1, node2) == <<node1, node2>>

\* The lower id first, so that both directions have the same key.
OrderedKey(node1, node2) ==
    IF node1 > node2 THEN <<node2, node1>> ELSE <<node1, node2>>

getEdgeWeightWithKey(list, key) ==
    IF key \in DOMAIN list.transactions THEN list.transactions[key] ELSE 0

getEdgeWeight(list, node1, node2) ==
    getEdgeWeightWithKey(list, OrderedKey(node1, node2))

addTransaction(list, tx) ==
    LET key == OrderedKey(tx.from, tx.to) IN
    [list EXCEPT
        !.numberOfTransactions = @ + 1,
        !.numberOfChains = @ + tx.numberOfChains,
        !.numberOfBlocks = @ + tx.numberOfBlocks,
        !.transactions = [k \in DOMAIN @ \cup {key} |->
            getEdgeWeightWithKey(list, k) + (IF k = key THEN 1 ELSE 0)]]

\* The forEach of /register-transactions.
addTransactions(list, txs) == FoldLeft(addTransaction, list, txs)

getGraphEdges(list) ==
    {[from |-> key[1], to |-> key[2], value |-> getEdgeWeightWithKey(list, key)] :
         key \in DOMAIN list.transactions}

\* A quotient, as numerator and denominator.
Average(total, count) == IF count = 0 THEN <<0, 1>> ELSE <<total, count>>

getNumbers(list) ==
    [numberOfTransactions |-> list.numberOfTransactions,
     averageNumberOfBlocks |->
         Average(list.numberOfBlocks, list.numberOfTransactions),
     averageNumberOfChains |->
         Average(list.numberOfChains, list.numberOfTransactions)]

\* There is no data point of a list without numbers.
addNumbersToArray(list) ==
    LET numbers == getNumbers(list) IN
    IF \/ numbers.numberOfTransactions # 0
       \/ numbers.averageNumberOfBlocks[1] # 0
       \/ numbers.averageNumberOfChains[1] # 0
    THEN [list EXCEPT !.numbersArray = Append(@, numbers)]
    ELSE list
=============================================================================
