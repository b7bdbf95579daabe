------------------------- MODULE ConfirmedDelivery -------------------------
(***************************************************************************)
(* What the sending half of a node promises to its peers, without threads, *)
(* sweeps or pointers: a block's transaction is handed over at most once,  *)
(* in block order, only when enough blocks at or above it are known to be  *)
(* on the main chain, and a block that such a commit covers gets no new    *)
(* content.                                                                *)
(***************************************************************************)
EXTENDS Integers, FiniteSets

CONSTANTS RequiredCommits, MaxBlock

VARIABLES
    produced,    \* blocks that hold a transaction of this node
    confirmed,   \* blocks this node knows to be on the main chain
    sends        \* sends[b]: times the transaction of b was handed over

vars == <<produced, confirmed, sends>>

Block == 0 .. MaxBlock

Confirmations(b) == Cardinality({c \in confirmed : b <= c})

Init ==
    /\ produced = {}
    /\ confirmed = {0}
    /\ sends = [b \in Block |-> 0]

Produce(b) ==
    /\ \A c \in produced \cup confirmed : c < b
    /\ produced' = produced \cup {b}
    /\ UNCHANGED <<confirmed, sends>>

Confirm(b) ==
    /\ confirmed' = confirmed \cup {b}
    /\ UNCHANGED <<produced, sends>>

Deliver(b) ==
    /\ b \in produced
    /\ sends[b] = 0
    /\ \A d \in produced : d < b => sends[d] > 0
    /\ Confirmations(b) >= RequiredCommits
    /\ sends' = [sends EXCEPT ![b] = 1]
    /\ UNCHANGED <<produced, confirmed>>

Next == \E b \in Block : Produce(b) \/ Confirm(b) \/ Deliver(b)

Spec == Init /\ [][Next]_vars
=============================================================================
