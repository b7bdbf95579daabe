-------------------------- MODULE KnownAbstracts --------------------------
(***************************************************************************)
(* What a node may rely on when it asks its main chain whether an abstract *)
(* is there: abstracts are never taken off the main chain, the node learns *)
(* of them one by one and in any order, only of those that are there, and  *)
(* never forgets one.  This is the main chain that BlockPipeline and       *)
(* ProofExchange assume and that MainChainCache implements.                *)
(***************************************************************************)
VARIABLES
    onChain,   \* abstracts on the main chain
    known      \* those the node answers isPresent with true for

vars == <<onChain, known>>

Init == onChain # {} /\ known = onChain

Include ==
    /\ onChain \subseteq onChain'
    /\ UNCHANGED known

Learn(a) ==
    /\ known' = known \cup {a}
    /\ UNCHANGED onChain

Next == Include \/ \E a \in onChain : Learn(a)

Spec == Init /\ [][Next]_vars
=============================================================================
