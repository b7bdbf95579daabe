-------------------------- MODULE MCProofExchange --------------------------
(***************************************************************************)
(* Instances of ProofExchange for TLC: who pays whom, in which order, among *)
(* three nodes.                                                             *)
(***************************************************************************)
EXTENDS ProofExchange

\* Node 2 pays both others and each of those pays the other: node 1 can build
\* a proof for node 3 from blocks of node 2 while node 3 tells it of the same
\* blocks.
MutualPayments == <<<<3>>, <<1, 3, 1>>, <<1>>>>

\* Node 2 pays on what it got from node 1, node 3 only receives.
Line == <<<<2, 2>>, <<3>>, <<>>>>

=============================================================================
