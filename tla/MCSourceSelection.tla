------------------------ MODULE MCSourceSelection -------------------------
(***************************************************************************)
(* SourceSelection for TLC.  Chains, and the transactions that are unspent *)
(* at the start, are interchangeable.                                      *)
(***************************************************************************)
EXTENDS SourceSelection, TLC

Interchangeable == Permutations(Chain) \cup Permutations(Unspent)

=============================================================================
