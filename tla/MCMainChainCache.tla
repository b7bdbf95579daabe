------------------------- MODULE MCMainChainCache -------------------------
(***************************************************************************)
(* Contents of the main chain's blocks for TLC.                            *)
(***************************************************************************)
EXTENDS MainChainCache

\* An empty block, one abstract, and two of them with an entry between that
\* cannot be parsed.
Contents == {<<>>, <<TRUE>>, <<TRUE, FALSE, TRUE>>}
=============================================================================
