---------------------------- MODULE TrackerFlags ----------------------------
(***************************************************************************)
(* What the simulation relies on from the tracker: a set of registered     *)
(* nodes and, among them, those marked as running.  Nodes get into both    *)
(* one at a time, leave the second one at a time, and leave the first only *)
(* by a reset, which empties both.  SimulationLifecycle takes the tracker  *)
(* for this; TrackerServer implements it.                                  *)
(***************************************************************************)
CONSTANT Node

VARIABLES
    registered,  \* the nodes in the list
    flagged      \* those marked as running

vars == <<registered, flagged>>

Init == registered = {} /\ flagged = {}

Reset == registered' = {} /\ flagged' = {}

\* A node that registers again is no longer marked.
Register(n) ==
    /\ registered' = registered \cup {n}
    /\ flagged' = flagged \ {n}

Mark(n) ==
    /\ n \in registered
    /\ flagged' = flagged \cup {n}
    /\ UNCHANGED registered

Clear(n) ==
    /\ flagged' = flagged \ {n}
    /\ UNCHANGED registered

Next == Reset \/ \E n \in Node : Register(n) \/ Mark(n) \/ Clear(n)

Spec == Init /\ [][Next]_vars
=============================================================================
