----------------------- MODULE MCSimulationLifecycle -----------------------
(***************************************************************************)
(* Two nodes for TLC, one with the master and one in a process of its own. *)
(***************************************************************************)
EXTENDS SimulationLifecycle

OneEach == [n \in Node |-> IF n = 1 THEN "master" ELSE "worker"]
=============================================================================
