-------------------------- MODULE MCTrackerServer --------------------------
(***************************************************************************)
(* Two nodes for TLC, node 1 with the master and node 0 in a process of    *)
(* its own.  The master may be started again, which resets the tracker for *)
(* the other process, and the other process registers two payments in one  *)
(* request; a third one is registered by itself after them.                *)
(***************************************************************************)
EXTENDS TrackerServer

OneEach == [n \in Node |-> IF n = 1 THEN "master" ELSE "worker"]

OfWorker ==
    [p \in Process |-> IF p = Master THEN {}
                      ELSE {<<NewTransaction(1, 0, 2, 5),
                         NewTransaction(0, 1, 1, 3)>>}]

OneMore == {NewTransaction(0, 1, 1, 4)}

TwoForMaster == [p \in Process |-> IF p = Master THEN 2 ELSE 1]
=============================================================================
