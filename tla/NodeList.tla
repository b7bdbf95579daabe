------------------------------ MODULE NodeList ------------------------------
(***************************************************************************)
(* NodeList.js and Node.js: the list of nodes of the tracker server.       *)
(*                                                                         *)
(* The list is a JavaScript array indexed by the ids of the nodes.  Nodes  *)
(* register in any order, so the array may have holes; here it is the      *)
(* function from the ids that are there to their nodes, and its length is  *)
(* one more than the highest of them.  Of a node its public key and its    *)
(* flag are kept; the address goes with the key.                           *)
(***************************************************************************)
EXTENDS Integers, FiniteSets

\* Node's constructor.
NewNode(publicKey) == [publicKey |-> publicKey, running |-> FALSE]

\* NodeList's constructor.
NewNodeList == [id \in {} |-> NewNode(0)]

\* id < this.nodes.length.
InRange(nodes, id) == \E i \in DOMAIN nodes : id <= i

\* An entry of the array that was never assigned.
IsHole(nodes, id) == InRange(nodes, id) /\ id \notin DOMAIN nodes

\* A node that registers again is replaced, and is not running.
registerNode(nodes, id, publicKey) ==
    [i \in DOMAIN nodes \cup {id} |->
        IF i = id THEN NewNode(publicKey) ELSE nodes[i]]

\* Slip: an id that is not in the list is added to it.
StatusOfAny(nodes, id, running) ==
    [i \in DOMAIN nodes \cup {id} |->
        IF i = id THEN [publicKey |-> -1, running |-> running] ELSE nodes[i]]

\* Beyond the end it returns false, on a hole it throws: the list stays as it
\* is in both cases.
setNodeStatus(nodes, id, running) ==
    IF id \in DOMAIN nodes THEN [nodes EXCEPT ![id].running = running]
    ELSE nodes

getRunning(nodes) == Cardinality({id \in DOMAIN nodes : nodes[id].running})

\* Slip: the length of the array is taken for the number of nodes.
LengthOfArray(nodes) ==
    IF DOMAIN nodes = {} THEN 0
    ELSE 1 + CHOOSE id \in DOMAIN nodes : \A i \in DOMAIN nodes : i <= id

\* Holes are not counted.
getSize(nodes) == Cardinality(DOMAIN nodes)

\* forEach leaves out the holes.
getGraphNodes(nodes) == DOMAIN nodes
=============================================================================
