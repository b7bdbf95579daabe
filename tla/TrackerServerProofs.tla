------------------------ MODULE TrackerServerProofs ------------------------
(***************************************************************************)
(* Proofs about the tracker server, for any processes, nodes and pages and *)
(* any number of starts: its variables keep their types, a process that    *)
(* saw every node registered gets a whole list with its own new keys, and  *)
(* the list of nodes implements TrackerFlags.                              *)
(***************************************************************************)
EXTENDS TrackerServer, InductionLemmas, FiniteSetTheorems, TLAPS

-----------------------------------------------------------------------------
(* The list of nodes.                                                      *)

\* The empty list is a list of nodes.
LEMMA NewNodeListIsOne == IsNodeList(NewNodeList) /\ DOMAIN NewNodeList = {}
  BY DEF IsNodeList, NewNodeList

\* A list with one more registered node is a list of nodes.
LEMMA Registering ==
  ASSUME NEW nodes, IsNodeList(nodes), NEW id \in Node, NEW key \in Nat
  PROVE  IsNodeList(registerNode(nodes, id, key))
  BY DEF IsNodeList, registerNode, NewNode

\* What a new status does to a list: only the flag of that node changes, and
\* only if it is there.
LEMMA Flagging ==
  ASSUME NEW nodes, IsNodeList(nodes), NEW id \in Node, NEW running \in BOOLEAN
  PROVE  /\ IsNodeList(setNodeStatus(nodes, id, running))
         /\ DOMAIN setNodeStatus(nodes, id, running) = DOMAIN nodes
         /\ \A n \in DOMAIN nodes :
               /\ setNodeStatus(nodes, id, running)[n].publicKey = nodes[n].publicKey
               /\ setNodeStatus(nodes, id, running)[n].running =
                    IF n = id THEN running ELSE nodes[n].running
<1>1. CASE id \in DOMAIN nodes
  <2> DEFINE new == setNodeStatus(nodes, id, running)
  <2>1. new = [nodes EXCEPT ![id].running = running]
    BY <1>1 DEF setNodeStatus
  <2>2. DOMAIN new = DOMAIN nodes
    BY <2>1
  <2>3. \A n \in DOMAIN nodes :
           nodes[n] \in [publicKey : Nat, running : BOOLEAN]
    BY DEF IsNodeList
  <2>4. ASSUME NEW n \in DOMAIN nodes
        PROVE  /\ new[n] \in [publicKey : Nat, running : BOOLEAN]
               /\ new[n].publicKey = nodes[n].publicKey
               /\ new[n].running = IF n = id THEN running ELSE nodes[n].running
    BY <2>1, <2>3
  <2> QED
    BY <2>2, <2>4 DEF IsNodeList
<1>2. CASE id \notin DOMAIN nodes
  BY <1>2 DEF setNodeStatus
<1> QED
  BY <1>1, <1>2

\* As many nodes as there are ids: every id has its node.
LEMMA FullListIsWhole ==
  ASSUME NEW nodes, IsNodeList(nodes), getSize(nodes) = Cardinality(Node)
  PROVE  DOMAIN nodes = Node
  BY TrackerAssumption, FS_Subset DEF IsNodeList, getSize

-----------------------------------------------------------------------------
(* The types.                                                              *)

\* Every variable of the server has its type at the beginning.
LEMMA InitType == Init => TypeOK
<1> SUFFICES ASSUME Init PROVE TypeOK
  OBVIOUS
<1>1. ClientsOK
  BY NewNodeListIsOne, TrackerAssumption DEF Init, ClientsOK, Phase
<1>2. /\ timers = 0 /\ ~writing /\ topic = {} /\ open = {}
      /\ connection = [g \in Page |-> 0] /\ stream = [g \in Page |-> <<>>]
      /\ writing \in BOOLEAN
  BY DEF Init
<1>3. 0 \in 0 .. MaxConnections
  BY TrackerAssumption
<1>4. connection \in [Page -> 0 .. MaxConnections]
  BY <1>2, <1>3
<1>5. \A g \in Page : stream[g] = <<>>
  BY <1>2
<1>6. PagesOK
  BY <1>2, <1>4, <1>5 DEF PagesOK
<1> QED
  BY <1>1, <1>6 DEF TypeOK

\* Steps that leave the nodes and the processes alone.
LEMMA ClientsUnchanged ==
  ClientsOK /\ UNCHANGED <<nodeList, clientVars, disturbed>> => ClientsOK'
BY DEF ClientsOK, clientVars, IsNodeList

\* The steps that matter to the nodes and the processes, and all others.
LEMMA StepCases ==
  ASSUME [Next]_vars
  PROVE  \/ \E p \in Process : \/ Start(p) \/ RegisterNode(p) \/ FetchNodes(p)
                             \/ WaitForRegister(p) \/ WaitForInitialize(p)
                             \/ WaitForStop(p)
         \/ \E n \in Node : NodeNext(n)
         \/ WriteFails
         \/ UNCHANGED <<nodeList, clientVars, disturbed>>
<1>1. \A p \in Process :
         SendTransactions(p) => UNCHANGED <<nodeList, clientVars, disturbed>>
  BY DEF SendTransactions, serverVars
<1>2. ServerNext => WriteFails \/ UNCHANGED <<nodeList, clientVars, disturbed>>
  BY DEF ServerNext, RegisterTransactions, RegisterTransaction, DataHeartbeat,
     Heartbeat, WriteData, Written, Closed, serverVars
<1>3. \A g \in Page : PageNext(g) => UNCHANGED <<nodeList, clientVars, disturbed>>
  BY DEF PageNext, Connect, Read, Break, serverVars
<1>4. UNCHANGED vars => UNCHANGED <<nodeList, clientVars, disturbed>>
  BY DEF vars, serverVars
<1> QED
  BY <1>1, <1>2, <1>3, <1>4 DEF Next, ProcessNext

\* Every step keeps the types of what clients and server have.
LEMMA ClientsStep == ClientsOK /\ [Next]_vars => ClientsOK'
<1> SUFFICES ASSUME ClientsOK, [Next]_vars PROVE ClientsOK'
  OBVIOUS
<1> USE TrackerAssumption DEF Phase, Goto
<1>1. ASSUME NEW p \in Process, Start(p) PROVE ClientsOK'
  <2>1. IsNodeList(nodeList')
    BY <1>1, NewNodeListIsOne DEF ClientsOK, Start, Reset
  <2>2. \A q \in Process : told'[q] \subseteq Own(q) /\ IsNodeList(list'[q])
    BY <1>1, NewNodeListIsOne DEF ClientsOK, Start
  <2>3. disturbed' \subseteq Process
    BY <1>1 DEF ClientsOK, Start
  <2> QED
    BY <1>1, <2>1, <2>2, <2>3 DEF ClientsOK, Start
<1>2. ASSUME NEW p \in Process, RegisterNode(p) PROVE ClientsOK'
  <2>1. PICK n \in Own(p) : /\ nodeList' = registerNode(nodeList, n, starts[p])
                            /\ told' = [told EXCEPT ![p] = @ \cup {n}]
    BY <1>2 DEF RegisterNode
  <2>2. IsNodeList(nodeList')
    BY <2>1, Registering DEF ClientsOK, Own
  <2>3. phase' \in [Process -> Phase]
    BY <1>2 DEF ClientsOK, RegisterNode
  <2>4. told' \in [Process -> SUBSET Node] /\ \A q \in Process : told'[q] \subseteq Own(q)
    BY <2>1 DEF ClientsOK, Own
  <2> QED
    BY <1>2, <2>2, <2>3, <2>4 DEF ClientsOK, RegisterNode
<1>3. ASSUME NEW p \in Process,
             WaitForRegister(p) \/ WaitForInitialize(p) \/ WaitForStop(p)
      PROVE  ClientsOK'
  <2>1. PICK next \in Phase : Goto(p, next) /\
           UNCHANGED <<nodeList, starts, told, list, mark, disturbed>>
    BY <1>3 DEF WaitForRegister, WaitForInitialize, WaitForStop, serverVars
  <2> QED
    BY <2>1 DEF ClientsOK, IsNodeList
<1>4. ASSUME NEW p \in Process, FetchNodes(p) PROVE ClientsOK'
  <2>1. \A q \in Process : IsNodeList(list'[q])
    BY <1>4 DEF ClientsOK, FetchNodes
  <2>2. phase' \in [Process -> Phase] /\ DOMAIN list' = Process
    BY <1>4 DEF ClientsOK, FetchNodes
  <2> QED
    BY <1>4, <2>1, <2>2 DEF ClientsOK, FetchNodes, serverVars
<1>5. ASSUME NEW n \in Node, NodeNext(n) PROVE ClientsOK'
  <2>1. PICK running \in BOOLEAN : SetNodeStatus(n, running)
    BY <1>5 DEF NodeNext, MarkRunning, MarkStopped
  <2>2. IsNodeList(nodeList')
    BY <2>1, Flagging DEF ClientsOK, SetNodeStatus
  <2> QED
    BY <2>1, <2>2 DEF ClientsOK, SetNodeStatus
<1>6. ASSUME WriteFails PROVE ClientsOK'
  BY <1>6, NewNodeListIsOne DEF ClientsOK, WriteFails, clientVars
<1>7. CASE UNCHANGED <<nodeList, clientVars, disturbed>>
  BY <1>7, ClientsUnchanged
<1> QED
  BY <1>1, <1>2, <1>3, <1>4, <1>5, <1>6, <1>7, StepCases

\* What is sent goes to open streams only.
LEMMA Sending ==
  ASSUME PagesOK, updateSseClients
  PROVE  /\ UNCHANGED <<open, connection, shown>>
         /\ DOMAIN stream' = Page
         /\ \A g \in Page : stream'[g] # <<>> => g \in open
BY DEF PagesOK, updateSseClients

\* Every step keeps the types of what pages and server have.
LEMMA PagesStep == PagesOK /\ [Next]_vars => PagesOK'
<1> SUFFICES ASSUME PagesOK, [Next]_vars PROVE PagesOK'
  OBVIOUS
<1> USE TrackerAssumption DEF PagesOK
<1>1. ASSUME UNCHANGED <<topic, writing, pageVars>>, timers' \in Nat
      PROVE  PagesOK'
  BY <1>1 DEF pageVars
<1>2. ASSUME updateSseClients, UNCHANGED <<timers, topic, writing>> PROVE PagesOK'
  BY <1>2, Sending
<1>3. ASSUME NEW p \in Process, ProcessNext(p) PROVE PagesOK'
  <2>1. CASE Start(p)
    BY <1>1, <2>1 DEF Start, Reset
  <2>2. CASE RegisterNode(p)
    BY <1>2, <2>2 DEF RegisterNode
  <2>3. CASE ~Start(p) /\ ~RegisterNode(p)
    BY <1>1, <1>3, <2>3 DEF ProcessNext, WaitForRegister, FetchNodes,
       WaitForInitialize, SendTransactions, WaitForStop, serverVars
  <2> QED
    BY <2>1, <2>2, <2>3
<1>4. ASSUME NEW n \in Node, NodeNext(n) PROVE PagesOK'
  BY <1>1, <1>4 DEF NodeNext, MarkRunning, MarkStopped, SetNodeStatus
<1>5. ASSUME RegisterTransactions \/ RegisterTransaction \/ Heartbeat PROVE PagesOK'
  <2>1. updateSseClients /\ UNCHANGED <<timers, topic, writing>>
    BY <1>5 DEF RegisterTransactions, RegisterTransaction, Heartbeat, serverVars
  <2> QED
    BY <1>2, <2>1
<1>6. ASSUME DataHeartbeat PROVE PagesOK'
  BY <1>1, <1>6 DEF DataHeartbeat
<1>7. ASSUME WriteData \/ Written PROVE PagesOK'
  <2>1. UNCHANGED <<timers, topic, pageVars>> /\ writing' \in BOOLEAN
    BY <1>7 DEF WriteData, Written, serverVars
  <2> QED
    BY <2>1 DEF pageVars
<1>8. ASSUME WriteFails PROVE PagesOK'
  <2>1. /\ timers' = 0 /\ topic' = {} /\ open' = {} /\ writing' \in BOOLEAN
        /\ connection' = connection /\ stream' = [g \in Page |-> <<>>]
    BY <1>8 DEF WriteFails
  <2>2. \A g \in Page : stream'[g] = <<>>
    BY <2>1
  <2>3. DOMAIN stream' = Page
    BY <2>1
  <2> QED
    BY <2>1, <2>2, <2>3
<1>9. ASSUME Closed PROVE PagesOK'
  <2>1. PICK c \in topic : IsBroken(c) /\ topic' = topic \ {c}
    BY <1>9 DEF Closed
  <2>2. UNCHANGED <<timers, writing, open, connection, stream>>
    BY <1>9 DEF Closed, pageVars
  <2>3. \A g \in Page : g \in open => <<g, connection[g]>> \in topic'
    BY <2>1 DEF IsBroken
  <2> QED
    BY <2>1, <2>2, <2>3
<1>10. ASSUME NEW g \in Page, Connect(g) PROVE PagesOK'
  <2>1. /\ connection[g] < MaxConnections
        /\ connection' = [connection EXCEPT ![g] = @ + 1]
        /\ open' = open \cup {g}
        /\ topic' = topic \cup {<<g, connection'[g]>>}
        /\ UNCHANGED <<timers, writing, stream>>
    BY <1>10 DEF Connect, add
  <2>2. connection' \in [Page -> 0 .. MaxConnections]
    BY <2>1
  <2>3. connection'[g] \in 1 .. MaxConnections
    BY <2>1
  <2>4. \A h \in Page : h \in open' => <<h, connection'[h]>> \in topic'
    BY <2>1
  <2> QED
    BY <2>1, <2>2, <2>3, <2>4
<1>11. ASSUME NEW g \in Page, Read(g) \/ Break(g) PROVE PagesOK'
  <2>1. UNCHANGED <<timers, topic, writing, connection>>
    BY <1>11 DEF Read, Break, serverVars
  <2>2. CASE Read(g)
    BY <2>1, <2>2 DEF Read
  <2>3. CASE Break(g)
    BY <2>1, <2>3 DEF Break
  <2> QED
    BY <1>11, <2>2, <2>3
<1>12. CASE UNCHANGED vars
  BY <1>1, <1>12 DEF vars, serverVars
<1> QED
  BY <1>3, <1>4, <1>5, <1>6, <1>7, <1>8, <1>9, <1>10, <1>11, <1>12
     DEF Next, ServerNext, PageNext

\* Every variable keeps its type, whatever requests come and in whatever order;
\* in particular no status request puts a node into the list, and the server
\* writes to the stream of every page that has one open.
THEOREM TypeCorrect == Spec => []TypeOK
<1>1. TypeOK /\ [Next]_vars => TypeOK'
  BY ClientsStep, PagesStep DEF TypeOK
<1> QED
  BY InitType, <1>1, PTL DEF Spec

-----------------------------------------------------------------------------
(* What a process that is not disturbed finds in the list.                 *)

\* The nodes it was told of are registered, with the keys it made.
OwnAreThere ==
    \A p \in Process : p \notin disturbed /\ phase[p] # "off" =>
        \A n \in told[p] :
            n \in DOMAIN nodeList /\ nodeList[n].publicKey = starts[p]

\* It waits for the others when all of its own are registered.
OwnAreTold ==
    \A p \in Process : phase[p] \notin {"off", "register"} => told[p] = Own(p)

\* Between the status that was complete and the request for the list the list
\* stays complete.
CompleteAtFetch ==
    \A p \in Process :
        p \notin disturbed /\ phase[p] = "fetch" => DOMAIN nodeList = Node

WholeInv ==
    ClientsOK /\ OwnAreThere /\ OwnAreTold /\ CompleteAtFetch /\ ListIsWhole

\* What FetchesAreWhole needs holds at the beginning.
LEMMA InitWhole == Init => WholeInv
<1> SUFFICES ASSUME Init PROVE WholeInv
  OBVIOUS
<1>1. ClientsOK
  BY InitType DEF TypeOK
<1>2. \A p \in Process : phase[p] = "off"
  BY DEF Init
<1> QED
  BY <1>1, <1>2 DEF WholeInv, OwnAreThere, OwnAreTold, CompleteAtFetch, ListIsWhole

\* A process has told the tracker of its own nodes before it waits.
LEMMA StepTold == WholeInv /\ [Next]_vars => OwnAreTold'
<1> SUFFICES ASSUME WholeInv, [Next]_vars PROVE OwnAreTold'
  OBVIOUS
<1> USE DEF WholeInv, OwnAreTold, ClientsOK
<1>1. ASSUME NEW p \in Process, Start(p) PROVE OwnAreTold'
  BY <1>1 DEF Start, Goto
<1>2. ASSUME NEW p \in Process, RegisterNode(p) PROVE OwnAreTold'
  BY <1>2 DEF RegisterNode, Goto
<1>3. ASSUME NEW p \in Process,
             FetchNodes(p) \/ WaitForRegister(p) \/ WaitForInitialize(p) \/ WaitForStop(p)
      PROVE  OwnAreTold'
  <2>1. /\ told' = told /\ told[p] = Own(p)
        /\ \E next \in Phase : phase' = [phase EXCEPT ![p] = next]
    BY <1>3 DEF FetchNodes, WaitForRegister, WaitForInitialize, WaitForStop, Goto, Phase
  <2> QED
    BY <2>1
<1>4. ASSUME NEW n \in Node, NodeNext(n) PROVE OwnAreTold'
  BY <1>4 DEF NodeNext, MarkRunning, MarkStopped, SetNodeStatus
<1>5. CASE WriteFails
  BY <1>5 DEF WriteFails, clientVars
<1>6. CASE UNCHANGED <<nodeList, clientVars, disturbed>>
  BY <1>6 DEF clientVars
<1> QED
  BY <1>1, <1>2, <1>3, <1>4, <1>5, <1>6, StepCases

\* Who starts: what it has seen is forgotten, and if it is the master everyone
\* else who runs is disturbed.
LEMMA StartWhole ==
  ASSUME WholeInv, NEW p \in Process, Start(p)
  PROVE  OwnAreThere' /\ CompleteAtFetch' /\ ListIsWhole'
<1> USE DEF WholeInv, ClientsOK
<1>1. /\ phase' = [phase EXCEPT ![p] = "register"]
      /\ starts' = [starts EXCEPT ![p] = @ + 1]
      /\ told' = [told EXCEPT ![p] = {}]
      /\ list' = [list EXCEPT ![p] = NewNodeList]
  BY DEF Start, Goto
<1>2. ASSUME NEW q \in Process, q # p, q \notin disturbed', phase[q] # "off"
      PROVE  q \notin disturbed /\ nodeList' = nodeList
  BY <1>2 DEF Start
<1>3. OwnAreThere'
  <2> SUFFICES ASSUME NEW q \in Process, q \notin disturbed', phase'[q] # "off",
                      NEW n \in told'[q]
               PROVE  n \in DOMAIN nodeList' /\ nodeList'[n].publicKey = starts'[q]
    BY DEF OwnAreThere
  <2>1. q # p
    BY <1>1
  <2>2. phase[q] # "off" /\ n \in told[q] /\ starts'[q] = starts[q]
    BY <1>1, <2>1
  <2> QED
    BY <1>2, <2>1, <2>2 DEF OwnAreThere
<1>4. CompleteAtFetch'
  <2> SUFFICES ASSUME NEW q \in Process, q \notin disturbed', phase'[q] = "fetch"
               PROVE  DOMAIN nodeList' = Node
    BY DEF CompleteAtFetch
  <2>1. q # p /\ phase[q] = "fetch"
    BY <1>1
  <2> QED
    BY <1>2, <2>1 DEF CompleteAtFetch
<1>5. ListIsWhole'
  <2> SUFFICES ASSUME NEW q \in Process, q \notin disturbed'
               PROVE  /\ phase'[q] # "dead"
                      /\ phase'[q] \in {"initialize", "transact", "end"} =>
                             /\ DOMAIN list'[q] = Node
                             /\ \A n \in Own(q) : list'[q][n].publicKey = starts'[q]
    BY DEF ListIsWhole
  <2>1. CASE q = p
    BY <1>1, <2>1
  <2>2. CASE q # p
    <3>1. phase'[q] = phase[q] /\ list'[q] = list[q] /\ starts'[q] = starts[q]
      BY <1>1, <2>2
    <3>2. CASE phase[q] = "off"
      BY <3>1, <3>2
    <3>3. CASE phase[q] # "off"
      BY <1>2, <2>2, <3>1, <3>3 DEF ListIsWhole
    <3> QED
      BY <3>2, <3>3
  <2> QED
    BY <2>1, <2>2
<1> QED
  BY <1>3, <1>4, <1>5

\* Who registers a node: others have registered other nodes.
LEMMA RegisterWhole ==
  ASSUME WholeInv, NEW p \in Process, RegisterNode(p)
  PROVE  OwnAreThere' /\ CompleteAtFetch' /\ ListIsWhole'
<1> USE DEF WholeInv
<1>1. PICK n \in Own(p) : /\ nodeList' = registerNode(nodeList, n, starts[p])
                          /\ told' = [told EXCEPT ![p] = @ \cup {n}]
  BY DEF RegisterNode
<1>2. /\ UNCHANGED <<starts, list, disturbed>>
      /\ phase[p] = "register"
      /\ phase'[p] \in {"register", "wait"}
      /\ \A q \in Process : q # p => phase'[q] = phase[q]
  BY DEF RegisterNode, Goto, ClientsOK
<1>3. /\ DOMAIN nodeList' = DOMAIN nodeList \cup {n}
      /\ nodeList'[n].publicKey = starts[p]
      /\ \A m \in DOMAIN nodeList \ {n} : nodeList'[m] = nodeList[m]
  BY <1>1 DEF registerNode, NewNode
<1>4. OwnAreThere'
  <2> SUFFICES ASSUME NEW q \in Process, q \notin disturbed, phase'[q] # "off",
                      NEW m \in told'[q]
               PROVE  m \in DOMAIN nodeList' /\ nodeList'[m].publicKey = starts[q]
    BY <1>2 DEF OwnAreThere
  <2>1. CASE m = n
    <3>1. told'[q] \subseteq Own(q)
      BY <1>1 DEF ClientsOK
    <3>2. q = p
      BY <2>1, <3>1 DEF Own
    <3> QED
      BY <1>3, <2>1, <3>2
  <2>2. CASE m # n
    <3>1. m \in told[q] /\ phase[q] # "off"
      BY <1>1, <1>2, <2>2 DEF ClientsOK
    <3> QED
      BY <1>3, <2>2, <3>1 DEF OwnAreThere
  <2> QED
    BY <2>1, <2>2
<1>5. CompleteAtFetch'
  <2>1. n \in Node
    BY DEF Own
  <2> QED
    BY <1>2, <1>3, <2>1 DEF CompleteAtFetch
<1>6. ListIsWhole'
  BY <1>2 DEF ListIsWhole
<1> QED
  BY <1>4, <1>5, <1>6

\* Who has waited: as many nodes as there are in all are all of them.
LEMMA WaitWhole ==
  ASSUME WholeInv, NEW p \in Process,
         WaitForRegister(p) \/ WaitForInitialize(p) \/ WaitForStop(p)
  PROVE  OwnAreThere' /\ CompleteAtFetch' /\ ListIsWhole'
<1> USE DEF WholeInv
<1>1. UNCHANGED <<nodeList, starts, told, list, disturbed>>
  BY DEF WaitForRegister, WaitForInitialize, WaitForStop, serverVars
<1>2. /\ \A q \in Process : q # p => phase'[q] = phase[q]
      /\ phase[p] \in {"wait", "initialize", "transact"}
      /\ phase'[p] = "fetch" => getSize(nodeList) = Cardinality(Node)
      /\ phase'[p] # "fetch" =>
             phase[p] \in {"initialize", "transact"} /\ phase'[p] \in {"transact", "end"}
  BY DEF WaitForRegister, WaitForInitialize, WaitForStop, Goto, ClientsOK
<1>3. OwnAreThere'
  BY <1>1, <1>2 DEF OwnAreThere
<1>4. CompleteAtFetch'
  <2>1. phase'[p] = "fetch" => DOMAIN nodeList = Node
    BY <1>2, FullListIsWhole DEF ClientsOK
  <2> QED
    BY <1>1, <1>2, <2>1 DEF CompleteAtFetch
<1>5. ListIsWhole'
  BY <1>1, <1>2 DEF ListIsWhole
<1> QED
  BY <1>3, <1>4, <1>5

\* Who fetches the list: it is complete, and its own nodes are the ones it has
\* registered.
LEMMA FetchWhole ==
  ASSUME WholeInv, NEW p \in Process, FetchNodes(p)
  PROVE  OwnAreThere' /\ CompleteAtFetch' /\ ListIsWhole'
<1> USE DEF WholeInv
<1>1. /\ UNCHANGED <<nodeList, starts, told, disturbed>>
      /\ phase[p] = "fetch"
      /\ phase'[p] \in {"dead", "initialize"}
      /\ phase'[p] = "dead" => \E n \in Node : IsHole(nodeList, n)
      /\ phase'[p] = "initialize" => list'[p] = nodeList
      /\ \A q \in Process : q # p => phase'[q] = phase[q] /\ list'[q] = list[q]
  BY DEF FetchNodes, serverVars, Goto, ClientsOK
<1>2. OwnAreThere'
  BY <1>1 DEF OwnAreThere
<1>3. CompleteAtFetch'
  BY <1>1 DEF CompleteAtFetch
<1>4. ASSUME p \notin disturbed
      PROVE  /\ phase'[p] = "initialize"
             /\ DOMAIN list'[p] = Node
             /\ \A n \in Own(p) : list'[p][n].publicKey = starts[p]
  <2>1. DOMAIN nodeList = Node
    BY <1>1, <1>4 DEF CompleteAtFetch
  <2>2. phase'[p] = "initialize"
    BY <1>1, <2>1 DEF IsHole
  <2>3. told[p] = Own(p)
    BY <1>1 DEF OwnAreTold
  <2>4. \A n \in Own(p) : nodeList[n].publicKey = starts[p]
    BY <1>1, <1>4, <2>3 DEF OwnAreThere
  <2> QED
    BY <1>1, <2>1, <2>2, <2>4
<1>5. ListIsWhole'
  BY <1>1, <1>4 DEF ListIsWhole
<1> QED
  BY <1>2, <1>3, <1>5

\* A new status changes neither which nodes are there nor their keys.
LEMMA StatusWhole ==
  ASSUME WholeInv, NEW n \in Node, NodeNext(n)
  PROVE  OwnAreThere' /\ CompleteAtFetch' /\ ListIsWhole'
<1> USE DEF WholeInv
<1>1. PICK running \in BOOLEAN : SetNodeStatus(n, running)
  BY DEF NodeNext, MarkRunning, MarkStopped
<1>2. UNCHANGED <<phase, starts, told, list, disturbed>>
  BY <1>1 DEF SetNodeStatus
<1>3. /\ DOMAIN nodeList' = DOMAIN nodeList
      /\ \A m \in DOMAIN nodeList : nodeList'[m].publicKey = nodeList[m].publicKey
  BY <1>1, Flagging DEF SetNodeStatus, ClientsOK
<1> QED
  BY <1>2, <1>3 DEF OwnAreThere, CompleteAtFetch, ListIsWhole

\* And every step keeps it.
LEMMA StepWhole == WholeInv /\ [Next]_vars => WholeInv'
<1> SUFFICES ASSUME WholeInv, [Next]_vars PROVE WholeInv'
  OBVIOUS
<1>1. ClientsOK' /\ OwnAreTold'
  BY ClientsStep, StepTold DEF WholeInv
<1>2. CASE WriteFails
  <2>1. \A p \in Process : p \notin disturbed' => phase[p] = "off"
    BY <1>2 DEF WriteFails
  <2> QED
    BY <1>1, <1>2, <2>1
       DEF WholeInv, WriteFails, clientVars, OwnAreThere, CompleteAtFetch, ListIsWhole
<1>3. CASE UNCHANGED <<nodeList, clientVars, disturbed>>
  BY <1>1, <1>3
     DEF WholeInv, clientVars, OwnAreThere, CompleteAtFetch, ListIsWhole
<1>4. ASSUME OwnAreThere' /\ CompleteAtFetch' /\ ListIsWhole' PROVE WholeInv'
  BY <1>1, <1>4 DEF WholeInv
<1> QED
  BY <1>2, <1>3, <1>4, StepCases, StartWhole, RegisterWhole, WaitWhole, FetchWhole,
     StatusWhole

\* Counting the registered nodes with one request and fetching them with a later
\* one is enough: unless the tracker lost its list meanwhile the list has no
\* hole, every node of the system and the fetching process's own ones with the
\* keys of this start, however the processes interleave and restart.
THEOREM FetchesAreWhole == Spec => []ListIsWhole
<1>1. WholeInv => ListIsWhole
  BY DEF WholeInv
<1> QED
  BY InitWhole, StepWhole, <1>1, PTL DEF Spec

-----------------------------------------------------------------------------
(* The refinement.                                                         *)

\* The server begins as TrackerFlags does.
LEMMA InitFlags == Init => Flags!Init
BY NewNodeListIsOne DEF Init, Flags!Init

\* Registering puts a node into the list and takes its flag.
LEMMA RegisterFlags ==
  ASSUME ClientsOK, NEW p \in Process, RegisterNode(p)
  PROVE  Flags!Next
<1>1. PICK n \in Own(p) : nodeList' = registerNode(nodeList, n, starts[p])
  BY DEF RegisterNode
<1>2. n \in Node
  BY DEF Own
<1>3. /\ DOMAIN nodeList' = DOMAIN nodeList \cup {n}
      /\ ~nodeList'[n].running
      /\ \A m \in DOMAIN nodeList \ {n} : nodeList'[m] = nodeList[m]
  BY <1>1 DEF registerNode, NewNode
<1>4. Flags!Register(n)
  BY <1>3 DEF Flags!Register
<1> QED
  BY <1>2, <1>4 DEF Flags!Next

\* A status is one mark more or less, or none for a node that is not there.
LEMMA StatusFlags ==
  ASSUME ClientsOK, NEW n \in Node, NodeNext(n)
  PROVE  [Flags!Next]_Flags!vars
<1>1. PICK running \in BOOLEAN : nodeList' = setNodeStatus(nodeList, n, running)
  BY DEF NodeNext, MarkRunning, MarkStopped, SetNodeStatus
<1>2. CASE n \notin DOMAIN nodeList
  <2>1. nodeList' = nodeList
    BY <1>1, <1>2 DEF setNodeStatus
  <2> QED
    BY <2>1 DEF Flags!vars
<1>3. CASE n \in DOMAIN nodeList
  <2>1. /\ DOMAIN nodeList' = DOMAIN nodeList
        /\ \A m \in DOMAIN nodeList :
               nodeList'[m].running = IF m = n THEN running ELSE nodeList[m].running
    BY <1>1, Flagging DEF ClientsOK
  <2>2. CASE running
    <3>1. Flags!Mark(n)
      BY <1>3, <2>1, <2>2 DEF Flags!Mark
    <3> QED
      BY <3>1 DEF Flags!Next
  <2>3. CASE ~running
    <3>1. Flags!Clear(n)
      BY <1>3, <2>1, <2>3 DEF Flags!Clear
    <3> QED
      BY <3>1 DEF Flags!Next
  <2> QED
    BY <2>2, <2>3
<1> QED
  BY <1>2, <1>3

\* Every step of the server is a step of TrackerFlags or none.
LEMMA StepFlags == ClientsOK /\ [Next]_vars => [Flags!Next]_Flags!vars
<1> SUFFICES ASSUME ClientsOK, [Next]_vars PROVE [Flags!Next]_Flags!vars
  OBVIOUS
<1>1. ASSUME nodeList' = NewNodeList PROVE Flags!Next
  BY <1>1, NewNodeListIsOne DEF Flags!Next, Flags!Reset
<1>2. ASSUME nodeList' = nodeList PROVE [Flags!Next]_Flags!vars
  BY <1>2 DEF Flags!vars
<1>3. ASSUME NEW p \in Process, Start(p) PROVE [Flags!Next]_Flags!vars
  BY <1>1, <1>2, <1>3 DEF Start, Reset
<1>4. ASSUME NEW p \in Process,
             FetchNodes(p) \/ WaitForRegister(p) \/ WaitForInitialize(p) \/ WaitForStop(p)
      PROVE  [Flags!Next]_Flags!vars
  BY <1>2, <1>4 DEF FetchNodes, WaitForRegister, WaitForInitialize, WaitForStop, serverVars
<1>5. CASE WriteFails
  BY <1>1, <1>5 DEF WriteFails
<1> QED
  BY <1>2, <1>3, <1>4, <1>5, StepCases, RegisterFlags, StatusFlags

\* What the simulation takes the tracker for is what the server does: nodes are
\* registered and marked one at a time, only nodes in the list are marked, and
\* only a reset or an exit empties both.
THEOREM ServerImplementsFlags == Spec => ImplementsFlags
<1>1. ClientsOK /\ [Next]_vars => ClientsOK' /\ [Flags!Next]_Flags!vars
  BY ClientsStep, StepFlags
<1>2. Init => ClientsOK /\ Flags!Init
  BY InitType, InitFlags DEF TypeOK
<1> QED
  BY <1>1, <1>2, PTL DEF Spec, ImplementsFlags, Flags!Spec

-----------------------------------------------------------------------------
(* The list of transactions.                                               *)

\* The transactions that are counted under a key.
Under(key, txs) == {i \in DOMAIN txs : OrderedKey(txs[i].from, txs[i].to) = key}

IsTransactionList(list1) ==
    DOMAIN list1 = {"transactions", "numberOfTransactions", "numberOfChains",
                    "numberOfBlocks", "numbersArray"}

\* The totals and the edges of the list are those of txs.
Counts(list1, txs) ==
    /\ IsTransactionList(list1)
    /\ list1.numberOfTransactions = Len(txs)
    /\ list1.numberOfChains = Total(ChainsOf(txs), 1 .. Len(txs))
    /\ list1.numberOfBlocks = Total(BlocksOf(txs), 1 .. Len(txs))
    /\ \A key \in Node \X Node :
          getEdgeWeightWithKey(list1, key) = Cardinality(Under(key, txs))

\* What a new list counts.
LEMMA NewListCounts == Counts(NewTransactionList, <<>>)
<1> DEFINE new == NewTransactionList
<1>1. IsTransactionList(new)
  BY DEF NewTransactionList, IsTransactionList
<1>2. /\ new.numberOfTransactions = 0 /\ new.numberOfChains = 0
      /\ new.numberOfBlocks = 0 /\ DOMAIN new.transactions = {}
  BY DEF NewTransactionList
<1>3. Len(<<>>) = 0 /\ DOMAIN <<>> = {} /\ 1 .. 0 = {}
  OBVIOUS
<1>4. \A v : (\A x \in {} : v[x] \in Int) => Total(v, {}) = 0
  BY FS_EmptySet, TotalProperties
<1>5. /\ Total(ChainsOf(<<>>), 1 .. Len(<<>>)) = 0
      /\ Total(BlocksOf(<<>>), 1 .. Len(<<>>)) = 0
  BY <1>3, <1>4
<1>6. \A key : Under(key, <<>>) = {}
  BY <1>3 DEF Under
<1>7. \A key : getEdgeWeightWithKey(new, key) = 0
  BY <1>2 DEF getEdgeWeightWithKey
<1> HIDE DEF new
<1>8. \A key : getEdgeWeightWithKey(new, key) = Cardinality(Under(key, <<>>))
  BY <1>6, <1>7, FS_EmptySet
<1> QED
  BY <1>1, <1>2, <1>3, <1>5, <1>8 DEF Counts, new

\* The sum of one more value.
LEMMA SumOfOneMore ==
  ASSUME NEW n \in Nat, NEW v, NEW w, \A i \in 1 .. n + 1 : w[i] \in Int,
         \A i \in 1 .. n : v[i] = w[i]
  PROVE  Total(w, 1 .. n + 1) = Total(v, 1 .. n) + w[n + 1]
<1>1. IsFiniteSet(1 .. n + 1) /\ IsFiniteSet(1 .. n)
  BY FS_Interval
<1>2. n + 1 \in 1 .. n + 1 /\ (1 .. n + 1) \ {n + 1} = 1 .. n
  OBVIOUS
<1>3. 1 .. n + 1 \in SUBSET (1 .. n + 1) /\ 1 .. n \in SUBSET (1 .. n + 1)
  OBVIOUS
<1>4. /\ Total(w, 1 .. n + 1) = w[n + 1] + Total(w, 1 .. n)
      /\ Total(w, 1 .. n) \in Int
  BY <1>1, <1>2, <1>3, TotalProperties, SMTT(30)
<1>5. \A i \in 1 .. n : w[i] \in Int
  OBVIOUS
<1>6. Total(v, 1 .. n) = Total(w, 1 .. n)
  BY <1>1, <1>5, TotalOfEqual
<1>7. w[n + 1] \in Int
  OBVIOUS
<1> QED
  BY <1>4, <1>6, <1>7

\* A transaction more is counted under its own key, whatever its direction.
LEMMA UnderOfOneMore ==
  ASSUME NEW txs \in Seq(Transaction), NEW tx \in Transaction, NEW key
  PROVE  Cardinality(Under(key, Append(txs, tx)))
           = Cardinality(Under(key, txs))
             + (IF key = OrderedKey(tx.from, tx.to) THEN 1 ELSE 0)
<1> DEFINE n == Len(txs)
           S == Under(key, txs)
           T == Under(key, Append(txs, tx))
<1>1. /\ n \in Nat /\ DOMAIN txs = 1 .. n /\ DOMAIN Append(txs, tx) = 1 .. n + 1
      /\ \A i \in 1 .. n : Append(txs, tx)[i] = txs[i]
      /\ Append(txs, tx)[n + 1] = tx
  OBVIOUS
<1>2. S \subseteq 1 .. n
  BY <1>1 DEF Under
<1>3. IsFiniteSet(S) /\ Cardinality(S) \in Nat /\ n + 1 \notin S
  <2>1. IsFiniteSet(1 .. n)
    BY <1>1, FS_Interval
  <2>2. n + 1 \notin 1 .. n
    BY <1>1
  <2> QED
    BY <1>2, <2>1, <2>2, FS_Subset, FS_CardinalityType
<1>4. CASE key = OrderedKey(tx.from, tx.to)
  <2>1. T = S \cup {n + 1}
    BY <1>1, <1>4 DEF Under
  <2> HIDE DEF n, S, T
  <2>2. Cardinality(T) = Cardinality(S) + 1
    BY <1>3, <2>1, FS_AddElement
  <2> QED
    BY <1>4, <2>2 DEF S, T
<1>5. CASE key # OrderedKey(tx.from, tx.to)
  <2>1. T = S
    BY <1>1, <1>5 DEF Under
  <2> QED
    BY <1>3, <1>5, <2>1
<1> QED
  BY <1>4, <1>5

\* What addTransaction does to each field.
LEMMA AddedFields ==
  ASSUME NEW list1, IsTransactionList(list1), NEW tx
  PROVE  /\ IsTransactionList(addTransaction(list1, tx))
         /\ addTransaction(list1, tx).numberOfTransactions
              = list1.numberOfTransactions + 1
         /\ addTransaction(list1, tx).numberOfChains
              = list1.numberOfChains + tx.numberOfChains
         /\ addTransaction(list1, tx).numberOfBlocks
              = list1.numberOfBlocks + tx.numberOfBlocks
         /\ addTransaction(list1, tx).numbersArray = list1.numbersArray
         /\ \A key : getEdgeWeightWithKey(addTransaction(list1, tx), key)
              = getEdgeWeightWithKey(list1, key)
                + (IF key = OrderedKey(tx.from, tx.to) THEN 1 ELSE 0)
<1> DEFINE new == addTransaction(list1, tx)
           key == OrderedKey(tx.from, tx.to)
           edges == [k \in DOMAIN list1.transactions \cup {key} |->
                        getEdgeWeightWithKey(list1, k)
                        + (IF k = key THEN 1 ELSE 0)]
<1> HIDE DEF key
<1>1. new = [list1 EXCEPT
               !.numberOfTransactions = list1.numberOfTransactions + 1,
               !.numberOfChains = list1.numberOfChains + tx.numberOfChains,
               !.numberOfBlocks = list1.numberOfBlocks + tx.numberOfBlocks,
               !.transactions = edges]
  BY DEF addTransaction, key
<1> HIDE DEF new, edges
<1>2. /\ DOMAIN new = DOMAIN list1
      /\ new.transactions = edges
      /\ new.numberOfTransactions = list1.numberOfTransactions + 1
      /\ new.numberOfChains = list1.numberOfChains + tx.numberOfChains
      /\ new.numberOfBlocks = list1.numberOfBlocks + tx.numberOfBlocks
      /\ new.numbersArray = list1.numbersArray
  BY <1>1 DEF IsTransactionList
<1> USE DEF edges
<1>3. ASSUME NEW k
      PROVE  getEdgeWeightWithKey(new, k)
               = getEdgeWeightWithKey(list1, k) + (IF k = key THEN 1 ELSE 0)
  <2>1. CASE k \in DOMAIN edges
    <3>1. getEdgeWeightWithKey(new, k) = edges[k]
      BY <1>2, <2>1 DEF getEdgeWeightWithKey
    <3> QED
      BY <2>1, <3>1
  <2>2. CASE k \notin DOMAIN edges
    <3>1. k \notin DOMAIN list1.transactions /\ k # key
      BY <2>2
    <3>2. getEdgeWeightWithKey(new, k) = 0 /\ getEdgeWeightWithKey(list1, k) = 0
      BY <1>2, <2>2, <3>1 DEF getEdgeWeightWithKey
    <3> QED
      BY <3>1, <3>2
  <2> QED
    BY <2>1, <2>2
<1>4. IsTransactionList(new)
  BY <1>2 DEF IsTransactionList
<1> HIDE DEF edges
<1> QED
  BY <1>2, <1>3, <1>4 DEF new, key

\* One more transaction.
LEMMA AddingCounts ==
  ASSUME NEW list1, NEW txs \in Seq(Transaction), NEW tx \in Transaction,
         Counts(list1, txs)
  PROVE  Counts(addTransaction(list1, tx), Append(txs, tx))
<1> DEFINE n == Len(txs)
           new == addTransaction(list1, tx)
           more == Append(txs, tx)
<1>1. /\ n \in Nat /\ DOMAIN txs = 1 .. n
      /\ DOMAIN more = 1 .. n + 1 /\ Len(more) = n + 1
      /\ \A i \in 1 .. n : more[i] = txs[i]
      /\ more[n + 1] = tx
      /\ \A i \in 1 .. n + 1 : more[i] \in Transaction
  OBVIOUS
<1>0. \A key : Cardinality(Under(key, more))
                 = Cardinality(Under(key, txs))
                   + (IF key = OrderedKey(tx.from, tx.to) THEN 1 ELSE 0)
  BY UnderOfOneMore
<1> HIDE DEF more, n
<1>2. Total(ChainsOf(more), 1 .. n + 1)
        = Total(ChainsOf(txs), 1 .. n) + tx.numberOfChains
  <2>1. \A i \in 1 .. n + 1 : ChainsOf(more)[i] = more[i].numberOfChains
    BY <1>1 DEF ChainsOf
  <2>2. \A i \in 1 .. n + 1 : ChainsOf(more)[i] \in Int
    BY <1>1, <2>1 DEF Transaction
  <2>3. \A i \in 1 .. n : ChainsOf(txs)[i] = ChainsOf(more)[i]
    BY <1>1 DEF ChainsOf
  <2>4. ChainsOf(more)[n + 1] = tx.numberOfChains
    BY <1>1, <2>1
  <2> QED
    BY <1>1, <2>2, <2>3, <2>4, SumOfOneMore
<1>3. Total(BlocksOf(more), 1 .. n + 1)
        = Total(BlocksOf(txs), 1 .. n) + tx.numberOfBlocks
  <2>1. \A i \in 1 .. n + 1 : BlocksOf(more)[i] = more[i].numberOfBlocks
    BY <1>1 DEF BlocksOf
  <2>2. \A i \in 1 .. n + 1 : BlocksOf(more)[i] \in Int
    BY <1>1, <2>1 DEF Transaction
  <2>3. \A i \in 1 .. n : BlocksOf(txs)[i] = BlocksOf(more)[i]
    BY <1>1 DEF BlocksOf
  <2>4. BlocksOf(more)[n + 1] = tx.numberOfBlocks
    BY <1>1, <2>1
  <2> QED
    BY <1>1, <2>2, <2>3, <2>4, SumOfOneMore
<1>4. IsTransactionList(list1) /\ IsTransactionList(new)
  BY AddedFields DEF Counts
<1>8. \A key : getEdgeWeightWithKey(new, key)
               = getEdgeWeightWithKey(list1, key)
                 + (IF key = OrderedKey(tx.from, tx.to) THEN 1 ELSE 0)
  BY <1>4, AddedFields, Zenon
<1>5. /\ new.numberOfTransactions = Len(more)
      /\ new.numberOfChains = Total(ChainsOf(more), 1 .. Len(more))
      /\ new.numberOfBlocks = Total(BlocksOf(more), 1 .. Len(more))
  <2>1. /\ new.numberOfTransactions = list1.numberOfTransactions + 1
        /\ new.numberOfChains = list1.numberOfChains + tx.numberOfChains
        /\ new.numberOfBlocks = list1.numberOfBlocks + tx.numberOfBlocks
    BY <1>4, AddedFields
  <2>2. /\ list1.numberOfTransactions = n
        /\ list1.numberOfChains = Total(ChainsOf(txs), 1 .. n)
        /\ list1.numberOfBlocks = Total(BlocksOf(txs), 1 .. n)
    BY DEF Counts, n
  <2> QED
    BY <1>1, <1>2, <1>3, <2>1, <2>2
<1>6. ASSUME NEW key \in Node \X Node
      PROVE  getEdgeWeightWithKey(new, key) = Cardinality(Under(key, more))
  <2>1. getEdgeWeightWithKey(list1, key) = Cardinality(Under(key, txs))
    BY DEF Counts
  <2>2. getEdgeWeightWithKey(new, key)
          = getEdgeWeightWithKey(list1, key)
            + (IF key = OrderedKey(tx.from, tx.to) THEN 1 ELSE 0)
    BY <1>8
  <2>3. Cardinality(Under(key, more))
          = Cardinality(Under(key, txs))
            + (IF key = OrderedKey(tx.from, tx.to) THEN 1 ELSE 0)
    BY <1>0
  <2> QED
    BY <2>1, <2>2, <2>3
<1> HIDE DEF new
<1>7. Counts(new, more)
  BY <1>4, <1>5, <1>6 DEF Counts
<1> QED
  BY <1>7 DEF new, more

-----------------------------------------------------------------------------
(* A batch is added one transaction after the other.                       *)

\* A set of the first numbers has a largest one.
LEMMA LargestIsIn ==
  ASSUME NEW n \in Nat, NEW s \in SUBSET (1 .. n), s # {}
  PROVE  Max(s) \in s /\ \A y \in s : Max(s) >= y
<1> DEFINE t == {n - y : y \in s}
<1>1. t \subseteq Nat /\ t # {}
  <2>1. \A y \in s : n - y \in Nat
    <3> SUFFICES ASSUME NEW y \in s PROVE n - y \in Nat
      OBVIOUS
    <3>1. y \in 1 .. n
      OBVIOUS
    <3> QED BY <3>1
  <2>2. PICK y \in s : TRUE
    OBVIOUS
  <2>3. n - y \in t
    OBVIOUS
  <2> QED BY <2>1, <2>3
<1> HIDE DEF t
<1>2. PICK x \in t : \A z \in t : x <= z
  BY <1>1, LeastExists
<1>3. PICK y \in s : x = n - y
  BY DEF t
<1>4. \A z \in s : y >= z
  <2> SUFFICES ASSUME NEW z \in s PROVE y >= z
    OBVIOUS
  <2>1. n - y <= n - z
    BY <1>2, <1>3 DEF t
  <2> QED
    BY <2>1
<1>5. \E m \in s : \A z \in s : m >= z
  BY <1>4
<1> QED
  BY <1>5, Zenon DEF Max

\* The function that FoldLeft evaluates.
Folds(g, list1, txs) ==
    \A s \in SUBSET (DOMAIN txs) :
        g[s] = IF s = {} THEN list1
               ELSE addTransaction(g[s \ {Max(s)}], txs[Max(s)])

\* A batch can be folded into the list part by part.
LEMMA FoldingExists ==
  ASSUME NEW list1, NEW n \in Nat, NEW txs, DOMAIN txs = 1 .. n
  PROVE  \E g : /\ g = [s \in SUBSET (DOMAIN txs) |-> g[s]]
                /\ Folds(g, list1, txs)
<1> DEFINE U == 1 .. n
           e(g, s) == IF s = {} THEN list1
                      ELSE addTransaction(g[s \ {Max(s)}], txs[Max(s)])
           Upto(k) == {s \in SUBSET U : Cardinality(s) <= k}
           P(k) == \E g : /\ g = [s \in Upto(k) |-> g[s]]
                          /\ \A s \in Upto(k) : g[s] = e(g, s)
           K == {k \in Nat : P(k)}
<1>0. IsFiniteSet(U) /\ Cardinality(U) \in Nat
  BY FS_Interval, FS_CardinalityType
<1>1. \A s \in SUBSET U : IsFiniteSet(s) /\ Cardinality(s) \in Nat
  BY <1>0, FS_Subset, FS_CardinalityType
<1>2. ASSUME NEW s \in SUBSET U, s # {}
      PROVE  /\ s \ {Max(s)} \in SUBSET U
             /\ Cardinality(s \ {Max(s)}) = Cardinality(s) - 1
  <2>1. Max(s) \in s
    BY <1>2, LargestIsIn
  <2> QED
    BY <1>1, <2>1, FS_RemoveElement
<1> HIDE DEF U
<1>3. P(0)
  <2>1. \A s \in Upto(0) : s = {}
    BY <1>1, FS_EmptySet
  <2> DEFINE g == [s \in Upto(0) |-> list1]
  <2>2. \A s \in Upto(0) : g[s] = e(g, s)
    BY <2>1
  <2>3. g = [s \in Upto(0) |-> g[s]]
    BY Zenon
  <2> HIDE DEF g, Upto
  <2> QED BY <2>2, <2>3
<1>4. ASSUME NEW k \in Nat, P(k) PROVE P(k + 1)
  <2>1. PICK g : \A s \in Upto(k) : g[s] = e(g, s)
    BY <1>4
  <2> DEFINE h == [s \in Upto(k + 1) |-> e(g, s)]
  <2>2. Upto(k) \subseteq Upto(k + 1)
    BY <1>1
  <2>3. ASSUME NEW s \in Upto(k + 1), s # {}
        PROVE  s \ {Max(s)} \in Upto(k)
    BY <1>1, <1>2, <2>3, SMTT(30)
  <2> HIDE DEF Upto
  <2>4. \A s \in Upto(k) : h[s] = g[s]
    BY <2>1, <2>2
  <2>5. ASSUME NEW s \in Upto(k + 1) PROVE h[s] = e(h, s)
    <3>1. CASE s # {}
      <4>1. h[s \ {Max(s)}] = g[s \ {Max(s)}]
        BY <3>1, <2>3, <2>4
      <4> QED BY <3>1, <4>1
    <3>2. CASE s = {}
      BY <3>2
    <3> QED BY <3>1, <3>2
  <2>6. h = [s \in Upto(k + 1) |-> h[s]]
    BY Zenon
  <2> HIDE DEF h
  <2> QED BY <2>5, <2>6
<1> HIDE DEF P
<1>5. Nat \subseteq K
  <2>1. 0 \in K
    BY <1>3
  <2>2. \A k \in Nat : k \in K => k + 1 \in K
    BY <1>4
  <2> HIDE DEF K
  <2> QED BY <2>1, <2>2, NatSetInduction
<1>6. Upto(Cardinality(U)) = SUBSET U
  BY <1>0, <1>1, FS_Subset
<1> HIDE DEF Upto, e
<1>7. P(Cardinality(U))
  BY <1>0, <1>5
<1>8. \E g : /\ g = [s \in SUBSET U |-> g[s]]
             /\ \A s \in SUBSET U : g[s] = e(g, s)
  BY <1>6, <1>7 DEF P
<1> QED
  BY <1>8 DEF Folds, e, U

\* addTransactions folds.
LEMMA AddingFolds ==
  ASSUME NEW list1, NEW n \in Nat, NEW txs, DOMAIN txs = 1 .. n
  PROVE  \E g : Folds(g, list1, txs) /\ addTransactions(list1, txs) = g[1 .. n]
<1> DEFINE e(g, s) == IF s = {} THEN list1
                      ELSE LET x == Max(s)
                           IN  addTransaction(g[s \ {x}], txs[x])
           g == CHOOSE g : g = [s \in SUBSET (DOMAIN txs) |-> e(g, s)]
<1>1. addTransactions(list1, txs) = g[DOMAIN txs]
  BY Zenon DEF addTransactions, FoldLeft, MapThenFoldSet
<1>2. PICK h : h = [s \in SUBSET (DOMAIN txs) |-> h[s]] /\ Folds(h, list1, txs)
  BY FoldingExists
<1>3. h = [s \in SUBSET (DOMAIN txs) |-> e(h, s)]
  <2>1. \A s \in SUBSET (DOMAIN txs) : h[s] = e(h, s)
    BY <1>2, Zenon DEF Folds
  <2> HIDE DEF e
  <2> QED BY <1>2, <2>1
<1>4. g = [s \in SUBSET (DOMAIN txs) |-> e(g, s)]
  <2> HIDE DEF e
  <2> QED BY <1>3, Zenon
<1> HIDE DEF g
<1>5. Folds(g, list1, txs)
  <2>1. \A s \in SUBSET (DOMAIN txs) : g[s] = e(g, s)
    <3> HIDE DEF e
    <3> QED BY <1>4
  <2> QED BY <2>1, Zenon DEF Folds
<1> QED
  BY <1>1, <1>5

\* All transactions of a batch are counted, after those before it.
LEMMA AddingAllCounts ==
  ASSUME NEW list1, NEW before \in Seq(Transaction), NEW txs \in Seq(Transaction),
         Counts(list1, before)
  PROVE  /\ Counts(addTransactions(list1, txs), before \o txs)
         /\ addTransactions(list1, txs).numbersArray = list1.numbersArray
<1> DEFINE n == Len(txs)
           m == Len(before)
           Upto(k) == [i \in 1 .. m + k |->
                          IF i <= m THEN before[i] ELSE txs[i - m]]
<1>1. n \in Nat /\ m \in Nat /\ DOMAIN txs = 1 .. n
  OBVIOUS
<1>2. ASSUME NEW k \in Nat, k <= n
      PROVE  /\ Upto(k) \in Seq(Transaction) /\ Len(Upto(k)) = m + k
             /\ \A i \in 1 .. m + k :
                   Upto(k)[i] = IF i <= m THEN before[i] ELSE txs[i - m]
  <2>1. \A i \in 1 .. m + k : Upto(k)[i] \in Transaction
    BY <1>1, <1>2
  <2>2. Upto(k) \in [1 .. m + k -> Transaction] /\ m + k \in Nat
    BY <1>1, <2>1
  <2>3. Upto(k) \in Seq(Transaction) /\ Len(Upto(k)) = m + k
    <3> HIDE DEF Upto
    <3> QED BY <2>2
  <2> QED BY <2>3
<1>3. Upto(0) = before
  <2>1. Len(Upto(0)) = Len(before) /\ Upto(0) \in Seq(Transaction)
        /\ \A i \in 1 .. Len(Upto(0)) : Upto(0)[i] = before[i]
    BY <1>1, <1>2
  <2> HIDE DEF Upto
  <2> QED BY <2>1, SeqEqual
<1>4. Upto(n) = before \o txs
  <2>1. Len(Upto(n)) = m + n /\ Upto(n) \in Seq(Transaction)
        /\ \A i \in 1 .. m + n :
              Upto(n)[i] = IF i <= m THEN before[i] ELSE txs[i - m]
    BY <1>1, <1>2
  <2>2. before \o txs \in Seq(Transaction) /\ Len(before \o txs) = m + n
        /\ \A i \in 1 .. m + n :
              (before \o txs)[i] = IF i <= m THEN before[i] ELSE txs[i - m]
    OBVIOUS
  <2> HIDE DEF Upto, m, n
  <2>3. \A i \in 1 .. Len(Upto(n)) : Upto(n)[i] = (before \o txs)[i]
    BY <2>1, <2>2
  <2> QED BY <2>1, <2>2, <2>3, SeqEqual
<1>5. ASSUME NEW k \in Nat, k + 1 <= n
      PROVE  Upto(k + 1) = Append(Upto(k), txs[k + 1])
  <2>1. /\ Upto(k) \in Seq(Transaction) /\ Len(Upto(k)) = m + k
        /\ \A i \in 1 .. m + k :
              Upto(k)[i] = IF i <= m THEN before[i] ELSE txs[i - m]
    BY <1>1, <1>2, <1>5
  <2>2. /\ Upto(k + 1) \in Seq(Transaction) /\ Len(Upto(k + 1)) = m + (k + 1)
        /\ \A i \in 1 .. m + (k + 1) :
              Upto(k + 1)[i] = IF i <= m THEN before[i] ELSE txs[i - m]
    BY <1>1, <1>2, <1>5
  <2>3. txs[k + 1] \in Transaction
    BY <1>1, <1>5
  <2> HIDE DEF Upto, m, n
  <2>4. /\ Append(Upto(k), txs[k + 1]) \in Seq(Transaction)
        /\ Len(Append(Upto(k), txs[k + 1])) = m + k + 1
        /\ \A i \in 1 .. m + k : Append(Upto(k), txs[k + 1])[i] = Upto(k)[i]
        /\ Append(Upto(k), txs[k + 1])[m + k + 1] = txs[k + 1]
    BY <2>1, <2>3, <1>1, SMTT(30)
  <2>5. \A i \in 1 .. m + k + 1 : Upto(k + 1)[i] = Append(Upto(k), txs[k + 1])[i]
    <3> SUFFICES ASSUME NEW i \in 1 .. m + k + 1
                 PROVE  Upto(k + 1)[i] = Append(Upto(k), txs[k + 1])[i]
      OBVIOUS
    <3>0. i \in 1 .. m + (k + 1) /\ (i \in 1 .. m + k \/ i = m + k + 1)
      BY <1>1
    <3>1. CASE i \in 1 .. m + k
      <4>1. Upto(k + 1)[i] = IF i <= m THEN before[i] ELSE txs[i - m]
        BY <3>0, <2>2
      <4>2. Upto(k)[i] = IF i <= m THEN before[i] ELSE txs[i - m]
        BY <3>1, <2>1
      <4>3. Append(Upto(k), txs[k + 1])[i] = Upto(k)[i]
        BY <3>1, <2>4
      <4> QED BY <4>1, <4>2, <4>3
    <3>2. CASE i = m + k + 1
      <4>1. ~(i <= m) /\ i - m = k + 1
        BY <3>2, <1>1
      <4>2. Upto(k + 1)[i] = txs[i - m]
        BY <3>0, <4>1, <2>2
      <4> QED BY <4>1, <4>2, <3>2, <2>4
    <3> QED BY <3>0, <3>1, <3>2
  <2>6. Len(Upto(k + 1)) = m + k + 1
    BY <2>2, <1>1
  <2> QED BY <2>2, <2>4, <2>5, <2>6, SeqEqual
<1>6. PICK g : Folds(g, list1, txs) /\ addTransactions(list1, txs) = g[1 .. n]
  BY <1>1, AddingFolds
<1> HIDE DEF m, n, Upto
<1>7. g[1 .. 0] = list1
  <2>1. 1 .. 0 = {} /\ {} \in SUBSET (DOMAIN txs)
    OBVIOUS
  <2>2. g[{}] = list1
    <3>1. \A s \in SUBSET (DOMAIN txs) : s = {} => g[s] = list1
      BY <1>6, Zenon DEF Folds
    <3> QED BY <2>1, <3>1
  <2> QED BY <2>1, <2>2
<1>8. ASSUME NEW k \in Nat, k + 1 <= n
      PROVE  g[1 .. k + 1] = addTransaction(g[1 .. k], txs[k + 1])
  <2>1. 1 .. k + 1 \in SUBSET (1 .. n) /\ 1 .. k + 1 # {} /\ k + 1 \in 1 .. k + 1
    <3>1. \A x \in 1 .. k + 1 : x \in 1 .. n
      BY <1>1, <1>8
    <3>2. k + 1 \in 1 .. k + 1
      OBVIOUS
    <3> QED BY <3>1, <3>2, Zenon
  <2>2. Max(1 .. k + 1) = k + 1
    <3>1. Max(1 .. k + 1) \in 1 .. k + 1 /\ Max(1 .. k + 1) >= k + 1
      BY <1>1, <2>1, LargestIsIn
    <3> QED BY <3>1
  <2>3. (1 .. k + 1) \ {k + 1} = 1 .. k
    OBVIOUS
  <2>4. g[1 .. k + 1] = addTransaction(g[(1 .. k + 1) \ {Max(1 .. k + 1)}],
                                       txs[Max(1 .. k + 1)])
    BY <1>1, <1>6, <2>1 DEF Folds
  <2> QED BY <2>2, <2>3, <2>4
<1> DEFINE K == {k \in Nat : k <= n =>
                    /\ Counts(g[1 .. k], Upto(k))
                    /\ g[1 .. k].numbersArray = list1.numbersArray}
<1>9. Nat \subseteq K
  <2>1. 0 \in K
    BY <1>3, <1>7
  <2>2. ASSUME NEW k \in Nat, k \in K PROVE k + 1 \in K
    <3> SUFFICES ASSUME k + 1 <= n
                 PROVE  /\ Counts(g[1 .. k + 1], Upto(k + 1))
                        /\ g[1 .. k + 1].numbersArray = list1.numbersArray
      OBVIOUS
    <3>1. k <= n
      BY <1>1
    <3>2. Counts(g[1 .. k], Upto(k)) /\ g[1 .. k].numbersArray = list1.numbersArray
      BY <2>2, <3>1
    <3>3. Upto(k) \in Seq(Transaction) /\ txs[k + 1] \in Transaction
      BY <1>1, <1>2, <3>1
    <3>4. Counts(addTransaction(g[1 .. k], txs[k + 1]), Append(Upto(k), txs[k + 1]))
      BY <3>2, <3>3, AddingCounts
    <3>5. addTransaction(g[1 .. k], txs[k + 1]).numbersArray
            = g[1 .. k].numbersArray
      BY <3>2, AddedFields DEF Counts
    <3> QED BY <1>5, <1>8, <3>2, <3>4, <3>5
  <2> HIDE DEF K
  <2> QED BY <2>1, <2>2, NatSetInduction
<1>10. /\ Counts(g[1 .. n], Upto(n))
       /\ g[1 .. n].numbersArray = list1.numbersArray
  BY <1>1, <1>9
<1> HIDE DEF K
<1> QED
  BY <1>4, <1>6, <1>10

-----------------------------------------------------------------------------
(* The data points.                                                        *)

\* The numbers of the first n of txs; of posted they are NumbersAfter(n).
NumbersOf(txs, n) ==
    [numberOfTransactions |-> n,
     averageNumberOfBlocks |-> <<Total(BlocksOf(txs), 1 .. n), n>>,
     averageNumberOfChains |-> <<Total(ChainsOf(txs), 1 .. n), n>>]

\* Every point has the numbers of a first part of txs, and they go up.
PointsAreOf(points, txs) ==
    /\ points \in Seq({NumbersOf(txs, n) : n \in 1 .. Len(txs)})
    /\ IsGrowing(points)

\* What the first payments add up to does not change when more are posted.
LEMMA NumbersStay ==
  ASSUME NEW txs \in Seq(Transaction), NEW more \in Seq(Transaction),
         NEW n \in 0 .. Len(txs)
  PROVE  NumbersOf(txs \o more, n) = NumbersOf(txs, n)
<1> DEFINE both == txs \o more
<1>1. /\ n \in Nat /\ 1 .. n \subseteq 1 .. Len(txs) /\ DOMAIN txs = 1 .. Len(txs)
      /\ 1 .. n \subseteq DOMAIN both
      /\ \A i \in 1 .. n : both[i] = txs[i] /\ txs[i] \in Transaction
  OBVIOUS
<1> HIDE DEF both
<1>2. \A i \in 1 .. n : /\ BlocksOf(both)[i] = BlocksOf(txs)[i]
                        /\ BlocksOf(txs)[i] \in Int
                        /\ ChainsOf(both)[i] = ChainsOf(txs)[i]
                        /\ ChainsOf(txs)[i] \in Int
  BY <1>1 DEF BlocksOf, ChainsOf, Transaction
<1>3. IsFiniteSet(1 .. n)
  BY <1>1, FS_Interval
<1>4. /\ Total(BlocksOf(both), 1 .. n) = Total(BlocksOf(txs), 1 .. n)
      /\ Total(ChainsOf(both), 1 .. n) = Total(ChainsOf(txs), 1 .. n)
  BY <1>2, <1>3, TotalOfEqual
<1> QED
  BY <1>4 DEF NumbersOf, both

\* More payments leave the points as they are.
LEMMA PointsStay ==
  ASSUME NEW txs \in Seq(Transaction), NEW more \in Seq(Transaction),
         NEW points, PointsAreOf(points, txs)
  PROVE  PointsAreOf(points, txs \o more)
<1> DEFINE S == {NumbersOf(txs, n) : n \in 1 .. Len(txs)}
           T == {NumbersOf(txs \o more, n) : n \in 1 .. Len(txs \o more)}
<1>1. S \subseteq T
  <2> SUFFICES ASSUME NEW n \in 1 .. Len(txs) PROVE NumbersOf(txs, n) \in T
    OBVIOUS
  <2>1. n \in 1 .. Len(txs \o more) /\ n \in 0 .. Len(txs)
    <3>1. Len(txs) \in Nat /\ Len(more) \in Nat
          /\ Len(txs \o more) = Len(txs) + Len(more)
      OBVIOUS
    <3> QED BY <3>1
  <2>2. NumbersOf(txs \o more, n) = NumbersOf(txs, n)
    BY <2>1, NumbersStay
  <2> QED
    BY <2>1, <2>2
<1> HIDE DEF S, T
<1>2. points \in Seq(S)
  BY DEF PointsAreOf, S
<1>3. points \in Seq(T)
  BY <1>1, <1>2
<1> QED
  BY <1>3 DEF PointsAreOf, T

\* The numbers of a list are those of what it counts.
LEMMA NumbersAreOf ==
  ASSUME NEW list1, NEW txs \in Seq(Transaction), Counts(list1, txs), Len(txs) # 0
  PROVE  getNumbers(list1) = NumbersOf(txs, Len(txs))
BY DEF getNumbers, Average, Counts, NumbersOf

\* A new point is above those before it.
LEMMA PointAdded ==
  ASSUME NEW list1, NEW txs \in Seq(Transaction), Counts(list1, txs),
         PointsAreOf(list1.numbersArray, txs)
  PROVE  /\ Counts(addNumbersToArray(list1), txs)
         /\ PointsAreOf(addNumbersToArray(list1).numbersArray, txs)
<1> DEFINE new == addNumbersToArray(list1)
           k == Len(txs)
           points == list1.numbersArray
           S == {NumbersOf(txs, n) : n \in 1 .. k}
<1>0. k \in Nat
  OBVIOUS
<1>1. CASE k = 0
  <2>1. /\ list1.numberOfTransactions = 0
    BY <1>1 DEF Counts
  <2>2. new = list1
    BY <2>1 DEF addNumbersToArray, getNumbers, Average
  <2> QED
    BY <2>2
<1>2. CASE k # 0
  <2>1. getNumbers(list1) = NumbersOf(txs, k)
    BY <1>2, NumbersAreOf
  <2>2. list1.numberOfTransactions = k
    BY DEF Counts
  <2>3. new = [list1 EXCEPT !.numbersArray = Append(points, NumbersOf(txs, k))]
    BY <1>2, <2>1, <2>2 DEF addNumbersToArray, getNumbers
  <2>4. IsTransactionList(list1)
    BY DEF Counts
  <2> DEFINE more == Append(points, NumbersOf(txs, k))
  <2> HIDE DEF new, more
  <2>5. /\ DOMAIN new = DOMAIN list1
        /\ new.numbersArray = more
        /\ new.numberOfTransactions = list1.numberOfTransactions
        /\ new.numberOfChains = list1.numberOfChains
        /\ new.numberOfBlocks = list1.numberOfBlocks
        /\ new.transactions = list1.transactions
    BY <2>3, <2>4 DEF IsTransactionList, more
  <2>6. Counts(new, txs)
    <3>1. \A key : getEdgeWeightWithKey(new, key) = getEdgeWeightWithKey(list1, key)
      BY <2>5 DEF getEdgeWeightWithKey
    <3>2. IsTransactionList(new)
      BY <2>4, <2>5 DEF IsTransactionList
    <3>3. /\ list1.numberOfTransactions = k
          /\ list1.numberOfChains = Total(ChainsOf(txs), 1 .. k)
          /\ list1.numberOfBlocks = Total(BlocksOf(txs), 1 .. k)
          /\ \A key \in Node \X Node :
                getEdgeWeightWithKey(list1, key) = Cardinality(Under(key, txs))
      BY DEF Counts
    <3>4. \A key \in Node \X Node :
             getEdgeWeightWithKey(new, key) = Cardinality(Under(key, txs))
      BY <3>1, <3>3, Zenon
    <3>5. /\ new.numberOfTransactions = k
          /\ new.numberOfChains = Total(ChainsOf(txs), 1 .. k)
          /\ new.numberOfBlocks = Total(BlocksOf(txs), 1 .. k)
      BY <2>5, <3>3
    <3> QED BY <3>2, <3>4, <3>5, Zenon DEF Counts
  <2>7. NumbersOf(txs, k) \in S
    <3>1. k \in 1 .. k
      BY <1>0, <1>2
    <3> QED BY <3>1, Zenon
  <2>8. \A x \in S : x.numberOfTransactions \in 1 .. k
    BY DEF NumbersOf
  <2>9. NumbersOf(txs, k).numberOfTransactions = k
    BY DEF NumbersOf
  <2>10. points \in Seq(S) /\ IsGrowing(points)
    BY DEF PointsAreOf
  <2> HIDE DEF S, points, k
  <2>11. /\ more \in Seq(S) /\ Len(points) \in Nat /\ DOMAIN points = 1 .. Len(points)
         /\ DOMAIN more = 1 .. Len(points) + 1
         /\ \A i \in 1 .. Len(points) : more[i] = points[i] /\ points[i] \in S
         /\ more[Len(points) + 1] = NumbersOf(txs, k)
    BY <2>7, <2>10 DEF more
  <2>12. IsGrowing(more)
    <3> SUFFICES ASSUME NEW i \in DOMAIN more, NEW j \in DOMAIN more, i < j
                 PROVE  more[i].numberOfTransactions <= more[j].numberOfTransactions
      BY DEF IsGrowing
    <3>1. i \in 1 .. Len(points)
      BY <2>11
    <3>2. CASE j \in 1 .. Len(points)
      BY <2>10, <2>11, <3>1, <3>2 DEF IsGrowing
    <3>3. CASE j = Len(points) + 1
      <4>1. more[i].numberOfTransactions \in 1 .. k
        BY <2>8, <2>11, <3>1
      <4>2. more[j].numberOfTransactions = k
        BY <2>9, <2>11, <3>3
      <4> QED BY <4>1, <4>2, <1>0
    <3> QED BY <2>11, <3>2, <3>3
  <2> QED
    BY <2>5, <2>6, <2>11, <2>12 DEF PointsAreOf, new, S, k
<1> QED
  BY <1>1, <1>2

-----------------------------------------------------------------------------
(* The graph is that of the registered payments.                           *)

\* What is on its way are payments, and the list counts what was posted.
GraphInv ==
    /\ posted \in Seq(Transaction)
    /\ batches \subseteq [process : Process, start : Nat,
                          transactions : Seq(Transaction), handled : BOOLEAN]
    /\ Counts(transactionList, posted)
    /\ PointsAreOf(transactionList.numbersArray, posted)

\* An empty list is that of no payments.
LEMMA NothingPosted ==
  /\ <<>> \in Seq(Transaction)
  /\ Counts(NewTransactionList, <<>>)
  /\ PointsAreOf(NewTransactionList.numbersArray, <<>>)
<1>1. NewTransactionList.numbersArray = <<>>
  BY DEF NewTransactionList
<1>2. PointsAreOf(<<>>, <<>>)
  BY DEF PointsAreOf, IsGrowing
<1> QED
  BY <1>1, <1>2, NewListCounts

\* The graph counts nothing at the beginning.
LEMMA InitGraph == Init => GraphInv
BY NothingPosted DEF Init, GraphInv

\* The steps that reach the list of transactions or put one on its way.
LEMMA GraphCases ==
  ASSUME [Next]_vars
  PROVE  \/ \E p \in Process : Start(p) \/ SendTransactions(p)
         \/ RegisterTransactions \/ RegisterTransaction
         \/ DataHeartbeat \/ WriteFails
         \/ UNCHANGED <<transactionList, posted, batches>>
<1> DEFINE same == UNCHANGED <<transactionList, posted, batches>>
<1>1. ASSUME NEW p \in Process, ProcessNext(p), ~Start(p), ~SendTransactions(p)
      PROVE  same
  BY <1>1 DEF ProcessNext, RegisterNode, WaitForRegister, FetchNodes,
     WaitForInitialize, WaitForStop, serverVars
<1>2. \A n \in Node : NodeNext(n) => same
  BY DEF NodeNext, MarkRunning, MarkStopped, SetNodeStatus
<1>3. ServerNext => \/ RegisterTransactions \/ RegisterTransaction
                    \/ DataHeartbeat \/ WriteFails \/ same
  BY DEF ServerNext, Heartbeat, WriteData, Written, Closed, serverVars
<1>4. \A g \in Page : PageNext(g) => same
  BY DEF PageNext, Connect, Read, Break, serverVars
<1>5. UNCHANGED vars => same
  BY DEF vars, serverVars
<1> HIDE DEF same
<1>6. Next \/ UNCHANGED vars
  OBVIOUS
<1>7. CASE Next
  BY <1>1, <1>2, <1>3, <1>4, <1>7, Zenon DEF Next, same
<1> QED
  BY <1>5, <1>6, <1>7 DEF same

\* Every step keeps the graph and its totals what was posted.
LEMMA StepGraph == ClientsOK /\ GraphInv /\ [Next]_vars => GraphInv'
<1> SUFFICES ASSUME ClientsOK, GraphInv, [Next]_vars PROVE GraphInv'
  OBVIOUS
<1>1. CASE UNCHANGED <<transactionList, posted, batches>>
  BY <1>1 DEF GraphInv, Counts, IsTransactionList, getEdgeWeightWithKey,
     PointsAreOf
<1>2. ASSUME NEW p \in Process, Start(p) PROVE GraphInv'
  <2>1. UNCHANGED batches
    BY <1>2 DEF Start
  <2>2. CASE p = Master
    BY <1>2, <2>1, <2>2, NothingPosted DEF Start, Reset, GraphInv
  <2>3. CASE p # Master
    <3>1. UNCHANGED <<transactionList, posted>>
      BY <1>2, <2>3 DEF Start
    <3> QED BY <1>1, <2>1, <3>1
  <2> QED BY <2>2, <2>3
<1>3. ASSUME NEW p \in Process, SendTransactions(p) PROVE GraphInv'
  <2>1. UNCHANGED <<transactionList, posted>>
    BY <1>3 DEF SendTransactions, serverVars
  <2>2. starts[p] \in Nat
    BY DEF ClientsOK
  <2>3. batches' \subseteq [process : Process, start : Nat,
                            transactions : Seq(Transaction), handled : BOOLEAN]
    <3>1. PICK txs \in Batch[p] : batches' = batches \cup
             {[process |-> p, start |-> starts[p], transactions |-> txs,
               handled |-> FALSE]}
      BY <1>3 DEF SendTransactions
    <3>2. txs \in Seq(Transaction)
      BY PaymentsAssumption
    <3>3. [process |-> p, start |-> starts[p], transactions |-> txs,
           handled |-> FALSE]
            \in [process : Process, start : Nat,
                 transactions : Seq(Transaction), handled : BOOLEAN]
      BY <2>2, <3>2
    <3> QED BY <3>1, <3>3, Zenon DEF GraphInv
  <2> QED BY <2>1, <2>3 DEF GraphInv, Counts, IsTransactionList,
             getEdgeWeightWithKey, PointsAreOf
<1>4. CASE RegisterTransactions
  <2>1. PICK b \in batches :
           /\ batches' = (batches \ {b}) \cup {[b EXCEPT !.handled = TRUE]}
           /\ transactionList' = addTransactions(transactionList, b.transactions)
           /\ posted' = posted \o b.transactions
    BY <1>4 DEF RegisterTransactions
  <2>2. b \in [process : Process, start : Nat,
               transactions : Seq(Transaction), handled : BOOLEAN]
    BY DEF GraphInv
  <2>3. [b EXCEPT !.handled = TRUE] \in
            [process : Process, start : Nat,
             transactions : Seq(Transaction), handled : BOOLEAN]
    BY <2>2
  <2>4. batches' \subseteq [process : Process, start : Nat,
                            transactions : Seq(Transaction), handled : BOOLEAN]
    BY <2>1, <2>3 DEF GraphInv
  <2>5. PICK txs : txs = b.transactions
    OBVIOUS
  <2>6. txs \in Seq(Transaction)
    BY <2>2, <2>5
  <2>7. posted \o txs \in Seq(Transaction) /\ posted \in Seq(Transaction)
    BY <2>6 DEF GraphInv
  <2>8. /\ Counts(addTransactions(transactionList, txs), posted \o txs)
        /\ addTransactions(transactionList, txs).numbersArray
             = transactionList.numbersArray
    BY <2>6, AddingAllCounts DEF GraphInv
  <2>9. PointsAreOf(transactionList.numbersArray, posted \o txs)
    BY <2>6, PointsStay DEF GraphInv
  <2> QED BY <2>1, <2>4, <2>5, <2>7, <2>8, <2>9, Zenon DEF GraphInv
<1>5. CASE RegisterTransaction
  <2>1. PICK tx \in Single :
           /\ transactionList' = addTransaction(transactionList, tx)
           /\ posted' = Append(posted, tx)
           /\ batches' = batches
    BY <1>5 DEF RegisterTransaction
  <2>2. tx \in Transaction
    BY PaymentsAssumption
  <2>3. posted \in Seq(Transaction) /\ Append(posted, tx) \in Seq(Transaction)
    BY <2>2 DEF GraphInv
  <2>4. Counts(addTransaction(transactionList, tx), Append(posted, tx))
    BY <2>2, AddingCounts DEF GraphInv
  <2>5. addTransaction(transactionList, tx).numbersArray
          = transactionList.numbersArray
    BY AddedFields DEF GraphInv, Counts
  <2>6. <<tx>> \in Seq(Transaction) /\ Append(posted, tx) = posted \o <<tx>>
    BY <2>2, <2>3
  <2>7. PointsAreOf(transactionList.numbersArray, Append(posted, tx))
    BY <2>6, PointsStay DEF GraphInv
  <2> QED BY <2>1, <2>3, <2>4, <2>5, <2>7, Zenon DEF GraphInv
<1>6. CASE DataHeartbeat
  <2>1. /\ transactionList' = addNumbersToArray(transactionList)
        /\ posted' = posted /\ batches' = batches
    BY <1>6 DEF DataHeartbeat
  <2>2. /\ Counts(addNumbersToArray(transactionList), posted)
        /\ PointsAreOf(addNumbersToArray(transactionList).numbersArray, posted)
    BY PointAdded DEF GraphInv
  <2> QED BY <2>1, <2>2, Zenon DEF GraphInv
<1>7. CASE WriteFails
  <2>1. /\ transactionList' = NewTransactionList
        /\ posted' = <<>> /\ batches' = batches
    BY <1>7 DEF WriteFails
  <2> QED BY <2>1, NothingPosted, Zenon DEF GraphInv
<1> QED
  BY <1>1, <1>2, <1>3, <1>4, <1>5, <1>6, <1>7, GraphCases

SameEnds(a, b, c, d) == {a, b} = {c, d}

\* Two payments have the same key when they are between the same two nodes.
LEMMA KeysAreUndirected ==
  ASSUME NEW a \in Node, NEW b \in Node, NEW c \in Node, NEW d \in Node
  PROVE  /\ OrderedKey(a, b) \in Node \X Node
         /\ OrderedKey(a, b) = OrderedKey(c, d) <=> SameEnds(a, b, c, d)
<1>1. a \in Nat /\ b \in Nat /\ c \in Nat /\ d \in Nat
  BY TrackerAssumption
<1> QED
  BY <1>1 DEF OrderedKey, SameEnds

\* Whatever batches arrive in whatever order, before or after a reset, with
\* data points taken in between, the graph is that of the payments registered
\* since, and the points are the numbers of first parts of them.
THEOREM GraphShowsPayments == Spec => []GraphIsOfPosted
<1>1. Spec => []GraphInv
  <2>1. TypeOK /\ GraphInv /\ [Next]_vars => GraphInv'
    BY StepGraph DEF TypeOK
  <2> QED
    BY InitGraph, <2>1, TypeCorrect, PTL DEF Spec
<1>2. ASSUME GraphInv PROVE GraphIsOfPosted
  <2>1. ASSUME NEW a \in Node, NEW b \in Node
        PROVE  getEdgeWeight(transactionList, a, b) = Cardinality(Between(a, b))
    <3>1. posted \in Seq(Transaction)
      BY <1>2 DEF GraphInv
    <3>2. \A i \in DOMAIN posted : posted[i].from \in Node /\ posted[i].to \in Node
      <4>1. \A i \in DOMAIN posted : posted[i] \in Transaction
        BY <3>1
      <4> QED BY <4>1 DEF Transaction
    <3>3. ASSUME NEW i \in DOMAIN posted
          PROVE  OrderedKey(posted[i].from, posted[i].to) = OrderedKey(a, b)
                   <=> {posted[i].from, posted[i].to} = {a, b}
      <4>1. PICK c, d : c = posted[i].from /\ d = posted[i].to
        OBVIOUS
      <4>2. c \in Node /\ d \in Node
        BY <3>2, <4>1
      <4>3. OrderedKey(c, d) = OrderedKey(a, b) <=> SameEnds(c, d, a, b)
        BY <4>2, KeysAreUndirected
      <4> QED BY <4>1, <4>3, Zenon DEF SameEnds
    <3>4. Under(OrderedKey(a, b), posted) = Between(a, b)
      BY <3>3 DEF Under, Between
    <3>5. OrderedKey(a, b) \in Node \X Node
      BY KeysAreUndirected
    <3>6. getEdgeWeightWithKey(transactionList, OrderedKey(a, b))
            = Cardinality(Under(OrderedKey(a, b), posted))
      BY <1>2, <3>5 DEF GraphInv, Counts
    <3> QED
      BY <3>4, <3>6 DEF getEdgeWeight
  <2>2. \A n : NumbersAfter(n) = NumbersOf(posted, n)
    BY DEF NumbersAfter, NumbersOf, SumOfFirst, Total
  <2>3. posted # <<>> => getNumbers(transactionList) = NumbersAfter(Len(posted))
    <3>1. posted # <<>> => Len(posted) # 0
      BY <1>2, EmptySeq DEF GraphInv
    <3> QED
      BY <1>2, <2>2, <3>1, NumbersAreOf DEF GraphInv
  <2>4. ASSUME NEW i \in DOMAIN transactionList.numbersArray
        PROVE  \E n \in 1 .. Len(posted) :
                  transactionList.numbersArray[i] = NumbersAfter(n)
    <3>1. transactionList.numbersArray[i]
            \in {NumbersOf(posted, n) : n \in 1 .. Len(posted)}
      BY <1>2 DEF GraphInv, PointsAreOf
    <3> QED
      BY <2>2, <3>1
  <2>5. IsGrowing(transactionList.numbersArray)
    BY <1>2 DEF GraphInv, PointsAreOf
  <2> QED
    BY <2>1, <2>3, <2>4, <2>5, Zenon DEF GraphIsOfPosted
<1> QED
  BY <1>1, <1>2, PTL

=============================================================================
