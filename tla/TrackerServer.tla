--------------------------- MODULE TrackerServer ---------------------------
(***************************************************************************)
(* The tracker server (routes/index.js, helpers/sse.js, app.js), the       *)
(* processes of the simulation that send it requests (SimulationMain,      *)
(* TrackerHelper) and the demo pages that watch it (demo.js).              *)
(*                                                                         *)
(* A handler of the server runs to its end before the next one starts, but *)
(* the requests of the processes interleave in any way: a process polls    *)
(* /status and fetches the list with another request, a batch of           *)
(* transactions may be on its way when the process that sent it has ended, *)
(* and the master resets the server whatever others are doing.             *)
(* A page keeps an event stream open; whatever changes the lists writes    *)
(* their graph to every stream, a timer does so every ten seconds, and the *)
(* page shows what it has read last.  Streams break and are opened again,  *)
(* and the server learns of a broken one some time later.                  *)
(*                                                                         *)
(* A process may be killed and started again at any point; the keys of its *)
(* nodes are generated anew each time, so a key is the number of the start *)
(* it was made at.  When a file cannot be written the error is thrown in a *)
(* callback and the server exits; it comes back with empty lists and       *)
(* without the timer that only /reset starts.                              *)
(***************************************************************************)
EXTENDS NodeList, TransactionList

CONSTANTS
    Process,         \* running instances of SimulationMain
    Master,          \* the one with IS_MASTER
    Node,            \* ids of the nodes (TOTAL_NODES_NUMBER of them)
    Home,            \* the process each node belongs to
    Batch,           \* Batch[p]: what p may register in one request
    Single,          \* transactions that may be registered one by one
    Page,            \* browsers that show the demo page
    MaxStarts,       \* bound: how often each process is started
    MaxConnections,  \* bound: event streams each page opens
    MaxInFlight,     \* bound: events on a stream that were not read yet
    MaxPoints,       \* bound: data points that are taken
    SingleAfter      \* bound: how many are registered before one of these is

ASSUME TrackerAssumption ==
    /\ Master \in Process
    /\ Node \subseteq Nat /\ IsFiniteSet(Node) /\ Node # {}
    /\ Home \in [Node -> Process]
    /\ MaxStarts \in [Process -> Nat]
    /\ MaxConnections \in Nat

\* What is registered are payments between nodes.
Transaction == [from : Node, to : Node, numberOfChains : Nat, numberOfBlocks : Nat]

ASSUME PaymentsAssumption ==
    /\ \A p \in Process : \A txs \in Batch[p] : txs \in Seq(Transaction)
    /\ Single \subseteq Transaction

VARIABLES
    nodeList,         \* app.nodeList
    transactionList,  \* app.transactionList
    timers,           \* how many data heartbeats initDataHeartbeat started
    topic,            \* sseClients: connections the server writes to
    writing,          \* whether /write-data is writing its files
    phase,            \* how far the main program of each process is
    starts,           \* how often each process was started
    told,             \* own nodes whose registration was answered
    list,             \* the nodes a process has got from the tracker
    mark,             \* what each node has told the tracker of itself
    batches,          \* batches on their way: process, start and content
    open,             \* the pages whose event stream is open
    connection,       \* how many streams each page has opened
    stream,           \* events written to it and not yet read
    shown,            \* what each page shows
    posted,           \* history: transactions registered since the last reset
    disturbed         \* history: processes that ran when the lists were lost

serverVars == <<nodeList, transactionList, timers, topic>>
clientVars == <<phase, starts, told, list, mark>>
pageVars == <<open, connection, stream, shown>>
vars == <<serverVars, writing, clientVars, batches, pageVars, posted, disturbed>>

Own(p) == {n \in Node : Home[n] = p}

\* The event that updateSseClients sends.
Event(nodes, transactions) ==
    [nodes |-> getGraphNodes(nodes),
     edges |-> getGraphEdges(transactions),
     numbers |-> getNumbers(transactions)]

\* Math.round(average * 100), in hundredths.
Rounded(average) == (200 * average[1] + average[2]) \div (2 * average[2])

\* What a page shows after it has read an event.
Display(event) ==
    [nodes |-> event.nodes,
     edges |-> event.edges,
     transactions |-> event.numbers.numberOfTransactions,
     chains |-> Rounded(event.numbers.averageNumberOfChains),
     blocks |-> Rounded(event.numbers.averageNumberOfBlocks)]

Init ==
    /\ nodeList = NewNodeList
    /\ transactionList = NewTransactionList
    /\ timers = 0
    /\ topic = {}
    /\ writing = FALSE
    /\ phase = [p \in Process |-> "off"]
    /\ starts = [p \in Process |-> 0]
    /\ told = [p \in Process |-> {}]
    /\ list = [p \in Process |-> NewNodeList]
    /\ mark = [n \in Node |-> "none"]
    /\ batches = {}
    /\ open = {}
    /\ connection = [g \in Page |-> 0]
    /\ stream = [g \in Page |-> <<>>]
    /\ shown = [g \in Page |-> Display(Event(NewNodeList, NewTransactionList))]
    /\ posted = <<>>
    /\ disturbed = {}

Goto(p, next) == phase' = [phase EXCEPT ![p] = next]

\* Connection.send and Topic.add.
send(events, data) == Append(events, data)

add(connections, conn) == connections \cup {conn}

\* updateSseClients, once the lists have changed: what is written to a
\* connection that is broken is lost.
updateSseClients ==
    /\ \A g \in Page : Len(stream[g]) < MaxInFlight
    /\ stream' = [g \in Page |->
           IF g \in open /\ <<g, connection[g]>> \in topic
           THEN send(stream[g], Event(nodeList', transactionList'))
           ELSE stream[g]]
    /\ UNCHANGED <<open, connection, shown>>

-----------------------------------------------------------------------------
(* The requests of process p.                                              *)

\* Slip: the nodes stay in the list and only lose their flags.
ResetFlags ==
    /\ nodeList' = [n \in DOMAIN nodeList |->
           [nodeList[n] EXCEPT !.running = FALSE]]
    /\ transactionList' = NewTransactionList
    /\ timers' = timers + 1
    /\ posted' = <<>>

\* /reset.  The pages are not told, and one more data heartbeat is started.
Reset ==
    /\ nodeList' = NewNodeList
    /\ transactionList' = NewTransactionList
    /\ timers' = timers + 1
    /\ posted' = <<>>

\* The program is started, for the first time or after it was killed; its
\* cleanup() resets the tracker if it is the master.
Start(p) ==
    /\ starts[p] < MaxStarts[p]
    /\ starts' = [starts EXCEPT ![p] = @ + 1]
    /\ Goto(p, "register")
    /\ told' = [told EXCEPT ![p] = {}]
    /\ list' = [list EXCEPT ![p] = NewNodeList]
    /\ mark' = [n \in Node |-> IF Home[n] = p THEN "none" ELSE mark[n]]
    /\ IF p = Master
       THEN /\ Reset
            /\ disturbed' = {q \in Process : q # p /\ phase[q] # "off"}
       ELSE /\ UNCHANGED <<nodeList, transactionList, timers, posted>>
            /\ disturbed' = disturbed \ {p}
    /\ UNCHANGED <<topic, writing, batches, pageVars>>

\* isPresent: zero, the empty string and false are values, too.
isPresent(kind) == kind \in {"truthy", "zero", "empty", "false"}

IdKind(id) == IF id = 0 THEN "zero" ELSE "truthy"

RunningKind(running) == IF running THEN "truthy" ELSE "false"

\* registerOwnNodes and /register-node, one node after the other.
RegisterNode(p) ==
    /\ phase[p] = "register"
    /\ \E n \in Own(p) \ told[p] :
          /\ \A m \in Own(p) \ told[p] : n <= m
          /\ isPresent(IdKind(n))
          /\ nodeList' = registerNode(nodeList, n, starts[p])
          /\ told' = [told EXCEPT ![p] = @ \cup {n}]
    /\ Goto(p, IF told'[p] = Own(p) THEN "wait" ELSE "register")
    /\ UNCHANGED transactionList
    /\ updateSseClients
    /\ UNCHANGED <<timers, topic, writing, starts, list, mark, batches,
                   posted, disturbed>>

\* waitForRegister: the /status in which every node is registered.
WaitForRegister(p) ==
    /\ phase[p] = "wait"
    /\ getSize(nodeList) = Cardinality(Node)
    /\ Goto(p, "fetch")
    /\ UNCHANGED <<serverVars, writing, starts, told, list, mark, batches,
                   pageVars, posted, disturbed>>

\* getNodes: the client cannot read a list with a hole.
FetchNodes(p) ==
    /\ phase[p] = "fetch"
    /\ IF \E n \in Node : IsHole(nodeList, n)
       THEN Goto(p, "dead") /\ UNCHANGED list
       ELSE Goto(p, "initialize") /\ list' = [list EXCEPT ![p] = nodeList]
    /\ UNCHANGED <<serverVars, writing, starts, told, mark, batches, pageVars,
                   posted, disturbed>>

\* setRunning(n, running) and /set-node-status, which answers success also
\* when the id is not in the list.
SetNodeStatus(n, running) ==
    /\ isPresent(IdKind(n)) /\ isPresent(RunningKind(running))
    /\ nodeList' = setNodeStatus(nodeList, n, running)
    /\ mark' = [mark EXCEPT ![n] = IF running THEN "set" ELSE "cleared"]
    /\ UNCHANGED <<transactionList, timers, topic, writing, phase, starts,
                   told, list, batches, pageVars, posted, disturbed>>

\* A node has initialized.
MarkRunning(n) ==
    /\ phase[Home[n]] = "initialize" /\ mark[n] = "none"
    /\ SetNodeStatus(n, TRUE)

\* waitForInitialize: the /status in which every node is running.
WaitForInitialize(p) ==
    /\ phase[p] = "initialize"
    /\ getRunning(nodeList) = Cardinality(Node)
    /\ Goto(p, "transact")
    /\ UNCHANGED <<serverVars, writing, starts, told, list, mark, batches,
                   pageVars, posted, disturbed>>

\* sendTransactions: the pool thread of p sends a batch.
SendTransactions(p) ==
    /\ phase[p] = "transact"
    /\ \A b \in batches : b.process # p \/ b.start # starts[p]
    /\ \E txs \in Batch[p] : batches' = batches \cup
           {[process |-> p, start |-> starts[p], transactions |-> txs,
             handled |-> FALSE]}
    /\ UNCHANGED <<serverVars, writing, clientVars, pageVars, posted, disturbed>>

\* A node has stopped.
MarkStopped(n) ==
    /\ phase[Home[n]] = "transact" /\ mark[n] = "set"
    /\ SetNodeStatus(n, FALSE)

\* waitForStop, after which the program ends.
WaitForStop(p) ==
    /\ phase[p] = "transact"
    /\ \A n \in Own(p) : mark[n] = "cleared"
    /\ getRunning(nodeList) = 0
    /\ Goto(p, "end")
    /\ UNCHANGED <<serverVars, writing, starts, told, list, mark, batches,
                   pageVars, posted, disturbed>>

\* /register-transactions, whatever has become of the process meanwhile.
RegisterTransactions ==
    \E b \in batches :
        /\ ~b.handled
        /\ batches' = (batches \ {b}) \cup {[b EXCEPT !.handled = TRUE]}
        /\ transactionList' = addTransactions(transactionList, b.transactions)
        /\ posted' = posted \o b.transactions
        /\ UNCHANGED nodeList
        /\ updateSseClients
        /\ UNCHANGED <<timers, topic, writing, clientVars, disturbed>>

\* /register-transaction, which no process of the simulation sends.
RegisterTransaction ==
    \E tx \in Single :
        /\ Len(posted) \in SingleAfter
        /\ transactionList' = addTransaction(transactionList, tx)
        /\ posted' = Append(posted, tx)
        /\ UNCHANGED nodeList
        /\ updateSseClients
        /\ UNCHANGED <<timers, topic, writing, clientVars, batches, disturbed>>

-----------------------------------------------------------------------------
(* The timers and files of the server.                                     *)

\* initDataHeartbeat: each timer adds to the list that is there when it fires.
DataHeartbeat ==
    /\ timers > 0
    /\ Len(transactionList.numbersArray) < MaxPoints
    /\ transactionList' = addNumbersToArray(transactionList)
    /\ UNCHANGED <<nodeList, timers, topic, writing, clientVars, batches,
                   pageVars, posted, disturbed>>

\* initHeartbeat.
Heartbeat ==
    /\ UNCHANGED <<serverVars, writing, clientVars, batches, posted, disturbed>>
    /\ updateSseClients

\* /write-data, by the button of a page: what is written is taken at once, and
\* written later.  One request at a time.
WriteData ==
    /\ ~writing
    /\ writing' = TRUE
    /\ UNCHANGED <<serverVars, clientVars, batches, pageVars, posted, disturbed>>

Written ==
    /\ writing
    /\ writing' = FALSE
    /\ UNCHANGED <<serverVars, clientVars, batches, pageVars, posted, disturbed>>

\* The error of fs.writeFile is thrown, as there is no callback to take it:
\* uncaughtException exits, and the server is started again.
WriteFails ==
    /\ writing
    /\ nodeList' = NewNodeList
    /\ transactionList' = NewTransactionList
    /\ timers' = 0
    /\ topic' = {}
    /\ writing' = FALSE
    /\ open' = {}
    /\ stream' = [g \in Page |-> <<>>]
    /\ posted' = <<>>
    /\ disturbed' = {p \in Process : phase[p] # "off"}
    /\ UNCHANGED <<clientVars, batches, connection, shown>>

-----------------------------------------------------------------------------
(* The event stream of page g.                                             *)

\* /topn/updates: EventSource connects, and connects again after a break.
Connect(g) ==
    /\ g \notin open /\ connection[g] < MaxConnections
    /\ connection' = [connection EXCEPT ![g] = @ + 1]
    /\ open' = open \cup {g}
    /\ topic' = add(topic, <<g, connection'[g]>>)
    /\ UNCHANGED <<nodeList, transactionList, timers, writing, clientVars,
                   batches, stream, shown, posted, disturbed>>

\* source.onmessage.
Read(g) ==
    /\ stream[g] # <<>>
    /\ shown' = [shown EXCEPT ![g] = Display(Head(stream[g]))]
    /\ stream' = [stream EXCEPT ![g] = Tail(@)]
    /\ UNCHANGED <<serverVars, writing, clientVars, batches, open, connection,
                   posted, disturbed>>

\* The connection breaks, and what is on it is lost.
Break(g) ==
    /\ g \in open
    /\ open' = open \ {g}
    /\ stream' = [stream EXCEPT ![g] = <<>>]
    /\ UNCHANGED <<serverVars, writing, clientVars, batches, connection, shown,
                   posted, disturbed>>

IsBroken(c) == c[1] \notin open \/ c[2] # connection[c[1]]

\* Slip: every connection of the page is removed.
ClosedOfPage ==
    /\ \E c \in topic : IsBroken(c) /\ topic' = {d \in topic : d[1] # c[1]}
    /\ UNCHANGED <<nodeList, transactionList, timers, writing, clientVars,
                   batches, pageVars, posted, disturbed>>

\* The close handler of Topic.add removes the connection that was broken.
Closed ==
    /\ \E c \in topic : IsBroken(c) /\ topic' = topic \ {c}
    /\ UNCHANGED <<nodeList, transactionList, timers, writing, clientVars,
                   batches, pageVars, posted, disturbed>>

-----------------------------------------------------------------------------
ProcessNext(p) ==
    \/ Start(p) \/ RegisterNode(p) \/ WaitForRegister(p) \/ FetchNodes(p)
    \/ WaitForInitialize(p) \/ SendTransactions(p) \/ WaitForStop(p)

NodeNext(n) == MarkRunning(n) \/ MarkStopped(n)

ServerNext ==
    \/ RegisterTransactions \/ RegisterTransaction \/ DataHeartbeat \/ Heartbeat
    \/ WriteData \/ Written \/ WriteFails \/ Closed

PageNext(g) == Connect(g) \/ Read(g) \/ Break(g)

Next ==
    \/ \E p \in Process : ProcessNext(p)
    \/ \E n \in Node : NodeNext(n)
    \/ ServerNext
    \/ \E g \in Page : PageNext(g)

Spec == Init /\ [][Next]_vars

\* The heartbeat fires, and a page reads its stream and connects when it has
\* none; processes need do nothing.
Fairness ==
    /\ WF_vars(Heartbeat)
    /\ \A g \in Page : WF_vars(Connect(g)) /\ WF_vars(Read(g))

FairSpec == Spec /\ Fairness

-----------------------------------------------------------------------------
Phase == {"off", "register", "wait", "fetch", "initialize", "transact", "end",
          "dead"}

IsNodeList(nodes) ==
    /\ DOMAIN nodes \subseteq Node
    /\ \A n \in DOMAIN nodes : nodes[n] \in [publicKey : Nat, running : BOOLEAN]

\* The nodes and the processes.
ClientsOK ==
    /\ IsNodeList(nodeList)
    /\ phase \in [Process -> Phase]
    /\ starts \in [Process -> Nat]
    /\ told \in [Process -> SUBSET Node]
    /\ \A p \in Process : told[p] \subseteq Own(p) /\ IsNodeList(list[p])
    /\ DOMAIN list = Process
    /\ mark \in [Node -> {"none", "set", "cleared"}]
    /\ disturbed \subseteq Process

\* The timers and the pages; what the list of transactions holds is said by
\* GraphIsOfPosted.
PagesOK ==
    /\ timers \in Nat /\ writing \in BOOLEAN
    /\ topic \subseteq Page \X (1 .. MaxConnections)
    /\ open \subseteq Page
    /\ connection \in [Page -> 0 .. MaxConnections]
    /\ DOMAIN stream = Page
    /\ \A g \in Page :
          /\ g \in open => <<g, connection[g]>> \in topic
          /\ stream[g] # <<>> => g \in open

TypeOK == ClientsOK /\ PagesOK

\* A process that was told by /status that all nodes are registered gets, by
\* a later request for the list, all of them and its own with the keys it made
\* when it was started, in whatever order the processes register and however
\* often others are started again, unless the lists were emptied meanwhile.
ListIsWhole ==
    \A p \in Process : p \notin disturbed =>
        /\ phase[p] # "dead"
        /\ phase[p] \in {"initialize", "transact", "end"} =>
               /\ DOMAIN list[p] = Node
               /\ \A n \in Own(p) : list[p][n].publicKey = starts[p]

\* The graph and the numbers, kept up to date incrementally under keys without
\* a direction, are those of the transactions registered since the last reset;
\* the data points are the numbers of some first part of what was registered,
\* and never go back.
Between(a, b) == {i \in DOMAIN posted : {posted[i].from, posted[i].to} = {a, b}}

BlocksOf(txs) == [i \in DOMAIN txs |-> txs[i].numberOfBlocks]

ChainsOf(txs) == [i \in DOMAIN txs |-> txs[i].numberOfChains]

SumOfFirst(n, values) == MapThenSumSet(LAMBDA i : values[i], 1 .. n)

NumbersAfter(n) ==
    [numberOfTransactions |-> n,
     averageNumberOfBlocks |-> <<SumOfFirst(n, BlocksOf(posted)), n>>,
     averageNumberOfChains |-> <<SumOfFirst(n, ChainsOf(posted)), n>>]

IsGrowing(points) ==
    \A i, j \in DOMAIN points :
        i < j => points[i].numberOfTransactions <= points[j].numberOfTransactions

GraphIsOfPosted ==
    /\ \A a, b \in Node :
          getEdgeWeight(transactionList, a, b) = Cardinality(Between(a, b))
    /\ posted # <<>> => getNumbers(transactionList) = NumbersAfter(Len(posted))
    /\ \A i \in DOMAIN transactionList.numbersArray :
          \E n \in 1 .. Len(posted) :
              transactionList.numbersArray[i] = NumbersAfter(n)
    /\ IsGrowing(transactionList.numbersArray)

\* Whatever was lost with a broken stream or never sent, as after a reset, a
\* page whose stream stays open comes to show what the tracker has, once that
\* no longer changes.
PagesShowNow ==
    \A g \in Page :
        <>[](g \in open =>
                 shown[g] = Display(Event(nodeList, transactionList)))

-----------------------------------------------------------------------------
(* Refinement: the list of nodes is what the simulation takes it for.      *)

Flags == INSTANCE TrackerFlags WITH
    registered <- DOMAIN nodeList,
    flagged <- {n \in DOMAIN nodeList : nodeList[n].running}

\* Every handler changes the registered and the running nodes as TrackerFlags
\* says, whatever ids are not in the list.
ImplementsFlags == Flags!Spec
=============================================================================
