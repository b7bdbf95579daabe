------------------------ MODULE SimulationLifecycle ------------------------
(***************************************************************************)
(* The life of a simulation: SimulationMain, Simulation and Application.   *)
(*                                                                         *)
(* Every process runs the same main program for the nodes it is home of:   *)
(* it registers them with the tracker, starts them, waits until every node *)
(* of the system is marked as running, and at the end waits until none is, *)
(* before it kills its own.  Between the two the master tells all nodes    *)
(* what to do: broadcasts of a transaction pattern, of a request to fetch  *)
(* the list of nodes, of the start and of the stop.  The processes share   *)
(* nothing but the tracker's list of nodes with their running flags.       *)
(*                                                                         *)
(* Time: the program sleeps SIMULATION_DURATION (600 s) before it stops;   *)
(* Wakes names what this is taken to be long enough for.  A process that   *)
(* is not the master is started after the master has reset the tracker,    *)
(* as its settings ask for.                                                *)
(***************************************************************************)
EXTENDS Integers, Sequences, FiniteSets

CONSTANTS
    Process,     \* running instances of SimulationMain
    Master,      \* the one with IS_MASTER
    Node,        \* the nodes of the system (TOTAL_NODES_NUMBER of them)
    Home,        \* the process each node belongs to
    CanFail      \* whether requests, messages and initialisations may fail

ASSUME LifecycleAssumption ==
    /\ Master \in Process
    /\ IsFiniteSet(Node) /\ Home \in [Node -> Process]
    /\ CanFail \in BOOLEAN

VARIABLES
    registered,  \* tracker: the nodes in its list
    flagged,     \* tracker: those marked as running
    phase,       \* how far the main program of each process is
    list,        \* Simulation.nodes of each process
    left,        \* the nodes a broadcast of the master is still to reach
    boot,        \* Application.init of each node
    listening,   \* the nodes whose server socket is bound
    inbox,       \* messages of the master to each node
    known,       \* LocalStore.nodes of each node
    hasPattern,  \* the nodes whose transactionExecutable is set
    exec,        \* the executor thread of each node
    owed,        \* payees of the payments a node made but did not send yet
    killed,      \* the nodes that were killed
    failed       \* history: whether a request, an initialisation or a
                 \* message of the master has failed

trackerVars == <<registered, flagged>>
mainVars == <<phase, list, left>>
nodeVars == <<boot, listening, known, hasPattern, exec, owed, killed>>
vars == <<trackerVars, mainVars, inbox, nodeVars, failed>>

Broadcast == {"pattern", "nodes", "start", "stop"}
Phase == Broadcast \cup
         {"off", "register", "waitRegister", "waitInitialize", "sleep",
          "waitStop", "end", "dead"}

TypeOK ==
    /\ registered \subseteq Node
    /\ flagged \subseteq registered
    /\ phase \in [Process -> Phase]
    /\ list \in [Process -> SUBSET Node]
    /\ left \subseteq Node
    /\ phase[Master] \notin Broadcast => left = {}
    /\ boot \in [Node -> {"off", "init", "mark", "up", "failed"}]
    /\ listening \subseteq Node
    /\ inbox \in [Node -> Seq(Broadcast)]
    /\ known \in [Node -> SUBSET Node]
    /\ hasPattern \subseteq Node
    /\ exec \in [Node -> {"none", "running", "cancelled", "done"}]
    /\ owed \in [Node -> SUBSET Node]
    /\ killed \subseteq Node
    /\ failed \in BOOLEAN

Init ==
    /\ registered = {}
    /\ flagged = {}
    /\ phase = [p \in Process |-> "off"]
    /\ list = [p \in Process |-> {}]
    /\ left = {}
    /\ boot = [n \in Node |-> "off"]
    /\ listening = {}
    /\ inbox = [n \in Node |-> <<>>]
    /\ known = [n \in Node |-> {n}]
    /\ hasPattern = {}
    /\ exec = [n \in Node |-> "none"]
    /\ owed = [n \in Node |-> {}]
    /\ killed = {}
    /\ failed = FALSE

Own(p) == {n \in Node : Home[n] = p}

Goto(p, next) == phase' = [phase EXCEPT ![p] = next]

Fault == CanFail /\ failed' = TRUE

-----------------------------------------------------------------------------
(* SimulationMain, by process p.                                           *)

\* cleanup(): the master resets the tracker.
Cleanup(p) ==
    /\ phase[p] = "off"
    /\ p # Master => phase[Master] # "off"
    /\ Goto(p, "register")
    /\ IF p = Master THEN registered' = {} /\ flagged' = {}
       ELSE UNCHANGED trackerVars
    /\ UNCHANGED <<list, left, inbox, nodeVars, failed>>

\* registerOwnNodes, one request for each node.
RegisterNode(p) ==
    /\ phase[p] = "register"
    /\ \E n \in Own(p) \ registered : registered' = registered \cup {n}
    /\ UNCHANGED <<flagged, mainVars, inbox, nodeVars, failed>>

Registered(p) ==
    /\ phase[p] = "register"
    /\ Own(p) \subseteq registered
    /\ Goto(p, "waitRegister")
    /\ UNCHANGED <<trackerVars, list, left, inbox, nodeVars, failed>>

\* runNodesLocally starts a thread for each own node.
StartThreads(p) ==
    boot' = [n \in Node |-> IF Home[n] = p THEN "init" ELSE boot[n]]

\* Slip: it does not wait for the others.
RegisterWithoutWaiting(p) ==
    /\ phase[p] = "waitRegister"
    /\ list' = [list EXCEPT ![p] = registered]
    /\ StartThreads(p)
    /\ Goto(p, "waitInitialize")
    /\ UNCHANGED <<trackerVars, left, inbox, listening, known, hasPattern, exec,
                   owed, killed, failed>>

\* waitForRegister, then getNodes and runNodesLocally.
WaitForRegister(p) ==
    /\ phase[p] = "waitRegister"
    /\ Cardinality(registered) = Cardinality(Node)
    /\ list' = [list EXCEPT ![p] = registered]
    /\ StartThreads(p)
    /\ Goto(p, "waitInitialize")
    /\ UNCHANGED <<trackerVars, left, inbox, listening, known, hasPattern, exec,
                   owed, killed, failed>>

WaitForInitialize(p) ==
    /\ phase[p] = "waitInitialize"
    /\ Cardinality(flagged) = Cardinality(Node)
    /\ Goto(p, "pattern")
    /\ left' = IF p = Master THEN list[p] ELSE left
    /\ UNCHANGED <<trackerVars, list, inbox, nodeVars, failed>>

\* Slip: the nodes are started before they are told of each other.
StartFirst(message) ==
    CASE message = "pattern" -> "start"
      [] message = "start" -> "nodes"
      [] message = "nodes" -> "sleep"
      [] message = "stop" -> "waitStop"

\* What the main program does after a broadcast.
After(message) ==
    CASE message = "pattern" -> "nodes"
      [] message = "nodes" -> "start"
      [] message = "start" -> "sleep"
      [] message = "stop" -> "waitStop"

\* Slip: a broadcast ends at the first node that is not served.
BroadcastBreaksOff(p) ==
    /\ phase[p] \in Broadcast
    /\ Goto(p, After(phase[p]))
    /\ left' = IF p = Master /\ After(phase[p]) \in Broadcast THEN list[p]
               ELSE left
    /\ UNCHANGED <<trackerVars, list, inbox, nodeVars, failed>>

\* Simulation.initialize(), start() and stop(): the next message is broadcast,
\* or the next method called, when the last node has been served.  Only the
\* master serves any.
BroadcastEnds(p) ==
    /\ phase[p] \in Broadcast
    /\ p = Master => left = {}
    /\ Goto(p, After(phase[p]))
    /\ left' = IF p = Master /\ After(phase[p]) \in Broadcast THEN list[p]
               ELSE left
    /\ UNCHANGED <<trackerVars, list, inbox, nodeVars, failed>>

\* socketClient.sendMessage to one node; that it failed is only logged.
SendTo(n) ==
    /\ phase[Master] \in Broadcast /\ n \in left
    /\ left' = left \ {n}
    /\ \/ /\ n \in listening
          /\ inbox' = [inbox EXCEPT ![n] = Append(@, phase[Master])]
          /\ UNCHANGED failed
       \/ /\ n \notin listening
          /\ failed' = TRUE
          /\ UNCHANGED inbox
       \/ Fault /\ UNCHANGED inbox
    /\ UNCHANGED <<trackerVars, phase, list, nodeVars>>

\* No process sleeps through the time in which all nodes run: when the master
\* stops the simulation all have seen them run.
Wakes(p) ==
    /\ phase[p] = "sleep"
    /\ \A q \in Process : phase[q] \in {"sleep", "stop", "waitStop", "end", "dead"}
    /\ Goto(p, "stop")
    /\ left' = IF p = Master THEN list[p] ELSE left
    /\ UNCHANGED <<trackerVars, list, inbox, nodeVars, failed>>

\* Slip: a process looks at its own nodes only.
WaitForOwnStop(p) ==
    /\ phase[p] = "waitStop"
    /\ Own(p) \cap flagged = {}
    /\ killed' = killed \cup Own(p)
    /\ listening' = listening \ Own(p)
    /\ Goto(p, "end")
    /\ UNCHANGED <<trackerVars, list, left, inbox, boot, known, hasPattern,
                   exec, owed, failed>>

\* waitForStop, stopLocalNodes and cleanup.
WaitForStop(p) ==
    /\ phase[p] = "waitStop"
    /\ flagged = {}
    /\ killed' = killed \cup Own(p)
    /\ listening' = listening \ Own(p)
    /\ Goto(p, "end")
    /\ UNCHANGED <<trackerVars, list, left, inbox, boot, known, hasPattern,
                   exec, owed, failed>>

\* A request to the tracker that throws ends the main program.
MainFails(p) ==
    /\ phase[p] \in {"off", "register", "waitRegister", "waitInitialize",
                    "waitStop"}
    /\ Fault
    /\ Goto(p, "dead")
    /\ UNCHANGED <<trackerVars, list, left, inbox, nodeVars>>

Main(p) ==
    \/ Cleanup(p) \/ RegisterNode(p) \/ Registered(p) \/ WaitForRegister(p)
    \/ WaitForInitialize(p) \/ BroadcastEnds(p) \/ Wakes(p) \/ WaitForStop(p)
    \/ p = Master /\ \E n \in Node : SendTo(n)

-----------------------------------------------------------------------------
(* Application.init of node n.                                             *)

GotoBoot(n, next) == boot' = [boot EXCEPT ![n] = next]

\* The local store and its main chain are set up, the server thread started.
Initialize(n) ==
    /\ boot[n] = "init"
    /\ GotoBoot(n, "mark")
    /\ UNCHANGED <<trackerVars, mainVars, inbox, listening, known, hasPattern,
                   exec, owed, killed, failed>>

\* runNodesLocally logs the exception of init.
InitFails(n) ==
    /\ boot[n] = "init"
    /\ Fault
    /\ GotoBoot(n, "failed")
    /\ UNCHANGED <<trackerVars, mainVars, inbox, listening, known, hasPattern,
                   exec, owed, killed>>

\* SocketServer.initServer, in the server thread.
Bind(n) ==
    /\ boot[n] \in {"mark", "up"} /\ n \notin listening \cup killed
    /\ listening' = listening \cup {n}
    /\ UNCHANGED <<trackerVars, mainVars, inbox, boot, known, hasPattern, exec,
                   owed, killed, failed>>

\* TrackerHelper.setRunning(id, true), which does not wait for the server.
MarkRunning(n) ==
    /\ boot[n] = "mark"
    /\ GotoBoot(n, "up")
    /\ \/ flagged' = flagged \cup {n} /\ UNCHANGED failed
       \/ Fault /\ UNCHANGED flagged
    /\ UNCHANGED <<registered, mainVars, inbox, listening, known, hasPattern,
                   exec, owed, killed>>

-----------------------------------------------------------------------------
(* The handlers of node n, one message after the other.                    *)

IsTransacting(n) == exec[n] \in {"running", "cancelled"}

Handle(n, message) ==
    /\ inbox[n] # <<>> /\ Head(inbox[n]) = message
    /\ inbox' = [inbox EXCEPT ![n] = Tail(@)]
    /\ UNCHANGED <<trackerVars, mainVars, boot, listening, owed, killed>>

\* It throws when a pattern is running, which is logged.
SetTransactionPattern(n) ==
    /\ Handle(n, "pattern")
    /\ hasPattern' = IF IsTransacting(n) THEN hasPattern
                     ELSE hasPattern \cup {n}
    /\ UNCHANGED <<known, exec, failed>>

UpdateNodes(n) ==
    /\ Handle(n, "nodes")
    /\ \/ /\ known' = [known EXCEPT ![n] = @ \cup registered]
          /\ UNCHANGED failed
       \/ Fault /\ UNCHANGED known
    /\ UNCHANGED <<hasPattern, exec>>

\* Without a pattern the executor is a thread with nothing to run.
StartTransacting(n) ==
    /\ Handle(n, "start")
    /\ exec' = IF IsTransacting(n) \/ n \notin hasPattern THEN exec
               ELSE [exec EXCEPT ![n] = "running"]
    /\ UNCHANGED <<known, hasPattern, failed>>

StopTransacting(n) ==
    /\ Handle(n, "stop")
    /\ exec' = IF exec[n] = "running" THEN [exec EXCEPT ![n] = "cancelled"]
               ELSE exec
    /\ UNCHANGED <<known, hasPattern, failed>>

Handler(n) ==
    \/ SetTransactionPattern(n) \/ UpdateNodes(n)
    \/ StartTransacting(n) \/ StopTransacting(n)

-----------------------------------------------------------------------------
(* The executor and the sender thread of node n; BlockPipeline has the     *)
(* detail.                                                                 *)

\* A node that knows no other finds nobody to pay.
Pay(n) ==
    /\ exec[n] = "running"
    /\ \E m \in known[n] \ ({n} \cup owed[n]) :
           owed' = [owed EXCEPT ![n] = @ \cup {m}]
    /\ UNCHANGED <<trackerVars, mainVars, inbox, boot, listening, known,
                   hasPattern, exec, killed, failed>>

\* A send that fails is not repeated.
SendPayment(n) ==
    /\ n \notin killed
    /\ \E m \in owed[n] : owed' = [owed EXCEPT ![n] = @ \ {m}]
    /\ UNCHANGED <<trackerVars, mainVars, inbox, boot, listening, known,
                   hasPattern, exec, killed, failed>>

\* Slip: the node is marked as stopped before everything is sent.
FinishEarly(n) ==
    /\ exec[n] = "cancelled"
    /\ exec' = [exec EXCEPT ![n] = "done"]
    /\ flagged' = flagged \ {n} /\ UNCHANGED failed
    /\ UNCHANGED <<registered, mainVars, inbox, boot, listening, known,
                   hasPattern, owed, killed>>

\* finishTransactionSending: waitUntilDone, then the flag is cleared; that the
\* request failed is only logged.
Finish(n) ==
    /\ exec[n] = "cancelled"
    /\ owed[n] = {}
    /\ exec' = [exec EXCEPT ![n] = "done"]
    /\ \/ flagged' = flagged \ {n} /\ UNCHANGED failed
       \/ Fault /\ UNCHANGED flagged
    /\ UNCHANGED <<registered, mainVars, inbox, boot, listening, known,
                   hasPattern, owed, killed>>

-----------------------------------------------------------------------------
NodeNext(n) ==
    \/ Initialize(n) \/ Bind(n) \/ MarkRunning(n) \/ InitFails(n)
    \/ Handler(n) \/ Pay(n) \/ SendPayment(n) \/ Finish(n)

Next ==
    \/ \E p \in Process : Main(p) \/ MainFails(p)
    \/ \E n \in Node : NodeNext(n)

Spec == Init /\ [][Next]_vars

\* The threads run: the main programs, those that start a node, its server,
\* its handlers, its sender and its executor.  Nobody has to pay.
Fairness ==
    /\ \A p \in Process : WF_vars(Main(p))
    /\ \A n \in Node :
          /\ WF_vars(Initialize(n) \/ MarkRunning(n))
          /\ WF_vars(Bind(n))
          /\ WF_vars(Handler(n))
          /\ WF_vars(SendPayment(n))
          /\ WF_vars(Finish(n))

FairSpec == Spec /\ Fairness

-----------------------------------------------------------------------------
\* No node is killed while one of any process still makes or sends payments,
\* whatever failed before: the flags on the tracker, which each node sets and
\* clears for itself, are all the processes know of each other.
KilledWhenAllAreDone ==
    killed # {} => \A n \in Node : exec[n] = "done" /\ owed[n] = {}

\* Unless something failed, a node that transacts knows every node of the
\* system, those of other processes included, and can pay any of them.
TransactsWithAll ==
    ~failed => \A n \in Node : IsTransacting(n) => known[n] = Node

\* The simulation ends in every process, unless a request, a message or an
\* initialisation failed: each process gets past both of its waits, "until all
\* nodes have initialized" and "until all nodes have stopped".
EndsUnlessFailed ==
    <>(failed \/ \A p \in Process : phase[p] = "end")

=============================================================================
