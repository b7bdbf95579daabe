--------------------- MODULE SimulationLifecycleProofs ---------------------
(***************************************************************************)
(* Theorems about SimulationLifecycle for any number of processes and any  *)
(* finite set of nodes, with requests and messages that may fail.          *)
(***************************************************************************)
EXTENDS SimulationLifecycle, FiniteSetTheorems, SequenceTheorems, TLAPS

-----------------------------------------------------------------------------
(* The tracker's list.                                                     *)

\* Process p has seen all nodes registered, and has not given up.
SawAllRegistered(p) ==
    phase[p] \notin {"off", "register", "waitRegister", "dead"}

\* The reset of the tracker comes before everything else.
ResetInv ==
    phase[Master] = "off" =>
        /\ registered = {}
        /\ \A p \in Process : phase[p] \in {"off", "dead"}
        /\ \A n \in Node : boot[n] = "off" /\ inbox[n] = <<>>

\* From when a process has seen all nodes registered they stay so.
RegisteredInv ==
    /\ \A p \in Process : SawAllRegistered(p) => registered = Node /\ list[p] = Node
    /\ \A n \in Node : boot[n] # "off" \/ inbox[n] # <<>> => registered = Node

TInv == TypeOK /\ ResetInv /\ RegisteredInv

\* Counting is enough: the tracker has no nodes but those of the system.
LEMMA AllOfThem ==
    ASSUME NEW S \in SUBSET Node, Cardinality(S) = Cardinality(Node)
    PROVE  S = Node
BY LifecycleAssumption, FS_Subset, FS_CardinalityType

\* The types, the reset and the registrations are in order at the beginning.
LEMMA InitT == Init => TInv
<1> SUFFICES ASSUME Init PROVE TInv
  OBVIOUS
<1>1. TypeOK
  BY LifecycleAssumption, EmptySeq DEF Init, TypeOK, Phase, Broadcast
<1>2. ResetInv /\ RegisteredInv
  BY LifecycleAssumption DEF Init, ResetInv, RegisteredInv, SawAllRegistered
<1> QED BY <1>1, <1>2 DEF TInv

\* Every step keeps every type.
LEMMA StepType == TInv /\ [Next]_vars => TypeOK'
<1> SUFFICES ASSUME TInv, [Next]_vars PROVE TypeOK'
  OBVIOUS
<1> USE LifecycleAssumption DEF Phase, Broadcast, Goto, GotoBoot, Fault,
        trackerVars, mainVars, nodeVars
<1>t. TypeOK /\ RegisteredInv
  BY DEF TInv
<1>1. ASSUME NEW p \in Process, Cleanup(p) PROVE TypeOK'
  BY <1>t, <1>1 DEF TypeOK, Cleanup
<1>2. ASSUME NEW p \in Process, RegisterNode(p) PROVE TypeOK'
  BY <1>t, <1>2 DEF TypeOK, RegisterNode, Own
<1>3. ASSUME NEW p \in Process, Registered(p) PROVE TypeOK'
  BY <1>t, <1>3 DEF TypeOK, Registered
<1>4. ASSUME NEW p \in Process, WaitForRegister(p) PROVE TypeOK'
  BY <1>t, <1>4 DEF TypeOK, WaitForRegister, StartThreads
<1>5. ASSUME NEW p \in Process, WaitForInitialize(p) PROVE TypeOK'
  BY <1>t, <1>5 DEF TypeOK, WaitForInitialize
<1>6. ASSUME NEW p \in Process, BroadcastEnds(p) PROVE TypeOK'
  BY <1>t, <1>6 DEF TypeOK, BroadcastEnds, After
<1>7. ASSUME NEW p \in Process, Wakes(p) PROVE TypeOK'
  BY <1>t, <1>7 DEF TypeOK, Wakes
<1>8. ASSUME NEW p \in Process, WaitForStop(p) PROVE TypeOK'
  BY <1>t, <1>8 DEF TypeOK, WaitForStop, Own
<1>9. ASSUME NEW n \in Node, SendTo(n) PROVE TypeOK'
  <2>1. inbox' \in [Node -> Seq(Broadcast)]
    <3>1. inbox[n] \in Seq(Broadcast) /\ phase[Master] \in Broadcast
      BY <1>t, <1>9 DEF TypeOK, SendTo
    <3>2. Append(inbox[n], phase[Master]) \in Seq(Broadcast)
      BY <3>1, AppendProperties
    <3> QED BY <1>t, <1>9, <3>2 DEF TypeOK, SendTo
  <2>2. left' \subseteq Node /\ phase' = phase /\ phase[Master] \in Broadcast
        /\ failed' \in BOOLEAN
    BY <1>t, <1>9 DEF TypeOK, SendTo
  <2> QED BY <1>t, <1>9, <2>1, <2>2 DEF TypeOK, SendTo
<1>10. ASSUME NEW p \in Process, MainFails(p) PROVE TypeOK'
  BY <1>t, <1>10 DEF TypeOK, MainFails
<1>11. ASSUME NEW n \in Node, Initialize(n) PROVE TypeOK'
  BY <1>t, <1>11 DEF TypeOK, Initialize
<1>12. ASSUME NEW n \in Node, InitFails(n) PROVE TypeOK'
  BY <1>t, <1>12 DEF TypeOK, InitFails
<1>13. ASSUME NEW n \in Node, Bind(n) PROVE TypeOK'
  BY <1>t, <1>13 DEF TypeOK, Bind
\* Only a node that is in the list is marked.
<1>14. ASSUME NEW n \in Node, MarkRunning(n) PROVE TypeOK'
  <2>1. boot[n] = "mark" /\ registered = Node
    BY <1>t, <1>14 DEF MarkRunning, RegisteredInv
  <2>2. flagged' \subseteq Node /\ failed' \in BOOLEAN
    BY <1>t, <1>14 DEF TypeOK, MarkRunning
  <2> QED BY <1>t, <1>14, <2>1, <2>2 DEF TypeOK, MarkRunning
<1>15. ASSUME NEW n \in Node, Handler(n) PROVE TypeOK'
  <2>1. /\ inbox[n] \in Seq(Broadcast) /\ inbox[n] # <<>>
        /\ inbox' = [inbox EXCEPT ![n] = Tail(inbox[n])]
        /\ UNCHANGED <<trackerVars, mainVars, boot, listening, owed, killed>>
    BY <1>t, <1>15 DEF TypeOK, Handler, SetTransactionPattern, UpdateNodes,
       StartTransacting, StopTransacting, Handle
  <2>2. Tail(inbox[n]) \in Seq(Broadcast)
    BY <2>1, HeadTailProperties
  <2>3. inbox' \in [Node -> Seq(Broadcast)]
    BY <1>t, <2>1, <2>2 DEF TypeOK
  <2>4. /\ hasPattern' \subseteq Node /\ known' \in [Node -> SUBSET Node]
        /\ exec' \in [Node -> {"none", "running", "cancelled", "done"}]
        /\ failed' \in BOOLEAN
    <3>1. CASE SetTransactionPattern(n)
      BY <1>t, <3>1 DEF TypeOK, SetTransactionPattern
    <3>2. CASE UpdateNodes(n)
      <4>1. UNCHANGED <<hasPattern, exec>> /\ failed' \in BOOLEAN
        BY <1>t, <3>2 DEF TypeOK, UpdateNodes
      <4>2. \/ known' = known
            \/ known' = [known EXCEPT ![n] = known[n] \cup registered]
        BY <3>2 DEF UpdateNodes
      <4>3. known[n] \cup registered \in SUBSET Node
        BY <1>t DEF TypeOK
      <4>4. known' \in [Node -> SUBSET Node]
        BY <1>t, <4>2, <4>3, SMTT(30) DEF TypeOK
      <4> QED BY <1>t, <4>1, <4>4 DEF TypeOK
    <3>3. CASE StartTransacting(n)
      BY <1>t, <3>3 DEF TypeOK, StartTransacting
    <3>4. CASE StopTransacting(n)
      BY <1>t, <3>4 DEF TypeOK, StopTransacting
    <3> QED BY <1>15, <3>1, <3>2, <3>3, <3>4 DEF Handler
  <2> QED BY <1>t, <2>1, <2>3, <2>4 DEF TypeOK
<1>16. ASSUME NEW n \in Node, Pay(n) PROVE TypeOK'
  BY <1>t, <1>16 DEF TypeOK, Pay
<1>17. ASSUME NEW n \in Node, SendPayment(n) PROVE TypeOK'
  BY <1>t, <1>17 DEF TypeOK, SendPayment
<1>18. ASSUME NEW n \in Node, Finish(n) PROVE TypeOK'
  BY <1>t, <1>18 DEF TypeOK, Finish
<1>19. CASE UNCHANGED vars
  BY <1>t, <1>19 DEF TypeOK, vars
<1> QED
  BY <1>1, <1>2, <1>3, <1>4, <1>5, <1>6, <1>7, <1>8, <1>9, <1>10, <1>11, <1>12,
     <1>13, <1>14, <1>15, <1>16, <1>17,
     <1>18, <1>19 DEF Next, Main, NodeNext

\* The steps that touch the list, the phases or the inboxes.
LEMMA StepRegistered == TInv /\ [Next]_vars => ResetInv' /\ RegisteredInv'
<1> SUFFICES ASSUME TInv, [Next]_vars PROVE ResetInv' /\ RegisteredInv'
  OBVIOUS
<1> USE LifecycleAssumption DEF Goto, GotoBoot, trackerVars, mainVars, nodeVars,
        SawAllRegistered
<1>t. TypeOK /\ ResetInv /\ RegisteredInv
  BY DEF TInv
<1>1. ASSUME NEW p \in Process, Cleanup(p) PROVE ResetInv' /\ RegisteredInv'
  BY <1>t, <1>1 DEF TypeOK, ResetInv, RegisteredInv, Cleanup
<1>2. ASSUME NEW p \in Process, RegisterNode(p) PROVE ResetInv' /\ RegisteredInv'
  BY <1>t, <1>2 DEF TypeOK, ResetInv, RegisteredInv, RegisterNode, Own
<1>3. ASSUME NEW p \in Process, Registered(p) PROVE ResetInv' /\ RegisteredInv'
  BY <1>t, <1>3 DEF TypeOK, ResetInv, RegisteredInv, Registered
<1>4. ASSUME NEW p \in Process, WaitForRegister(p)
      PROVE  ResetInv' /\ RegisteredInv'
  <2>1. registered = Node
    BY <1>t, <1>4, AllOfThem DEF TypeOK, WaitForRegister
  <2>2. phase[Master] # "off" /\ phase'[Master] # "off"
    BY <1>t, <1>4 DEF TypeOK, ResetInv, WaitForRegister
  <2> QED BY <1>t, <1>4, <2>1, <2>2
          DEF TypeOK, ResetInv, RegisteredInv, WaitForRegister
<1>5. ASSUME NEW p \in Process,
             WaitForInitialize(p) \/ BroadcastEnds(p) \/ Wakes(p) \/ WaitForStop(p)
      PROVE  ResetInv' /\ RegisteredInv'
  <2>1. /\ SawAllRegistered(p) /\ UNCHANGED <<registered, list, inbox, boot>>
        /\ \E next : phase' = [phase EXCEPT ![p] = next] /\ next # "off"
    BY <1>5 DEF WaitForInitialize, BroadcastEnds, Wakes, WaitForStop, After, Broadcast
  <2> QED BY <1>t, <2>1 DEF TypeOK, ResetInv, RegisteredInv
<1>6. ASSUME NEW n \in Node, SendTo(n) PROVE ResetInv' /\ RegisteredInv'
  BY <1>t, <1>6 DEF TypeOK, ResetInv, RegisteredInv, SendTo, Broadcast
<1>7. ASSUME NEW p \in Process, MainFails(p) PROVE ResetInv' /\ RegisteredInv'
  BY <1>t, <1>7 DEF TypeOK, ResetInv, RegisteredInv, MainFails
<1>8. ASSUME NEW n \in Node, Initialize(n) \/ MarkRunning(n) \/ InitFails(n)
      PROVE  ResetInv' /\ RegisteredInv'
  BY <1>t, <1>8 DEF TypeOK, ResetInv, RegisteredInv, Initialize, MarkRunning, InitFails
<1>9. ASSUME NEW n \in Node, Handler(n) PROVE ResetInv' /\ RegisteredInv'
  <2>1. /\ UNCHANGED <<registered, phase, list, boot>> /\ inbox[n] # <<>>
        /\ \A m \in Node : m # n => inbox'[m] = inbox[m]
    BY <1>t, <1>9 DEF TypeOK, Handler, SetTransactionPattern, UpdateNodes,
       StartTransacting, StopTransacting, Handle
  <2> QED BY <1>t, <2>1 DEF TypeOK, ResetInv, RegisteredInv
<1>10. CASE UNCHANGED <<registered, phase, list, boot, inbox>>
  BY <1>t, <1>10 DEF TypeOK, ResetInv, RegisteredInv
<1>11. (\E n \in Node : Bind(n) \/ Pay(n) \/ SendPayment(n) \/ Finish(n))
          \/ UNCHANGED vars => UNCHANGED <<registered, phase, list, boot, inbox>>
  BY DEF Bind, Pay, SendPayment, Finish, vars
<1> QED
  BY <1>1, <1>2, <1>3, <1>4, <1>5, <1>6, <1>7, <1>8, <1>9, <1>10, <1>11
  DEF Next, Main, NodeNext

\* Every step keeps the order of reset, registrations and lists.
LEMMA StepT == TInv /\ [Next]_vars => TInv'
BY StepType, StepRegistered DEF TInv

\* The variables keep their types: in particular no node is marked as running
\* that is not in the tracker's list, and nothing is left to be broadcast when
\* the master is not at a broadcast.
THEOREM TypeCorrect == Spec => []TypeOK
<1>1. TInv => TypeOK
  BY DEF TInv
<1> QED BY InitT, StepT, <1>1, PTL DEF Spec

-----------------------------------------------------------------------------
(* Every node transacts once, and is killed after that.                    *)

Holds(n, message) == \E i \in 1 .. Len(inbox[n]) : inbox[n][i] = message

\* The master has yet to send the start to n.
ToBeStarted(n) ==
    \/ phase[Master] \notin {"start", "sleep", "stop", "waitStop", "end", "dead"}
    \/ phase[Master] = "start" /\ n \in left

\* A node is started by one message, so that it is done only once.
StartInv ==
    \A n \in Node :
        /\ ToBeStarted(n) => exec[n] = "none" /\ ~Holds(n, "start")
        /\ Holds(n, "start") => exec[n] = "none"
        /\ \A i, j \in 1 .. Len(inbox[n]) :
              inbox[n][i] = "start" /\ inbox[n][j] = "start" => i = j

\* Only a node that transacts owes payments.
OwedInv == \A n \in Node : exec[n] \in {"none", "done"} => owed[n] = {}

\* Process p is past waitInitialize.
SawAllRun(p) == phase[p] \in Broadcast \cup {"sleep", "waitStop", "end"}

\* From then on a flag that is missing was cleared by its node at the end.
FlagInv ==
    (\E p \in Process : SawAllRun(p)) =>
        \A n \in Node : n \in flagged \/ exec[n] = "done"

KInv == TInv /\ StartInv /\ OwedInv /\ FlagInv /\ KilledWhenAllAreDone

\* What handling a message does to the inboxes.
LEMMA HandlerTakes ==
    ASSUME TypeOK, NEW n \in Node, Handler(n)
    PROVE  /\ UNCHANGED <<trackerVars, mainVars, boot, listening, owed, killed>>
           /\ Len(inbox[n]) \in Nat /\ 1 \in 1 .. Len(inbox[n])
           /\ Len(inbox'[n]) = Len(inbox[n]) - 1
           /\ \A i \in 1 .. Len(inbox'[n]) :
                 i + 1 \in 1 .. Len(inbox[n]) /\ inbox'[n][i] = inbox[n][i + 1]
           /\ \A m \in Node : m # n => inbox'[m] = inbox[m]
<1>1. /\ inbox[n] \in Seq(Broadcast) /\ inbox[n] # <<>>
      /\ inbox' = [inbox EXCEPT ![n] = Tail(inbox[n])]
      /\ UNCHANGED <<trackerVars, mainVars, boot, listening, owed, killed>>
  BY DEF TypeOK, Handler, SetTransactionPattern, UpdateNodes, StartTransacting,
     StopTransacting, Handle
<1>2. inbox'[n] = Tail(inbox[n]) /\ \A m \in Node : m # n => inbox'[m] = inbox[m]
  BY <1>1 DEF TypeOK
<1>3. Len(inbox[n]) \in Nat /\ Len(inbox[n]) # 0
  BY <1>1, EmptySeq
<1>4. /\ Len(Tail(inbox[n])) = Len(inbox[n]) - 1
      /\ \A i \in 1 .. Len(Tail(inbox[n])) : Tail(inbox[n])[i] = inbox[n][i + 1]
  BY <1>1, HeadTailProperties
<1>5. \A i \in 1 .. Len(inbox[n]) - 1 : i + 1 \in 1 .. Len(inbox[n])
  BY <1>3
<1>6. Len(inbox'[n]) = Len(inbox[n]) - 1 /\ 1 \in 1 .. Len(inbox[n])
  BY <1>2, <1>3, <1>4
<1>7. \A i \in 1 .. Len(inbox'[n]) :
          i + 1 \in 1 .. Len(inbox[n]) /\ inbox'[n][i] = inbox[n][i + 1]
  BY <1>2, <1>4, <1>5, <1>6
<1> QED BY <1>1, <1>2, <1>3, <1>6, <1>7

\* What handling a message does to the executor: only a start wakes it.
LEMMA HandlerExec ==
    ASSUME TypeOK, NEW n \in Node, Handler(n)
    PROVE  /\ \A m \in Node : m # n => exec'[m] = exec[m]
           /\ \/ exec'[n] = exec[n]
              \/ inbox[n][1] = "start" /\ exec'[n] = "running"
              \/ exec[n] = "running" /\ exec'[n] = "cancelled"
<1>1. CASE SetTransactionPattern(n) \/ UpdateNodes(n)
  BY <1>1 DEF SetTransactionPattern, UpdateNodes
<1>2. CASE StartTransacting(n)
  <2>1. inbox[n][1] = "start"
    BY <1>2 DEF StartTransacting, Handle
  <2> QED BY <1>2, <2>1 DEF StartTransacting, TypeOK
<1>3. CASE StopTransacting(n)
  BY <1>3 DEF StopTransacting, TypeOK
<1> QED BY <1>1, <1>2, <1>3 DEF Handler

\* A broadcast puts one message into the inbox of one node, or fails.
LEMMA SendPuts ==
    ASSUME TypeOK, NEW n \in Node, SendTo(n)
    PROVE  /\ UNCHANGED <<trackerVars, phase, list, nodeVars>>
           /\ phase[Master] \in Broadcast /\ n \in left /\ left' = left \ {n}
           /\ Len(inbox[n]) \in Nat
           /\ \A m \in Node : m # n => inbox'[m] = inbox[m]
           /\ \/ inbox'[n] = inbox[n] /\ failed'
              \/ /\ Len(inbox'[n]) = Len(inbox[n]) + 1
                 /\ inbox'[n][Len(inbox[n]) + 1] = phase[Master]
                 /\ \A i \in 1 .. Len(inbox[n]) : inbox'[n][i] = inbox[n][i]
                 /\ UNCHANGED failed
<1>1. inbox[n] \in Seq(Broadcast) /\ phase[Master] \in Broadcast
  BY DEF TypeOK, SendTo
<1>2. /\ Len(Append(inbox[n], phase[Master])) = Len(inbox[n]) + 1
      /\ Append(inbox[n], phase[Master])[Len(inbox[n]) + 1] = phase[Master]
      /\ \A i \in 1 .. Len(inbox[n]) :
            Append(inbox[n], phase[Master])[i] = inbox[n][i]
  BY <1>1, AppendProperties
<1>3. /\ UNCHANGED <<trackerVars, phase, list, nodeVars>>
      /\ n \in left /\ left' = left \ {n}
      /\ \/ inbox' = inbox /\ failed'
         \/ inbox' = [inbox EXCEPT ![n] = Append(inbox[n], phase[Master])]
            /\ UNCHANGED failed
  BY DEF SendTo, Fault
<1>4. Len(inbox[n]) \in Nat
  BY <1>1
<1>5. CASE inbox' = inbox /\ failed'
  BY <1>1, <1>3, <1>4, <1>5
<1>6. CASE inbox' = [inbox EXCEPT ![n] = Append(inbox[n], phase[Master])]
           /\ UNCHANGED failed
  <2>1. /\ inbox'[n] = Append(inbox[n], phase[Master])
        /\ \A m \in Node : m # n => inbox'[m] = inbox[m]
    BY <1>6 DEF TypeOK
  <2> QED BY <1>1, <1>2, <1>3, <1>4, <1>6, <2>1
<1> QED BY <1>3, <1>5, <1>6

\* The phases of the main program in their order.
Forward ==
    {<<"off", "register">>, <<"register", "waitRegister">>,
     <<"waitRegister", "waitInitialize">>, <<"waitInitialize", "pattern">>,
     <<"pattern", "nodes">>, <<"nodes", "start">>, <<"start", "sleep">>,
     <<"sleep", "stop">>, <<"stop", "waitStop">>, <<"waitStop", "end">>}

MainStep(p) ==
    \/ Cleanup(p) \/ RegisterNode(p) \/ Registered(p) \/ WaitForRegister(p)
    \/ WaitForInitialize(p) \/ BroadcastEnds(p) \/ Wakes(p) \/ WaitForStop(p)
    \/ MainFails(p)

\* The main program only goes forward, from a broadcast when all are served.
LEMMA MainForward ==
    ASSUME TypeOK, NEW p \in Process, MainStep(p)
    PROVE  /\ UNCHANGED <<inbox, exec, owed, known>>
           /\ \A q \in Process : q # p => phase'[q] = phase[q]
           /\ p # Master => UNCHANGED left
           /\ \/ phase'[p] = phase[p] /\ UNCHANGED left
              \/ phase'[p] = "dead" /\ failed'
              \/ <<phase[p], phase'[p]>> \in Forward /\ UNCHANGED failed
           /\ phase'[p] = "nodes" /\ p = Master => left' = list[p]
           /\ phase[p] \in Broadcast /\ phase'[p] # phase[p] /\ p = Master
                 => left = {}
<1> USE DEF Goto, TypeOK
<1>1. CASE RegisterNode(p)
  BY <1>1 DEF RegisterNode, mainVars, nodeVars, Broadcast
<1>2. CASE Cleanup(p)
  BY <1>2 DEF Cleanup, nodeVars, Forward, Broadcast
<1>3. CASE Registered(p)
  BY <1>3 DEF Registered, nodeVars, Forward, Broadcast
<1>4. CASE WaitForRegister(p)
  BY <1>4 DEF WaitForRegister, Forward, Broadcast
<1>5. CASE WaitForInitialize(p)
  BY <1>5 DEF WaitForInitialize, nodeVars, Forward, Broadcast
<1>6. CASE BroadcastEnds(p)
  <2>1. /\ UNCHANGED <<inbox, exec, owed, known, failed>>
        /\ phase[p] \in Broadcast /\ phase' = [phase EXCEPT ![p] = After(phase[p])]
        /\ p = Master => left = {}
        /\ left' = IF p = Master /\ After(phase[p]) \in Broadcast THEN list[p]
                   ELSE left
    BY <1>6 DEF BroadcastEnds, nodeVars
  <2>2. /\ phase'[p] = After(phase[p])
        /\ \A q \in Process : q # p => phase'[q] = phase[q]
    BY <2>1
  <2>3. <<phase[p], After(phase[p])>> \in Forward
    BY <2>1 DEF Broadcast, After, Forward
  <2>4. "nodes" \in Broadcast
    BY DEF Broadcast
  <2> QED BY <2>1, <2>2, <2>3, <2>4
<1>7. CASE Wakes(p)
  BY <1>7 DEF Wakes, nodeVars, Forward, Broadcast
<1>8. CASE WaitForStop(p)
  BY <1>8 DEF WaitForStop, Forward, Broadcast
<1>9. CASE MainFails(p)
  BY <1>9 DEF MainFails, Fault, nodeVars, Broadcast
<1> QED BY <1>1, <1>2, <1>3, <1>4, <1>5, <1>6, <1>7, <1>8, <1>9 DEF MainStep

\* The flags are clear at the beginning.
LEMMA InitK == Init => KInv
<1> SUFFICES ASSUME Init PROVE KInv
  OBVIOUS
<1>1. \A n \in Node : exec[n] = "none" /\ owed[n] = {} /\ Len(inbox[n]) = 0
  BY EmptySeq DEF Init
<1>2. StartInv /\ OwedInv
  BY <1>1 DEF StartInv, OwedInv, Holds
<1>3. FlagInv /\ KilledWhenAllAreDone
  BY DEF Init, FlagInv, SawAllRun, Broadcast, KilledWhenAllAreDone
<1> QED BY <1>2, <1>3, InitT DEF KInv

\* What a step can be.
LEMMA NextCases ==
    ASSUME [Next]_vars
    PROVE  \/ \E p \in Process : MainStep(p)
           \/ \E n \in Node : SendTo(n)
           \/ \E n \in Node : Handler(n)
           \/ \E n \in Node : Pay(n) \/ SendPayment(n) \/ Finish(n)
           \/ \E n \in Node : MarkRunning(n)
           \/ \E n \in Node : Initialize(n) \/ InitFails(n) \/ Bind(n)
           \/ UNCHANGED vars
BY DEF Next, Main, MainStep, NodeNext

\* The first start that is sent is the only one.
LEMMA StepStart ==
    ASSUME TypeOK, StartInv, [Next]_vars
    PROVE  StartInv'
<1>1. ASSUME NEW p \in Process, MainStep(p) PROVE StartInv'
  <2>1. UNCHANGED <<inbox, exec>>
    BY <1>1, MainForward
  <2>2. ASSUME NEW n \in Node, ToBeStarted(n)' PROVE ToBeStarted(n)
    <3>1. CASE p # Master
      BY <1>1, <2>2, <3>1, MainForward, LifecycleAssumption DEF ToBeStarted
    <3>2. CASE p = Master
      BY <1>1, <2>2, <3>2, MainForward DEF ToBeStarted, Forward
    <3> QED BY <3>1, <3>2
  <2> QED BY <2>1, <2>2 DEF StartInv, Holds
<1>2. ASSUME NEW n \in Node, SendTo(n) PROVE StartInv'
  <2>1. /\ UNCHANGED <<phase, exec>> /\ n \in left /\ left' = left \ {n}
        /\ phase[Master] \in Broadcast
        /\ \A m \in Node : m # n => inbox'[m] = inbox[m]
    BY <1>2, SendPuts DEF nodeVars
  <2>2. \A m \in Node : ToBeStarted(m)' => ToBeStarted(m)
    BY <2>1 DEF ToBeStarted
  <2>3. ASSUME NEW m \in Node, m # n
        PROVE  /\ ToBeStarted(m)' => exec'[m] = "none" /\ ~Holds(m, "start")'
               /\ Holds(m, "start")' => exec'[m] = "none"
               /\ \A i, j \in 1 .. Len(inbox'[m]) :
                     inbox'[m][i] = "start" /\ inbox'[m][j] = "start" => i = j
    BY <2>1, <2>2, <2>3 DEF StartInv, Holds
  <2>4. CASE inbox'[n] = inbox[n]
    BY <2>1, <2>2, <2>3, <2>4 DEF StartInv, Holds
  <2>5. CASE /\ Len(inbox'[n]) = Len(inbox[n]) + 1
             /\ inbox'[n][Len(inbox[n]) + 1] = phase[Master]
             /\ \A i \in 1 .. Len(inbox[n]) : inbox'[n][i] = inbox[n][i]
    <3>0. Len(inbox[n]) \in Nat
      BY <1>2, SendPuts
    <3>1. CASE phase[Master] = "start"
      <4>1. ToBeStarted(n) /\ ~ToBeStarted(n)'
        BY <2>1, <3>1 DEF ToBeStarted
      <4>2. /\ exec'[n] = "none"
            /\ \A i \in 1 .. Len(inbox[n]) : inbox'[n][i] # "start"
        BY <2>1, <2>5, <4>1 DEF StartInv, Holds
      <4>3. \A i, j \in 1 .. Len(inbox'[n]) :
                inbox'[n][i] = "start" /\ inbox'[n][j] = "start" => i = j
        BY <2>5, <3>0, <4>2
      <4> QED BY <2>3, <4>1, <4>2, <4>3 DEF StartInv
    <3>2. CASE phase[Master] # "start"
      <4>1. \A i \in 1 .. Len(inbox'[n]) : inbox'[n][i] = "start" =>
                i \in 1 .. Len(inbox[n]) /\ inbox[n][i] = "start"
        BY <2>5, <3>0, <3>2
      <4> QED BY <2>1, <2>2, <2>3, <4>1 DEF StartInv, Holds
    <3> QED BY <3>1, <3>2
  <2> QED BY <1>2, <2>4, <2>5, SendPuts
<1>3. ASSUME NEW n \in Node, Handler(n) PROVE StartInv'
  <2>1. /\ UNCHANGED <<phase, left>>
        /\ Len(inbox[n]) \in Nat /\ 1 \in 1 .. Len(inbox[n])
        /\ Len(inbox'[n]) = Len(inbox[n]) - 1
        /\ \A i \in 1 .. Len(inbox'[n]) :
              i + 1 \in 1 .. Len(inbox[n]) /\ inbox'[n][i] = inbox[n][i + 1]
        /\ \A m \in Node : m # n => inbox'[m] = inbox[m]
    BY <1>3, HandlerTakes DEF mainVars
  <2>2. /\ \A m \in Node : m # n => exec'[m] = exec[m]
        /\ \/ exec'[n] = exec[n]
           \/ inbox[n][1] = "start" /\ exec'[n] = "running"
           \/ exec[n] = "running" /\ exec'[n] = "cancelled"
    BY <1>3, HandlerExec
  <2>3. \A m \in Node : ToBeStarted(m)' <=> ToBeStarted(m)
    BY <2>1 DEF ToBeStarted
  <2>4. Holds(n, "start")' => Holds(n, "start")
    BY <2>1 DEF Holds
  <2>5. \A i, j \in 1 .. Len(inbox'[n]) :
            inbox'[n][i] = "start" /\ inbox'[n][j] = "start" => i = j
    <3> SUFFICES ASSUME NEW i \in 1 .. Len(inbox'[n]), NEW j \in 1 .. Len(inbox'[n]),
                        inbox'[n][i] = "start", inbox'[n][j] = "start"
                 PROVE  i = j
      OBVIOUS
    <3>1. i + 1 = j + 1
      BY <2>1 DEF StartInv
    <3> QED BY <3>1
  <2>6. CASE exec'[n] = exec[n]
    BY <2>1, <2>2, <2>3, <2>4, <2>5, <2>6, SMTT(30) DEF StartInv, Holds
  <2>7. CASE inbox[n][1] = "start"
    <3>1. Holds(n, "start") /\ ~ToBeStarted(n)
      BY <2>1, <2>7 DEF Holds, StartInv
    <3>2. ~Holds(n, "start")'
      <4> SUFFICES ASSUME NEW i \in 1 .. Len(inbox'[n]), inbox'[n][i] = "start"
                   PROVE  FALSE
        BY DEF Holds
      <4>1. i + 1 = 1
        BY <2>1, <2>7 DEF StartInv
      <4> QED BY <4>1
    <3> QED BY <2>1, <2>2, <2>3, <2>5, <3>1, <3>2 DEF StartInv, Holds
  <2>8. CASE exec[n] = "running" /\ exec'[n] = "cancelled"
    <3>1. ~ToBeStarted(n) /\ ~Holds(n, "start")
      BY <2>8 DEF StartInv
    <3> QED BY <2>1, <2>2, <2>3, <2>4, <2>5, <3>1 DEF StartInv, Holds
  <2> QED BY <2>2, <2>6, <2>7, <2>8
<1>4. ASSUME NEW n \in Node, Finish(n) PROVE StartInv'
  <2>1. /\ UNCHANGED <<phase, left, inbox>> /\ exec[n] = "cancelled"
        /\ \A m \in Node : m # n => exec'[m] = exec[m]
    BY <1>4 DEF Finish, mainVars, TypeOK
  <2>2. ~ToBeStarted(n) /\ ~Holds(n, "start")
    BY <2>1 DEF StartInv
  <2> QED BY <2>1, <2>2 DEF StartInv, ToBeStarted, Holds
<1>5. CASE UNCHANGED <<phase, left, inbox, exec>>
  BY <1>5 DEF StartInv, ToBeStarted, Holds
<1>6. (\E n \in Node : \/ Pay(n) \/ SendPayment(n) \/ MarkRunning(n)
                       \/ Initialize(n) \/ InitFails(n) \/ Bind(n))
          \/ UNCHANGED vars => UNCHANGED <<phase, left, inbox, exec>>
  BY DEF Pay, SendPayment, MarkRunning, Initialize, InitFails, Bind, vars, mainVars,
     nodeVars
<1> QED BY <1>1, <1>2, <1>3, <1>4, <1>5, <1>6, NextCases

\* Every step leaves who is done owing nothing.
LEMMA StepOwed ==
    ASSUME TypeOK, OwedInv, [Next]_vars
    PROVE  OwedInv'
<1>1. ASSUME NEW n \in Node, Pay(n) PROVE OwedInv'
  BY <1>1 DEF Pay, OwedInv, TypeOK
<1>2. ASSUME NEW n \in Node, SendPayment(n) PROVE OwedInv'
  BY <1>2 DEF SendPayment, OwedInv, TypeOK
<1>3. ASSUME NEW n \in Node, Finish(n) PROVE OwedInv'
  BY <1>3 DEF Finish, OwedInv, TypeOK
<1>4. ASSUME NEW n \in Node, Handler(n) PROVE OwedInv'
  BY <1>4, HandlerTakes, HandlerExec DEF OwedInv
<1>5. CASE UNCHANGED <<exec, owed>>
  BY <1>5 DEF OwedInv
<1>6. \A p \in Process : MainStep(p) => UNCHANGED <<exec, owed>>
  BY MainForward
<1>7. (\E n \in Node : \/ SendTo(n) \/ MarkRunning(n)
                       \/ Initialize(n) \/ InitFails(n) \/ Bind(n))
          \/ UNCHANGED vars => UNCHANGED <<exec, owed>>
  BY DEF SendTo, MarkRunning, Initialize, InitFails, Bind, vars, nodeVars
<1> QED BY <1>1, <1>2, <1>3, <1>4, <1>5, <1>6, <1>7, NextCases

\* A node that is done is not started again.
LEMMA DoneStaysDone ==
    ASSUME TypeOK, StartInv, NEW n \in Node, Handler(n), NEW m \in Node,
           exec[m] = "done"
    PROVE  exec'[m] = "done"
<1>1. inbox[n][1] = "start" => exec[n] = "none"
  BY HandlerTakes DEF StartInv, Holds
<1> QED BY <1>1, HandlerExec

\* Whoever goes on has seen all flags; a flag is cleared by its node only.
LEMMA StepFlag ==
    ASSUME TInv, StartInv, FlagInv, [Next]_vars
    PROVE  FlagInv'
<1>t. TypeOK /\ ResetInv
  BY DEF TInv
<1>1. ASSUME NEW p \in Process, MainStep(p) PROVE FlagInv'
  <2>1. /\ UNCHANGED exec
        /\ \A q \in Process : q # p => phase'[q] = phase[q]
        /\ \/ phase'[p] = phase[p] \/ phase'[p] = "dead"
           \/ <<phase[p], phase'[p]>> \in Forward
    BY <1>1, <1>t, MainForward
  <2>2. CASE WaitForInitialize(p)
    <3>1. flagged \in SUBSET Node /\ Cardinality(flagged) = Cardinality(Node)
          /\ flagged' = flagged
      BY <1>t, <2>2 DEF WaitForInitialize, TypeOK, trackerVars
    <3> QED BY <3>1, AllOfThem DEF FlagInv
  <2>3. CASE Cleanup(p) /\ p = Master
    <3>1. \A q \in Process : phase'[q] \in {"off", "dead", "register"}
      BY <1>t, <2>3 DEF Cleanup, ResetInv, Goto, TypeOK
    <3> QED BY <3>1 DEF FlagInv, SawAllRun, Broadcast
  <2>4. CASE ~WaitForInitialize(p) /\ ~(Cleanup(p) /\ p = Master)
    <3>1. UNCHANGED flagged
      BY <1>1, <2>4 DEF MainStep, Cleanup, RegisterNode, Registered, WaitForRegister,
         BroadcastEnds, Wakes, WaitForStop, MainFails, trackerVars
    <3>2. phase[p] = "waitInitialize" => phase'[p] \in {"waitInitialize", "dead"}
      BY <1>1, <1>t, <2>4 DEF MainStep, Cleanup, RegisterNode, Registered,
         WaitForRegister, BroadcastEnds, Wakes, WaitForStop, MainFails, Broadcast,
         Goto, TypeOK
    <3>3. \A q \in Process : SawAllRun(q)' => SawAllRun(q)
      BY <2>1, <3>2 DEF SawAllRun, Broadcast, Forward
    <3> QED BY <2>1, <3>1, <3>3 DEF FlagInv
  <2> QED BY <2>2, <2>3, <2>4
<1>2. ASSUME NEW n \in Node, Handler(n) PROVE FlagInv'
  <2>1. UNCHANGED <<phase, flagged>>
    BY <1>2, <1>t, HandlerTakes DEF trackerVars, mainVars
  <2>2. \A m \in Node : exec[m] = "done" => exec'[m] = "done"
    BY <1>2, <1>t, DoneStaysDone
  <2> QED BY <2>1, <2>2 DEF FlagInv, SawAllRun
<1>3. ASSUME NEW n \in Node, Finish(n) PROVE FlagInv'
  BY <1>3, <1>t DEF Finish, FlagInv, SawAllRun, TypeOK, mainVars
<1>4. ASSUME NEW n \in Node, MarkRunning(n) PROVE FlagInv'
  BY <1>4 DEF MarkRunning, FlagInv, SawAllRun, mainVars
<1>5. CASE UNCHANGED <<phase, flagged, exec>>
  BY <1>5 DEF FlagInv, SawAllRun
<1>6. (\E n \in Node : \/ SendTo(n) \/ Pay(n) \/ SendPayment(n)
                       \/ Initialize(n) \/ InitFails(n) \/ Bind(n))
          \/ UNCHANGED vars => UNCHANGED <<phase, flagged, exec>>
  BY DEF SendTo, Pay, SendPayment, Initialize, InitFails, Bind, vars, nodeVars,
     mainVars, trackerVars
<1> QED BY <1>1, <1>2, <1>3, <1>4, <1>5, <1>6, NextCases

\* Every step leaves a kill only after all flags were seen.
LEMMA StepKilled ==
    ASSUME KInv, [Next]_vars
    PROVE  KilledWhenAllAreDone'
<1>t. TypeOK /\ StartInv /\ OwedInv /\ FlagInv /\ KilledWhenAllAreDone
  BY DEF KInv, TInv
<1>1. ASSUME NEW p \in Process, WaitForStop(p) PROVE KilledWhenAllAreDone'
  <2>1. SawAllRun(p) /\ flagged = {} /\ UNCHANGED <<exec, owed>>
    BY <1>1 DEF WaitForStop, SawAllRun
  <2> QED BY <1>t, <2>1 DEF FlagInv, OwedInv, KilledWhenAllAreDone
<1>2. ASSUME NEW p \in Process, MainStep(p), ~WaitForStop(p)
      PROVE  UNCHANGED <<exec, owed, killed>>
  BY <1>2 DEF MainStep, Cleanup, RegisterNode, Registered, WaitForRegister,
     WaitForInitialize, BroadcastEnds, Wakes, MainFails, nodeVars
<1>3. ASSUME NEW n \in Node, Handler(n) PROVE KilledWhenAllAreDone'
  <2>1. UNCHANGED <<owed, killed>>
    BY <1>3, <1>t, HandlerTakes
  <2> QED BY <1>3, <1>t, <2>1, DoneStaysDone DEF KilledWhenAllAreDone
<1>4. ASSUME NEW n \in Node, Pay(n) \/ SendPayment(n) \/ Finish(n)
      PROVE  KilledWhenAllAreDone'
  <2>1. UNCHANGED killed /\ ~(exec[n] = "done" /\ owed[n] = {})
    BY <1>4 DEF Pay, SendPayment, Finish
  <2> QED BY <1>t, <2>1 DEF KilledWhenAllAreDone
<1>5. CASE UNCHANGED <<exec, owed, killed>>
  BY <1>5, <1>t DEF KilledWhenAllAreDone
<1>6. (\E n \in Node : \/ SendTo(n) \/ MarkRunning(n) \/ Initialize(n)
                       \/ InitFails(n) \/ Bind(n))
          \/ UNCHANGED vars => UNCHANGED <<exec, owed, killed>>
  BY DEF SendTo, MarkRunning, Initialize, InitFails, Bind, vars, nodeVars
<1> QED BY <1>1, <1>2, <1>3, <1>4, <1>5, <1>6, NextCases

\* So every step keeps the invariant of flags, starts and kills.
LEMMA StepK == KInv /\ [Next]_vars => KInv'
<1>1. KInv => TInv /\ TypeOK /\ StartInv /\ OwedInv /\ FlagInv
  BY DEF KInv, TInv
<1> QED BY <1>1, StepT, StepStart, StepOwed, StepFlag, StepKilled DEF KInv

\* No node is killed while one of any process makes payments or has some left
\* to send, although the processes know of each other only what the flags on
\* the tracker say, and whatever requests and messages are lost.
THEOREM KilledOnlyWhenDone == Spec => []KilledWhenAllAreDone
<1>1. KInv => KilledWhenAllAreDone
  BY DEF KInv
<1> QED BY InitK, StepK, <1>1, PTL DEF Spec

-----------------------------------------------------------------------------
(* Messages arrive in the order they are sent.                             *)

\* The master has asked n to fetch the list of nodes.
ToldOfNodes(n) ==
    \/ phase[Master] \in {"start", "sleep", "stop", "waitStop", "end"}
    \/ phase[Master] = "nodes" /\ n \notin left

\* Unless something failed, the request for the list was handled, or lies in
\* the inbox, before the start.
KnownInv ==
    ~failed => \A n \in Node :
        /\ exec[n] # "none" => known[n] = Node
        /\ ToldOfNodes(n) => known[n] = Node \/ Holds(n, "nodes")
        /\ \A i \in 1 .. Len(inbox[n]) : inbox[n][i] = "start" =>
              known[n] = Node \/ \E j \in 1 .. i - 1 : inbox[n][j] = "nodes"

WInv == TInv /\ KnownInv

\* Nobody knows any node at the beginning.
LEMMA InitW == Init => WInv
<1> SUFFICES ASSUME Init PROVE WInv
  OBVIOUS
<1>1. \A n \in Node : exec[n] = "none" /\ Len(inbox[n]) = 0
  BY EmptySeq DEF Init
<1>2. phase[Master] = "off"
  BY LifecycleAssumption DEF Init
<1>3. KnownInv
  BY <1>1, <1>2 DEF KnownInv, ToldOfNodes
<1> QED BY <1>3, InitT DEF WInv

\* The list is complete when the message that asks to fetch it arrives.
LEMMA HandlerKnown ==
    ASSUME TypeOK, RegisteredInv, NEW n \in Node, Handler(n), ~failed'
    PROVE  /\ ~failed
           /\ \A m \in Node : m # n => known'[m] = known[m]
           /\ \/ inbox[n][1] = "nodes" /\ known'[n] = Node
              \/ inbox[n][1] # "nodes" /\ known'[n] = known[n]
<1>1. CASE UpdateNodes(n)
  <2>1. inbox[n][1] = "nodes" /\ registered = Node /\ known[n] \subseteq Node
    BY <1>1 DEF UpdateNodes, Handle, RegisteredInv, TypeOK
  <2>2. ~failed /\ known' = [known EXCEPT ![n] = known[n] \cup registered]
    BY <1>1 DEF UpdateNodes, Fault
  <2> QED BY <2>1, <2>2 DEF TypeOK
<1>2. CASE SetTransactionPattern(n) \/ StartTransacting(n) \/ StopTransacting(n)
  BY <1>2 DEF SetTransactionPattern, StartTransacting, StopTransacting, Handle
<1> QED BY <1>1, <1>2 DEF Handler

\* Every step keeps the list fetched, or to be fetched, before the start.
LEMMA StepKnown ==
    ASSUME TInv, KnownInv, [Next]_vars
    PROVE  KnownInv'
<1>t. TypeOK /\ RegisteredInv
  BY DEF TInv
<1> SUFFICES ASSUME ~failed' PROVE KnownInv'
  BY DEF KnownInv
<1>1. ASSUME NEW p \in Process, MainStep(p) PROVE KnownInv'
  <2>1. /\ UNCHANGED <<inbox, exec, known>>
        /\ phase'[p] # phase[p] => <<phase[p], phase'[p]>> \in Forward
    BY <1>1, <1>t, MainForward
  <2>2. ~failed
    BY <1>1 DEF MainStep, Cleanup, RegisterNode, Registered, WaitForRegister,
       WaitForInitialize, BroadcastEnds, Wakes, WaitForStop, MainFails, Fault
  <2>3. ASSUME NEW n \in Node, ToldOfNodes(n)' PROVE ToldOfNodes(n)
    <3>1. CASE p # Master
      BY <1>1, <1>t, <2>3, <3>1, MainForward, LifecycleAssumption DEF ToldOfNodes
    <3>2. CASE p = Master /\ phase'[p] = phase[p]
      BY <1>1, <1>t, <2>3, <3>2, MainForward DEF ToldOfNodes, Forward, Broadcast
    <3>3. CASE p = Master /\ phase'[p] # phase[p]
      <4>1. CASE phase'[p] = "nodes"
        <5>1. phase[p] = "pattern" /\ left' = list[p]
          BY <1>1, <1>t, <2>1, <3>3, <4>1, MainForward DEF Forward
        <5>2. n \in left'
          BY <1>t, <5>1 DEF RegisteredInv, SawAllRegistered
        <5> QED BY <2>3, <3>3, <4>1, <5>2 DEF ToldOfNodes
      <4>2. CASE phase'[p] = "start"
        <5>1. phase[p] = "nodes" /\ left = {}
          BY <1>1, <1>t, <2>1, <3>3, <4>2, MainForward DEF Forward, Broadcast
        <5> QED BY <3>3, <5>1 DEF ToldOfNodes
      <4>3. CASE phase'[p] \notin {"nodes", "start"}
        BY <2>1, <2>3, <3>3, <4>3 DEF ToldOfNodes, Forward
      <4> QED BY <4>1, <4>2, <4>3
    <3> QED BY <3>1, <3>2, <3>3
  <2> QED BY <2>1, <2>2, <2>3 DEF KnownInv, Holds
<1>2. ASSUME NEW n \in Node, SendTo(n) PROVE KnownInv'
  <2>1. /\ UNCHANGED <<phase, exec, known>> /\ n \in left /\ left' = left \ {n}
        /\ Len(inbox[n]) \in Nat
        /\ \A m \in Node : m # n => inbox'[m] = inbox[m]
        /\ Len(inbox'[n]) = Len(inbox[n]) + 1
        /\ inbox'[n][Len(inbox[n]) + 1] = phase[Master]
        /\ \A i \in 1 .. Len(inbox[n]) : inbox'[n][i] = inbox[n][i]
        /\ ~failed
    BY <1>2, <1>t, SendPuts DEF nodeVars
  <2>2. ASSUME NEW m \in Node, m # n
        PROVE  /\ exec'[m] # "none" => known'[m] = Node
               /\ ToldOfNodes(m)' => known'[m] = Node \/ Holds(m, "nodes")'
               /\ \A i \in 1 .. Len(inbox'[m]) : inbox'[m][i] = "start" =>
                     known'[m] = Node \/ \E j \in 1 .. i - 1 : inbox'[m][j] = "nodes"
    <3>1. ToldOfNodes(m)' => ToldOfNodes(m)
      BY <2>1, <2>2 DEF ToldOfNodes
    <3> QED BY <2>1, <2>2, <3>1, SMTT(30) DEF KnownInv, Holds
  <2>3. exec'[n] # "none" => known'[n] = Node
    BY <2>1 DEF KnownInv
  <2>4. ToldOfNodes(n)' => known'[n] = Node \/ Holds(n, "nodes")'
    <3>1. CASE phase[Master] = "nodes"
      BY <2>1, <3>1 DEF Holds
    <3>2. CASE phase[Master] # "nodes"
      <4>1. ToldOfNodes(n)' => ToldOfNodes(n)
        BY <2>1, <3>2 DEF ToldOfNodes
      <4>2. Holds(n, "nodes") => Holds(n, "nodes")'
        BY <2>1 DEF Holds
      <4> QED BY <2>1, <4>1, <4>2 DEF KnownInv
    <3> QED BY <3>1, <3>2
  <2>5. ASSUME NEW i \in 1 .. Len(inbox'[n]), inbox'[n][i] = "start"
        PROVE  known'[n] = Node \/ \E j \in 1 .. i - 1 : inbox'[n][j] = "nodes"
    <3>1. CASE i \in 1 .. Len(inbox[n])
      <4>1. inbox[n][i] = "start"
        BY <2>1, <2>5, <3>1
      <4>2. known[n] = Node \/ \E j \in 1 .. i - 1 : inbox[n][j] = "nodes"
        BY <2>1, <3>1, <4>1 DEF KnownInv
      <4> QED BY <2>1, <3>1, <4>2
    <3>2. CASE i = Len(inbox[n]) + 1
      <4>1. ToldOfNodes(n)
        BY <2>1, <2>5, <3>2 DEF ToldOfNodes
      <4>2. known[n] = Node \/ \E j \in 1 .. Len(inbox[n]) : inbox[n][j] = "nodes"
        BY <2>1, <4>1 DEF KnownInv, Holds
      <4> QED BY <2>1, <3>2, <4>2
    <3> QED BY <2>1, <3>1, <3>2
  <2> QED BY <2>2, <2>3, <2>4, <2>5 DEF KnownInv
<1>3. ASSUME NEW n \in Node, Handler(n) PROVE KnownInv'
  <2>1. /\ UNCHANGED <<phase, left>>
        /\ Len(inbox[n]) \in Nat /\ 1 \in 1 .. Len(inbox[n])
        /\ Len(inbox'[n]) = Len(inbox[n]) - 1
        /\ \A i \in 1 .. Len(inbox'[n]) :
              i + 1 \in 1 .. Len(inbox[n]) /\ inbox'[n][i] = inbox[n][i + 1]
        /\ \A m \in Node : m # n => inbox'[m] = inbox[m]
    BY <1>3, <1>t, HandlerTakes DEF mainVars
  <2>2. /\ \A m \in Node : m # n => exec'[m] = exec[m]
        /\ \/ exec'[n] = exec[n]
           \/ inbox[n][1] = "start" /\ exec'[n] = "running"
           \/ exec[n] = "running" /\ exec'[n] = "cancelled"
    BY <1>3, <1>t, HandlerExec
  <2>3. /\ ~failed
        /\ \A m \in Node : m # n => known'[m] = known[m]
        /\ \/ inbox[n][1] = "nodes" /\ known'[n] = Node
           \/ inbox[n][1] # "nodes" /\ known'[n] = known[n]
    BY <1>3, <1>t, HandlerKnown
  <2>4. \A m \in Node : ToldOfNodes(m)' <=> ToldOfNodes(m)
    BY <2>1 DEF ToldOfNodes
  <2>5. ASSUME NEW m \in Node, m # n
        PROVE  /\ exec'[m] # "none" => known'[m] = Node
               /\ ToldOfNodes(m)' => known'[m] = Node \/ Holds(m, "nodes")'
               /\ \A i \in 1 .. Len(inbox'[m]) : inbox'[m][i] = "start" =>
                     known'[m] = Node \/ \E j \in 1 .. i - 1 : inbox'[m][j] = "nodes"
    BY <2>1, <2>2, <2>3, <2>4, <2>5 DEF KnownInv, Holds
  <2>6. CASE known'[n] = Node
    BY <2>5, <2>6 DEF KnownInv
  <2>7. CASE inbox[n][1] # "nodes" /\ known'[n] = known[n]
    <3>1. exec'[n] # "none" => known[n] = Node
      <4>1. inbox[n][1] = "start" => known[n] = Node
        BY <2>1, <2>3 DEF KnownInv
      <4> QED BY <2>2, <2>3, <4>1 DEF KnownInv
    <3>2. \A j \in 1 .. Len(inbox[n]) : inbox[n][j] = "nodes" =>
              j - 1 \in 1 .. Len(inbox'[n]) /\ inbox'[n][j - 1] = "nodes"
      <4> SUFFICES ASSUME NEW j \in 1 .. Len(inbox[n]), inbox[n][j] = "nodes"
                   PROVE  j - 1 \in 1 .. Len(inbox'[n]) /\ inbox'[n][j - 1] = "nodes"
        OBVIOUS
      <4>1. j # 1 /\ j - 1 \in 1 .. Len(inbox'[n]) /\ (j - 1) + 1 = j
        BY <2>1, <2>7
      <4> QED BY <2>1, <4>1
    <3>3. Holds(n, "nodes") => Holds(n, "nodes")'
      BY <3>2 DEF Holds
    <3>4. ASSUME NEW i \in 1 .. Len(inbox'[n]), inbox'[n][i] = "start"
          PROVE  known[n] = Node \/ \E j \in 1 .. i - 1 : inbox'[n][j] = "nodes"
      <4>1. i + 1 \in 1 .. Len(inbox[n]) /\ inbox[n][i + 1] = "start" /\ i \in Nat
        BY <2>1, <3>4
      <4>2. known[n] = Node \/ \E j \in 1 .. (i + 1) - 1 : inbox[n][j] = "nodes"
        BY <2>3, <4>1 DEF KnownInv
      <4>3. ASSUME NEW j \in 1 .. (i + 1) - 1, inbox[n][j] = "nodes"
            PROVE  j - 1 \in 1 .. i - 1 /\ inbox'[n][j - 1] = "nodes"
        <5>1. j \in 1 .. Len(inbox[n])
          BY <4>1
        <5>2. j - 1 \in 1 .. Len(inbox'[n]) /\ inbox'[n][j - 1] = "nodes"
          BY <3>2, <4>3, <5>1
        <5> QED BY <4>1, <5>1, <5>2
      <4> QED BY <4>2, <4>3
    <3> QED BY <2>3, <2>4, <2>5, <2>7, <3>1, <3>3, <3>4 DEF KnownInv
  <2> QED BY <2>3, <2>6, <2>7
<1>4. ASSUME NEW n \in Node, Finish(n) PROVE KnownInv'
  <2>1. /\ UNCHANGED <<phase, left, inbox, known>> /\ exec[n] = "cancelled" /\ ~failed
        /\ \A m \in Node : m # n => exec'[m] = exec[m]
    BY <1>4, <1>t DEF Finish, mainVars, TypeOK, Fault
  <2> QED BY <2>1 DEF KnownInv, ToldOfNodes, Holds
<1>5. CASE UNCHANGED <<phase, left, inbox, exec, known>> /\ ~failed
  BY <1>5 DEF KnownInv, ToldOfNodes, Holds
<1>6. (\E n \in Node : \/ Pay(n) \/ SendPayment(n) \/ MarkRunning(n)
                       \/ Initialize(n) \/ InitFails(n) \/ Bind(n))
          \/ UNCHANGED vars => UNCHANGED <<phase, left, inbox, exec, known>> /\ ~failed
  BY DEF Pay, SendPayment, MarkRunning, Initialize, InitFails, Bind, vars, mainVars,
     nodeVars, Fault
<1> QED BY <1>1, <1>2, <1>3, <1>4, <1>5, <1>6, NextCases

\* So every step keeps the invariant of the known nodes.
LEMMA StepW == WInv /\ [Next]_vars => WInv'
BY StepT, StepKnown DEF WInv

\* Unless something failed a node that transacts knows every node of the
\* system: all were registered before any process went on, the request to fetch
\* the list is sent to all before the start, and arrives before it.
THEOREM TransactorsKnowAll == Spec => []TransactsWithAll
<1>1. WInv => TransactsWithAll
  BY DEF WInv, KnownInv, TransactsWithAll, IsTransacting
<1> QED BY InitW, StepW, <1>1, PTL DEF Spec

-----------------------------------------------------------------------------
(* What the simulation takes the tracker for, which TrackerServer is shown *)
(* to implement as well.                                                   *)

Tracker == INSTANCE TrackerFlags

\* Every step uses the tracker as TrackerFlags allows.
LEMMA StepTracker ==
    ASSUME TypeOK, TypeOK', [Next]_vars
    PROVE  [Tracker!Next]_Tracker!vars
<1>1. CASE UNCHANGED trackerVars
  BY <1>1 DEF trackerVars, Tracker!vars
<1>2. ASSUME NEW p \in Process, MainStep(p) PROVE [Tracker!Next]_Tracker!vars
  <2>1. CASE UNCHANGED trackerVars
    BY <1>1, <2>1
  <2>2. CASE registered' = {} /\ flagged' = {}
    BY <2>2 DEF Tracker!Next, Tracker!Reset
  <2>3. CASE RegisterNode(p)
    <3>1. PICK n \in Own(p) \ registered : registered' = registered \cup {n}
      BY <2>3 DEF RegisterNode
    <3>2. n \in Node /\ flagged' = flagged \ {n}
      BY <2>3, <3>1 DEF RegisterNode, Own, TypeOK
    <3> QED
      BY <3>1, <3>2 DEF Tracker!Next, Tracker!Register
  <2> QED
    BY <1>2, <2>1, <2>2, <2>3
       DEF MainStep, Cleanup, Registered, WaitForRegister, WaitForInitialize,
           BroadcastEnds, Wakes, WaitForStop, MainFails, trackerVars
<1>3. ASSUME NEW n \in Node, MarkRunning(n) PROVE [Tracker!Next]_Tracker!vars
  <2>1. CASE UNCHANGED flagged
    BY <1>1, <1>3, <2>1 DEF MarkRunning, trackerVars
  <2>2. CASE flagged' = flagged \cup {n}
    <3>1. registered' = registered
      BY <1>3 DEF MarkRunning
    <3>2. n \in registered
      BY <2>2, <3>1 DEF TypeOK
    <3> QED
      BY <2>2, <3>1, <3>2 DEF Tracker!Next, Tracker!Mark
  <2> QED
    BY <1>3, <2>1, <2>2 DEF MarkRunning
<1>4. ASSUME NEW n \in Node, Finish(n) PROVE [Tracker!Next]_Tracker!vars
  <2>1. registered' = registered
    BY <1>4 DEF Finish
  <2>2. CASE UNCHANGED flagged
    BY <1>1, <2>1, <2>2 DEF trackerVars
  <2>3. CASE flagged' = flagged \ {n}
    BY <2>1, <2>3 DEF Tracker!Next, Tracker!Clear
  <2> QED
    BY <1>4, <2>2, <2>3 DEF Finish
<1>5. ASSUME NEW n \in Node, Handler(n) PROVE UNCHANGED trackerVars
  BY <1>5, HandlerTakes
<1>6. ASSUME NEW n \in Node,
             \/ SendTo(n) \/ Pay(n) \/ SendPayment(n)
             \/ Initialize(n) \/ InitFails(n) \/ Bind(n)
      PROVE  UNCHANGED trackerVars
  BY <1>6 DEF SendTo, Pay, SendPayment, Initialize, InitFails, Bind, trackerVars
<1>7. UNCHANGED vars => UNCHANGED trackerVars
  BY DEF vars, trackerVars
<1> QED
  BY <1>1, <1>2, <1>3, <1>4, <1>5, <1>6, <1>7, NextCases

\* The tracker of the life cycle does nothing that TrackerFlags does not allow,
\* the specification the tracker server implements: in particular a node asks to
\* be marked only when it is in the list, so that the success the server answers
\* in any case is true.
THEOREM TrackerIsFlags == Spec => Tracker!Spec
<1>1. Init => Tracker!Init
  BY DEF Init, Tracker!Init
<1> QED
  BY InitT, StepT, StepTracker, <1>1, PTL DEF Spec, TInv, Tracker!Spec
=============================================================================
