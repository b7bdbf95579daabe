------------------------- MODULE RegistrationQueue -------------------------
(***************************************************************************)
(* How accepted payments get to the tracker: TrackerHelper.                *)
(*                                                                         *)
(* The handler threads of all nodes of a process add registrations to one  *)
(* queue, transactionsToRegister.  A thread that finds it long enough      *)
(* replaces it by an empty one, under a lock, and hands the old one to a   *)
(* pool of one thread, which reads it from front to end and posts what it  *)
(* has read.  The lock does not cover the add: a thread may have fetched   *)
(* the old queue and add to it after it was replaced.                      *)
(*                                                                         *)
(* queues holds every queue there has been; the last one is the open one,  *)
(* and the tasks of the pool are those from number batch to the one before *)
(* the last, in this order.                                                *)
(***************************************************************************)
EXTENDS Integers, Sequences, FiniteSets

CONSTANTS
    Receiver,            \* handler threads that receive payments
    RegisterEvery,       \* SimulationMain.REGISTER_TRANSACTIONS_EVERY
    MaxReceived          \* bound: payments that are received

ASSUME RegistrationAssumption ==
    /\ IsFiniteSet(Receiver)
    /\ RegisterEvery \in Nat \ {0}
    /\ MaxReceived \in Nat

VARIABLES
    queues,      \* every queue, the open one is the last
    pc,          \* control point of each receiver
    ref,         \* the queue it has fetched from transactionsToRegister
    mine,        \* the registration it adds
    received,    \* how many payments have been received
    batch,       \* the queue the pool thread sends, or is to send next
    sending,     \* whether the pool thread is in sendTransactions
    at,          \* its iterator: place of the next element, 0 at the end
    array,       \* transactionArray
    registered,  \* how often the tracker has each registration
    failed       \* the queues whose request failed

receiverVars == <<pc, ref, mine, received>>
poolVars == <<batch, sending, at, array, registered, failed>>
vars == <<queues, receiverVars, poolVars>>

\* Registrations are numbered in the order the payments are received.
Registration == 1 .. MaxReceived

Open == Len(queues)

TypeOK ==
    /\ queues \in Seq(Seq(Registration)) /\ queues # <<>>
    /\ pc \in [Receiver -> {"idle", "add", "check", "size", "locked"}]
    /\ ref \in [Receiver -> 1 .. Open]
    /\ mine \in [Receiver -> 0 .. MaxReceived]
    /\ received \in 0 .. MaxReceived
    /\ batch \in 1 .. Open
    /\ sending \in BOOLEAN
    /\ at \in 0 .. Len(queues[batch])
    /\ array \in Seq(Registration)
    /\ registered \in [Registration -> Nat]
    /\ failed \subseteq 1 .. Open

Init ==
    /\ queues = <<<<>>>>
    /\ pc = [r \in Receiver |-> "idle"]
    /\ ref = [r \in Receiver |-> 1]
    /\ mine = [r \in Receiver |-> 0]
    /\ received = 0
    /\ batch = 1
    /\ sending = FALSE
    /\ at = 0
    /\ array = <<>>
    /\ registered = [g \in Registration |-> 0]
    /\ failed = {}

Goto(r, point) == pc' = [pc EXCEPT ![r] = point]

-----------------------------------------------------------------------------
(* registerTransaction, by receiver r.                                     *)

Receive(r) ==
    /\ pc[r] = "idle" /\ received < MaxReceived
    /\ received' = received + 1
    /\ mine' = [mine EXCEPT ![r] = received + 1]
    /\ ref' = [ref EXCEPT ![r] = Open]
    /\ Goto(r, "add")
    /\ UNCHANGED <<queues, poolVars>>

Add(r) ==
    /\ pc[r] = "add"
    /\ queues' = [queues EXCEPT ![ref[r]] = Append(@, mine[r])]
    /\ Goto(r, "check")
    /\ UNCHANGED <<ref, mine, received, poolVars>>

\* The volatile field is read again for the check.
FetchAgain(r) ==
    /\ pc[r] = "check"
    /\ ref' = [ref EXCEPT ![r] = Open]
    /\ Goto(r, "size")
    /\ UNCHANGED <<queues, mine, received, poolVars>>

\* Slip: a queue of exactly RegisterEvery elements is not yet sent.
CheckSizeLate(r) ==
    /\ pc[r] = "size"
    /\ Goto(r, IF Len(queues[ref[r]]) <= RegisterEvery THEN "idle" ELSE "locked")
    /\ UNCHANGED <<queues, ref, mine, received, poolVars>>

CheckSize(r) ==
    /\ pc[r] = "size"
    /\ Goto(r, IF Len(queues[ref[r]]) < RegisterEvery THEN "idle" ELSE "locked")
    /\ UNCHANGED <<queues, ref, mine, received, poolVars>>

\* Slip: the size is not checked again under the lock.
SwapUnchecked(r) ==
    /\ pc[r] = "locked"
    /\ queues' = Append(queues, <<>>)
    /\ Goto(r, "idle")
    /\ UNCHANGED <<ref, mine, received, poolVars>>

\* Slip: the new queue starts with what the old one holds.
SwapCopy(r) ==
    /\ pc[r] = "locked"
    /\ IF Len(queues[Open]) < RegisterEvery THEN UNCHANGED queues
       ELSE queues' = Append(queues, queues[Open])
    /\ Goto(r, "idle")
    /\ UNCHANGED <<ref, mine, received, poolVars>>

\* synchronized (TrackerHelper.class): another receiver may have swapped the
\* queue before.  The task for the pool is submitted under the lock.
Swap(r) ==
    /\ pc[r] = "locked"
    /\ IF Len(queues[Open]) < RegisterEvery THEN UNCHANGED queues
       ELSE queues' = Append(queues, <<>>)
    /\ Goto(r, "idle")
    /\ UNCHANGED <<ref, mine, received, poolVars>>

Register(r) == Add(r) \/ FetchAgain(r) \/ CheckSize(r) \/ Swap(r)

-----------------------------------------------------------------------------
(* sendTransactions, by the pool thread.                                   *)

StartBatch ==
    /\ ~sending /\ batch < Open
    /\ sending' = TRUE
    /\ at' = IF queues[batch] = <<>> THEN 0 ELSE 1
    /\ UNCHANGED <<queues, receiverVars, batch, array, registered, failed>>

\* Slip: the iterator goes one place too far.
TakeOneMore ==
    /\ sending /\ at # 0
    /\ array' = Append(array, queues[batch][at])
    /\ at' = IF at <= Len(queues[batch]) THEN at + 1 ELSE 0
    /\ UNCHANGED <<queues, receiverVars, batch, sending, registered, failed>>

\* The iterator of a LinkedBlockingQueue is one element ahead: what is added
\* after it fetched the last one it does not see.
Take ==
    /\ sending /\ at # 0
    /\ array' = Append(array, queues[batch][at])
    /\ at' = IF at < Len(queues[batch]) THEN at + 1 ELSE 0
    /\ UNCHANGED <<queues, receiverVars, batch, sending, registered, failed>>

\* How often a registration is in the request.
Posted(g) == Cardinality({i \in DOMAIN array : array[i] = g})

\* The tracker adds every transaction of the request to its list.
AddTransactions ==
    registered' = [g \in Registration |-> registered[g] + Posted(g)]

Post ==
    /\ sending /\ at = 0
    /\ AddTransactions
    /\ sending' = FALSE
    /\ batch' = batch + 1
    /\ array' = <<>>
    /\ UNCHANGED <<queues, receiverVars, at, failed>>

\* The exception is logged, the batch is not sent again.  The tracker may have
\* got the request, if only the response is lost.
PostFails ==
    /\ sending /\ at = 0
    /\ AddTransactions \/ UNCHANGED registered
    /\ failed' = failed \cup {batch}
    /\ sending' = FALSE
    /\ batch' = batch + 1
    /\ array' = <<>>
    /\ UNCHANGED <<queues, receiverVars, at>>

Pool == StartBatch \/ Take \/ Post \/ PostFails

-----------------------------------------------------------------------------
Next == Pool \/ \E r \in Receiver : Receive(r) \/ Register(r)

Spec == Init /\ [][Next]_vars

\* The threads run; payments need not come.
Fairness == WF_vars(Pool) /\ \A r \in Receiver : WF_vars(Register(r))

FairSpec == Spec /\ Fairness

-----------------------------------------------------------------------------
\* However receivers and the pool thread overlap, the tracker counts no
\* payment twice and none that was not received.
RegisteredOnce ==
    \A g \in Registration :
        registered[g] <= IF g <= received THEN 1 ELSE 0

\* Two receivers that both find the queue long enough swap it once: no short
\* batch is handed to the pool.
BatchesAreFull == \A i \in 1 .. Open - 1 : Len(queues[i]) >= RegisterEvery

\* A queue grows by at most one registration of each receiver beyond the one
\* that makes it long enough: none returns before the queue was swapped.
QueuesAreBounded ==
    \A i \in 1 .. Open :
        Len(queues[i]) <= RegisterEvery - 1 + Cardinality(Receiver)

\* A queue that is long enough is sent: its first RegisterEvery elements reach
\* the tracker, unless the request fails.
IsLongEnough(i) == i <= Open /\ Len(queues[i]) >= RegisterEvery

FullQueueIsRegistered ==
    \A i \in 1 .. MaxReceived \div RegisterEvery :
        IsLongEnough(i)
            ~> \/ i \in failed
               \/ /\ IsLongEnough(i)
                  /\ \A j \in 1 .. RegisterEvery : registered[queues[i][j]] = 1

\* The comment of registerTransaction: it registers a transaction to a queue,
\* "ready to be send to the server".  What is in a queue that was sent
\* without a failure has reached the tracker.
NothingForgotten ==
    \A i \in 1 .. batch - 1 : i \notin failed =>
        \A j \in DOMAIN queues[i] : registered[queues[i][j]] = 1

=============================================================================
