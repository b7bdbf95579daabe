---------------------- MODULE RegistrationQueueProofs ----------------------
(***************************************************************************)
(* Theorems about RegistrationQueue for any finite set of receivers, any   *)
(* batch size and any number of payments, with requests that may fail.     *)
(***************************************************************************)
EXTENDS RegistrationQueue, SequenceTheorems, FiniteSetTheorems, TLAPS

-----------------------------------------------------------------------------
(* How a step changes the queues.                                          *)

\* A registration goes to the end of one queue.
Grows(r) ==
    /\ Open' = Open
    /\ Len(queues'[ref[r]]) = Len(queues[ref[r]]) + 1
    /\ queues'[ref[r]][Len(queues[ref[r]]) + 1] = mine[r]
    /\ \A k \in 1 .. Len(queues[ref[r]]) : queues'[ref[r]][k] = queues[ref[r]][k]
    /\ \A i \in 1 .. Open : i # ref[r] => queues'[i] = queues[i]

\* An empty queue is opened.
Opens ==
    /\ Open' = Open + 1
    /\ queues'[Open + 1] = <<>>
    /\ \A i \in 1 .. Open : queues'[i] = queues[i]

\* The queues are sequences of registrations, the open one last.
LEMMA QueuesType ==
    ASSUME TypeOK
    PROVE  /\ Open \in Nat \ {0}
           /\ DOMAIN queues = 1 .. Open
           /\ \A i \in 1 .. Open : /\ queues[i] \in Seq(Registration)
                                   /\ Len(queues[i]) \in Nat
                                   /\ DOMAIN queues[i] = 1 .. Len(queues[i])
                                   /\ \A k \in 1 .. Len(queues[i]) :
                                          queues[i][k] \in Registration
<1>1. Open \in Nat \ {0} /\ DOMAIN queues = 1 .. Open
  BY EmptySeq DEF TypeOK, Open
<1>2. ASSUME NEW i \in 1 .. Open PROVE queues[i] \in Seq(Registration)
  BY <1>1 DEF TypeOK, Open
<1>3. ASSUME NEW i \in 1 .. Open
      PROVE  /\ Len(queues[i]) \in Nat
             /\ DOMAIN queues[i] = 1 .. Len(queues[i])
             /\ \A k \in 1 .. Len(queues[i]) : queues[i][k] \in Registration
  BY <1>2
<1> QED BY <1>1, <1>2, <1>3

\* What a request holds of a registration can be counted.
LEMMA PostedType ==
    ASSUME TypeOK, NEW g
    PROVE  /\ IsFiniteSet({i \in DOMAIN array : array[i] = g})
           /\ Posted(g) \in Nat
<1>1. DOMAIN array = 1 .. Len(array) /\ Len(array) \in Nat
  BY DEF TypeOK
<1>2. IsFiniteSet(1 .. Len(array))
  BY <1>1, FS_Interval
<1>3. {i \in DOMAIN array : array[i] = g} \in SUBSET (1 .. Len(array))
  BY <1>1
<1>4. IsFiniteSet({i \in DOMAIN array : array[i] = g})
  BY <1>2, <1>3, FS_Subset
<1> QED BY <1>4, FS_CardinalityType DEF Posted

\* An added registration makes one queue longer by one.
LEMMA AddGrows ==
    ASSUME TypeOK, NEW r \in Receiver, Add(r), mine[r] \in Registration
    PROVE  /\ Grows(r)
           /\ queues' \in Seq(Seq(Registration))
<1> DEFINE i == ref[r]
<1>1. i \in 1 .. Open
  BY DEF TypeOK
<1>2. queues[i] \in Seq(Registration) /\ queues \in Seq(Seq(Registration))
  BY <1>1, QueuesType DEF TypeOK
<1>3. queues' = [queues EXCEPT ![i] = Append(queues[i], mine[r])]
  BY DEF Add
<1>4. /\ Append(queues[i], mine[r]) \in Seq(Registration)
      /\ Len(Append(queues[i], mine[r])) = Len(queues[i]) + 1
      /\ Append(queues[i], mine[r])[Len(queues[i]) + 1] = mine[r]
      /\ \A k \in 1 .. Len(queues[i]) :
             Append(queues[i], mine[r])[k] = queues[i][k]
  BY <1>2
<1>5. /\ queues' \in Seq(Seq(Registration))
      /\ Len(queues') = Len(queues)
      /\ \A j \in 1 .. Len(queues) :
             queues'[j] = IF j = i THEN Append(queues[i], mine[r]) ELSE queues[j]
  <2> HIDE DEF i
  <2>1. i \in 1 .. Len(queues)
    BY <1>1 DEF Open
  <2> QED BY <2>1, <1>2, <1>3, <1>4, ExceptSeq
<1> QED BY <1>1, <1>4, <1>5 DEF Grows, Open

\* A swap starts an empty queue when the last one is full enough.
LEMMA SwapOpens ==
    ASSUME TypeOK, NEW r \in Receiver, Swap(r), queues' # queues
    PROVE  /\ Opens
           /\ Len(queues[Open]) >= RegisterEvery
           /\ queues' \in Seq(Seq(Registration))
<1>1. queues \in Seq(Seq(Registration)) /\ <<>> \in Seq(Registration)
  BY EmptySeq DEF TypeOK
<1>2. queues' = Append(queues, <<>>) /\ ~(Len(queues[Open]) < RegisterEvery)
  BY DEF Swap
<1>3. Len(queues[Open]) \in Nat /\ RegisterEvery \in Nat
  BY QueuesType, RegistrationAssumption
<1> QED BY <1>1, <1>2, <1>3 DEF Opens, Open

-----------------------------------------------------------------------------
(* Type correctness.                                                       *)

\* While the pool thread sends, the queue it sends is not the open one; and a
\* receiver on its way has a registration of its own.
ControlInv ==
    /\ sending => batch < Open
    /\ ~sending => array = <<>> /\ at = 0
    /\ \A r \in Receiver : pc[r] = "add" => mine[r] \in 1 .. received

TInv == TypeOK /\ ControlInv

\* The types and the control of receivers and thread hold at the beginning.
LEMMA InitT == Init => TInv
<1> SUFFICES ASSUME Init PROVE TInv
  OBVIOUS
<1>1. queues \in Seq(Seq(Registration)) /\ Len(queues) = 1 /\ queues[1] = <<>>
  BY EmptySeq DEF Init
<1>2. array \in Seq(Registration)
  BY EmptySeq DEF Init
<1>3. TypeOK
  <2>1. queues # <<>>
    BY <1>1, EmptySeq
  <2>2. received \in 0 .. MaxReceived /\ mine \in [Receiver -> 0 .. MaxReceived]
    BY RegistrationAssumption DEF Init
  <2>3. /\ ref \in [Receiver -> 1 .. Open] /\ batch \in 1 .. Open
        /\ at \in 0 .. Len(queues[batch]) /\ failed \subseteq 1 .. Open
    BY <1>1, EmptySeq DEF Init, Open
  <2> QED BY <1>1, <1>2, <2>1, <2>2, <2>3 DEF Init, TypeOK
<1>4. ControlInv
  BY DEF Init, ControlInv
<1> QED BY <1>3, <1>4 DEF TInv

\* What the pool thread is at stays in place when a receiver adds or swaps.
LEMMA StepType == TInv /\ [Next]_vars => TypeOK'
<1> SUFFICES ASSUME TInv, [Next]_vars PROVE TypeOK'
  OBVIOUS
<1>a. TypeOK /\ ControlInv
  BY DEF TInv
<1>t. /\ Open \in Nat \ {0} /\ batch \in 1 .. Open
      /\ Len(queues[batch]) \in Nat
      /\ received \in Nat /\ MaxReceived \in Nat /\ received <= MaxReceived
  BY <1>a, QueuesType, RegistrationAssumption DEF TypeOK
<1>1. ASSUME NEW r \in Receiver, Receive(r) PROVE TypeOK'
  <2>1. received' \in 0 .. MaxReceived /\ received + 1 \in 0 .. MaxReceived
    BY <1>1, <1>t DEF Receive
  <2> QED BY <1>1, <2>1, <1>t, <1>a, SMTT(30) DEF Receive, Goto, poolVars, TypeOK, Open
<1>2. ASSUME NEW r \in Receiver, Add(r) PROVE TypeOK'
  <2>1. mine[r] \in Registration
    BY <1>2, <1>t, <1>a DEF Add, ControlInv, Registration
  <2>2. Grows(r) /\ queues' \in Seq(Seq(Registration))
    BY <1>2, <1>a, <2>1, AddGrows
  <2>3. ref[r] \in 1 .. Open /\ Len(queues[ref[r]]) \in Nat
    BY <1>a, QueuesType DEF TypeOK
  <2>4. Len(queues'[batch]) \in Nat /\ Len(queues[batch]) <= Len(queues'[batch])
    <3>1. CASE batch = ref[r]
      BY <2>2, <2>3, <3>1 DEF Grows
    <3>2. CASE batch # ref[r]
      BY <2>2, <3>2, <1>t DEF Grows
    <3> QED BY <3>1, <3>2
  <2>5. queues' # <<>>
    <3>1. Len(queues') # 0
      BY <2>2, <1>t DEF Grows, Open
    <3> QED BY <3>1, EmptySeq
  <2>6. /\ Open' = Open /\ UNCHANGED <<ref, mine, received, poolVars>>
        /\ pc' = [pc EXCEPT ![r] = "check"]
    BY <1>2, <2>2 DEF Add, Goto, Grows
  <2>7. at' \in 0 .. Len(queues'[batch'])
    BY <1>a, <1>t, <2>4, <2>6, SMTT(30) DEF poolVars, TypeOK
  <2> QED BY <1>a, <2>2, <2>5, <2>6, <2>7 DEF poolVars, TypeOK
<1>3. ASSUME NEW r \in Receiver, FetchAgain(r) PROVE TypeOK'
  BY <1>3, <1>t, <1>a, SMTT(30) DEF FetchAgain, Goto, poolVars, TypeOK, Open
<1>4. ASSUME NEW r \in Receiver, CheckSize(r) PROVE TypeOK'
  BY <1>4, <1>a DEF CheckSize, Goto, poolVars, TypeOK, Open
<1>5. ASSUME NEW r \in Receiver, Swap(r) PROVE TypeOK'
  <2>1. CASE queues' = queues
    BY <2>1, <1>5, <1>a DEF Swap, Goto, poolVars, TypeOK, Open
  <2>2. CASE queues' # queues
    <3>1. Opens /\ queues' \in Seq(Seq(Registration))
      BY <2>2, <1>5, <1>a, SwapOpens
    <3>2. queues' # <<>>
      <4>1. Len(queues') # 0
        BY <3>1, <1>t DEF Opens, Open
      <4> QED BY <4>1, EmptySeq
    <3>3. /\ UNCHANGED <<ref, mine, received, poolVars>>
          /\ pc' = [pc EXCEPT ![r] = "idle"]
      BY <1>5 DEF Swap, Goto
    <3>4. queues'[batch] = queues[batch] /\ Open' = Open + 1
      BY <3>1, <1>t DEF Opens
    <3>5. /\ ref' \in [Receiver -> 1 .. Open'] /\ batch' \in 1 .. Open'
          /\ failed' \subseteq 1 .. Open'
      BY <1>a, <1>t, <3>3, <3>4 DEF poolVars, TypeOK
    <3>6. at' \in 0 .. Len(queues'[batch'])
      BY <1>a, <3>3, <3>4 DEF poolVars, TypeOK
    <3> QED BY <1>a, <3>1, <3>2, <3>3, <3>5, <3>6 DEF poolVars, TypeOK
  <2> QED BY <2>1, <2>2
<1>6. CASE StartBatch
  <2>1. at' \in 0 .. Len(queues[batch])
    <3>1. CASE queues[batch] = <<>>
      BY <3>1, <1>6, <1>t DEF StartBatch
    <3>2. CASE queues[batch] # <<>>
      <4>1. queues[batch] \in Seq(Registration)
        BY <1>a, <1>t, QueuesType
      <4>2. Len(queues[batch]) \in Nat \ {0}
        BY <3>2, <4>1, EmptySeq
      <4> QED BY <3>2, <4>2, <1>6 DEF StartBatch
    <3> QED BY <3>1, <3>2
  <2> QED BY <1>6, <1>a, <2>1 DEF StartBatch, receiverVars, TypeOK, Open
<1>7. CASE Take
  <2>1. queues[batch][at] \in Registration
    BY <1>7, <1>t, <1>a, QueuesType, SMTT(30) DEF Take, TypeOK
  <2>2. Append(array, queues[batch][at]) \in Seq(Registration)
    BY <2>1, <1>a DEF TypeOK
  <2>3. at' \in 0 .. Len(queues[batch])
    BY <1>7, <1>t, <1>a DEF Take, TypeOK
  <2> QED BY <1>7, <1>a, <2>2, <2>3 DEF Take, receiverVars, TypeOK, Open
<1>8. ASSUME AddTransactions \/ UNCHANGED registered
      PROVE  registered' \in [Registration -> Nat]
  <2>1. \A g \in Registration : Posted(g) \in Nat
    BY <1>a, PostedType
  <2>2. CASE AddTransactions
    BY <2>1, <2>2, <1>a DEF AddTransactions, TypeOK
  <2>3. CASE UNCHANGED registered
    BY <2>3, <1>a DEF TypeOK
  <2> QED BY <1>8, <2>2, <2>3
<1>9. ASSUME Post \/ PostFails PROVE TypeOK'
  <2>1. /\ registered' \in [Registration -> Nat]
        /\ batch' = batch + 1 /\ batch < Open /\ at' = 0
        /\ sending' = FALSE /\ array' = <<>>
        /\ UNCHANGED <<queues, receiverVars>>
        /\ failed' \subseteq 1 .. Open
    BY <1>9, <1>8, <1>t, <1>a DEF Post, PostFails, TypeOK, ControlInv
  <2>2. Len(queues[batch + 1]) \in Nat
    BY <2>1, <1>t, <1>a, QueuesType
  <2>3. array' \in Seq(Registration)
    BY <2>1, EmptySeq
  <2>4. at' \in 0 .. Len(queues'[batch']) /\ batch' \in 1 .. Open'
    BY <2>1, <2>2, <1>t DEF Open
  <2> QED BY <2>1, <2>3, <2>4, <1>a DEF receiverVars, TypeOK, Open
<1>10. CASE UNCHANGED vars
  BY <1>10, <1>a DEF vars, receiverVars, poolVars, TypeOK, Open
<1> QED BY <1>1, <1>2, <1>3, <1>4, <1>5, <1>6, <1>7, <1>9, <1>10
        DEF Next, Pool, Register

\* Every step keeps where receivers and the thread are consistent with the queues.
LEMMA StepControl == TInv /\ [Next]_vars => ControlInv'
<1> SUFFICES ASSUME TInv, [Next]_vars PROVE ControlInv'
  OBVIOUS
<1>a. TypeOK /\ ControlInv
  BY DEF TInv
<1>t. Open \in Nat /\ batch \in Nat /\ received \in Nat
  BY <1>a, QueuesType DEF TypeOK
<1>1. ASSUME NEW r \in Receiver, Receive(r) PROVE ControlInv'
  BY <1>1, <1>t, <1>a, SMTT(30) DEF Receive, Goto, poolVars, TypeOK, ControlInv, Open
<1>2. ASSUME NEW r \in Receiver, Add(r) PROVE ControlInv'
  <2>1. mine[r] \in Registration
    BY <1>2, <1>t, <1>a, RegistrationAssumption
       DEF Add, ControlInv, Registration, TypeOK
  <2>2. Open' = Open
    BY <1>2, <1>a, <2>1, AddGrows DEF Grows
  <2> QED BY <1>2, <1>a, <2>2 DEF Add, Goto, poolVars, TypeOK, ControlInv
<1>3. ASSUME NEW r \in Receiver, FetchAgain(r) PROVE ControlInv'
  BY <1>3, <1>a DEF FetchAgain, Goto, poolVars, TypeOK, ControlInv, Open
<1>4. ASSUME NEW r \in Receiver, CheckSize(r) PROVE ControlInv'
  BY <1>4, <1>a DEF CheckSize, Goto, poolVars, TypeOK, ControlInv, Open
<1>5. ASSUME NEW r \in Receiver, Swap(r) PROVE ControlInv'
  <2>1. Open' = Open \/ Open' = Open + 1
    BY <1>5, <1>a, SwapOpens DEF Opens, Open
  <2> QED BY <1>5, <1>a, <1>t, <2>1, SMTT(30) DEF Swap, Goto, poolVars, TypeOK, ControlInv
<1>6. CASE StartBatch
  BY <1>6, <1>a DEF StartBatch, receiverVars, TypeOK, ControlInv, Open
<1>7. CASE Take
  BY <1>7, <1>a DEF Take, receiverVars, TypeOK, ControlInv, Open
<1>8. CASE Post \/ PostFails
  BY <1>8, <1>a DEF Post, PostFails, receiverVars, TypeOK, ControlInv, Open
<1>9. CASE UNCHANGED vars
  BY <1>9, <1>a DEF vars, receiverVars, poolVars, ControlInv, Open
<1> QED BY <1>1, <1>2, <1>3, <1>4, <1>5, <1>6, <1>7, <1>8, <1>9
        DEF Next, Pool, Register

\* So every step keeps types and control.
LEMMA StepT == TInv /\ [Next]_vars => TInv'
BY StepType, StepControl DEF TInv

\* Every variable keeps its type, for any constants: the references of the
\* receivers and the pool thread never leave the queues there are.
THEOREM TypeCorrect == Spec => []TypeOK
<1>1. TInv => TypeOK
  BY DEF TInv
<1> QED BY InitT, StepT, <1>1, PTL DEF Spec

-----------------------------------------------------------------------------
(* Sizes.                                                                  *)

\* What the steps of a receiver in registerTransaction do to the queues.
LEMMA RegisterCases ==
    ASSUME TInv, NEW r \in Receiver, Register(r)
    PROVE  \/ Add(r) /\ Grows(r) /\ ref[r] \in 1 .. Open
           \/ /\ FetchAgain(r) \/ CheckSize(r) \/ Swap(r)
              /\ Opens \/ UNCHANGED queues
<1>a. TypeOK /\ ControlInv
  BY DEF TInv
<1>1. ASSUME Add(r) PROVE Grows(r) /\ ref[r] \in 1 .. Open
  <2>1. mine[r] \in Registration
    BY <1>1, <1>a, RegistrationAssumption
       DEF Add, ControlInv, Registration, TypeOK
  <2> QED BY <1>1, <1>a, <2>1, AddGrows DEF TypeOK
<1>2. ASSUME Swap(r) PROVE Opens \/ UNCHANGED queues
  BY <1>2, <1>a, SwapOpens
<1>3. FetchAgain(r) \/ CheckSize(r) => UNCHANGED queues
  BY DEF FetchAgain, CheckSize
<1> QED BY <1>1, <1>2, <1>3 DEF Register

\* The steps of the receivers, and the rest.
LEMMA NextCases ==
    ASSUME TInv, [Next]_vars
    PROVE  \/ \E r \in Receiver : Receive(r)
           \/ \E r \in Receiver : Add(r) /\ Grows(r) /\ ref[r] \in 1 .. Open
           \/ \E r \in Receiver : /\ FetchAgain(r) \/ CheckSize(r) \/ Swap(r)
                                  /\ Opens \/ UNCHANGED queues
           \/ UNCHANGED <<queues, receiverVars>>
<1>1. \/ \E r \in Receiver : Receive(r) \/ Register(r)
      \/ UNCHANGED <<queues, receiverVars>>
  BY DEF Next, vars, Pool, StartBatch, Take, Post, PostFails
<1> QED BY <1>1, RegisterCases

\* A queue is opened when the one before is full.
LEMMA OpensWhenFull ==
    ASSUME TInv, [Next]_vars, Opens
    PROVE  Len(queues[Open]) >= RegisterEvery
<1>1. TypeOK /\ Open \in Nat
  BY QueuesType DEF TInv
<1>2. queues' # queues /\ Open' # Open
  BY <1>1 DEF Opens, Open
<1>3. PICK r \in Receiver : Swap(r)
  BY <1>2, NextCases DEF Grows, Receive, FetchAgain, CheckSize
<1> QED BY <1>1, <1>2, <1>3, SwapOpens

\* Every step leaves the swapped queues with the batch size at least.
LEMMA StepBatches ==
    ASSUME TInv, BatchesAreFull, [Next]_vars
    PROVE  BatchesAreFull'
<1>t. /\ TypeOK /\ Open \in Nat \ {0} /\ RegisterEvery \in Nat
      /\ \A i \in 1 .. Open : Len(queues[i]) \in Nat
  BY QueuesType, RegistrationAssumption DEF TInv
<1>1. CASE UNCHANGED queues
  BY <1>1 DEF BatchesAreFull, Open
<1>2. ASSUME NEW r \in Receiver, Grows(r), ref[r] \in 1 .. Open
      PROVE  BatchesAreFull'
  <2> SUFFICES ASSUME NEW i \in 1 .. Open' - 1
               PROVE  Len(queues'[i]) >= RegisterEvery
    BY DEF BatchesAreFull
  <2>1. i \in 1 .. Open - 1 /\ i \in 1 .. Open
    BY <1>2, <1>t DEF Grows
  <2>2. Len(queues[i]) >= RegisterEvery
    BY <2>1 DEF BatchesAreFull
  <2>3. CASE i = ref[r]
    BY <1>2, <1>t, <2>1, <2>2, <2>3 DEF Grows
  <2>4. CASE i # ref[r]
    BY <1>2, <2>1, <2>2, <2>4 DEF Grows
  <2> QED BY <2>3, <2>4
<1>3. ASSUME Opens
      PROVE  BatchesAreFull'
  BY <1>3, <1>t, OpensWhenFull DEF Opens, BatchesAreFull
<1>4. \A r \in Receiver : Receive(r) => UNCHANGED queues
  BY DEF Receive
<1> QED BY <1>1, <1>2, <1>3, <1>4, NextCases

\* There is no swapped queue at the beginning.
LEMMA InitBatches == Init => BatchesAreFull
<1> SUFFICES ASSUME Init PROVE BatchesAreFull
  OBVIOUS
<1>1. Open = 1
  BY DEF Init, Open
<1> QED BY <1>1 DEF BatchesAreFull

\* Every batch that is handed to the pool is full, however the receivers'
\* checks inside and outside the lock overlap.
THEOREM OnlyFullBatches == Spec => []BatchesAreFull
BY InitT, StepT, InitBatches, StepBatches, PTL DEF Spec

\* Receivers that have fetched queue i and are about to add to it.
Adding(i) == {r \in Receiver : pc[r] = "add" /\ ref[r] = i}

\* Receivers that have added and are not done yet.
Checking == {r \in Receiver : pc[r] \in {"check", "size", "locked"}}

\* Every element of the open queue beyond RegisterEvery - 1 belongs to a
\* receiver that is not done, and those of an old queue to one that was.
SizeInv ==
    /\ Len(queues[Open]) <= RegisterEvery - 1 + Cardinality(Checking)
    /\ \A i \in 1 .. Open - 1 :
          Len(queues[i]) + Cardinality(Adding(i))
              <= RegisterEvery - 1 + Cardinality(Receiver)

\* The receivers at their check, and those about to add, are finitely many.
LEMMA Sizes ==
    /\ IsFiniteSet(Checking) /\ Cardinality(Checking) \in Nat
    /\ Cardinality(Checking) <= Cardinality(Receiver)
    /\ Cardinality(Receiver) \in Nat
    /\ \A i : /\ IsFiniteSet(Adding(i)) /\ Cardinality(Adding(i)) \in Nat
              /\ Cardinality(Checking) + Cardinality(Adding(i))
                     <= Cardinality(Receiver)
<1>1. IsFiniteSet(Receiver) /\ Cardinality(Receiver) \in Nat
  BY RegistrationAssumption, FS_CardinalityType
<1>2. ASSUME NEW S \in SUBSET Receiver
      PROVE  /\ IsFiniteSet(S) /\ Cardinality(S) \in Nat
             /\ Cardinality(S) <= Cardinality(Receiver)
  BY <1>1, FS_Subset, FS_CardinalityType
<1>3. Checking \in SUBSET Receiver
  BY DEF Checking
<1>4. ASSUME NEW i
      PROVE  /\ IsFiniteSet(Adding(i)) /\ Cardinality(Adding(i)) \in Nat
             /\ Cardinality(Checking) + Cardinality(Adding(i))
                    <= Cardinality(Receiver)
  <2>1. Adding(i) \in SUBSET Receiver /\ Checking \cup Adding(i) \in SUBSET Receiver
    BY DEF Adding, Checking
  <2>2. Checking \cap Adding(i) = {}
    BY DEF Adding, Checking
  <2>3. Cardinality(Checking \cup Adding(i))
            = Cardinality(Checking) + Cardinality(Adding(i)) - 0
    BY <1>2, <1>3, <2>1, <2>2, FS_Union, FS_EmptySet
  <2> QED BY <1>1, <1>2, <1>3, <2>1, <2>3
<1> QED BY <1>1, <1>2, <1>3, <1>4

\* What a step does to the two sets of receivers.
LEMMA CheckingSteps ==
    ASSUME TypeOK, NEW r \in Receiver
    PROVE  /\ Receive(r) \/ FetchAgain(r) => Checking' = Checking
           /\ Add(r) => Checking' = Checking \cup {r} /\ r \notin Checking
           /\ CheckSize(r) => \/ Checking' = Checking
                              \/ Len(queues[ref[r]]) < RegisterEvery
           /\ Receive(r) => \A i \in 1 .. Open - 1 : Adding(i)' = Adding(i)
           /\ FetchAgain(r) \/ CheckSize(r) \/ Swap(r) =>
                 \A i \in 1 .. Open : Adding(i)' = Adding(i)
           /\ Add(r) => /\ Adding(ref[r])' = Adding(ref[r]) \ {r}
                        /\ r \in Adding(ref[r])
                        /\ \A i \in 1 .. Open :
                              i # ref[r] => Adding(i)' = Adding(i)
<1> USE DEF TypeOK, Goto, Checking, Adding
<1>1. Receive(r) => Checking' = Checking
  BY DEF Receive
<1>2. FetchAgain(r) => Checking' = Checking
  BY DEF FetchAgain
<1>3. Add(r) => Checking' = Checking \cup {r} /\ r \notin Checking
  BY DEF Add
<1>4. CheckSize(r) => \/ Checking' = Checking
                     \/ Len(queues[ref[r]]) < RegisterEvery
  BY DEF CheckSize
<1>5. Receive(r) => \A i \in 1 .. Open - 1 : Adding(i)' = Adding(i)
  <2>1. Open \in Nat \ {0}
    BY QueuesType
  <2> QED BY <2>1 DEF Receive
<1>6. FetchAgain(r) => \A i \in 1 .. Open : Adding(i)' = Adding(i)
  BY DEF FetchAgain
<1>7. CheckSize(r) \/ Swap(r) => \A i \in 1 .. Open : Adding(i)' = Adding(i)
  BY DEF CheckSize, Swap
<1>8. Add(r) => /\ Adding(ref[r])' = Adding(ref[r]) \ {r}
                /\ r \in Adding(ref[r])
                /\ \A i \in 1 .. Open : i # ref[r] => Adding(i)' = Adding(i)
  BY DEF Add
<1> QED BY <1>1, <1>2, <1>3, <1>4, <1>5, <1>6, <1>7, <1>8

\* Every step keeps the bound on the queues in terms of those receivers.
LEMMA StepSizes ==
    ASSUME TInv, BatchesAreFull, SizeInv, [Next]_vars
    PROVE  SizeInv'
<1>t. /\ TypeOK /\ TypeOK' /\ Open \in Nat \ {0} /\ RegisterEvery \in Nat \ {0}
      /\ \A i \in 1 .. Open : Len(queues[i]) \in Nat
  BY QueuesType, StepType, RegistrationAssumption DEF TInv
<1>s. /\ IsFiniteSet(Checking) /\ Cardinality(Checking) \in Nat
      /\ Cardinality(Checking)' \in Nat
      /\ Cardinality(Receiver) \in Nat
      /\ \A i : /\ IsFiniteSet(Adding(i)) /\ Cardinality(Adding(i)) \in Nat
                /\ Cardinality(Checking) + Cardinality(Adding(i))
                       <= Cardinality(Receiver)
  <2>1. Checking' \in SUBSET Receiver
    BY DEF Checking
  <2>2. Cardinality(Checking') \in Nat
    BY <2>1, RegistrationAssumption, FS_Subset, FS_CardinalityType
  <2> QED BY <2>2, Sizes
<1>o. \A i \in 1 .. Open - 1 : i \in 1 .. Open
  BY <1>t
\* The queues stay, and so does the set of receivers that add to an old one.
<1>1. ASSUME UNCHANGED queues,
             \A i \in 1 .. Open - 1 : Adding(i)' = Adding(i),
             Checking' = Checking \/ Len(queues[Open]) < RegisterEvery
      PROVE  SizeInv'
  <2>1. Open' = Open
    BY <1>1 DEF Open
  <2>2. Len(queues[Open]) <= RegisterEvery - 1 + Cardinality(Checking')
    <3>1. CASE Checking' = Checking
      BY <3>1 DEF SizeInv
    <3>2. CASE Len(queues[Open]) < RegisterEvery
      BY <3>2, <1>t, <1>s
    <3> QED BY <1>1, <3>1, <3>2
  <2>3. ASSUME NEW i \in 1 .. Open - 1
        PROVE  Len(queues[i]) + Cardinality(Adding(i)')
                   <= RegisterEvery - 1 + Cardinality(Receiver)
    BY <1>1, <2>3 DEF SizeInv
  <2> QED BY <1>1, <2>1, <2>2, <2>3 DEF SizeInv
<1>2. ASSUME NEW r \in Receiver, Receive(r) PROVE SizeInv'
  <2>1. UNCHANGED queues
    BY <1>2 DEF Receive
  <2> QED BY <1>1, <1>2, <2>1, <1>t, CheckingSteps
<1>3. ASSUME NEW r \in Receiver, FetchAgain(r) PROVE SizeInv'
  <2>1. UNCHANGED queues
    BY <1>3 DEF FetchAgain
  <2> QED BY <1>1, <1>3, <2>1, <1>t, <1>o, CheckingSteps
<1>4. ASSUME NEW r \in Receiver, CheckSize(r) PROVE SizeInv'
  <2>1. UNCHANGED queues
    BY <1>4 DEF CheckSize
  <2>2. ASSUME Len(queues[ref[r]]) < RegisterEvery
        PROVE  Len(queues[Open]) < RegisterEvery
    <3>1. ref[r] \in 1 .. Open
      BY <1>t DEF TypeOK
    <3>2. CASE ref[r] # Open
      <4>1. ref[r] \in 1 .. Open - 1 /\ Len(queues[ref[r]]) \in Nat
        BY <3>1, <3>2, <1>t
      <4>2. Len(queues[ref[r]]) >= RegisterEvery
        BY <4>1 DEF BatchesAreFull
      <4> QED BY <4>1, <4>2, <2>2, <1>t
    <3> QED BY <3>2, <2>2
  <2> QED BY <1>1, <1>4, <2>1, <2>2, <1>t, <1>o, CheckingSteps
<1>5. ASSUME NEW r \in Receiver, Add(r), Grows(r), ref[r] \in 1 .. Open
      PROVE  SizeInv'
  <2>1. Cardinality(Checking') = Cardinality(Checking) + 1
    BY <1>5, <1>t, <1>s, CheckingSteps, FS_AddElement
  <2>2. Cardinality(Adding(ref[r])') = Cardinality(Adding(ref[r])) - 1
    <3>1. Adding(ref[r])' = Adding(ref[r]) \ {r} /\ r \in Adding(ref[r])
      BY <1>5, <1>t, CheckingSteps
    <3>2. IsFiniteSet(Adding(ref[r]))
      BY <1>s
    <3>3. Cardinality(Adding(ref[r]) \ {r}) = Cardinality(Adding(ref[r])) - 1
      BY <3>1, <3>2, FS_RemoveElement
    <3> QED BY <3>1, <3>3
  <2>3. Open' = Open
    BY <1>5 DEF Grows
  <2>4. Len(queues'[Open]) <= Len(queues[Open]) + 1
    <3>1. CASE ref[r] = Open
      BY <3>1, <1>5, <1>t DEF Grows
    <3>2. CASE ref[r] # Open
      <4>1. queues'[Open] = queues[Open]
        BY <3>2, <1>5, <1>t DEF Grows
      <4> QED BY <4>1, <1>t
    <3> QED BY <3>1, <3>2
  <2>5. Len(queues'[Open]) <= RegisterEvery - 1 + Cardinality(Checking')
    <3>1. Len(queues[Open]) <= RegisterEvery - 1 + Cardinality(Checking)
      BY DEF SizeInv
    <3>2. Len(queues'[Open]) \in Nat
      BY <1>5, <1>t DEF Grows
    <3> QED BY <2>1, <2>4, <3>1, <3>2, <1>t, <1>s
  <2>6. ASSUME NEW i \in 1 .. Open - 1
        PROVE  Len(queues'[i]) + Cardinality(Adding(i)')
                   <= RegisterEvery - 1 + Cardinality(Receiver)
    <3>1. Len(queues[i]) + Cardinality(Adding(i))
              <= RegisterEvery - 1 + Cardinality(Receiver)
      BY DEF SizeInv
    <3>2. CASE i = ref[r]
      <4>1. Len(queues'[i]) = Len(queues[i]) + 1
        BY <1>5, <3>2 DEF Grows
      <4>2. Adding(i)' = Adding(ref[r])'
        BY <3>2, <1>5 DEF Add, Adding
      <4>3. Cardinality(Adding(i)') = Cardinality(Adding(i)) - 1
        BY <4>2, <2>2, <3>2
      <4> QED BY <3>1, <4>1, <4>3, <1>t, <1>s, <1>o, SMTT(30)
    <3>3. CASE i # ref[r]
      BY <3>1, <3>3, <1>5, <1>t, <1>o, CheckingSteps DEF Grows
    <3> QED BY <3>2, <3>3
  <2> QED BY <2>3, <2>5, <2>6 DEF SizeInv
<1>6. ASSUME NEW r \in Receiver, Swap(r) PROVE SizeInv'
  <2>0. \A i \in 1 .. Open : Adding(i)' = Adding(i)
    BY <1>6, <1>t, CheckingSteps
  <2>1. CASE queues' = queues
    <3>1. Len(queues[Open]) < RegisterEvery
      <4>1. Len(Append(queues, <<>>)) = Len(queues) + 1 /\ Len(queues) \in Nat
        BY <1>t DEF TypeOK
      <4>2. queues # Append(queues, <<>>)
        BY <4>1
      <4> QED BY <4>2, <2>1, <1>6 DEF Swap
    <3> QED BY <3>1, <2>0, <2>1, <1>1, <1>o
  <2>2. CASE queues' # queues
    <3>1. Opens
      BY <2>2, <1>6, <1>t, SwapOpens
    <3>2. Open' = Open + 1 /\ Len(queues'[Open']) = 0
      BY <3>1, EmptySeq DEF Opens
    <3>3. ASSUME NEW i \in 1 .. Open' - 1
          PROVE  Len(queues'[i]) + Cardinality(Adding(i)')
                     <= RegisterEvery - 1 + Cardinality(Receiver)
      <4>1. i \in 1 .. Open /\ queues'[i] = queues[i] /\ Adding(i)' = Adding(i)
        BY <3>1, <3>2, <2>0, <1>t DEF Opens
      <4>2. CASE i = Open
        <5>1. Len(queues[i]) <= RegisterEvery - 1 + Cardinality(Checking)
          BY <4>2 DEF SizeInv
        <5> QED BY <4>1, <5>1, <1>t, <1>s
      <4>3. CASE i # Open
        <5>1. i \in 1 .. Open - 1
          BY <4>1, <4>3, <1>t
        <5> QED BY <4>1, <5>1 DEF SizeInv
      <4> QED BY <4>2, <4>3
    <3> QED BY <3>2, <3>3, <1>t, <1>s DEF SizeInv
  <2> QED BY <2>1, <2>2
<1>7. CASE UNCHANGED <<queues, receiverVars>>
  BY <1>1, <1>7 DEF receiverVars, Adding, Checking
<1> QED BY <1>2, <1>3, <1>4, <1>5, <1>6, <1>7, <1>t, NextCases

\* It holds at the beginning.
LEMMA InitSizes == Init => SizeInv
<1> SUFFICES ASSUME Init PROVE SizeInv
  OBVIOUS
<1>1. Open = 1 /\ Len(queues[Open]) = 0
  BY EmptySeq DEF Init, Open
<1>2. Cardinality(Checking) \in Nat /\ RegisterEvery \in Nat \ {0}
  BY Sizes, RegistrationAssumption
<1> QED BY <1>1, <1>2 DEF SizeInv

\* And no queue outgrows the receivers where it holds.
LEMMA SizesBound ==
    ASSUME TInv, SizeInv
    PROVE  QueuesAreBounded
<1>1. /\ Open \in Nat \ {0} /\ RegisterEvery \in Nat
      /\ \A i \in 1 .. Open : Len(queues[i]) \in Nat
  BY QueuesType, RegistrationAssumption DEF TInv
<1> SUFFICES ASSUME NEW i \in 1 .. Open
             PROVE  Len(queues[i]) <= RegisterEvery - 1 + Cardinality(Receiver)
  BY DEF QueuesAreBounded
<1>2. CASE i = Open
  <2>1. Len(queues[i]) <= RegisterEvery - 1 + Cardinality(Checking)
    BY <1>2 DEF SizeInv
  <2>2. /\ Cardinality(Checking) \in Nat /\ Cardinality(Receiver) \in Nat
        /\ Cardinality(Checking) <= Cardinality(Receiver)
    BY Sizes
  <2> QED BY <1>1, <2>1, <2>2
<1>3. CASE i # Open
  <2>1. i \in 1 .. Open - 1
    BY <1>1, <1>3
  <2>2. Len(queues[i]) + Cardinality(Adding(i))
            <= RegisterEvery - 1 + Cardinality(Receiver)
    BY <2>1 DEF SizeInv
  <2>3. Cardinality(Adding(i)) \in Nat /\ Cardinality(Receiver) \in Nat
    BY Sizes
  <2> QED BY <1>1, <2>2, <2>3
<1> QED BY <1>2, <1>3

\* No queue grows by more than one registration of each receiver beyond the
\* one that makes it long enough, with any number of receivers.
THEOREM BoundedQueues == Spec => []QueuesAreBounded
BY InitT, StepT, InitBatches, StepBatches, InitSizes, StepSizes, SizesBound,
   PTL DEF Spec

-----------------------------------------------------------------------------
(* Registrations are counted once.                                         *)

\* A registration is in one place of one queue, or one receiver has it.
PlacesInv ==
    /\ \A i, j \in 1 .. Open :
          \A k \in 1 .. Len(queues[i]), l \in 1 .. Len(queues[j]) :
              queues[i][k] = queues[j][l] => i = j /\ k = l
    /\ \A i \in 1 .. Open : \A k \in 1 .. Len(queues[i]) : queues[i][k] <= received
    /\ \A r \in Receiver : pc[r] = "add" =>
          \A i \in 1 .. Open : \A k \in 1 .. Len(queues[i]) :
              queues[i][k] # mine[r]
    /\ \A r, s \in Receiver :
          pc[r] = "add" /\ pc[s] = "add" /\ mine[r] = mine[s] => r = s

\* The request holds what the iterator has passed, in order.
ArrayInv ==
    /\ Len(array) <= Len(queues[batch])
    /\ at # 0 => at = Len(array) + 1
    /\ \A x \in 1 .. Len(array) : array[x] = queues[batch][x]

\* What the tracker has was in a queue before the one to be sent.
CountInv ==
    \A g \in Registration :
        /\ registered[g] <= 1
        /\ registered[g] # 0 =>
               \E i \in 1 .. batch - 1 : \E k \in 1 .. Len(queues[i]) :
                   queues[i][k] = g

RInv == TInv /\ PlacesInv /\ ArrayInv /\ CountInv

\* The invariant of the registrations holds at the beginning.
LEMMA InitR == Init => RInv
<1> SUFFICES ASSUME Init PROVE RInv
  OBVIOUS
<1>1. Open = 1 /\ Len(queues[1]) = 0 /\ batch = 1 /\ Len(array) = 0
  BY EmptySeq DEF Init, Open
<1>2. PlacesInv
  BY <1>1 DEF Init, PlacesInv
<1>3. ArrayInv
  BY <1>1 DEF Init, ArrayInv
<1>4. CountInv
  BY DEF Init, CountInv
<1> QED BY <1>2, <1>3, <1>4, InitT DEF RInv

\* A new registration has a number of its own; it moves from its receiver to
\* one queue.
LEMMA StepPlaces ==
    ASSUME RInv, [Next]_vars
    PROVE  PlacesInv'
<1>t. /\ TInv /\ TypeOK /\ ControlInv /\ PlacesInv
      /\ Open \in Nat \ {0} /\ received \in Nat
      /\ \A i \in 1 .. Open : Len(queues[i]) \in Nat
      /\ \A i \in 1 .. Open : \A k \in 1 .. Len(queues[i]) : queues[i][k] \in Nat
  <2>1. TInv /\ TypeOK /\ ControlInv /\ PlacesInv
    BY DEF RInv, TInv
  <2>2. /\ Open \in Nat \ {0} /\ \A i \in 1 .. Open : Len(queues[i]) \in Nat
        /\ \A i \in 1 .. Open : \A k \in 1 .. Len(queues[i]) :
               queues[i][k] \in Registration
    BY <2>1, QueuesType
  <2>3. received \in Nat
    BY <2>1 DEF TypeOK
  <2>4. Registration \subseteq Nat
    BY DEF Registration
  <2> QED BY <2>1, <2>2, <2>3, <2>4
<1>1. ASSUME NEW r \in Receiver, Receive(r) PROVE PlacesInv'
  <2>1. /\ Open' = Open /\ UNCHANGED queues /\ received' = received + 1
        /\ mine' = [mine EXCEPT ![r] = received + 1]
        /\ pc' = [pc EXCEPT ![r] = "add"]
    BY <1>1 DEF Receive, Goto, Open
  <2>2. \A s \in Receiver : s # r => pc'[s] = pc[s] /\ mine'[s] = mine[s]
    BY <2>1, <1>t DEF TypeOK
  <2>3. mine'[r] = received + 1
    BY <2>1, <1>t DEF TypeOK
  <2>4. \A i \in 1 .. Open : \A k \in 1 .. Len(queues[i]) :
            queues[i][k] <= received + 1 /\ queues[i][k] # received + 1
    BY <1>t DEF PlacesInv
  <2>5. \A s \in Receiver : pc[s] = "add" => mine[s] # received + 1
    BY <1>t DEF ControlInv
  <2> QED BY <1>t, <2>1, <2>2, <2>3, <2>4, <2>5 DEF PlacesInv
<1>2. ASSUME NEW r \in Receiver, Add(r), Grows(r), ref[r] \in 1 .. Open
      PROVE  PlacesInv'
  <2> DEFINE q == ref[r]
             n == Len(queues[q]) + 1
  <2>1. /\ Open' = Open /\ UNCHANGED <<received, mine>>
        /\ pc[r] = "add" /\ pc' = [pc EXCEPT ![r] = "check"]
    BY <1>2 DEF Add, Goto, Grows
  <2>2. \A s \in Receiver : pc'[s] = "add" => s # r /\ pc[s] = "add"
    BY <2>1, <1>t DEF TypeOK
  <2>3. q \in 1 .. Open /\ n \in Nat \ {0}
    BY <1>2, <1>t
  \* A place after the step is a place before it, or the new one.
  <2>4. ASSUME NEW i \in 1 .. Open, NEW k \in 1 .. Len(queues'[i])
        PROVE  \/ k \in 1 .. Len(queues[i]) /\ queues'[i][k] = queues[i][k]
               \/ i = q /\ k = n /\ queues'[i][k] = mine[r]
    <3>1. CASE i = q
      BY <3>1, <1>2, <1>t, <2>3, SMTT(30) DEF Grows
    <3>2. CASE i # q
      BY <3>2, <1>2 DEF Grows
    <3> QED BY <3>1, <3>2
  <2> HIDE DEF q, n
  <2>5. mine[r] <= received
    BY <2>1, <1>t DEF ControlInv
  <2>6. \A i \in 1 .. Open : \A k \in 1 .. Len(queues[i]) : queues[i][k] # mine[r]
    BY <2>1, <1>t DEF PlacesInv
  <2>7. ASSUME NEW i \in 1 .. Open, NEW j \in 1 .. Open,
               NEW k \in 1 .. Len(queues'[i]), NEW l \in 1 .. Len(queues'[j]),
               queues'[i][k] = queues'[j][l]
        PROVE  i = j /\ k = l
    BY <2>4, <2>6, <2>7, <1>t DEF PlacesInv
  <2>8. ASSUME NEW i \in 1 .. Open, NEW k \in 1 .. Len(queues'[i])
        PROVE  /\ queues'[i][k] <= received
               /\ \A s \in Receiver : pc'[s] = "add" => queues'[i][k] # mine[s]
    BY <2>1, <2>2, <2>4, <2>5, <1>t DEF PlacesInv
  <2>9. \A s, u \in Receiver :
            pc'[s] = "add" /\ pc'[u] = "add" /\ mine[s] = mine[u] => s = u
    BY <2>2, <1>t DEF PlacesInv
  <2> QED BY <2>1, <2>7, <2>8, <2>9 DEF PlacesInv
<1>3. ASSUME NEW r \in Receiver, FetchAgain(r) \/ CheckSize(r) \/ Swap(r),
             Opens \/ UNCHANGED queues
      PROVE  PlacesInv'
  <2>1. /\ UNCHANGED <<received, mine>>
        /\ \A s \in Receiver : pc'[s] = "add" => pc[s] = "add"
    BY <1>3, <1>t DEF FetchAgain, CheckSize, Swap, Goto, TypeOK
  <2>2. ASSUME NEW i \in 1 .. Open', NEW k \in 1 .. Len(queues'[i])
        PROVE  i \in 1 .. Open /\ queues'[i] = queues[i]
    <3>1. CASE Opens
      <4>1. Len(queues'[Open + 1]) = 0
        BY <3>1, EmptySeq DEF Opens
      <4>2. i # Open + 1
        BY <4>1
      <4> QED BY <3>1, <4>2, <1>t DEF Opens
    <3>2. CASE UNCHANGED queues
      BY <3>2 DEF Open
    <3> QED BY <1>3, <3>1, <3>2
  <2>3. ASSUME NEW i \in 1 .. Open', NEW j \in 1 .. Open',
               NEW k \in 1 .. Len(queues'[i]), NEW l \in 1 .. Len(queues'[j]),
               queues'[i][k] = queues'[j][l]
        PROVE  i = j /\ k = l
    <3>1. i \in 1 .. Open /\ queues'[i] = queues[i]
      BY <2>2
    <3>2. j \in 1 .. Open /\ queues'[j] = queues[j]
      BY <2>2
    <3>3. /\ k \in 1 .. Len(queues[i]) /\ l \in 1 .. Len(queues[j])
          /\ queues[i][k] = queues[j][l]
      BY <2>3, <3>1, <3>2
    <3> QED BY <3>1, <3>2, <3>3, <1>t DEF PlacesInv
  <2>4. ASSUME NEW i \in 1 .. Open', NEW k \in 1 .. Len(queues'[i])
        PROVE  /\ queues'[i][k] <= received
               /\ \A s \in Receiver : pc'[s] = "add" => queues'[i][k] # mine[s]
    BY <2>1, <2>2, <1>t DEF PlacesInv
  <2>5. \A s, u \in Receiver :
            pc'[s] = "add" /\ pc'[u] = "add" /\ mine[s] = mine[u] => s = u
    BY <2>1, <1>t DEF PlacesInv
  <2> QED BY <2>1, <2>3, <2>4, <2>5 DEF PlacesInv
<1>4. CASE UNCHANGED <<queues, receiverVars>>
  <2>1. Open' = Open /\ UNCHANGED <<queues, pc, mine, received>>
    BY <1>4 DEF receiverVars, Open
  <2> QED BY <2>1, <1>t DEF PlacesInv
<1>5. \/ \E r \in Receiver : Receive(r)
      \/ \E r \in Receiver : Add(r) /\ Grows(r) /\ ref[r] \in 1 .. Open
      \/ \E r \in Receiver : /\ FetchAgain(r) \/ CheckSize(r) \/ Swap(r)
                             /\ Opens \/ UNCHANGED queues
      \/ UNCHANGED <<queues, receiverVars>>
  BY <1>t, NextCases
<1> QED BY <1>1, <1>2, <1>3, <1>4, <1>5

\* The pool thread works on a queue that only grows.
LEMMA StepArray ==
    ASSUME RInv, [Next]_vars
    PROVE  ArrayInv'
<1>t. /\ TInv /\ TypeOK /\ ControlInv /\ ArrayInv
      /\ Open \in Nat \ {0} /\ batch \in 1 .. Open /\ Len(array) \in Nat
      /\ at \in Nat /\ at <= Len(queues[batch])
      /\ \A i \in 1 .. Open : Len(queues[i]) \in Nat
  <2>1. TInv /\ TypeOK /\ ControlInv /\ ArrayInv
    BY DEF RInv, TInv
  <2>2. Open \in Nat \ {0} /\ \A i \in 1 .. Open : Len(queues[i]) \in Nat
    BY <2>1, QueuesType
  <2> QED BY <2>1, <2>2 DEF TypeOK
<1>1. ASSUME UNCHANGED <<batch, at, array>>,
             Len(queues[batch]) <= Len(queues'[batch]),
             Len(queues'[batch]) \in Nat,
             \A k \in 1 .. Len(queues[batch]) : queues'[batch][k] = queues[batch][k]
      PROVE  ArrayInv'
  BY <1>1, <1>t DEF ArrayInv
<1>2. ASSUME NEW r \in Receiver, Add(r), Grows(r), ref[r] \in 1 .. Open
      PROVE  ArrayInv'
  <2>1. UNCHANGED <<batch, at, array>>
    BY <1>2 DEF Add, poolVars
  <2>2. CASE batch = ref[r]
    BY <2>1, <2>2, <1>1, <1>2, <1>t DEF Grows
  <2>3. CASE batch # ref[r]
    <3>1. queues'[batch] = queues[batch]
      BY <2>3, <1>2, <1>t DEF Grows
    <3> QED BY <2>1, <3>1, <1>1, <1>t
  <2> QED BY <2>2, <2>3
<1>3. ASSUME NEW r \in Receiver,
             Receive(r) \/ FetchAgain(r) \/ CheckSize(r) \/ Swap(r),
             Opens \/ UNCHANGED queues
      PROVE  ArrayInv'
  <2>1. UNCHANGED <<batch, at, array>>
    BY <1>3 DEF Receive, FetchAgain, CheckSize, Swap, poolVars
  <2>2. queues'[batch] = queues[batch]
    BY <1>3, <1>t DEF Opens
  <2> QED BY <2>1, <2>2, <1>1, <1>t
<1>4. CASE StartBatch
  <2>1. /\ UNCHANGED <<queues, batch, array>> /\ array = <<>>
        /\ at' \in {0, 1}
    BY <1>4, <1>t DEF StartBatch, receiverVars, ControlInv
  <2>2. Len(array) = 0
    BY <2>1, EmptySeq
  <2> QED BY <2>1, <2>2, <1>t DEF ArrayInv
<1>5. CASE Take
  <2>1. /\ UNCHANGED <<queues, batch>> /\ at # 0
        /\ array' = Append(array, queues[batch][at])
        /\ at' = at + 1 \/ at' = 0
    BY <1>5 DEF Take, receiverVars
  <2>2. at = Len(array) + 1
    BY <2>1, <1>t DEF ArrayInv
  <2>3. /\ Len(array') = at
        /\ array'[at] = queues[batch][at]
        /\ \A x \in 1 .. Len(array) : array'[x] = array[x]
    BY <2>1, <2>2, <1>t DEF TypeOK
  <2> QED BY <2>1, <2>2, <2>3, <1>t DEF ArrayInv
<1>6. CASE Post \/ PostFails
  <2>1. /\ UNCHANGED queues /\ batch' = batch + 1 /\ at' = 0
        /\ array' = <<>> /\ batch < Open
    BY <1>6, <1>t DEF Post, PostFails, receiverVars, ControlInv
  <2>2. Len(array') = 0
    BY <2>1, EmptySeq
  <2> QED BY <2>1, <2>2, <1>t DEF ArrayInv
<1>7. CASE UNCHANGED vars
  BY <1>7, <1>1, <1>t DEF vars, poolVars
<1>8. \/ \E r \in Receiver : Add(r) /\ Grows(r) /\ ref[r] \in 1 .. Open
      \/ \E r \in Receiver :
            /\ Receive(r) \/ FetchAgain(r) \/ CheckSize(r) \/ Swap(r)
            /\ Opens \/ UNCHANGED queues
      \/ Pool \/ UNCHANGED vars
  <2>1. \A r \in Receiver : Receive(r) => UNCHANGED queues
    BY DEF Receive
  <2>2. \/ \E r \in Receiver : Receive(r) \/ Register(r)
        \/ Pool \/ UNCHANGED vars
    BY DEF Next
  <2>3. ASSUME NEW r \in Receiver, Register(r)
        PROVE  \/ Add(r) /\ Grows(r) /\ ref[r] \in 1 .. Open
               \/ /\ FetchAgain(r) \/ CheckSize(r) \/ Swap(r)
                  /\ Opens \/ UNCHANGED queues
    BY <2>3, <1>t, RegisterCases
  <2> QED BY <2>1, <2>2, <2>3
<1> QED BY <1>2, <1>3, <1>4, <1>5, <1>6, <1>7, <1>8 DEF Pool

\* A request adds one to each registration in it at most.
LEMMA PostedOnce ==
    ASSUME RInv, sending, NEW g \in Registration
    PROVE  /\ Posted(g) \in {0, 1}
           /\ Posted(g) # 0 =>
                 \E k \in 1 .. Len(queues[batch]) : queues[batch][k] = g
<1> DEFINE S == {x \in DOMAIN array : array[x] = g}
<1>1. TypeOK /\ PlacesInv /\ ArrayInv /\ batch \in 1 .. Open
  BY DEF RInv, TInv, TypeOK
<1>2. IsFiniteSet(S) /\ Posted(g) = Cardinality(S)
  BY <1>1, PostedType DEF Posted
<1>3. DOMAIN array = 1 .. Len(array) /\ Len(array) \in Nat
  BY <1>1 DEF TypeOK
<1>4. Len(queues[batch]) \in Nat
  BY <1>1, QueuesType
<1>5. \A x \in S : x \in 1 .. Len(queues[batch]) /\ queues[batch][x] = g
  BY <1>1, <1>3, <1>4 DEF ArrayInv
<1>6. \A x, y \in S : x = y
  BY <1>1, <1>5 DEF PlacesInv
<1> HIDE DEF S
<1>7. CASE S = {}
  BY <1>2, <1>7, FS_EmptySet
<1>8. CASE S # {}
  <2>1. PICK x : x \in S
    BY <1>8
  <2>2. S = {x}
    BY <1>6, <2>1
  <2>3. Cardinality(S) = 1
    BY <2>2, FS_Singleton
  <2> QED BY <1>2, <1>5, <2>1, <2>3
<1> QED BY <1>7, <1>8

\* What is posted comes from a queue that was not posted before.
LEMMA StepCount ==
    ASSUME RInv, [Next]_vars
    PROVE  CountInv'
<1>t. /\ TInv /\ TypeOK /\ ControlInv /\ PlacesInv /\ CountInv
      /\ Open \in Nat \ {0} /\ batch \in 1 .. Open
      /\ \A i \in 1 .. Open : Len(queues[i]) \in Nat
      /\ \A g \in Registration : registered[g] \in Nat
  <2>1. TInv /\ TypeOK /\ ControlInv /\ PlacesInv /\ CountInv
    BY DEF RInv, TInv
  <2>2. Open \in Nat \ {0} /\ \A i \in 1 .. Open : Len(queues[i]) \in Nat
    BY <2>1, QueuesType
  <2> QED BY <2>1, <2>2 DEF TypeOK
\* What was in a queue stays there.
<1>1. ASSUME NEW i \in 1 .. Open, NEW k \in 1 .. Len(queues[i])
      PROVE  k \in 1 .. Len(queues'[i]) /\ queues'[i][k] = queues[i][k]
  <2>1. CASE UNCHANGED queues
    BY <2>1
  <2>2. CASE Opens
    BY <2>2 DEF Opens
  <2>3. ASSUME NEW r \in Receiver, Grows(r), ref[r] \in 1 .. Open
        PROVE  k \in 1 .. Len(queues'[i]) /\ queues'[i][k] = queues[i][k]
    <3>1. CASE i = ref[r]
      BY <2>3, <3>1, <1>t DEF Grows
    <3>2. CASE i # ref[r]
      BY <2>3, <3>2 DEF Grows
    <3> QED BY <3>1, <3>2
  <2>4. \A r \in Receiver : Receive(r) => UNCHANGED queues
    BY DEF Receive
  <2> QED BY <2>1, <2>2, <2>3, <2>4, <1>t, NextCases
<1>2. CASE UNCHANGED <<batch, registered>>
  <2> SUFFICES ASSUME NEW g \in Registration
               PROVE  /\ registered[g] <= 1
                      /\ registered[g] # 0 =>
                            \E i \in 1 .. batch - 1 :
                                \E k \in 1 .. Len(queues'[i]) : queues'[i][k] = g
    BY <1>2 DEF CountInv
  <2>1. registered[g] <= 1
    BY <1>t DEF CountInv
  <2>2. ASSUME registered[g] # 0
        PROVE  \E i \in 1 .. batch - 1 :
                   \E k \in 1 .. Len(queues'[i]) : queues'[i][k] = g
    <3>1. PICK i \in 1 .. batch - 1 : \E k \in 1 .. Len(queues[i]) : queues[i][k] = g
      BY <1>t, <2>2 DEF CountInv
    <3>2. i \in 1 .. Open
      BY <1>t
    <3> QED BY <3>1, <3>2, <1>1
  <2> QED BY <2>1, <2>2
<1>3. CASE Post \/ PostFails
  <2>1. /\ UNCHANGED queues /\ batch' = batch + 1 /\ batch < Open /\ sending
        /\ \/ registered' = registered
           \/ registered' = [g \in Registration |-> registered[g] + Posted(g)]
    BY <1>3, <1>t DEF Post, PostFails, receiverVars, ControlInv, AddTransactions
  <2> SUFFICES ASSUME NEW g \in Registration
               PROVE  /\ registered'[g] <= 1
                      /\ registered'[g] # 0 =>
                            \E i \in 1 .. batch :
                                \E k \in 1 .. Len(queues[i]) : queues[i][k] = g
    BY <2>1, <1>t, SMTT(30) DEF CountInv
  <2>2. /\ Posted(g) \in {0, 1}
        /\ Posted(g) # 0 => \E k \in 1 .. Len(queues[batch]) : queues[batch][k] = g
    BY <2>1, PostedOnce
  <2>3. /\ registered[g] \in {0, 1}
        /\ registered[g] # 0 => \E i \in 1 .. batch - 1 :
                                   \E k \in 1 .. Len(queues[i]) : queues[i][k] = g
    BY <1>t DEF CountInv
  <2>4. ~(Posted(g) # 0 /\ registered[g] # 0)
    <3>1. SUFFICES ASSUME Posted(g) # 0, registered[g] # 0 PROVE FALSE
      OBVIOUS
    <3>2. PICK i \in 1 .. batch - 1 : \E k \in 1 .. Len(queues[i]) : queues[i][k] = g
      BY <2>3, <3>1
    <3>3. i \in 1 .. Open /\ i # batch
      BY <1>t
    <3> QED BY <2>2, <3>1, <3>2, <3>3, <1>t DEF PlacesInv
  <2>5. registered'[g] = registered[g] \/ registered'[g] = registered[g] + Posted(g)
    BY <2>1
  <2>6. registered'[g] <= 1
    BY <2>2, <2>3, <2>4, <2>5
  <2>7. registered'[g] # 0 => Posted(g) # 0 \/ registered[g] # 0
    BY <2>2, <2>3, <2>5
  <2>8. \A i \in 1 .. batch - 1 : i \in 1 .. batch
    BY <1>t
  <2>9. batch \in 1 .. batch
    BY <1>t
  <2> QED BY <2>2, <2>3, <2>6, <2>7, <2>8, <2>9
<1>4. (\E r \in Receiver : Receive(r) \/ Register(r)) \/ StartBatch \/ Take
          \/ UNCHANGED vars => UNCHANGED <<batch, registered>>
  BY DEF Receive, Register, Add, FetchAgain, CheckSize, Swap, StartBatch, Take,
         vars, poolVars
<1> QED BY <1>2, <1>3, <1>4 DEF Next, Pool

\* Every step keeps it.
LEMMA StepR == RInv /\ [Next]_vars => RInv'
BY StepT, StepPlaces, StepArray, StepCount DEF RInv

\* And the tracker counts no registration twice where it holds.
LEMMA CountsOnce == RInv => RegisteredOnce
<1> SUFFICES ASSUME RInv, NEW g \in Registration
             PROVE  registered[g] <= IF g <= received THEN 1 ELSE 0
  BY DEF RegisteredOnce
<1>1. TypeOK /\ PlacesInv /\ CountInv /\ batch \in 1 .. Open /\ Open \in Nat
  BY QueuesType DEF RInv, TInv, TypeOK
<1>2. registered[g] \in Nat /\ registered[g] <= 1
  BY <1>1 DEF TypeOK, CountInv
<1>3. ASSUME registered[g] # 0 PROVE g <= received
  <2>1. PICK i \in 1 .. batch - 1 : \E k \in 1 .. Len(queues[i]) : queues[i][k] = g
    BY <1>1, <1>3 DEF CountInv
  <2>2. i \in 1 .. Open
    BY <1>1
  <2> QED BY <2>1, <2>2, <1>1 DEF PlacesInv
<1> QED BY <1>2, <1>3

\* The tracker counts no payment twice, and none that was not received, however
\* receivers and the pool thread overlap and whatever requests fail.
THEOREM CountedOnce == Spec => []RegisteredOnce
BY InitR, StepR, CountsOnce, PTL DEF Spec

=============================================================================
