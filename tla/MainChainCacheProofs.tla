----------------------- MODULE MainChainCacheProofs -----------------------
(***************************************************************************)
(* Theorems about MainChainCache for every height the main chain may reach *)
(* and every content of its blocks, with requests that may fail at any     *)
(* moment.                                                                 *)
(***************************************************************************)
EXTENDS MainChainCache, SequenceTheorems, TLAPS

\* What a thread knows at each control point of an update.
UpdateInv ==
    \A t \in Threads :
        /\ pc[t] \in {"lock", "add"} => next[t] <= target[t]
        /\ pc[t] = "lock" => place[t] = 1
        /\ pc[t] = "add" =>
               \A p \in Listed(next[t]) : p < place[t] => <<next[t], p>> \in cache
        /\ pc[t] = "max" => next[t] > target[t] /\ ReadUpTo(seen[t])

\* Only what the main chain holds is in the cache.
SoundInv ==
    \A e \in cache : e = Genesis \/ \E h \in DOMAIN mainChain :
                                        \E p \in DOMAIN mainChain[h] : e = <<h, p>>

IInv ==
    /\ TypeOK
    /\ HeightIsRead
    /\ UpdatesLeaveNoGap
    /\ UpdateInv
    /\ SoundInv

-----------------------------------------------------------------------------
(* The main chain and the cache only grow.                                 *)

\* Only a new block changes the main chain.
LEMMA ChainFrame ==
    [Next]_vars => \/ \E content \in BlockContents : NewBlock(content)
                   \/ UNCHANGED mainChain
BY DEF Next, vars, tendermintVars, InitThread, PoolThread, Tendermint, Update,
       RpcStarts, EndBlock, StartSocket, InitClient, Status, Stop, TakeTask,
       Begin, QueryAnswered, QueryFails, Lock, AddToCache, Unlock, ReadHeight,
       WriteHeight

\* Only an update that holds the lock changes the cache.
LEMMA CacheFrame ==
    [Next]_vars => \/ \E t \in Threads : AddToCache(t)
                   \/ UNCHANGED cache
BY DEF Next, vars, Threads, InitThread, PoolThread, Tendermint, Update,
       NewBlock, RpcStarts, EndBlock, StartSocket, InitClient, Status, Stop,
       TakeTask, Begin, QueryAnswered, QueryFails, Lock, Unlock, ReadHeight,
       WriteHeight

\* A height that exists keeps its content.
LEMMA ContentStays ==
    ASSUME TypeOK, [Next]_vars
    PROVE  /\ mainChain' \in Seq(BlockContents)
           /\ Len(mainChain) <= Len(mainChain')
           /\ Len(mainChain') <= MaxHeight
           /\ \A h \in 1 .. Len(mainChain) : mainChain'[h] = mainChain[h]
<1> USE DEF TypeOK
<1>1. ASSUME NEW content \in BlockContents, NewBlock(content)
      PROVE  /\ mainChain' \in Seq(BlockContents)
             /\ Len(mainChain') = Len(mainChain) + 1
             /\ Len(mainChain') <= MaxHeight
             /\ \A h \in 1 .. Len(mainChain) : mainChain'[h] = mainChain[h]
  BY <1>1, CacheAssumption DEF NewBlock
<1>2. Len(mainChain) \in Nat
  OBVIOUS
<1> QED
  BY <1>1, <1>2, ChainFrame

\* What has been read of a height stays read.
LEMMA ReadStays ==
    ASSUME TypeOK, [Next]_vars, NEW h \in 0 .. Len(mainChain), ReadUpTo(h)
    PROVE  ReadUpTo(h)'
<1>1. cache \subseteq cache'
  BY CacheFrame DEF AddToCache
<1>2. \A g \in 1 .. h : mainChain'[g] = mainChain[g]
  BY ContentStays DEF TypeOK
<1>3. \A g \in 1 .. h : Listed(g)' = Listed(g)
  BY <1>2 DEF Listed
<1> QED
  BY <1>1, <1>3 DEF ReadUpTo

-----------------------------------------------------------------------------
(* Types.                                                                  *)

\* Queue and control points are those of the code, whatever the steps.
LEMMA ControlTypeStep ==
    ASSUME TypeOK, [Next]_vars
    PROVE  /\ ended' \in 0 .. Len(mainChain')
           /\ rpc' \in BOOLEAN
           /\ stopped' \in BOOLEAN
           /\ queue' \in Seq(1 .. Len(mainChain'))
           /\ pc' \in [Threads -> ThreadPc]
<1> USE DEF TypeOK, Threads, ThreadPc, Goto, Return
<1>1. /\ Len(mainChain) \in Nat /\ Len(mainChain') \in Nat
      /\ Len(mainChain) <= Len(mainChain')
  BY ContentStays
<1>2. 1 .. Len(mainChain) \subseteq 1 .. Len(mainChain')
  BY <1>1, SMTT(30)
<1>3. CASE UNCHANGED vars
  BY <1>3, <1>1 DEF vars, tendermintVars
<1>4. CASE InitThread
  <2>1. CASE Update("init")
    BY <2>1, <1>1
       DEF Update, Begin, QueryAnswered, QueryFails, Lock, AddToCache, Unlock,
           ReadHeight, WriteHeight, tendermintVars
  <2> QED
    BY <2>1, <1>4, <1>1
       DEF InitThread, StartSocket, InitClient, Status, tendermintVars
<1>5. CASE PoolThread
  <2>1. CASE Update("pool")
    BY <2>1, <1>1
       DEF Update, Begin, QueryAnswered, QueryFails, Lock, AddToCache, Unlock,
           ReadHeight, WriteHeight, tendermintVars
  <2>2. CASE TakeTask
    <3>1. Tail(queue) \in Seq(1 .. Len(mainChain))
      BY <2>2 DEF TakeTask
    <3> QED
      BY <3>1, <2>2, <1>1 DEF TakeTask, tendermintVars
  <2> QED
    BY <2>1, <2>2, <1>5 DEF PoolThread
<1>6. CASE Tendermint
  <2>1. CASE EndBlock
    <3>1. ended + 1 \in 1 .. Len(mainChain)
      BY <2>1 DEF EndBlock
    <3>2. Append(queue, ended + 1) \in Seq(1 .. Len(mainChain))
      BY <3>1
    <3>3. /\ ended' = ended + 1
          /\ queue' \in {Append(queue, ended + 1), queue}
          /\ UNCHANGED <<mainChain, rpc, stopped, pc>>
      BY <2>1 DEF EndBlock
    <3>4. queue' \in Seq(1 .. Len(mainChain))
      BY <3>2, <3>3
    <3> QED
      BY <3>1, <3>3, <3>4
  <2>2. CASE RpcStarts
    BY <2>2 DEF RpcStarts
  <2>3. ASSUME NEW content \in BlockContents, NewBlock(content)
        PROVE  /\ ended' = ended /\ rpc' = rpc /\ stopped' = stopped
               /\ queue' = queue /\ pc' = pc
    BY <2>3 DEF NewBlock
  <2>4. CASE \E content \in BlockContents : NewBlock(content)
    <3>1. queue \in Seq(1 .. Len(mainChain'))
      BY <1>2, SeqMonotonic
    <3> QED
      BY <3>1, <2>3, <2>4, <1>1, SMTT(30)
  <2> QED
    BY <2>1, <2>2, <2>4, <1>6 DEF Tendermint
<1>7. CASE Stop
  BY <1>7, <1>1 DEF Stop, tendermintVars
<1> QED
  BY <1>3, <1>4, <1>5, <1>6, <1>7 DEF Next

\* The heights an update works with are heights of the main chain.
LEMMA UpdateTypeStep ==
    ASSUME TypeOK, UpdateInv, [Next]_vars
    PROVE  /\ currentHeight' \in 0 .. Len(mainChain')
           /\ target' \in [Threads -> 0 .. Len(mainChain')]
           /\ next' \in [Threads -> 1 .. Len(mainChain') + 1]
           /\ place' \in [Threads -> Nat \ {0}]
           /\ seen' \in [Threads -> 0 .. Len(mainChain')]
<1> USE DEF TypeOK, Threads
<1>1. /\ Len(mainChain) \in Nat /\ Len(mainChain') \in Nat
      /\ Len(mainChain) <= Len(mainChain')
  BY ContentStays
<1>2. CASE UNCHANGED <<currentHeight, updateVars>>
  BY <1>1, <1>2, SMTT(30) DEF updateVars
<1>3. ASSUME NEW t \in Threads, Update(t)
      PROVE  /\ currentHeight' \in 0 .. Len(mainChain)
             /\ target' \in [Threads -> 0 .. Len(mainChain)]
             /\ next' \in [Threads -> 1 .. Len(mainChain) + 1]
             /\ place' \in [Threads -> Nat \ {0}]
             /\ seen' \in [Threads -> 0 .. Len(mainChain)]
             /\ mainChain' = mainChain
  <2>1. CASE Begin(t)
    BY <2>1, <1>1, SMTT(30) DEF Begin, tendermintVars
  <2>2. CASE Unlock(t)
    <3>1. next[t] <= target[t]
      BY <2>2 DEF Unlock, UpdateInv
    <3> QED
      BY <3>1, <2>2, <1>1, SMTT(30) DEF Unlock, tendermintVars
  <2>3. CASE QueryAnswered(t) \/ AddToCache(t) \/ ReadHeight(t)
    BY <2>3, <1>1, SMTT(30) DEF QueryAnswered, AddToCache, ReadHeight, tendermintVars
  <2>4. CASE QueryFails(t) \/ Lock(t)
    BY <2>4, <1>1 DEF QueryFails, Lock, tendermintVars, updateVars
  <2>5. CASE WriteHeight(t)
    BY <2>5, <1>1 DEF WriteHeight, Higher, tendermintVars, updateVars
  <2> QED
    BY <2>1, <2>2, <2>3, <2>4, <2>5, <1>3 DEF Update
<1>4. CASE \E t \in Threads : Update(t)
  BY <1>1, <1>3, <1>4
<1>5. CASE Status
  BY <1>5, <1>1 DEF Status, tendermintVars
<1>6. CASE TakeTask
  <2>1. Head(queue) \in 1 .. Len(mainChain)
    BY <1>6, SMTT(30) DEF TakeTask
  <2> QED
    BY <2>1, <1>6, <1>1, SMTT(30) DEF TakeTask, tendermintVars
<1> QED
  BY <1>2, <1>4, <1>5, <1>6
     DEF Next, vars, InitThread, PoolThread, Tendermint, NewBlock, RpcStarts,
         EndBlock, StartSocket, InitClient, Stop

\* All types together are preserved.
LEMMA TypeStep ==
    ASSUME TypeOK, UpdateInv, [Next]_vars
    PROVE  TypeOK'
<1>1. mainChain' \in Seq(BlockContents) /\ Len(mainChain') <= MaxHeight
  BY ContentStays
<1>2. cache' \subseteq Nat \X Nat
  <2>1. ASSUME NEW t \in Threads, AddToCache(t)
        PROVE  cache' \subseteq Nat \X Nat
    BY <2>1 DEF AddToCache, TypeOK
  <2> QED
    BY <2>1, CacheFrame DEF TypeOK
<1> QED
  BY <1>1, <1>2, ControlTypeStep, UpdateTypeStep DEF TypeOK

-----------------------------------------------------------------------------
(* The invariant.                                                          *)

\* Places are counted from one.
LEMMA ListedPlaces ==
    ASSUME TypeOK, NEW h \in 1 .. Len(mainChain)
    PROVE  Listed(h) \subseteq Nat \ {0}
<1>1. mainChain[h] \in Seq(BOOLEAN)
  BY CacheAssumption DEF TypeOK
<1> QED
  BY <1>1 DEF Listed

\* An update asks for heights that exist.
LEMMA HeightExists ==
    ASSUME TypeOK, UpdateInv, NEW t \in Threads, pc[t] \in {"lock", "add"}
    PROVE  next[t] \in 1 .. Len(mainChain)
<1>1. /\ Len(mainChain) \in Nat
      /\ next[t] \in 1 .. Len(mainChain) + 1
      /\ target[t] \in 0 .. Len(mainChain)
      /\ next[t] <= target[t]
  BY DEF TypeOK, UpdateInv
<1> QED
  BY <1>1

\* Before the first step nothing has been read and nothing needs to be.
LEMMA InitIInv == Init => IInv
<1> SUFFICES ASSUME Init PROVE IInv
  OBVIOUS
<1>1. TypeOK
  <2>1. /\ mainChain \in Seq(BlockContents) /\ Len(mainChain) = 0
        /\ queue \in Seq(1 .. Len(mainChain))
    BY EmptySeq DEF Init
  <2>2. cache \subseteq Nat \X Nat
    BY DEF Init, Genesis
  <2>3. /\ pc \in [Threads -> ThreadPc]
        /\ target \in [Threads -> 0 .. 0] /\ next \in [Threads -> 1 .. 1]
        /\ place \in [Threads -> Nat \ {0}] /\ seen \in [Threads -> 0 .. 0]
    BY DEF Init, Threads, ThreadPc
  <2>4. ended = 0 /\ rpc = FALSE /\ stopped = FALSE /\ currentHeight = 0
    BY DEF Init
  <2>5. /\ Len(mainChain) <= MaxHeight
        /\ 0 .. Len(mainChain) = 0 .. 0
        /\ 1 .. Len(mainChain) + 1 = 1 .. 1
    BY <2>1, CacheAssumption
  <2>6. ended \in 0 .. 0 /\ currentHeight \in 0 .. 0
    BY <2>4
  <2> QED
    BY <2>1, <2>2, <2>3, <2>4, <2>5, <2>6, Zenon DEF TypeOK
<1>2. HeightIsRead /\ UpdatesLeaveNoGap /\ UpdateInv /\ SoundInv
  BY DEF Init, HeightIsRead, UpdatesLeaveNoGap, UpdateInv, SoundInv, ReadUpTo,
         Threads
<1> QED
  BY <1>1, <1>2 DEF IInv

\* When the last place of a list has been added the height has been read.
LEMMA HeightDone ==
    ASSUME IInv, NEW t \in Threads, Unlock(t)
    PROVE  ReadUpTo(next[t])
<1> USE DEF IInv, TypeOK
<1>1. pc[t] = "add" /\ place[t] \notin Listed(next[t])
  BY DEF Unlock
<1>2. next[t] \in 1 .. Len(mainChain)
  BY <1>1, HeightExists
<1>3. ReadUpTo(next[t] - 1)
  BY <1>1 DEF UpdatesLeaveNoGap
<1>4. ASSUME NEW p \in Listed(next[t])
      PROVE  <<next[t], p>> \in cache
  <2>1. mainChain[next[t]] \in Seq(BOOLEAN)
    BY <1>2, CacheAssumption
  <2>2. p \in 1 .. Len(mainChain[next[t]])
    BY <2>1 DEF Listed
  <2>3. p < place[t]
    <3> SUFFICES ASSUME p >= place[t] PROVE FALSE
      BY <2>2
    <3>1. place[t] \in 1 .. p
      BY <2>2
    <3>2. place[t] \in Listed(next[t])
      BY <2>1, <2>2, <3>1 DEF Listed
    <3> QED
      BY <3>2, <1>1
  <2> QED
    BY <1>1, <2>3 DEF UpdateInv
<1>5. \A g \in 1 .. next[t] : g = next[t] \/ g \in 1 .. next[t] - 1
  BY <1>2
<1> QED
  BY <1>3, <1>4, <1>5 DEF ReadUpTo

\* An update reads what lies below the height it asks for, or starts above
\* currentHeight, below which everything has been read.
LEMMA NoGapStep ==
    ASSUME IInv, TypeOK', [Next]_vars
    PROVE  UpdatesLeaveNoGap'
<1> SUFFICES ASSUME NEW t \in Threads,
                    pc'[t] \in {"query", "lock", "add", "max"}
             PROVE  ReadUpTo(next[t] - 1)'
  BY DEF UpdatesLeaveNoGap
<1> USE DEF IInv, TypeOK
<1>1. CASE Begin(t)
  <2>1. PICK h \in 0 .. Len(mainChain) : h = currentHeight
    OBVIOUS
  <2>2. ReadUpTo(h)'
    BY <2>1, ReadStays DEF HeightIsRead
  <2>3. next'[t] - 1 = h
    BY <1>1, <2>1 DEF Begin
  <2> QED
    BY <2>2, <2>3 DEF ReadUpTo
<1>2. CASE Unlock(t)
  <2>1. PICK h \in 0 .. Len(mainChain) : h = next[t]
    BY <1>2 DEF Unlock, UpdateInv
  <2>2. ReadUpTo(h)'
    BY <1>2, <2>1, ReadStays, HeightDone
  <2>3. next'[t] - 1 = h
    BY <1>2, <2>1 DEF Unlock
  <2> QED
    BY <2>2, <2>3 DEF ReadUpTo
<1>3. CASE next'[t] = next[t] /\ pc[t] \in {"query", "lock", "add", "max"}
  <2>0. Len(mainChain) \in Nat /\ next[t] \in 1 .. Len(mainChain) + 1
    OBVIOUS
  <2>1. PICK h \in 0 .. Len(mainChain) : h = next[t] - 1
    <3>1. next[t] - 1 \in 0 .. Len(mainChain)
      BY <2>0, SMTT(30)
    <3> QED
      BY <3>1
  <2>2. ReadUpTo(h)'
    BY <1>3, <2>1, ReadStays DEF UpdatesLeaveNoGap
  <2> QED
    BY <2>1, <2>2, <1>3 DEF ReadUpTo
<1> QED
  BY <1>1, <1>2, <1>3
     DEF Next, vars, tendermintVars, updateVars, Threads, Goto, Return,
         InitThread, PoolThread, Tendermint, NewBlock, RpcStarts, EndBlock,
         StartSocket, InitClient, Status, Stop, TakeTask, Update, Begin,
         QueryAnswered, QueryFails, Lock, AddToCache, Unlock, ReadHeight,
         WriteHeight

\* An update that reaches its end has read everything up to its target, and
\* whatever currentHeight it saw had been read, too; so it may write either.
LEMMA HeightStep ==
    ASSUME IInv, TypeOK', [Next]_vars
    PROVE  HeightIsRead'
<1> USE DEF IInv, TypeOK
<1>1. ASSUME NEW t \in Threads, WriteHeight(t)
      PROVE  HeightIsRead'
  <2>1. pc[t] = "max" /\ currentHeight' = Higher(seen[t], target[t])
    BY <1>1 DEF WriteHeight
  <2>2. /\ Len(mainChain) \in Nat
        /\ seen[t] \in 0 .. Len(mainChain)
        /\ target[t] \in 0 .. Len(mainChain)
        /\ next[t] \in 1 .. Len(mainChain) + 1
    OBVIOUS
  <2>3. PICK h \in 0 .. Len(mainChain) : h = Higher(seen[t], target[t])
    BY <2>2 DEF Higher
  <2>4. ReadUpTo(seen[t]) /\ target[t] <= next[t] - 1
    BY <2>1, <2>2 DEF UpdateInv
  <2>5. ReadUpTo(target[t])
    <3>1. ReadUpTo(next[t] - 1)
      BY <2>1 DEF UpdatesLeaveNoGap
    <3>2. \A g \in 1 .. target[t] : g \in 1 .. next[t] - 1
      <4> HIDE DEF IInv, TypeOK
      <4> QED
        BY <2>2, <2>4
    <3> QED
      BY <3>1, <3>2 DEF ReadUpTo
  <2>6. ReadUpTo(h)
    BY <2>3, <2>4, <2>5 DEF Higher
  <2>7. ReadUpTo(h)'
    BY <2>6, ReadStays
  <2> QED
    BY <2>1, <2>3, <2>7 DEF HeightIsRead, ReadUpTo
<1>2. CASE UNCHANGED currentHeight
  <2>1. PICK h \in 0 .. Len(mainChain) : h = currentHeight
    OBVIOUS
  <2>2. ReadUpTo(h)'
    BY <2>1, ReadStays DEF HeightIsRead
  <2> QED
    BY <2>1, <2>2, <1>2 DEF HeightIsRead, ReadUpTo
<1> QED
  BY <1>1, <1>2
     DEF Next, vars, tendermintVars, Threads, InitThread, PoolThread,
         Tendermint, NewBlock, RpcStarts, EndBlock, StartSocket, InitClient,
         Status, Stop, TakeTask, Update, Begin, QueryAnswered, QueryFails, Lock,
         AddToCache, Unlock, ReadHeight

\* The places added while the lock is held, and the height read for the
\* maximum, keep their meaning while the other thread goes on.
LEMMA UpdateInvStep ==
    ASSUME IInv, TypeOK', [Next]_vars
    PROVE  UpdateInv'
<1> SUFFICES ASSUME NEW t \in Threads
             PROVE  /\ pc'[t] \in {"lock", "add"} => next'[t] <= target'[t]
                    /\ pc'[t] = "lock" => place'[t] = 1
                    /\ pc'[t] = "add" =>
                           \A p \in Listed(next[t])' :
                               p < place'[t] => <<next'[t], p>> \in cache'
                    /\ pc'[t] = "max" =>
                           next'[t] > target'[t] /\ ReadUpTo(seen[t])'
  BY DEF UpdateInv
<1> USE DEF IInv, TypeOK
<1>1. CASE ReadHeight(t)
  <2>1. PICK h \in 0 .. Len(mainChain) : h = currentHeight
    OBVIOUS
  <2>2. ReadUpTo(h)'
    BY <2>1, ReadStays DEF HeightIsRead
  <2>3. seen'[t] = h /\ pc'[t] = "max" /\ next'[t] > target'[t]
    BY <1>1, <2>1 DEF ReadHeight, Goto
  <2> QED
    BY <2>2, <2>3 DEF ReadUpTo
<1>2. CASE Lock(t)
  <2>1. /\ pc[t] = "lock" /\ pc'[t] = "add"
        /\ UNCHANGED <<mainChain, updateVars>>
    BY <1>2 DEF Lock, Goto, tendermintVars
  <2>2. Listed(next[t])' = Listed(next[t]) /\ place[t] = 1
    BY <2>1 DEF Listed, updateVars, UpdateInv
  <2>3. Listed(next[t]) \subseteq Nat \ {0}
    BY <2>1, ListedPlaces, HeightExists
  <2>4. next[t] <= target[t]
    BY <2>1 DEF UpdateInv
  <2> QED
    BY <2>1, <2>2, <2>3, <2>4 DEF updateVars
<1>3. CASE AddToCache(t)
  <2>1. /\ pc' = pc /\ next' = next /\ target' = target
        /\ mainChain' = mainChain /\ pc[t] = "add"
        /\ cache' = cache \cup {<<next[t], place[t]>>}
        /\ place'[t] = place[t] + 1
    BY <1>3 DEF AddToCache, tendermintVars
  <2>2. ASSUME NEW p \in Listed(next[t]), p < place[t] + 1
        PROVE  <<next[t], p>> \in cache'
    <3>1. next[t] \in 1 .. Len(mainChain)
      BY <2>1, HeightExists
    <3>2. p \in Nat /\ place[t] \in Nat
      BY <3>1, ListedPlaces
    <3>3. p = place[t] \/ p < place[t]
      <4> HIDE DEF IInv, TypeOK
      <4> QED
        BY <2>2, <3>2
    <3> QED
      BY <2>1, <3>3 DEF UpdateInv
  <2>3. Listed(next[t])' = Listed(next[t])
    BY <2>1 DEF Listed
  <2> QED
    BY <2>1, <2>2, <2>3 DEF UpdateInv
<1>4. CASE QueryAnswered(t) \/ Begin(t) \/ QueryFails(t) \/ Unlock(t)
             \/ WriteHeight(t)
  BY <1>4
     DEF QueryAnswered, Begin, QueryFails, Unlock, WriteHeight, Goto, Return,
         updateVars, Threads
<1>5. CASE /\ pc'[t] = pc[t] /\ place'[t] = place[t]
           /\ next'[t] = next[t] /\ seen'[t] = seen[t]
           /\ pc[t] \in {"lock", "add", "max"} => target'[t] = target[t]
  <2>1. cache \subseteq cache'
    BY CacheFrame DEF AddToCache
  <2>2. pc[t] = "add" => Listed(next[t])' = Listed(next[t])
    <3> SUFFICES ASSUME pc[t] = "add" PROVE Listed(next[t])' = Listed(next[t])
      OBVIOUS
    <3>1. mainChain'[next[t]] = mainChain[next[t]]
      BY ContentStays, HeightExists
    <3> QED
      BY <3>1, <1>5 DEF Listed
  <2>3. PICK h \in 0 .. Len(mainChain) : h = seen[t]
    OBVIOUS
  <2>4. pc[t] = "max" => ReadUpTo(h)'
    BY <2>3, ReadStays DEF UpdateInv
  <2> QED
    BY <2>1, <2>2, <2>3, <2>4, <1>5 DEF UpdateInv, ReadUpTo
<1>6. CASE Status \/ TakeTask \/ StartSocket \/ InitClient
  <2>1. CASE pc'[t] = pc[t]
    BY <1>5, <1>6, <2>1
       DEF Status, TakeTask, StartSocket, InitClient, Goto, Threads, updateVars
  <2>2. CASE pc'[t] # pc[t]
    BY <1>6, <2>2
       DEF Status, TakeTask, StartSocket, InitClient, Goto, Threads
  <2> QED
    BY <2>1, <2>2
<1>7. ASSUME NEW u \in Threads, u # t, Update(u)
      PROVE  /\ pc'[t] = pc[t] /\ place'[t] = place[t]
             /\ next'[t] = next[t] /\ seen'[t] = seen[t]
             /\ target'[t] = target[t]
  BY <1>7
     DEF Update, Begin, QueryAnswered, QueryFails, Lock, AddToCache, Unlock,
         ReadHeight, WriteHeight, Goto, Return, updateVars
<1>8. CASE Tendermint \/ Stop \/ UNCHANGED vars
  BY <1>5, <1>8
     DEF Tendermint, NewBlock, RpcStarts, EndBlock, Stop, vars, updateVars
<1> QED
  BY <1>1, <1>2, <1>3, <1>4, <1>5, <1>6, <1>7, <1>8
     DEF Next, InitThread, PoolThread, Update, Threads

\* Only entries of the block that was asked for are added.
LEMMA SoundStep ==
    ASSUME IInv, [Next]_vars
    PROVE  SoundInv'
<1> SUFFICES ASSUME NEW e \in cache', e # Genesis
             PROVE  \E h \in DOMAIN mainChain' :
                        \E p \in DOMAIN mainChain'[h] : e = <<h, p>>
  BY DEF SoundInv
<1>1. /\ Len(mainChain) \in Nat /\ Len(mainChain') \in Nat
      /\ Len(mainChain) <= Len(mainChain')
      /\ DOMAIN mainChain = 1 .. Len(mainChain)
      /\ DOMAIN mainChain' = 1 .. Len(mainChain')
      /\ \A h \in 1 .. Len(mainChain) : mainChain'[h] = mainChain[h]
  BY ContentStays DEF IInv, TypeOK
<1>2. \E h \in 1 .. Len(mainChain) : \E p \in DOMAIN mainChain[h] : e = <<h, p>>
  <2>1. CASE e \in cache
    BY <2>1, <1>1 DEF IInv, SoundInv
  <2>2. ASSUME NEW t \in Threads, AddToCache(t), e \notin cache
        PROVE  \E h \in 1 .. Len(mainChain) :
                   \E p \in DOMAIN mainChain[h] : e = <<h, p>>
    <3>1. next[t] \in 1 .. Len(mainChain)
      BY <2>2, HeightExists DEF AddToCache, IInv
    <3>2. place[t] \in DOMAIN mainChain[next[t]] /\ e = <<next[t], place[t]>>
      BY <2>2 DEF AddToCache, Listed
    <3> QED
      BY <3>1, <3>2
  <2> QED
    BY <2>1, <2>2, CacheFrame
<1> QED
  BY <1>1, <1>2

\* IInv is inductive.
LEMMA NextIInv == IInv /\ [Next]_vars => IInv'
<1> SUFFICES ASSUME IInv, [Next]_vars PROVE IInv'
  OBVIOUS
<1>1. TypeOK'
  BY TypeStep DEF IInv
<1> QED
  BY <1>1, HeightStep, NoGapStep, UpdateInvStep, SoundStep DEF IInv

\* IInv holds in every reachable state.
LEMMA Invariance == Spec => []IInv
BY InitIInv, NextIInv, PTL DEF Spec

-----------------------------------------------------------------------------
(* The theorems.                                                           *)

\* Every variable keeps its type; no update works with a height that the main
\* chain does not have.
THEOREM TypeCorrect == Spec => []TypeOK
BY Invariance, PTL DEF IInv

\* A height counts as read only when everything that can be read of it and of
\* all lower ones is in the cache, although the threads that raise
\* currentHeight may also lower it.
THEOREM HeightHasBeenRead == Spec => []HeightIsRead
BY Invariance, PTL DEF IInv

\* No update leaves out a height that has not been read.
THEOREM NoHeightIsSkipped == Spec => []UpdatesLeaveNoGap
BY Invariance, PTL DEF IInv

-----------------------------------------------------------------------------
(* The cache implements KnownAbstracts.                                    *)

\* A step adds at most one abstract to the cache, which was on the main chain
\* before, and takes none off the main chain.
LEMMA StepImplements ==
    ASSUME IInv, [Next]_vars
    PROVE  Known!Next \/ UNCHANGED Known!vars
<1>1. CASE \E t \in Threads : AddToCache(t)
  <2>1. PICK t \in Threads : AddToCache(t)
    BY <1>1
  <2>2. PICK e : e = <<next[t], place[t]>>
    OBVIOUS
  <2>3. cache' = cache \cup {e} /\ mainChain' = mainChain
    BY <2>1, <2>2 DEF AddToCache, tendermintVars
  <2>4. OnChain' = OnChain
    BY <2>3 DEF OnChain
  <2>5. e \in OnChain
    <3>1. next[t] \in DOMAIN mainChain
      <4>1. next[t] \in 1 .. Len(mainChain)
        BY <2>1, HeightExists DEF AddToCache, IInv
      <4> QED
        BY <4>1 DEF IInv, TypeOK
    <3>2. place[t] \in DOMAIN mainChain[next[t]]
      BY <2>1 DEF AddToCache, Listed
    <3> QED
      BY <3>1, <3>2, <2>2 DEF OnChain
  <2> QED
    BY <2>3, <2>4, <2>5 DEF Known!Next, Known!Learn
<1>2. CASE UNCHANGED cache
  <2>1. \A h \in DOMAIN mainChain :
            h \in DOMAIN mainChain' /\ mainChain'[h] = mainChain[h]
    <3>1. /\ Len(mainChain) \in Nat /\ Len(mainChain') \in Nat
          /\ Len(mainChain) <= Len(mainChain')
          /\ DOMAIN mainChain = 1 .. Len(mainChain)
          /\ DOMAIN mainChain' = 1 .. Len(mainChain')
          /\ \A h \in 1 .. Len(mainChain) : mainChain'[h] = mainChain[h]
      BY ContentStays DEF IInv, TypeOK
    <3> QED
      BY <3>1
  <2>2. OnChain \subseteq OnChain'
    BY <2>1 DEF OnChain
  <2> QED
    BY <2>2, <1>2 DEF Known!Next, Known!Include
<1> QED
  BY <1>1, <1>2, CacheFrame

\* The queue, the two threads and the failing requests implement the cache
\* the other modules assume.
THEOREM CacheImplementsKnown == Spec => ImplementsKnown
<1>1. Init => Known!Init
  BY DEF Init, Known!Init, OnChain
<1>2. IInv /\ [Next]_vars => [Known!Next]_(Known!vars)
  BY StepImplements
<1> QED
  BY <1>1, <1>2, Invariance, PTL DEF Spec, ImplementsKnown, Known!Spec
=============================================================================
