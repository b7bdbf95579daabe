-------------------------- MODULE MainChainCache --------------------------
(***************************************************************************)
(* How a node learns of the abstracts on the main chain: TendermintChain   *)
(* with its ABCIServer and ABCIClient.                                     *)
(*                                                                         *)
(* Tendermint calls endBlock for every height, and each call queues an     *)
(* update of the cache for the pool thread.  The thread that starts the    *)
(* node makes an initial update up to the height Tendermint reports.  An   *)
(* update asks for the heights above currentHeight one after the other and *)
(* gives up at the first that cannot be had; at its end it raises          *)
(* currentHeight.  Two updates may run at the same time, one per thread.   *)
(*                                                                         *)
(* An abstract is named by its height and its place in the main chain's    *)
(* block; <<0, 1>> is the genesis block, which ABCIServer puts in the      *)
(* cache.  The content of a block is a sequence that says of each entry    *)
(* whether it can be parsed.                                               *)
(***************************************************************************)
EXTENDS Integers, Sequences

CONSTANTS
    MaxHeight,      \* bound: the last height of the main chain
    BlockContents,  \* the contents a block of the main chain may have
    QueryCanFail    \* whether requests may fail once the RPC server runs

ASSUME CacheAssumption ==
    /\ MaxHeight \in Nat
    /\ BlockContents \subseteq Seq(BOOLEAN)
    /\ QueryCanFail \in BOOLEAN

Threads == {"init", "pool"}
Genesis == <<0, 1>>

VARIABLES
    mainChain,      \* mainChain[h]: content of the main chain's block at h
    ended,          \* the height endBlock was last called for
    rpc,            \* whether Tendermint answers requests
    stopped,        \* whether the ABCI socket was stopped
    queue,          \* heights the pool thread is to update the cache to
    cache,          \* TendermintChain.cache
    currentHeight,  \* TendermintChain.currentHeight
    pc,             \* control point of each thread
    target,         \* height: the parameter of its update
    next,           \* i: the height it asks for
    place,          \* the place in the list of abstracts it adds
    seen            \* the currentHeight that Math.max was called with

tendermintVars == <<mainChain, ended, rpc>>
updateVars == <<target, next, place, seen>>
vars == <<tendermintVars, stopped, queue, cache, currentHeight, pc, updateVars>>

Height == 0 .. MaxHeight

ThreadPc == {"off", "listening", "status", "done", "idle",
             "begin", "query", "lock", "add", "max"}

TypeOK ==
    /\ mainChain \in Seq(BlockContents) /\ Len(mainChain) <= MaxHeight
    /\ ended \in 0 .. Len(mainChain)
    /\ rpc \in BOOLEAN
    /\ stopped \in BOOLEAN
    /\ queue \in Seq(1 .. Len(mainChain))
    /\ cache \subseteq Nat \X Nat
    /\ currentHeight \in 0 .. Len(mainChain)
    /\ pc \in [Threads -> ThreadPc]
    /\ target \in [Threads -> 0 .. Len(mainChain)]
    /\ next \in [Threads -> 1 .. Len(mainChain) + 1]
    /\ place \in [Threads -> Nat \ {0}]
    /\ seen \in [Threads -> 0 .. Len(mainChain)]

\* The constructors: the genesis block is in the cache, nothing runs yet.
Init ==
    /\ mainChain = <<>>
    /\ ended = 0
    /\ rpc = FALSE
    /\ stopped = FALSE
    /\ queue = <<>>
    /\ cache = {Genesis}
    /\ currentHeight = 0
    /\ pc = [t \in Threads |-> IF t = "init" THEN "off" ELSE "idle"]
    /\ target = [t \in Threads |-> 0]
    /\ next = [t \in Threads |-> 1]
    /\ place = [t \in Threads |-> 1]
    /\ seen = [t \in Threads |-> 0]

Goto(t, point) == pc' = [pc EXCEPT ![t] = point]

-----------------------------------------------------------------------------
(* What ABCIClient.query(height) makes of the answer.                      *)

\* Slip: the list is one entry too long.
ListedOneMore(h) == 1 .. Len(mainChain[h]) + 1

\* The entries it returns: those before the first malformed one.
Listed(h) ==
    {p \in DOMAIN mainChain[h] : \A q \in 1 .. p : mainChain[h][q]}

\* Nothing could be read of a block that is not empty: it returns null.
NothingRead(h) == mainChain[h] # <<>> /\ Listed(h) = {}

-----------------------------------------------------------------------------
(* Tendermint.                                                             *)

NewBlock(content) ==
    /\ Len(mainChain) < MaxHeight
    /\ mainChain' = Append(mainChain, content)
    /\ UNCHANGED <<ended, rpc, stopped, queue, cache, currentHeight, pc,
                   updateVars>>

RpcStarts ==
    /\ ~rpc
    /\ rpc' = TRUE
    /\ UNCHANGED <<mainChain, ended, stopped, queue, cache, currentHeight, pc,
                   updateVars>>

HasClient == pc["init"] \notin {"off", "listening"}

\* ABCIServer.requestEndBlock and updateCache(height): while the node starts
\* and has no client yet the call is dropped.
EndBlock ==
    /\ pc["init"] # "off" /\ ~stopped
    /\ ended < Len(mainChain)
    /\ ended' = ended + 1
    /\ queue' = IF HasClient THEN Append(queue, ended + 1) ELSE queue
    /\ UNCHANGED <<mainChain, rpc, stopped, cache, currentHeight, pc,
                   updateVars>>

-----------------------------------------------------------------------------
(* TendermintChain.init() and stop().                                      *)

StartSocket ==
    /\ pc["init"] = "off"
    /\ Goto("init", "listening")
    /\ UNCHANGED <<tendermintVars, stopped, queue, cache, currentHeight,
                   updateVars>>

InitClient ==
    /\ pc["init"] = "listening"
    /\ Goto("init", "status")
    /\ UNCHANGED <<tendermintVars, stopped, queue, cache, currentHeight,
                   updateVars>>

\* Slip: a status request that fails is not repeated.
StatusOnce ==
    /\ pc["init"] = "status"
    /\ target' = [target EXCEPT !["init"] = Len(mainChain)]
    /\ Goto("init", IF rpc THEN "begin" ELSE "done")
    /\ UNCHANGED <<tendermintVars, stopped, queue, cache, currentHeight, next,
                   place, seen>>

\* Slip: the height after the latest one is taken.
StatusOneMore ==
    /\ pc["init"] = "status"
    /\ rpc
    /\ target' = [target EXCEPT !["init"] = Len(mainChain) + 1]
    /\ Goto("init", "begin")
    /\ UNCHANGED <<tendermintVars, stopped, queue, cache, currentHeight, next,
                   place, seen>>

\* initialUpdateCache: a request that fails throws and is repeated, which
\* changes nothing.
Status ==
    /\ pc["init"] = "status"
    /\ rpc
    /\ target' = [target EXCEPT !["init"] = Len(mainChain)]
    /\ Goto("init", "begin")
    /\ UNCHANGED <<tendermintVars, stopped, queue, cache, currentHeight, next,
                   place, seen>>

Stop ==
    /\ pc["init"] = "done" /\ ~stopped
    /\ stopped' = TRUE
    /\ UNCHANGED <<tendermintVars, queue, cache, currentHeight, pc, updateVars>>

TakeTask ==
    /\ pc["pool"] = "idle" /\ queue # <<>>
    /\ queue' = Tail(queue)
    /\ target' = [target EXCEPT !["pool"] = Head(queue)]
    /\ Goto("pool", "begin")
    /\ UNCHANGED <<tendermintVars, stopped, cache, currentHeight, next, place,
                   seen>>

-----------------------------------------------------------------------------
(* TendermintChain.updateCacheBlocking(height), run by thread t.           *)

Return(t) == Goto(t, IF t = "init" THEN "done" ELSE "idle")

\* Slip: only the new height is asked for, not those an update gave up at.
BeginAtTarget(t) ==
    /\ pc[t] = "begin"
    /\ next' = [next EXCEPT ![t] = IF target[t] > 0 THEN target[t] ELSE 1]
    /\ Goto(t, "query")
    /\ UNCHANGED <<tendermintVars, stopped, queue, cache, currentHeight, target,
                   place, seen>>

Begin(t) ==
    /\ pc[t] = "begin"
    /\ next' = [next EXCEPT ![t] = currentHeight + 1]
    /\ Goto(t, "query")
    /\ UNCHANGED <<tendermintVars, stopped, queue, cache, currentHeight, target,
                   place, seen>>

QueryAnswered(t) ==
    /\ pc[t] = "query" /\ next[t] <= target[t]
    /\ rpc /\ ~NothingRead(next[t])
    /\ place' = [place EXCEPT ![t] = 1]
    /\ Goto(t, "lock")
    /\ UNCHANGED <<tendermintVars, stopped, queue, cache, currentHeight, target,
                   next, seen>>

\* The update ends; what it has read so far is not recorded.
QueryFails(t) ==
    /\ pc[t] = "query" /\ next[t] <= target[t]
    /\ rpc /\ ~QueryCanFail => NothingRead(next[t])
    /\ Return(t)
    /\ UNCHANGED <<tendermintVars, stopped, queue, cache, currentHeight,
                   updateVars>>

\* synchronized (cacheLock): writers exclude each other, readers do not ask.
Lock(t) ==
    /\ pc[t] = "lock"
    /\ \A u \in Threads : pc[u] # "add"
    /\ Goto(t, "add")
    /\ UNCHANGED <<tendermintVars, stopped, queue, cache, currentHeight,
                   updateVars>>

AddToCache(t) ==
    /\ pc[t] = "add" /\ place[t] \in Listed(next[t])
    /\ cache' = cache \cup {<<next[t], place[t]>>}
    /\ place' = [place EXCEPT ![t] = @ + 1]
    /\ UNCHANGED <<tendermintVars, stopped, queue, currentHeight, pc, target,
                   next, seen>>

Unlock(t) ==
    /\ pc[t] = "add" /\ place[t] \notin Listed(next[t])
    /\ next' = [next EXCEPT ![t] = @ + 1]
    /\ Goto(t, "query")
    /\ UNCHANGED <<tendermintVars, stopped, queue, cache, currentHeight, target,
                   place, seen>>

\* currentHeight = Math.max(currentHeight, height): read here, and written by
\* the next step.
ReadHeight(t) ==
    /\ pc[t] = "query" /\ next[t] > target[t]
    /\ seen' = [seen EXCEPT ![t] = currentHeight]
    /\ Goto(t, "max")
    /\ UNCHANGED <<tendermintVars, stopped, queue, cache, currentHeight, target,
                   next, place>>

Higher(a, b) == IF a > b THEN a ELSE b

WriteHeight(t) ==
    /\ pc[t] = "max"
    /\ currentHeight' = Higher(seen[t], target[t])
    /\ Return(t)
    /\ UNCHANGED <<tendermintVars, stopped, queue, cache, updateVars>>

Update(t) ==
    \/ Begin(t) \/ QueryAnswered(t) \/ QueryFails(t) \/ Lock(t)
    \/ AddToCache(t) \/ Unlock(t) \/ ReadHeight(t) \/ WriteHeight(t)

-----------------------------------------------------------------------------
InitThread == StartSocket \/ InitClient \/ Status \/ Update("init")

PoolThread == TakeTask \/ Update("pool")

Tendermint ==
    \/ \E content \in BlockContents : NewBlock(content)
    \/ RpcStarts \/ EndBlock

Next == InitThread \/ PoolThread \/ Tendermint \/ Stop

Spec == Init /\ [][Next]_vars

\* The threads of the node run, Tendermint comes up and calls endBlock for
\* every block it has.  No new block is ever promised.
Fairness ==
    /\ WF_vars(InitThread)
    /\ WF_vars(PoolThread)
    /\ WF_vars(RpcStarts)
    /\ WF_vars(EndBlock)

FairSpec == Spec /\ Fairness

-----------------------------------------------------------------------------
\* Everything that can be read at the heights up to h is in the cache.
ReadUpTo(h) ==
    \A g \in 1 .. h : \A p \in Listed(g) : <<g, p>> \in cache

\* currentHeight never runs ahead of the cache, although two threads raise it
\* and updates give up half way: the heights an update skips have been read.
HeightIsRead == ReadUpTo(currentHeight)

\* No update starts above a height that nobody has read: between the start of
\* an update and its end the other thread may change currentHeight.
UpdatesLeaveNoGap ==
    \A t \in Threads :
        pc[t] \in {"query", "lock", "add", "max"} => ReadUpTo(next[t] - 1)

OnChain ==
    {Genesis} \cup
    UNION {{<<h, p>> : p \in DOMAIN mainChain[h]} : h \in DOMAIN mainChain}

\* An abstract on the main chain is present as far as this node can tell,
\* some time after it got there; blocks that come after it are not needed.
\* Callbacks that came while the node had no client, or before Tendermint
\* answered, are made up for by the initial update.  Not so those behind a
\* malformed entry, and nothing above a block that starts with one.
ReachesCache ==
    \A h \in 1 .. MaxHeight :
        h <= Len(mainChain) ~>
            \/ stopped
            \/ /\ h <= Len(mainChain)
               /\ \A p \in Listed(h) : <<h, p>> \in cache

\* The cache and the main chain behave as the other modules assume.
Known == INSTANCE KnownAbstracts WITH onChain <- OnChain, known <- cache

ImplementsKnown == Known!Spec
=============================================================================
