# Scale-out distributed ledger: TLA+ models, checks and proofs

This directory holds TLA+ models of the ledger in `src/`, the TLC configurations that check
them on small instances, and theorems that TLAPS checks for every value of the constants.
`src/main/...` below stands for `src/src/main/java/nl/tudelft/blockchain/scaleoutdistributedledger/...`.

- [1. The system](#1-the-system)
- [2. Plan](#2-plan)
- [3. Modules](#3-modules)
- [4. Runs](#4-runs)
- [5. Fairness](#5-fairness)
- [6. Proofs](#6-proofs)
- [7. Disagreements between code and documentation](#7-disagreements-between-code-and-documentation)
- [8. What is not modelled](#8-what-is-not-modelled)

## 1. The system

Every node of the ledger owns a chain of blocks and copies parts of the chains of others.  A
payment is a transaction in a block of the payer's chain; its sources are unspent transactions
that the payer received earlier.  Now and then a node commits a block: it puts the block's
*abstract* (a signed hash) on the *main chain*, a Tendermint chain that all nodes share.  Once
enough commits lie above a payment, the payer sends it to the payee with a *proof*: the blocks
the payee does not know yet of every chain the payment's money came along.  The payee verifies
the proof against its own cache of the main chain and takes the payment into its store.

### Components

| component | state it keeps | operations | hard behaviours | correct when |
|---|---|---|---|---|
| **Block pipeline** (`Chain`, `Block`, `ITransactionPattern`, `CancellableInfiniteRunnable`, `TransactionSender`, `Application`) | own chain with its `nextCommittedBlock` pointers, `alreadySent`, the control state of two threads | append a block, add a transaction, commit, sweep, send, force-commit and drain on stop | two threads share the chain without a lock; commits fail or throw; waiting for the other thread to drain | a transaction is sent once, in order, only when confirmed, and before the node says it stopped; a committed block is frozen |
| **Proof exchange** (`ProofConstructor`, `MetaKnowledge`, `Proof`, `ChainView`, `LightView`, `Verification`, `CommunicationHelper`, `Chain.update`) | what each node believes the others know, copies of foreign chains, validation cache, messages under way | build a proof source by source, encode, send, decode, verify, apply | meta knowledge changes while a proof is built; handlers of several connections interleave; caches lag; writes fail | copies are closed under sources, money is spent once, a payment is never duplicated, it arrives |
| **Store of a node** (`LocalStore`) | nodes, unspent transactions, available money | look-ups, add and remove unspent | sender and handler threads | unspent money is spent once |
| **Choice of sources** (`TransactionCreator`, `TransactionTuple`) | tuples of candidate sources with the chains they need | search for the cheapest sources that cover an amount | pruning of the search, `int` amounts | covers the amount with the fewest chains |
| **Main chain client** (`TendermintChain`, `ABCIClient`, `ABCIServer`) | cache of block hashes, `currentHeight`, queue of updates | commit an abstract, `endBlock` callback, update of the cache, `isPresent` | two updates at a time, callbacks before the client exists, failing requests, malformed lists | only what is on the main chain is present, everything up to `currentHeight` is, and all of it is in the end |
| **Transaction patterns** (`OnlyNodeZero…`, `Random…`, `PoissonRandom…`, `UniformRandom…`) | random generators | whom to pay, how much, how long to wait | none of their own | any choice is covered |
| **Simulation life cycle** (`SimulationMain`, `Simulation`, `Application`, `message/*Message`) | state of the simulation, nodes and their threads | initialise, start, stop, kill, broadcast | master and nodes are processes that only share the tracker; polling loops; lost broadcasts | every phase ends |
| **Tracker client and registration queue** (`TrackerHelper`) | queue of transactions to register, thread pool | register, flush | queue swapped under concurrent receivers | a registration is sent once |
| **Tracker server** (`src/tracker-server`) | list of nodes with their running flags, list of transactions with totals and data points, timers, event streams; what a demo page shows | HTTP routes, two timers, the close event of a stream, the exit on an uncaught error | requests of several processes interleave, late batches, resets under way, broken streams, ids without a node | a fetched list is whole, flags follow the requests, graph and numbers are those of the payments, pages come to show them |
| **Sockets** (`sockets/*`) | connections | connect on demand, send, receive, drop on error | failed writes, broken connections | FIFO per pair of nodes |
| **Message encoding, keys, hashes, Tendermint set-up, utilities, mocks** | - | conversions | none | see section 8 |

### Interactions

- The *pattern thread* calls `Chain.appendNewBlock`, `TransactionCreator` and `Block.commit`; the
  latter blocks on `MainChain.commitAbstract`.
- The *sender thread* reads the chain and the cache of the main chain (`Block.isOnMainChain`),
  builds proofs (`ProofConstructor`) from the chains and the meta knowledge, and writes to the
  sockets.
- *Handler threads*, one per incoming connection, run `CommunicationHelper.receiveTransaction`:
  verification, update of chains and meta knowledge, insertion into the store, and the
  registration of the transaction for the tracker.
- Tendermint calls the *ABCI server*; the *pool thread* updates the cache.
- The *master* asks the tracker how many nodes registered, initialised, run, and broadcasts
  messages over the same sockets.
- The *tracker server* handles one request at a time and sends the graph to the pages that watch
  it over event streams; a page reads them when it likes.

## 2. Plan

Ordered by importance; modules marked *done* exist.

1. *done* `BlockPipeline`: the two threads of a node; `ConfirmedDelivery`, the promise they keep;
   `BlockPipelineProofs`.
2. *done* `ProofExchange`: several nodes, their proofs and copies; `MCProofExchange` with the
   scripts of payments.
3. *done* `MainChainCache` with `KnownAbstracts`, the main chain that 1 and 2 assume;
   `MainChainCacheProofs`.
4. *done* `RegistrationQueue`: receivers, the swap of the queue and the pool thread of
   `TrackerHelper`; theorems in `RegistrationQueueProofs`.
5. *done* `SimulationLifecycle`: the processes, the master's broadcasts, the nodes and the
   tracker's flags; `MCSimulationLifecycle`; theorems in `SimulationLifecycleProofs`.
6. *done* `SourceSelection`: the search of `TransactionCreator`, round by round, against the
   cheapest covering set by definition; `MCSourceSelection`.
7. *done* `TrackerServer` with `NodeList`, `TransactionList` and `TrackerFlags`: the server that
   4 and 5 talk to, and the pages that watch it; theorems in `TrackerServerProofs`.
8. Not begun: `ChainView` as a module of its own: the view of a copy that another handler extends
   while a proof is verified (the size it remembers, the overlap it trims or skips, `getBlock`,
   its iterators on an `AppendOnlyArrayList`) against the chain it stands for; and the encoding of
   transactions and blocks (`TransactionMessage`, `BlockMessage`).
9. *done* Proofs of the safety properties of `BlockPipeline`, `MainChainCache`,
   `RegistrationQueue`, `SimulationLifecycle`, `TrackerServer`, `ProofExchange` and
   `SourceSelection`, on `InductionLemmas`.
10. *done* The proof of `HonestProofsPass` for caches that do not lag, in `ProofExchangeProofs`.

Composition: `SimulationLifecycle` takes the tracker for `TrackerFlags`, which `TrackerServer` is
proved to implement; `BlockPipeline` treats one node in full detail, and `ProofExchange` takes its own
chain with appends and commits as single steps, which is what the theorems about the pipeline
justify (committed content is frozen, sends are confirmed and in order).  Both treat the main
chain as the set described by `KnownAbstracts`, which `MainChainCache` is proved to implement.

## 3. Modules

### BlockPipeline, ConfirmedDelivery, BlockPipelineProofs

One node.  Blocks are numbers (0 is genesis); `hasTx`, `nextCommitted`, `hasAbstract`, `finalized`
and `lastCommitted` are the fields of `Block` and `Chain`.  `patternPc` and `senderPc` are the
control points of the two threads; every read or write of a shared field that the other thread
can tell apart is a step.

| action | code |
|---|---|
| `RunLoop`, `NotEnoughMoney`, `AppendBlock`, `AddTransaction`, `CommitBlocks` | `CancellableInfiniteRunnable.run`, `ITransactionPattern.doAction`, `commitBlocks` |
| `SubmitAbstract`, `CommitReturns`, `CommitThrows`, `RecordCommit`, `WalkBack`, `FinalizeBlock` | `Block.commit`, `TendermintChain.commitAbstract`, `ABCIClient.commit` |
| `AppendExtra`, `Finish` | `ITransactionPattern.onStop`, `commitExtraEmpty`, `Application.finishTransactionSending`, `TransactionSender.waitUntilDone` |
| `StartSweep`, `ScanStep`, `ScanEnd`, `Decide`, `SendBlock`, `SendTransaction`, `SweepDone` | `TransactionSender.run`, `sendAllBlocksThatCanBeSent`, `sendBlock`, `sendTransaction` |
| `Include`, `Reject`, `UpdateCache` | the main chain (external) and the cache |
| `Start`, `Stop`, `Kill` | `Application.startTransacting`, `stopTransacting`, `kill` |

The write in `Block.isOnMainChain` (it fills in the pointer of a block found on the main chain)
is the identity on the own chain, where the pointer was set by `Block.commit`; it matters for
copies and is part of `ProofExchange`.  The cache of the node may learn of abstracts in any
order, which is more than `TendermintChain` does.  `ConfirmedDelivery` says what a peer may rely
on: at most once, in block order, confirmed, frozen content.

### ProofExchange, MCProofExchange, ProofExchangeProofs

Several nodes.  A script fixes who pays whom from which sources; the order of everything else is
free.  `StartProof` and `AddSource` follow `ProofConstructor`: a proof is built one source at a
time, and meta knowledge is read anew for each, so that a handler thread can change it in
between.  `SendProof`/`SendFails` write the message; `Verify` and `Apply` are the two halves of
`CommunicationHelper.receiveTransaction`, between which handlers of other connections run.
`Decodes`, `Verifies`, `IsValid` translate `Proof`, `ChainView`, `LightView` and `Verification`.
Amounts and signatures are left out: a transaction is named by its chain and block, it spends its
sources entirely and leaves a remainder that later payments may spend.  `Sorted` is the `TreeSet`
of the sources: by chain, then by number.

### MainChainCache, KnownAbstracts, MainChainCacheProofs

`EndBlock` is the ABCI callback, `TakeTask` and `Update("pool")` the pool thread, `Status` and
`Update("init")` the initial update.  An update (`Begin`, `QueryAnswered`, `QueryFails`, `Lock`,
`AddToCache`, `Unlock`, `ReadHeight`, `WriteHeight`) is `updateCacheBlocking`; the last line of it
is two steps because `currentHeight` is read and written without a lock.  A main-chain block is a
sequence of Booleans: whether each entry can be parsed, since `ABCIClient.query` returns what
comes before the first malformed entry, and null when that is nothing.

### RegistrationQueue, RegistrationQueueProofs

Every queue there has been stays in `queues`; the last one is the field
`transactionsToRegister`, the ones before it are the tasks of the pool in order.

| action | code |
|---|---|
| `Receive`, `Add` | the two halves of `transactionsToRegister.add(...)`: the volatile field is read, then the queue it held is added to |
| `FetchAgain`, `CheckSize` | the first check of the size, a second read of the field |
| `Swap` | the `synchronized` block: check, swap, submit to the pool |
| `StartBatch`, `Take` | the iterator of `sendTransactions`, which is one element ahead of what it returned |
| `Post`, `PostFails` | the request; `AddTransactions` is the tracker's `/register-transactions` |

### SimulationLifecycle, MCSimulationLifecycle, SimulationLifecycleProofs

Every process runs `SimulationMain.main`; `phase` is how far it is. All they share is the
tracker: the list of nodes (`registered`) and their running flags (`flagged`).

| action | code |
|---|---|
| `Cleanup`, `RegisterNode`, `Registered`, `WaitForRegister` | phases 0 to 2 of `main`, `cleanup`, `registerOwnNodes`, `waitForRegister` |
| `StartThreads`, `Initialize`, `InitFails`, `Bind`, `MarkRunning` | `Simulation.runNodesLocally`, `Application.init`, `SocketServer.initServer` in its own thread, `TrackerHelper.setRunning` |
| `WaitForInitialize`, `SendTo`, `BroadcastEnds`, `Wakes` | `waitForInitialize`, `Simulation.initialize`, `start`, `stop`, `broadcastMessage` |
| `SetTransactionPattern`, `UpdateNodes`, `StartTransacting`, `StopTransacting` | the handlers of the four messages |
| `Pay`, `SendPayment`, `Finish` | the pattern and sender threads, `finishTransactionSending` (`BlockPipeline` has their detail: that the flag is cleared when nothing is left to send is its theorem `StoppedIsDrained`) |
| `WaitForStop`, `MainFails` | `waitForStop`, `stopLocalNodes`; an exception that ends `main` |

Two things about time are built into guards. `Wakes`: nobody is still waiting for the nodes to
run when the 600 seconds of the simulation are over. `Cleanup`: the other processes are started
after the master has reset the tracker. Without the second a late reset would empty the list, for
which the program has no remedy.

### SourceSelection, MCSourceSelection, SourceSelectionProofs

A payment of one node. `required` is what `TransactionCreator.chainsRequired` returns, any set of
chains for each transaction. `Group` is step 1 of `bestSources`, `VisitGroup` one iteration of
`firstRound`, `Combine` one of the inner loop of `doOneRound`; `EndFirstRound` and `EndRound` are
the code between the loops with `cleanup`. The collections are hashed, so that the loops visit
their elements in any order (a little more than the code can do: the inner loop may take another
order for each element of the outer one). `Spend` and `AddRemainder` are the rest of
`createTransaction`, two critical sections of `LocalStore`; `Receive` is a payment that a handler
thread adds at any time. `Wrapped` is the addition of `TransactionTuple.amount`, an `int`.

### TrackerServer, NodeList, TransactionList, TrackerFlags, MCTrackerServer, TrackerServerProofs

The JavaScript of `src/tracker-server`. `NodeList` and `TransactionList` are its two classes of the
same names as operators on a record or function: the array of nodes, which may have holes, is the
function from the ids that are there; of the transactions of an edge their number is kept, since
nothing else is read. `TrackerServer` is the server with those who use it. A handler is one action,
because JavaScript does not interleave them; each action of a process is one request and what the
process makes of the answer.

| action | code |
|---|---|
| `Start`, `Reset` | the start of `SimulationMain` with `cleanup`, `/reset` |
| `RegisterNode`, `SetNodeStatus` (`MarkRunning`, `MarkStopped`) | `/register-node`, `/set-node-status`, with the calls of `TrackerHelper` |
| `WaitForRegister`, `WaitForInitialize`, `WaitForStop`, `FetchNodes` | `/status` when it has the awaited number, `/` |
| `SendTransactions`, `RegisterTransactions`, `RegisterTransaction` | the pool thread of `TrackerHelper`, `/register-transactions`, `/register-transaction` |
| `DataHeartbeat`, `Heartbeat` | the two timers |
| `WriteData`, `Written`, `WriteFails` | `/write-data`, its callback, an error of `fs.writeFile` with the `uncaughtException` handler of `app.js` |
| `Connect`, `Closed`, `Break`, `Read` | `/topn/updates` with `Topic.add`, its close handler, the network, `onmessage` of `demo.js` |

`PaymentsAssumption` says of the constants `Batch` and `Single` what every transaction of the
ledger satisfies: it goes from one node to another.

`SimulationLifecycle` has the simulation in detail and takes the tracker for two sets;
`TrackerServer` has the server in detail and takes the processes for their requests.
`TrackerFlags` is what both agree on. The public key of a node is the number of the start of its
process, since keys are generated at each start. `posted` and `disturbed` are history: what was
registered since the last reset, and which processes ran when the lists were lost. What
`/write-data` puts into its files is the lists as they are when it is called, a copy that is not
kept. An error in writing ends the server with the Node.js versions this code was made for, which
take `fs.writeFile` without a callback; it is then started again by hand. No process of the
simulation sends `/register-transaction`; `SingleAfter` bounds when somebody does.

### InductionLemmas

Facts about data that several proofs need: a nonempty set of numbers has a least element,
induction over numbers and over the subsets of a finite set, the list of a finite set in a given
order, `FlattenSeq`, and sums over finite sets (`MapThenSumSet`).

## 4. Runs

`CHECK_DEADLOCK FALSE` is set throughout: a node that was killed, or a bounded script that is
done, really stops.

| run | instance | what it shows |
|---|---|---|
| `pipeline_safety` | 2 required commits, commit every 2 blocks, 3 pending, 8 blocks, failing commits | every interleaving of the two threads; all safety properties and the refinement of `ConfirmedDelivery`. Seven blocks after genesis hold two commit intervals, the forced commit and the three extra blocks, so that starts, stops, restarts and failures all overlap |
| `pipeline_liveness` | the same, commits succeed, 4 pending, 9 blocks | stopping ends, room returns, confirmed is sent |
| `pipeline_stuck_stop` | small | violation, section 7 |
| `exchange_races` | two nodes paying each other with money of a third | proofs built while the peer reports the same blocks: money stays spent once, and an honest proof is refused only if it was overtaken |
| `exchange_faults` | a line of three payments among three nodes, commits in pairs or forced by a stop, lagging caches, failing connections | payments get lost, but never counted twice; copies stay closed under sources and lead to committed blocks; every payment arrives unless one was lost to the network or to a cache that was behind. A payment that is passed on needs two chains in its proof, and the pairs make updates end anywhere |
| `exchange_nothing_new` | small | violation, section 7 |
| `cache` | 3 heights, empty, parsed and malformed blocks, two updating threads | what counts as read is in the cache, `KnownAbstracts` is implemented, every abstract reaches the cache. Three heights let one update overtake the other by more than one. Requests fail only until Tendermint runs, or ReachesCache could not hold; the theorems cover requests that fail at any time |
| `registration` | 2 receivers, batches of 2, 6 payments, failing requests | nothing is registered twice, batches are full, queues are bounded, full queues are sent. Three batches let a receiver be late by more than one |
| `registration_forgotten` | the same | violation, section 7 |
| `lifecycle` | 2 processes with a node each, any failure | nodes are killed when all are done, know each other when they transact, and the simulation ends unless something failed. Each process waits for a node of the other, so every wait crosses a process border |
| `sources` | 3 unspent transactions and a late one, 3 chains, values 1 and 2, amounts 1, 3 and 6, integers of 4 bits | cheapest sources, conserved money. Up to 4 groups make three rounds; 8, the sum of all, is the one that overflows. Chains and transactions are interchangeable (symmetry; no liveness in this run) |
| `tracker` | 2 nodes in processes of their own, the master started twice, 3 payments, a page with 2 streams, 2 events in flight, 2 data points | fetched lists are whole, the graph is that of the payments, pages come to show it, the list of nodes implements `TrackerFlags`. Two ids are enough for a hole, because the higher one may register first; the second start of the master is a reset under a running process, with a batch of the old run on its way; two streams let the close event of the first one come after the second was opened; payments in both directions share an edge |

Bounds: `MaxBlock` (blocks of the own chain), `MaxSources` and the length of the scripts,
`Stoppers` (who is told to stop), `MaxHeight` (main chain), `MaxStarts`, `MaxConnections`,
`MaxPoints` and `SingleAfter` (tracker server).  They appear as guards of the action that would
exceed them and nowhere else.  `MaxInFlight` is the one that holds back several actions: while a
page has that many unread events whatever would send it another one has to wait.

## 5. Fairness

- Threads: weak fairness of each thread of the code.  The JVM schedules them and none holds a
  lock while waiting for another.
- Main chain: an abstract that was submitted is decided and reaches the cache.  The first is an
  assumption about Tendermint; the second is `ReachesCache` of `MainChainCache`, which holds when
  requests are answered once Tendermint runs; it would fail otherwise (section 7).
- `exchange_faults`: the program does not stand still while any of its threads can go on. Every
  script ends, so this is all that fairness of the single threads would give. Nothing is assumed
  about the network: a message is handled in the end, or its connection breaks.
- Tendermint calls `endBlock` for every block (`cache`).
- `registration`: receivers that are inside `registerTransaction` go on, and the pool thread
  works; payments need not come.
- `lifecycle`: main programs, starting threads, servers, handlers, senders and executors run.
  Nothing is assumed about requests and messages that may fail: a failure is remembered
  (`failed`), and the liveness property excuses what comes after one.
- `tracker`: the heartbeat of the server fires, a page reads its stream and, when it breaks, opens
  another one, as `EventSource` does by itself. No process, batch or reset has to come. The page is
  only promised something while its stream stays open, and once the lists no longer change.

## 6. Proofs

`BlockPipelineProofs` proves for all values of `RequiredCommits`, `CommitEvery`,
`MaxBlocksPending`, `MaxBlock` and with failing commits:
`TypeCorrect`, `SentOnlyConfirmed`, `SentExactlyOnce`, `StoppedIsDrained`,
`PointersToNearest`, `CommitsAreNeverRefused`, `CommittedStaysFrozen`,
`PipelineImplementsDelivery` (the refinement) and, when the limit is not 0, `PendingStaysBounded`.
None of the properties is inductive.  The invariant `IInv` adds: the pointers lead upwards to
blocks that point at themselves (`PointerInv`); what the pattern thread knows at each control
point (`PatternInv`), in particular that a block being filled lies above every submitted abstract;
the list the sweep collects is ascending, in the cache and above `alreadySent` (`ScanInv`), so its
k-th element from the end has k confirmations (`ListConfirms`); what was sent lies below some
committed block (`AnchorInv`); a walk has left no gap below the block it commits (`WalkInv`). `AnchorInv` is
why a chain that ends in an unfilled block cannot be mistaken for a drained one.
`PendingInv` relates what waits for the sender to the limit at each control point of the pattern
thread. The limit of 0 has to be left out: `blocksWaiting` is negative once the sender has gone
past the last transaction, so that a restarted pattern takes a block for sent before it is.

`MainChainCacheProofs` proves for every height and content of the main chain:
`TypeCorrect`, `HeightHasBeenRead`, `NoHeightIsSkipped` and `CacheImplementsKnown`.  The invariant
adds that an update that reaches its end has read up to its target and that the `currentHeight`
it saw had been read, so that whichever of the two it writes has been read (`UpdateInv`).

`RegistrationQueueProofs` proves for every finite set of receivers, every batch size, every number
of payments and with failing requests: `TypeCorrect`, `OnlyFullBatches`, `BoundedQueues` and
`CountedOnce`.  `SizeInv` counts: every element of the open queue beyond `RegisterEvery - 1`
belongs to a receiver that has not passed its check yet, and those still to be added to a queue
that was swapped are counted with it, which is why no queue can outgrow the receivers.  `PlacesInv` says that a registration is in one
place of one queue, or still with its receiver; `ArrayInv` that the request holds what the iterator
passed; `CountInv` that what the tracker counted was in a queue before the one being sent.
Together they make the next request disjoint from everything the tracker has.

`SimulationLifecycleProofs` proves for any number of processes and any finite set of nodes, with
faults: `TypeCorrect`, `KilledOnlyWhenDone` and `TransactorsKnowAll`.  `ResetInv` and
`RegisteredInv` say that the reset of the tracker comes before everything else and that the list is
complete from when a process saw as many nodes as there are (`AllOfThem`: counting is enough).
`FlagInv`: once a process saw all flags, a flag that is missing was cleared by a node that is done;
`StartInv`: a node gets one start, so that done is for ever; `OwedInv`: who is done owes nothing.
`KnownInv`: the request to fetch the list was handled, or lies in the inbox, before the start.
That the other processes begin after the reset is part of the model (section 3), not a conclusion.
`TrackerIsFlags` says that all this uses the tracker as `TrackerFlags` allows.

`TrackerServerProofs` proves for any processes, nodes, pages and numbers of starts: `TypeCorrect`,
`FetchesAreWhole`, `ServerImplementsFlags` and `GraphShowsPayments`. `FetchesAreWhole` needs three more facts about a
process that is not disturbed: the nodes it was told of are in the list with the keys it made
(`OwnAreThere`, since nobody else registers them), it has been told of all of them when it waits
(`OwnAreTold`), and between the complete status and the request for the list the list stays
complete (`CompleteAtFetch`, since only a reset or an exit shortens it, and both disturb whoever
runs). The refinement needs the types only: an id that is not in the list is not marked.
`GraphShowsPayments` is about what the list computes in a loop over each batch: `GraphInv` says that
its edges and totals count what was posted since the last reset (`Counts`) and that every data point
has the averages of the first so many payments, more of them than the point before (`PointsAreOf`).
The fold over a batch is proved to add up to that by induction on the part of the batch it has been
through.

`ProofExchangeProofs` proves for any finite set of nodes, any script of payees, any choice of
sources, and with every failure the model has: `TypeCorrect`, `MoneyIsSpentOnce`,
`PointersAreCommitted`, `SourcesAreAtHand`, `PaymentIsInOnePlace` and `ProofsAreNotAbandoned`: a
source that `ProofConstructor` comes to is a block the node has, below a committed one, so that the
search for the blocks to send never ends in an exception; and, under `~CacheLags`,
`HonestProofsAreAccepted`.  Four invariants carry them.

- `MoneyInv`: what is unspent at a node was given to it and no block of its chain spends it
  (`UnspentIsGiven`), what it spent was given to it and spent in one block (`SpentWasGiven`), and a
  payment that passed verification has not been taken in yet (`VerifiedIsNew`), so that taking it in
  cannot put back what is spent.
- `ChainInv`: the pointers of a copy lead to committed blocks that the copy has (`AllSegments`);
  the blocks of a message ascend, are joined by the pointers they carry and end in a committed
  block (`AllShaped`); so do those of a proof that is being built, which the sender has, and
  which hold what the sources it has been through need (`AllBuilt`); what passed verification
  attaches to the receiver's copies and brings every source it needs (`AllComplete`).  Hence a node
  has the blocks of its unspent money (`UnspentAtHand`) and its copies are closed under sources.
- `PlaceInv`: what is in a channel or was accepted has been handed over by the sender thread, which
  goes through its chain once (`AcceptedWasSent`, `ProofIsSent`, `SentIsThere`), at most once
  and not both (`MessagesWereSent`); and without failures what was handed over is in one of the
  two (`AllPlaced`).
- `HonestInv`, for caches that have all that is committed (`FullCaches`): the pointers of a copy then
  lead to the *next* committed block (`AllDirect`), so that two parts of a proof that end in
  committed blocks are joined without a gap even when they were read at different times
  (`ProofsJoined`, `MessagesJoined`), and a sender has what it tells of (`SendersHave`).  As long as
  nothing failed (`QuietInv`): every block that a sender takes its peer to know is in the
  peer's copy or in a message under way to it (`KnownReached`, where `Reached(s, r, m, k, b)` says that r
  will have b of m's chain once it took in k messages of s), each message attaches to the
  copy as it will be when its turn comes (`MessagesAttach`), and a message that nothing overtook
  brings, or finds at its receiver by then, every source that its blocks need (`CalmMessages`,
  from `CalmProofs` for the proof under construction).  At the head of its channel such a message passes
  `decode` and `isValid` (`DueIsDecoded`, `DueIsValid`): all it depends on is
  there (`SoundSources`), has sources before it (`SourcesEarlier`), and is spent once.  The
  recursive `History` of a transaction is followed along the sources of the sources (`StepsGoOn`), which are
  finitely many.  The argument needs
  `~CacheLags`: with a cache that is behind, the pointer of a copy may lead past a committed block, and
  a proof may end elsewhere than the next one begins.  The run that checks the property has
  `CacheLags = FALSE` too.

`SourceSelectionProofs` proves for any transactions, values, chains they require and amount:
`TypeCorrect`, `MoneyIsConserved` and `SourcesAreCheapest`.  The last says that the pruned search
finds what the definition asks for: sources that cover the amount, and no others that do require
fewer chains.  The typing lemma says that unspent transactions, values and requirements stay those
there were at the beginning (`FromBase`), that the best cost is that of the best tuple
(`BestKnown`) and that there are no more rounds than groups (`FewRounds`).  `SearchInv` says what
the search may have skipped. Groups are disjoint and each of one requirement (`Apart`); every
transaction that requires fewer chains than the best is in one of them (`NoneIsLost`); what was
visited and kept does not cover the amount (`VisitedFallShort`). In round k no combination of up to
k + 1 groups that is cheaper than the best covers the amount, those of k + 1 are all there, and
those of k + 2 were made or have a pair that is still to be looked at (`EachCombination`).  A
larger combination comes from a pair of smaller ones in whatever order the loop takes them, which
is why a round loses none; when fewer than two are left the next round has nothing to make, and
larger ones are too expensive (`NothingCheaper`, `RefusedIsTooMuch`).  All but the first hold as
long as the sums fit into an `int`, like the property itself.

`InductionLemmas` states what these proofs use of folds, sorted sequences and finite sets.  The
induction theorems of the library take an operator as a parameter, which the provers cannot
instantiate; here an induction is over the *set* of numbers, or of subsets, for which the claim
holds (a least element outside it is a contradiction), which they can.  That is how sums over a set, the
flattening of a sequence of sequences and the sequence that lists a set in order are reasoned about.

Assumptions: the named `ASSUME`s on the constants, evaluated by TLC in every run.  Only
model-checked: all liveness (`EveryPaymentArrives`, `PagesShowNow`, `ReachesCache` and the others), which is beyond
the prover.  `HonestProofsPass` is checked and proved for caches that do not lag; for caches that do
it is neither.

## 7. Disagreements between code and documentation

Each of the first is a run that TLC must find violated.

- `pipeline_stuck_stop`: `Block.commit` ignores that the commit failed; the block becomes the
  last committed block, and a stopping node waits for ever.
- `exchange_nothing_new`: `ProofConstructor.addBlocksToSend` compares list lengths that no longer
  start at the same block when meta knowledge grew in between; a block is left out of the proof
  and the payment is lost.
- `registration_forgotten`: `registerTransaction` adds to the queue outside the lock under which it
  is swapped; a registration that comes too late for the batch is never sent.

Smaller ones, seen while modelling and not kept as runs:

- `TransactionSender.blocksWaiting` can be -1 when the sender has gone past the last block with a
  transaction; the comparisons it is used in (`<= 0`, `<= MAX_BLOCKS_PENDING`) do not mind.
- `SimulationMain.MAX_BLOCKS_PENDING` (50) limits the payments that wait for their commit; a limit
  of 0 would let one wait after a restart, because of that -1 (`PendingStaysBounded` needs at
  least 1).
- `ProofConstructor.java:121` asserts `current.containsAll(toAdd)`, the containment the other way
  round from its comment; it would fail for the second source on a chain.
- `MetaKnowledge` is said to hold what the receiver knows; a receiver whose cache lags refuses the
  proof, and the sender goes on believing that it knows the blocks (`HonestProofsPass` says
  that only this and overtaken proofs make a receiver refuse).
- `MainChain.isPresent` is said to tell whether an abstract is on the main chain; an update of the
  cache gives up at a failed request (`TendermintChain.java:157`), so the abstracts of the last
  block of the main chain may be denied for ever.
- `Application.init` marks the node as running before its server socket is bound; the pattern that
  the master broadcasts when all are marked may fail to arrive, is not sent again, and the node
  never starts (a failure in `SimulationLifecycle`).
- `LocalStore.getNode` says "Retrieves it from the tracker if it's not in the local store"; it only
  looks into its map.
- `TransactionTuple.amount` is an `int`; a sum beyond 2^31 wraps round, and a payment is refused
  for which there is money.
- Fewer than `REGISTER_TRANSACTIONS_EVERY` registrations at the end of a run are never sent.
- `NodeList.updateNode` says "Adds or updates a node" and that it returns "whether the id was
  valid"; `if (!!this.nodes[id]) return false` refuses the nodes that exist, and of an id without a
  node it dereferences `undefined`.
- `/set-node-status` answers success whether or not the id is in the list, and an error 500 for a
  hole.
- Each `/reset` starts one more timer for data points and none is stopped; `timers` counts them.
- `/write-data` answers with the data points that are there when the file is written, not with those
  that are in it.
- `currentHeight` can fall in spite of `Math.max`, since its read and its write are two steps;
  `HeightIsRead` shows that this is harmless.

## 8. What is not modelled

- Cryptography, hashes, serialisation, HTTP, Netty: an abstract is identified with its block, a
  message with its content.
- Corruption of unsynchronised collections (`HashMap`, `HashSet`) under concurrent use: look-ups
  and insertions are single steps.  A `HashSet.contains` that misses an element that is present
  would end a sweep early, which the next sweep makes up for.
- Amounts of money, except in `SourceSelection`: elsewhere sources are spent entirely and
  remainders are optional.
- The drawing of the demo page (its layout and options), logging, Tendermint set-up, test mocks.
- The retry of `ABCIClient` with the previous hash, idle time-outs of connections, the threads
  that start Tendermint. `Simulation.runNodesLocally` fills `localApplications` as the nodes come
  up; that it is full when the simulation stops is part of the assumption about time above.
- Of the tracker server: `/update-node`, which refuses every node that exists and throws for a hole,
  so that it never changes anything; `/node` and `/demo`, which only read and are not used by the
  simulation; the choice of the port, the pages for errors and the refusal of incomplete requests
  (the clients send complete ones); the answer of `/write-data`, which nobody reads.
- Real time: how often timers fire and how long anybody sleeps.
