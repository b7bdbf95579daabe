--------------------------- MODULE BlockPipeline ---------------------------
(***************************************************************************)
(* One node of the ledger and the two threads that share its own chain.    *)
(*                                                                         *)
(* The pattern thread (ITransactionPattern run by a                        *)
(* CancellableInfiniteRunnable) appends blocks to the node's own Chain,    *)
(* one transaction each, and every CommitEvery blocks commits the last     *)
(* one: it puts the block's abstract on the main chain and then walks back *)
(* over the uncommitted blocks, pointing their nextCommittedBlock at it.   *)
(* The sender thread (TransactionSender) sweeps the chain from the first   *)
(* unsent block, hops along the nextCommittedBlock pointers, and sends     *)
(* every block below which at least RequiredCommits committed blocks have  *)
(* shown up in the node's cache of the main chain.  When the pattern is    *)
(* cancelled it force-commits, appends RequiredCommits + 1 empty committed *)
(* blocks and waits until the sender has drained the chain.                *)
(*                                                                         *)
(* The threads share the chain without a lock, so each read or write of a  *)
(* shared field that the other thread can tell apart is a step of its own. *)
(***************************************************************************)
EXTENDS Integers, Sequences, FiniteSets

CONSTANTS
    RequiredCommits,   \* SimulationMain.REQUIRED_COMMITS
    CommitEvery,       \* ITransactionPattern.getCommitEvery()
    MaxBlocksPending,  \* SimulationMain.MAX_BLOCKS_PENDING
    MaxBlock,          \* bound: the number of the last block of the chain
    CommitCanFail      \* whether the main chain may fail to commit an abstract

ASSUME ConstantsAssumption ==
    /\ RequiredCommits \in Nat \ {0}
    /\ CommitEvery \in Nat \ {0}
    /\ MaxBlocksPending \in Nat
    /\ MaxBlock \in Nat
    /\ CommitCanFail \in BOOLEAN

Block == 0 .. MaxBlock      \* blocks are named by their number, 0 is genesis
NoBlock == -1               \* a null reference to a block

VARIABLES
    last,           \* number of the last block of the own chain
    hasTx,          \* hasTx[b]: block b holds a transaction
    nextCommitted,  \* Block.nextCommittedBlock
    hasAbstract,    \* ~Block.hasNoAbstract
    finalized,      \* Block.finalized
    lastCommitted,  \* Chain.lastCommittedBlock
    inFlight,       \* abstracts submitted to the main chain, not yet decided
    mainChain,      \* blocks whose abstract is on the main chain
    cache,          \* TendermintChain.cache: those this node knows of
    patternPc,      \* control point of the pattern thread
    mode,           \* on whose behalf it commits: "run", "force" or "extra"
    walk,           \* block the walk of Block.commit looks at
    extra,          \* empty blocks appended by commitExtraEmpty so far
    cancelled,      \* CancellableInfiniteRunnable.cancelled
    senderPc,       \* control point of the sender thread
    alreadySent,    \* TransactionSender.alreadySent
    limit,          \* lastBlockNr of the current sweep
    index,          \* index of the current sweep
    committed,      \* the list of committed blocks the sweep has found
    lastToSend,     \* last block the current sweep sends
    attempts        \* attempts[b]: times the transaction of b was handed to
                    \* the socket client

chainVars   == <<last, hasTx, nextCommitted, hasAbstract, finalized,
                 lastCommitted>>
ledgerVars  == <<inFlight, mainChain, cache>>
patternVars == <<patternPc, mode, walk, extra, cancelled>>
senderVars  == <<senderPc, alreadySent, limit, index, committed, lastToSend,
                 attempts>>
vars == <<chainVars, ledgerVars, patternVars, senderVars>>

PatternPc == {"idle", "loop", "create", "addTx", "commitCheck", "append",
              "submit", "await", "record", "walk", "drain"}
SenderPc  == {"sleep", "scan", "decide", "send", "tx", "dead"}

ChainType ==
    /\ last \in Block
    /\ hasTx \in [Block -> BOOLEAN]
    /\ nextCommitted \in [Block -> Block \cup {NoBlock}]
    /\ hasAbstract \in [Block -> BOOLEAN]
    /\ finalized \in [Block -> BOOLEAN]
    /\ lastCommitted \in Block

LedgerType ==
    /\ inFlight \in SUBSET Block
    /\ mainChain \in SUBSET Block
    /\ cache \in SUBSET mainChain

PatternType ==
    /\ patternPc \in PatternPc
    /\ mode \in {"run", "force", "extra"}
    /\ walk \in Block \cup {NoBlock}
    /\ extra \in 0 .. RequiredCommits + 1
    /\ cancelled \in BOOLEAN

SenderType ==
    /\ senderPc \in SenderPc
    /\ alreadySent \in Block
    /\ limit \in Block
    /\ index \in 1 .. MaxBlock + 1
    /\ committed \in Seq(Block)
    /\ lastToSend \in Block
    /\ attempts \in [Block -> Nat]

TypeOK == ChainType /\ LedgerType /\ PatternType /\ SenderType

Init ==
    /\ last = 0
    /\ hasTx = [b \in Block |-> b = 0]
    /\ nextCommitted = [b \in Block |-> IF b = 0 THEN 0 ELSE NoBlock]
    /\ hasAbstract = [b \in Block |-> b = 0]
    /\ finalized = [b \in Block |-> b = 0]
    /\ lastCommitted = 0
    /\ inFlight = {}
    /\ mainChain = {0}
    /\ cache = {0}
    /\ patternPc = "idle"
    /\ mode = "run"
    /\ walk = NoBlock
    /\ extra = 0
    /\ cancelled = FALSE
    /\ senderPc = "sleep"
    /\ alreadySent = 0
    /\ limit = 0
    /\ index = 1
    /\ committed = <<>>
    /\ lastToSend = 0
    /\ attempts = [b \in Block |-> 0]

-----------------------------------------------------------------------------
(* What both threads compute from the chain.                               *)

\* The first of the empty blocks at the end of the chain, or the last block
\* when that one holds a transaction.
FirstOfTail ==
    IF hasTx[last]
    THEN last
    ELSE CHOOSE b \in 0 .. last :
            /\ \A d \in b .. last : ~hasTx[d]
            /\ b = 0 \/ hasTx[b - 1]

\* blocksWaiting() without the extra empty block it counts.
BlocksWaitingExact ==
    (IF hasTx[last] THEN last ELSE FirstOfTail - 1) - alreadySent

BlocksWaiting == FirstOfTail - alreadySent

\* Slip: the limit is tested with <=.
HasRoomForOneMore == BlocksWaiting <= MaxBlocksPending

HasRoom == BlocksWaiting < MaxBlocksPending

OnMainChain(b) == hasAbstract[b] /\ b \in cache

ShouldCommitLate == last - lastCommitted > CommitEvery

ShouldCommit == last - lastCommitted >= CommitEvery

HasUncommitted == last # lastCommitted

FewerExtraCommits == RequiredCommits - 1

ExtraCommits == RequiredCommits + 1

-----------------------------------------------------------------------------
(* The lifecycle of the pattern thread, driven by the simulation.          *)

\* Application.startTransacting: only when no pattern thread is alive.  The
\* bound leaves room for the blocks onStop appends.
Start ==
    /\ patternPc = "idle" /\ senderPc # "dead"
    /\ last + ExtraCommits <= MaxBlock
    /\ patternPc' = "loop"
    /\ cancelled' = FALSE
    /\ UNCHANGED <<chainVars, ledgerVars, mode, walk, extra, senderVars>>

\* Application.stopTransacting.
Stop ==
    /\ patternPc # "idle" /\ ~cancelled
    /\ cancelled' = TRUE
    /\ UNCHANGED <<chainVars, ledgerVars, patternPc, mode, walk, extra,
                   senderVars>>

\* Application.kill, called by the simulation once the node reported that it
\* stopped: the sender's executor is shut down where it is.
Kill ==
    /\ patternPc = "idle" /\ senderPc # "dead"
    /\ senderPc' = "dead"
    /\ UNCHANGED <<chainVars, ledgerVars, patternVars, alreadySent, limit,
                   index, committed, lastToSend, attempts>>

-----------------------------------------------------------------------------
(* The pattern thread.                                                     *)

\* The top of the loop of run(): leave it when cancelled, else start an
\* action when there is room for one more block.
RunLoop ==
    /\ patternPc = "loop"
    /\ \/ /\ cancelled
          /\ patternPc' = "commitCheck"
          /\ mode' = "force"
       \/ /\ ~cancelled
          /\ HasRoom
          /\ patternPc' = "create"
          /\ mode' = "run"
    /\ UNCHANGED <<chainVars, ledgerVars, walk, extra, cancelled, senderVars>>

\* The node cannot pay for a transaction.
NotEnoughMoney ==
    /\ patternPc = "create"
    /\ patternPc' = "loop"
    /\ UNCHANGED <<chainVars, ledgerVars, mode, walk, extra, cancelled,
                   senderVars>>

\* Slip: the transaction goes into the last block instead of a new one.
ReuseLastBlock ==
    /\ patternPc = "create"
    /\ patternPc' = "addTx"
    /\ finalized' = [finalized EXCEPT ![last] = FALSE]
    /\ UNCHANGED <<last, hasTx, nextCommitted, hasAbstract, lastCommitted,
                   ledgerVars, mode, walk, extra, cancelled, senderVars>>

\* Chain.appendNewBlock in doAction.
AppendBlock ==
    /\ patternPc = "create"
    /\ last + 1 + ExtraCommits <= MaxBlock
    /\ last' = last + 1
    /\ patternPc' = "addTx"
    /\ UNCHANGED <<hasTx, nextCommitted, hasAbstract, finalized, lastCommitted,
                   ledgerVars, mode, walk, extra, cancelled, senderVars>>

\* Block.addTransaction: refused when the block is finalized.
AddTransaction ==
    /\ patternPc = "addTx"
    /\ IF finalized[last]
       THEN /\ patternPc' = "loop"
            /\ UNCHANGED hasTx
       ELSE /\ hasTx' = [hasTx EXCEPT ![last] = TRUE]
            /\ patternPc' = "commitCheck"
    /\ UNCHANGED <<last, nextCommitted, hasAbstract, finalized, lastCommitted,
                   ledgerVars, mode, walk, extra, cancelled, senderVars>>

\* Slip: commitExtraEmpty goes round once too often.
AfterOneMore ==
    IF mode = "run" THEN "loop"
    ELSE IF extra <= ExtraCommits THEN "append"
    ELSE "drain"

\* Where the thread goes on after commitBlocks or after one extra commit.
AfterCommit ==
    IF mode = "run" THEN "loop"
    ELSE IF extra < ExtraCommits THEN "append"
    ELSE "drain"

\* An exception ends the action, or all of onStop but its finally block.
AfterException == IF mode = "run" THEN "loop" ELSE "drain"

\* commitBlocks(localStore, force).
CommitBlocks ==
    /\ patternPc = "commitCheck"
    /\ patternPc' = IF HasUncommitted /\ (mode = "force" \/ ShouldCommit)
                    THEN "submit"
                    ELSE AfterCommit
    /\ UNCHANGED <<chainVars, ledgerVars, mode, walk, extra, cancelled,
                   senderVars>>

\* One round of commitExtraEmpty: append an empty block and commit it.
AppendExtra ==
    /\ patternPc = "append"
    /\ last < MaxBlock
    /\ last' = last + 1
    /\ extra' = extra + 1
    /\ mode' = "extra"
    /\ patternPc' = "submit"
    /\ UNCHANGED <<hasTx, nextCommitted, hasAbstract, finalized, lastCommitted,
                   ledgerVars, walk, cancelled, senderVars>>

\* Block.commit up to the request that commitAbstract sends.
SubmitAbstract ==
    /\ patternPc = "submit"
    /\ IF finalized[last]
       THEN /\ patternPc' = AfterException
            /\ UNCHANGED <<hasAbstract, inFlight>>
       ELSE /\ patternPc' = "await"
            /\ hasAbstract' = [hasAbstract EXCEPT ![last] = TRUE]
            /\ inFlight' = inFlight \cup {last}
    /\ UNCHANGED <<last, hasTx, nextCommitted, finalized, lastCommitted,
                   mainChain, cache, mode, walk, extra, cancelled, senderVars>>

\* commitAbstract returns.  Block.commit goes on whatever it returned: the
\* hash of a committed abstract, or null when the request failed or timed out.
CommitReturns ==
    /\ patternPc = "await"
    /\ last \in mainChain \/ CommitCanFail
    /\ patternPc' = "record"
    /\ UNCHANGED <<chainVars, ledgerVars, mode, walk, extra, cancelled,
                   senderVars>>

\* commitAbstract throws: ABCIClient.commit reads a field "data" that the
\* error it got need not have.
CommitThrows ==
    /\ patternPc = "await"
    /\ CommitCanFail
    /\ patternPc' = AfterException
    /\ UNCHANGED <<chainVars, ledgerVars, mode, walk, extra, cancelled,
                   senderVars>>

\* setLastCommittedBlock(this) and the block's own pointer.
RecordCommit ==
    /\ patternPc = "record"
    /\ lastCommitted' = IF last > lastCommitted THEN last ELSE lastCommitted
    /\ nextCommitted' = [nextCommitted EXCEPT ![last] = last]
    /\ walk' = last - 1
    /\ patternPc' = "walk"
    /\ UNCHANGED <<last, hasTx, hasAbstract, finalized, ledgerVars, mode, extra,
                   cancelled, senderVars>>

\* Slip: the walk does not stop at blocks an earlier commit covers.
WalkOnAlways == walk > 0

WalkOn == walk # NoBlock /\ nextCommitted[walk] = NoBlock

WalkBack ==
    /\ patternPc = "walk"
    /\ WalkOn
    /\ nextCommitted' = [nextCommitted EXCEPT ![walk] = last]
    /\ walk' = walk - 1
    /\ UNCHANGED <<last, hasTx, hasAbstract, finalized, lastCommitted,
                   ledgerVars, patternPc, mode, extra, cancelled, senderVars>>

FinalizeBlock ==
    /\ patternPc = "walk"
    /\ ~WalkOn
    /\ finalized' = [finalized EXCEPT ![last] = TRUE]
    /\ patternPc' = AfterCommit
    /\ walk' = NoBlock
    /\ UNCHANGED <<last, hasTx, nextCommitted, hasAbstract, lastCommitted,
                   ledgerVars, mode, extra, cancelled, senderVars>>

\* finishTransactionSending: waitUntilDone, then report that we stopped.
Finish ==
    /\ patternPc = "drain"
    /\ BlocksWaiting <= 0
    /\ patternPc' = "idle"
    /\ mode' = "run"
    /\ extra' = 0
    /\ UNCHANGED <<chainVars, ledgerVars, walk, cancelled, senderVars>>

-----------------------------------------------------------------------------
(* The main chain and the thread that fills the cache.                     *)

Include(b) ==
    /\ inFlight' = inFlight \ {b}
    /\ mainChain' = mainChain \cup {b}
    /\ UNCHANGED <<chainVars, cache, patternVars, senderVars>>

Reject(b) ==
    /\ CommitCanFail
    /\ inFlight' = inFlight \ {b}
    /\ UNCHANGED <<chainVars, mainChain, cache, patternVars, senderVars>>

\* TendermintChain.updateCacheBlocking learns of one more abstract.
UpdateCache(b) ==
    /\ cache' = cache \cup {b}
    /\ UNCHANGED <<chainVars, inFlight, mainChain, patternVars, senderVars>>

-----------------------------------------------------------------------------
(* The sender thread.                                                      *)

StartSweep ==
    /\ senderPc = "sleep"
    /\ limit' = last
    /\ index' = alreadySent + 1
    /\ committed' = <<>>
    /\ senderPc' = "scan"
    /\ UNCHANGED <<chainVars, ledgerVars, patternVars, alreadySent, lastToSend,
                   attempts>>

\* Slip: the sweep trusts nextCommittedBlock and never asks the main chain.
FoundUnchecked == nextCommitted[index] # NoBlock

\* The block at index is covered by a commit that the main chain knows.
Found ==
    /\ nextCommitted[index] # NoBlock
    /\ OnMainChain(nextCommitted[index])

NextIndex == nextCommitted[index] + 1

ScanStep ==
    /\ senderPc = "scan"
    /\ index <= limit
    /\ Found
    /\ committed' = Append(committed, nextCommitted[index])
    /\ index' = NextIndex
    /\ UNCHANGED <<chainVars, ledgerVars, patternVars, senderPc, alreadySent,
                   limit, lastToSend, attempts>>

ScanEnd ==
    /\ senderPc = "scan"
    /\ index <= limit => ~Found
    /\ senderPc' = "decide"
    /\ UNCHANGED <<chainVars, ledgerVars, patternVars, alreadySent, limit,
                   index, committed, lastToSend, attempts>>

\* Slip: off by one in committed.get(size - REQUIRED_COMMITS).
ChosenOffByOne ==
    committed[IF Len(committed) > RequiredCommits
              THEN Len(committed) - RequiredCommits + 2
              ELSE Len(committed)]

\* committed.get(committed.size() - REQUIRED_COMMITS), counted from 1 here.
Chosen == committed[Len(committed) - RequiredCommits + 1]

\* The variables of the sweep go out of scope here and in SweepDone; they get
\* their initial values again.
Decide ==
    /\ senderPc = "decide"
    /\ IF Len(committed) < RequiredCommits
       THEN /\ senderPc' = "sleep"
            /\ UNCHANGED lastToSend
       ELSE /\ lastToSend' = Chosen
            /\ senderPc' = "send"
    /\ limit' = 0 /\ index' = 1 /\ committed' = <<>>
    /\ UNCHANGED <<chainVars, ledgerVars, patternVars, alreadySent, attempts>>

\* Slip: only the committed block is sent, not the blocks it covers.
SendCovering ==
    /\ senderPc = "send"
    /\ alreadySent < lastToSend
    /\ alreadySent' = lastToSend
    /\ senderPc' = IF hasTx[lastToSend] THEN "tx" ELSE "send"
    /\ UNCHANGED <<chainVars, ledgerVars, patternVars, limit, index, committed,
                   lastToSend, attempts>>

\* sendBlock marks the block as sent before it sends the transactions of it.
SendBlock ==
    /\ senderPc = "send"
    /\ alreadySent < lastToSend
    /\ alreadySent' = alreadySent + 1
    /\ senderPc' = IF hasTx[alreadySent + 1] THEN "tx" ELSE "send"
    /\ UNCHANGED <<chainVars, ledgerVars, patternVars, limit, index, committed,
                   lastToSend, attempts>>

\* sendTransaction, whether it succeeds, fails or throws: it is not retried.
SendTransaction ==
    /\ senderPc = "tx"
    /\ attempts' = [attempts EXCEPT ![alreadySent] = @ + 1]
    /\ senderPc' = "send"
    /\ UNCHANGED <<chainVars, ledgerVars, patternVars, alreadySent, limit,
                   index, committed, lastToSend>>

SweepDone ==
    /\ senderPc = "send"
    /\ alreadySent >= lastToSend
    /\ senderPc' = "sleep"
    /\ lastToSend' = 0
    /\ UNCHANGED <<chainVars, ledgerVars, patternVars, alreadySent, limit,
                   index, committed, attempts>>

-----------------------------------------------------------------------------
Simulation == Start \/ Stop \/ Kill

PatternThread ==
    \/ RunLoop \/ NotEnoughMoney \/ AppendBlock \/ AddTransaction
    \/ CommitBlocks \/ AppendExtra \/ SubmitAbstract \/ CommitReturns
    \/ CommitThrows \/ RecordCommit \/ WalkBack \/ FinalizeBlock \/ Finish

MainChain ==
    \/ \E b \in inFlight : Include(b) \/ Reject(b)
    \/ \E b \in mainChain \ cache : UpdateCache(b)

SenderThread ==
    \/ StartSweep \/ ScanStep \/ ScanEnd \/ Decide
    \/ SendBlock \/ SendTransaction \/ SweepDone

Next == Simulation \/ PatternThread \/ MainChain \/ SenderThread

Spec == Init /\ [][Next]_vars

\* Both threads of the node keep running, an abstract that was submitted is
\* decided and what is on the main chain reaches the cache.
Fairness ==
    /\ WF_vars(PatternThread)
    /\ WF_vars(SenderThread)
    /\ WF_vars(MainChain)

FairSpec == Spec /\ Fairness

-----------------------------------------------------------------------------
(* Safety.                                                                 *)

Confirmations(b) == Cardinality({c \in cache : b <= c})

\* A block is sent only when REQUIRED_COMMITS blocks with the same or a
\* higher number are on the main chain as far as this node knows, whatever
\* was appended, committed or lost while the sweep ran.
SentIsConfirmed ==
    alreadySent > 0 => Confirmations(alreadySent) >= RequiredCommits

\* The sender has handed over exactly the transactions of the blocks up to
\* alreadySent, each of them once: none is skipped by a sweep that ran while
\* the block was being filled, and none is sent by two sweeps.
SentOnceEach ==
    \A b \in Block \ {0} :
        attempts[b] = IF /\ hasTx[b]
                         /\ b <= alreadySent
                         /\ ~(senderPc = "tx" /\ b = alreadySent)
                      THEN 1 ELSE 0

\* A nextCommittedBlock pointer leads to the nearest block at or above its
\* owner that the pattern thread committed, also half way through a walk: the
\* sweep that follows the pointers misses no commit.
NextCommittedIsNearest ==
    \A b \in Block : nextCommitted[b] # NoBlock =>
        /\ b <= nextCommitted[b]
        /\ nextCommitted[nextCommitted[b]] = nextCommitted[b]
        /\ \A d \in b .. nextCommitted[b] - 1 :
               nextCommitted[d] = nextCommitted[b]

\* The node reports that it stopped, and may be killed, only when every
\* transaction it put in a block has been handed to the socket client; the
\* sender counts a block as sent before it sends the block's transactions.
DrainedWhenStopped ==
    patternPc = "idle" =>
        \A b \in Block \ {0} : hasTx[b] => attempts[b] = 1

\* MAX_BLOCKS_PENDING bounds the transactions a node creates ahead of its
\* sender, although the check and the new block are steps apart and
\* blocksWaiting() does not count the blocks one would expect.
PendingBounded ==
    Cardinality({b \in Block : hasTx[b] /\ b > alreadySent}) <= MaxBlocksPending

\* commitBlocks never commits a block a second time, and a transaction is
\* never added to a committed block: neither exception of Block is reached.
NeverRefused ==
    patternPc \in {"submit", "addTx"} => ~finalized[last]

\* Once an abstract that covers a block has been submitted the block gets no
\* new content, so the hash on the main chain stays the hash of the block.
CommittedContentFrozen ==
    [][\A b \in Block :
         (\E c \in inFlight \cup mainChain : b <= c) => hasTx'[b] = hasTx[b]]_vars

-----------------------------------------------------------------------------
(* Liveness, under Fairness.                                               *)

\* A node that is told to stop reports that it stopped: waitUntilDone ends.
StopTerminates == cancelled ~> patternPc = "idle"

\* The limit on pending blocks never blocks the node for ever.
RoomReturns == BlocksWaiting >= MaxBlocksPending ~>
                   BlocksWaiting < MaxBlocksPending

\* A transaction with enough known commits above it is sent in the end.
ConfirmedIsSent ==
    \A b \in Block \ {0} :
        hasTx[b] /\ Confirmations(b) >= RequiredCommits ~> attempts[b] = 1

-----------------------------------------------------------------------------
(* Refinement: the threads implement the promise of ConfirmedDelivery.     *)

Promise == INSTANCE ConfirmedDelivery WITH
    produced <- {b \in Block \ {0} : hasTx[b]},
    confirmed <- cache,
    sends <- attempts

\* Every step of the two threads is a step of the promise or leaves it alone.
ImplementsDelivery == Promise!Spec
=============================================================================
