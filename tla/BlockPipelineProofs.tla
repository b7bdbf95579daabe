------------------------ MODULE BlockPipelineProofs ------------------------
(***************************************************************************)
(* Theorems about BlockPipeline for every number of required commits,      *)
(* commit interval, pending limit and chain length, with commits that may  *)
(* fail.  IInv is the inductive invariant all of them follow from.         *)
(***************************************************************************)
EXTENDS BlockPipeline, FiniteSetTheorems, TLAPS

\* Nothing the threads or the main chain refer to lies above the end of the
\* chain, and blocks above it are empty.
BoundsInv ==
    /\ hasTx[0]
    /\ 0 \in cache
    /\ lastCommitted <= last
    /\ \A b \in Block : hasTx[b] => b <= last
    /\ \A b \in inFlight \cup mainChain : b <= last

\* nextCommittedBlock leads upwards, to a block that leads to itself.
PointerInv ==
    /\ nextCommitted[0] = 0
    /\ \A b \in Block : nextCommitted[b] # NoBlock =>
           /\ b <= nextCommitted[b]
           /\ nextCommitted[b] <= lastCommitted
           /\ nextCommitted[nextCommitted[b]] = nextCommitted[b]

\* There is a last block with a transaction.
TailInv == \E b \in 0 .. last : hasTx[b] /\ \A d \in b + 1 .. last : ~hasTx[d]

ChainInv == BoundsInv /\ PointerInv /\ TailInv

\* What the pattern thread knows at each control point.
PatternInv ==
    /\ patternPc = "append" => extra < ExtraCommits
    /\ patternPc \in {"idle", "loop", "create", "addTx"} => mode = "run"
    /\ patternPc = "append" => mode # "run"
    /\ mode # "extra" => extra = 0
    /\ mode = "extra" => ~hasTx[last] /\ patternPc # "commitCheck"
    /\ patternPc = "drain" => mode # "run"
    /\ patternPc \in {"submit", "await", "record"} =>
           nextCommitted[last] = NoBlock
    /\ patternPc = "walk" =>
           /\ nextCommitted[last] = last
           /\ lastCommitted = last
           /\ walk < last
    /\ patternPc = "addTx" =>
           /\ ~hasTx[last]
           /\ lastCommitted < last
           /\ \A c \in inFlight \cup mainChain : c < last
    /\ patternPc = "drain" /\ hasTx[last] => nextCommitted[last] = NoBlock

\* The blocks that were sent lie below a committed block.
AnchorInv == \E c \in cache : alreadySent <= c /\ nextCommitted[c] = c

\* What the sweep of the sender thread has found: committed blocks that the
\* main chain knows, each above the one before.
ScanInv ==
    senderPc \in {"scan", "decide"} =>
        /\ alreadySent < index
        /\ \A i \in 1 .. Len(committed) :
              /\ committed[i] \in cache
              /\ nextCommitted[committed[i]] = committed[i]
              /\ alreadySent < committed[i]
              /\ committed[i] < index
        /\ \A i, j \in 1 .. Len(committed) :
              i < j => committed[i] < committed[j]

\* What the sender relies on while it sends.
SendInv ==
    /\ senderPc \in {"send", "tx"} =>
           /\ lastToSend \in cache
           /\ nextCommitted[lastToSend] = lastToSend
           /\ alreadySent <= lastToSend
           /\ Confirmations(lastToSend) >= RequiredCommits
    /\ senderPc = "tx" => alreadySent > 0 /\ hasTx[alreadySent]

SweepInv == AnchorInv /\ ScanInv /\ SendInv

IInv ==
    /\ TypeOK
    /\ ChainInv
    /\ PatternInv
    /\ SweepInv
    /\ SentIsConfirmed
    /\ SentOnceEach
    /\ DrainedWhenStopped

-----------------------------------------------------------------------------
(* Which steps change which group of variables.                            *)

\* The shared chain is written by the appends, the new transaction and the
\* stages of a commit, and by nothing else.
LEMMA ChainFrame ==
    [Next]_vars =>
        \/ AppendBlock \/ AddTransaction \/ AppendExtra \/ SubmitAbstract
        \/ RecordCommit \/ WalkBack \/ FinalizeBlock
        \/ UNCHANGED chainVars
BY DEF Next, Simulation, PatternThread, MainChain, SenderThread, vars,
       Start, Stop, Kill, RunLoop, NotEnoughMoney, CommitBlocks, CommitReturns,
       CommitThrows, Finish, Include, Reject, UpdateCache, StartSweep, ScanStep,
       ScanEnd, Decide, SendBlock, SendTransaction, SweepDone

\* The main chain and the cache change only when an abstract is submitted or
\* by a step of the main chain itself.
LEMMA LedgerFrame ==
    [Next]_vars => SubmitAbstract \/ MainChain \/ UNCHANGED ledgerVars
BY DEF Next, Simulation, PatternThread, SenderThread, vars,
       Start, Stop, Kill, RunLoop, NotEnoughMoney, CommitBlocks, CommitReturns,
       CommitThrows, Finish, StartSweep, ScanStep, ScanEnd, Decide, SendBlock,
       SendTransaction, SweepDone, AppendBlock, AddTransaction, AppendExtra,
       RecordCommit, WalkBack, FinalizeBlock

\* The control state of the pattern thread is its own, but for Start and Stop.
LEMMA PatternFrame ==
    [Next]_vars => Start \/ Stop \/ PatternThread \/ UNCHANGED patternVars
BY DEF Next, Simulation, MainChain, SenderThread, vars, Kill, Include, Reject,
       UpdateCache, StartSweep, ScanStep, ScanEnd, Decide, SendBlock,
       SendTransaction, SweepDone

\* The state of the sweep is the sender's own, but for Kill.
LEMMA SenderFrame ==
    [Next]_vars => Kill \/ SenderThread \/ UNCHANGED senderVars
BY DEF Next, Simulation, PatternThread, MainChain, vars, Start, Stop, RunLoop,
       NotEnoughMoney, AppendBlock, AddTransaction, CommitBlocks, AppendExtra,
       SubmitAbstract, CommitReturns, CommitThrows, RecordCommit, WalkBack,
       FinalizeBlock, Finish, Include, Reject, UpdateCache

-----------------------------------------------------------------------------
(* The invariant holds initially.                                          *)

\* A node that has just started, with only the genesis block, satisfies IInv.
LEMMA InitIInv == Init => IInv
<1> USE ConstantsAssumption
<1> SUFFICES ASSUME Init PROVE IInv
  OBVIOUS
<1>1. TypeOK
  <2>1. ChainType
    <3>1. \A b \in Block : (b = 0) \in BOOLEAN
      OBVIOUS
    <3>2. [b \in Block |-> b = 0] \in [Block -> BOOLEAN]
      BY <3>1, Zenon
    <3>3. [b \in Block |-> IF b = 0 THEN 0 ELSE NoBlock]
            \in [Block -> Block \cup {NoBlock}]
      BY DEF Block
    <3>4. Init => /\ hasTx = [b \in Block |-> b = 0]
                  /\ hasAbstract = [b \in Block |-> b = 0]
                  /\ finalized = [b \in Block |-> b = 0]
      BY DEF Init
    <3>5. /\ hasTx \in [Block -> BOOLEAN]
          /\ hasAbstract \in [Block -> BOOLEAN]
          /\ finalized \in [Block -> BOOLEAN]
      BY <3>2, <3>4, Zenon
    <3> QED
      BY <3>3, <3>5 DEF Init, ChainType, Block
  <2>2. LedgerType
    BY DEF Init, LedgerType, Block
  <2>3. PatternType
    <3>1. extra \in 0 .. RequiredCommits + 1
      BY DEF Init
    <3>2. cancelled \in BOOLEAN
      BY Zenon DEF Init
    <3>3. patternPc \in PatternPc /\ mode \in {"run", "force", "extra"}
      BY DEF Init, PatternPc
    <3>4. walk \in Block \cup {NoBlock}
      BY DEF Init
    <3> QED
      BY <3>1, <3>2, <3>3, <3>4 DEF PatternType
  <2>4. SenderType
    BY DEF Init, SenderType, SenderPc, Block
  <2> QED
    BY <2>1, <2>2, <2>3, <2>4 DEF TypeOK
<1>2. ChainInv
  BY DEF Init, ChainInv, BoundsInv, PointerInv, TailInv, Block, NoBlock
<1>3. PatternInv
  BY DEF Init, PatternInv
<1>4. SweepInv
  BY DEF Init, SweepInv, AnchorInv, ScanInv, SendInv, Block
<1>5. SentIsConfirmed
  BY DEF Init, SentIsConfirmed
<1>6. SentOnceEach
  BY DEF Init, SentOnceEach, Block
<1>7. DrainedWhenStopped
  BY DEF Init, DrainedWhenStopped, Block
<1> QED
  BY <1>1, <1>2, <1>3, <1>4, <1>5, <1>6, <1>7 DEF IInv

-----------------------------------------------------------------------------
(* Type correctness: one lemma per group of variables.                     *)

\* No step takes a field of a block or of the chain out of its type: blocks
\* are appended only while there is room for one.
LEMMA ChainTypeStep ==
    ASSUME TypeOK, [Next]_vars
    PROVE  ChainType'
<1> USE ConstantsAssumption DEF TypeOK, ChainType, Block, NoBlock
<1>1. CASE UNCHANGED chainVars
  BY <1>1 DEF chainVars
<1>2. CASE AppendBlock
  BY <1>2 DEF AppendBlock, ExtraCommits
<1>3. CASE AddTransaction
  BY <1>3 DEF AddTransaction
<1>4. CASE AppendExtra
  BY <1>4 DEF AppendExtra
<1>5. CASE SubmitAbstract
  BY <1>5 DEF SubmitAbstract
<1>6. CASE RecordCommit
  BY <1>6 DEF RecordCommit
<1>7. CASE WalkBack
  BY <1>7 DEF WalkBack
<1>8. CASE FinalizeBlock
  BY <1>8 DEF FinalizeBlock
<1> QED
  BY <1>1, <1>2, <1>3, <1>4, <1>5, <1>6, <1>7, <1>8, ChainFrame

\* The cache holds only what is on the main chain.
LEMMA LedgerTypeStep ==
    ASSUME TypeOK, [Next]_vars
    PROVE  LedgerType'
<1> USE ConstantsAssumption DEF TypeOK, LedgerType
<1>1. CASE UNCHANGED ledgerVars
  BY <1>1 DEF ledgerVars
<1>2. CASE SubmitAbstract
  BY <1>2 DEF SubmitAbstract, ChainType
<1>3. CASE MainChain
  BY <1>3 DEF MainChain, Include, Reject, UpdateCache
<1> QED
  BY <1>1, <1>2, <1>3, LedgerFrame

\* The pattern thread stays at its control points and its counter of empty
\* blocks in bounds.
LEMMA PatternTypeStep ==
    ASSUME TypeOK, PatternInv, [Next]_vars
    PROVE  PatternType'
<1> USE ConstantsAssumption DEF TypeOK, PatternType, PatternPc, patternVars
<1>1. CASE UNCHANGED patternVars
  BY <1>1
<1>2. CASE Start \/ Stop
  BY <1>2 DEF Start, Stop
<1>3. CASE RunLoop \/ NotEnoughMoney \/ AppendBlock \/ AddTransaction
  BY <1>3 DEF RunLoop, NotEnoughMoney, AppendBlock, AddTransaction
<1>4. CASE CommitBlocks
  BY <1>4 DEF CommitBlocks, AfterCommit
<1>5. CASE AppendExtra
  BY <1>5 DEF AppendExtra, PatternInv, ExtraCommits
<1>6. CASE SubmitAbstract \/ CommitReturns \/ CommitThrows
  BY <1>6 DEF SubmitAbstract, CommitReturns, CommitThrows, AfterException
<1>7. CASE RecordCommit
  BY <1>7 DEF RecordCommit, ChainType, Block, NoBlock
<1>8. CASE WalkBack
  BY <1>8 DEF WalkBack, WalkOn, Block, NoBlock
<1>9. CASE FinalizeBlock \/ Finish
  BY <1>9 DEF FinalizeBlock, Finish, AfterCommit
<1> QED
  BY <1>1, <1>2, <1>3, <1>4, <1>5, <1>6, <1>7, <1>8, <1>9, PatternFrame
     DEF PatternThread

\* The sweep stays inside the chain.
LEMMA SenderTypeStep ==
    ASSUME TypeOK, [Next]_vars
    PROVE  SenderType'
<1> USE ConstantsAssumption DEF TypeOK, SenderType, SenderPc, Block
<1>1. CASE UNCHANGED senderVars
  BY <1>1 DEF senderVars
<1>2. CASE Kill \/ ScanEnd \/ SweepDone
  BY <1>2, SMTT(30) DEF Kill, ScanEnd, SweepDone
<1>3. CASE StartSweep
  BY <1>3 DEF StartSweep, ChainType
<1>4. CASE ScanStep
  BY <1>4, SMTT(30) DEF ScanStep, Found, NextIndex, ChainType, NoBlock
<1>5. CASE Decide
  BY <1>5, SMTT(30) DEF Decide, Chosen
<1>6. CASE SendBlock
  BY <1>6 DEF SendBlock
<1>7. CASE SendTransaction
  BY <1>7 DEF SendTransaction
<1> QED
  BY <1>1, <1>2, <1>3, <1>4, <1>5, <1>6, <1>7, SenderFrame DEF SenderThread

\* All types together are preserved.
LEMMA TypeStep ==
    ASSUME TypeOK, PatternInv, [Next]_vars
    PROVE  TypeOK'
BY ChainTypeStep, LedgerTypeStep, PatternTypeStep, SenderTypeStep DEF TypeOK

-----------------------------------------------------------------------------
(* The chain and what the main chain knows of it.                          *)

\* No abstract is submitted, and no transaction added, above the end of the
\* chain; the genesis block stays known.
LEMMA BoundsInvStep ==
    ASSUME TypeOK, ChainInv, PatternInv, [Next]_vars
    PROVE  BoundsInv'
<1> USE ConstantsAssumption
        DEF TypeOK, ChainType, LedgerType, Block, ChainInv, BoundsInv
<1>1. CASE UNCHANGED <<chainVars, ledgerVars>>
  BY <1>1 DEF chainVars, ledgerVars
<1>2. CASE AppendBlock \/ AppendExtra
  <2>1. /\ last' = last + 1
        /\ UNCHANGED <<hasTx, lastCommitted, cache, inFlight, mainChain>>
    BY <1>2 DEF AppendBlock, AppendExtra, ledgerVars
  <2> QED
    BY <2>1
<1>3. CASE AddTransaction
  <2>1. /\ UNCHANGED <<last, lastCommitted, cache, inFlight, mainChain>>
        /\ hasTx' = hasTx \/ hasTx' = [hasTx EXCEPT ![last] = TRUE]
    BY <1>3 DEF AddTransaction, ledgerVars
  <2>2. /\ \A b \in Block : b # last => hasTx'[b] = hasTx[b]
        /\ hasTx[last] => hasTx'[last]
    BY <2>1
  <2> QED
    BY <2>1, <2>2
<1>4. CASE SubmitAbstract
  <2>1. /\ UNCHANGED <<last, hasTx, lastCommitted, cache, mainChain>>
        /\ inFlight' \subseteq inFlight \cup {last}
    BY <1>4 DEF SubmitAbstract
  <2>2. \A b \in inFlight' \cup mainChain : b <= last
    BY <2>1
  <2> QED
    BY <2>1, <2>2
<1>5. CASE RecordCommit \/ WalkBack \/ FinalizeBlock
  <2>1. /\ UNCHANGED <<last, hasTx, cache, inFlight, mainChain>>
        /\ lastCommitted' \in {last, lastCommitted}
    BY <1>5 DEF RecordCommit, WalkBack, FinalizeBlock, ledgerVars
  <2> QED
    BY <2>1
<1>6. CASE MainChain
  BY <1>6 DEF MainChain, Include, Reject, UpdateCache, chainVars
<1> QED
  BY <1>1, <1>2, <1>3, <1>4, <1>5, <1>6, ChainFrame, LedgerFrame

\* The pointers keep leading up to committed blocks, at every stage of a walk
\* back over the uncommitted ones.
LEMMA PointerInvStep ==
    ASSUME TypeOK, ChainInv, PatternInv, [Next]_vars
    PROVE  PointerInv'
<1> USE ConstantsAssumption
        DEF TypeOK, ChainType, Block, NoBlock, ChainInv, BoundsInv, PointerInv
<1>1. CASE UNCHANGED <<nextCommitted, lastCommitted>>
  BY <1>1
<1>2. CASE RecordCommit
  BY <1>2 DEF RecordCommit, PatternInv
<1>3. CASE WalkBack
  <2>1. /\ walk \in 0 .. MaxBlock
        /\ walk < last
        /\ nextCommitted[walk] = NoBlock
        /\ nextCommitted[last] = last
        /\ lastCommitted = last
        /\ nextCommitted' = [nextCommitted EXCEPT ![walk] = last]
        /\ lastCommitted' = lastCommitted
    BY <1>3 DEF WalkBack, WalkOn, PatternInv, PatternType
  <2> QED
    BY <2>1
<1> QED
  <2>1. AppendBlock \/ AddTransaction \/ AppendExtra \/ SubmitAbstract
          \/ FinalizeBlock \/ UNCHANGED chainVars
        => UNCHANGED <<nextCommitted, lastCommitted>>
    BY DEF AppendBlock, AddTransaction, AppendExtra, SubmitAbstract,
           FinalizeBlock, chainVars
  <2> QED
    BY <2>1, <1>1, <1>2, <1>3, ChainFrame

\* Appending or filling a block leaves one last block with a transaction.
LEMMA TailInvStep ==
    ASSUME TypeOK, ChainInv, PatternInv, [Next]_vars
    PROVE  TailInv'
<1> USE ConstantsAssumption DEF TypeOK, ChainType, Block
<1>1. CASE UNCHANGED <<last, hasTx>>
  BY <1>1 DEF ChainInv, TailInv
<1>2. CASE AppendBlock \/ AppendExtra
  <2>1. last' = last + 1 /\ hasTx' = hasTx /\ last' \in Block
    BY <1>2 DEF AppendBlock, AppendExtra, ExtraCommits
  <2>2. PICK b \in 0 .. last : hasTx[b] /\ \A d \in b + 1 .. last : ~hasTx[d]
    BY DEF ChainInv, TailInv
  <2>3. ~hasTx[last + 1]
    BY <2>1 DEF ChainInv, BoundsInv
  <2>4. \A d \in b + 1 .. last' : ~hasTx[d]
    BY <2>1, <2>2, <2>3
  <2> QED
    BY <2>1, <2>2, <2>4 DEF TailInv
<1>3. CASE AddTransaction
  <2>1. last' = last /\ hasTx' \in [Block -> BOOLEAN]
    BY <1>3, ChainTypeStep DEF AddTransaction
  <2>2. CASE UNCHANGED hasTx
    BY <2>1, <2>2, <1>1
  <2>3. CASE hasTx' = [hasTx EXCEPT ![last] = TRUE]
    <3>1. hasTx'[last]
      BY <2>3
    <3>2. \A d \in last + 1 .. last : ~hasTx'[d]
      OBVIOUS
    <3> QED
      BY <3>1, <3>2, <2>1 DEF TailInv
  <2> QED
    BY <1>3, <2>2, <2>3 DEF AddTransaction
<1> QED
  <2>1. SubmitAbstract \/ RecordCommit \/ WalkBack \/ FinalizeBlock
          \/ UNCHANGED chainVars
        => UNCHANGED <<last, hasTx>>
    BY DEF SubmitAbstract, RecordCommit, WalkBack, FinalizeBlock, chainVars
  <2> QED
    BY <2>1, <1>1, <1>2, <1>3, ChainFrame

\* The three parts of the chain's invariant together are preserved.
LEMMA ChainInvStep ==
    ASSUME TypeOK, ChainInv, PatternInv, [Next]_vars
    PROVE  ChainInv'
BY BoundsInvStep, PointerInvStep, TailInvStep DEF ChainInv

-----------------------------------------------------------------------------
(* The control points of the pattern thread.                               *)

\* Steps of the main chain add to no set that the pattern thread relies on.
LEMMA PatternInvFrame ==
    ASSUME PatternInv, UNCHANGED <<chainVars, patternVars>>,
           inFlight' \cup mainChain' \subseteq inFlight \cup mainChain
    PROVE  PatternInv'
<1>1. UNCHANGED <<last, hasTx, nextCommitted, lastCommitted, patternPc, mode, walk, extra>>
  BY DEF chainVars, patternVars
<1> QED BY <1>1 DEF PatternInv

\* What the pattern thread knows at a control point is established by the step
\* that takes it there, and no other thread disturbs it.
LEMMA PatternInvStep ==
    ASSUME TypeOK, ChainInv, PatternInv, [Next]_vars
    PROVE  PatternInv'
<1> USE ConstantsAssumption
        DEF TypeOK, ChainType, LedgerType, PatternType, PatternPc, Block,
            NoBlock, ChainInv, BoundsInv, PointerInv, PatternInv
<1>1. CASE UNCHANGED <<chainVars, patternVars, inFlight, mainChain>>
  BY <1>1 DEF chainVars, patternVars
<1>2. CASE Start
  BY <1>2 DEF Start, chainVars, ledgerVars
<1>3. CASE Stop
  BY <1>3 DEF Stop, chainVars, ledgerVars
<1>4. CASE RunLoop
  BY <1>4 DEF RunLoop, chainVars, ledgerVars
<1>5. CASE NotEnoughMoney
  BY <1>5 DEF NotEnoughMoney, chainVars, ledgerVars
<1>6. CASE AppendBlock
  BY <1>6 DEF AppendBlock, ledgerVars, ExtraCommits
<1>7. CASE AddTransaction
  BY <1>7 DEF AddTransaction, ledgerVars
<1>8. CASE CommitBlocks
  BY <1>8 DEF CommitBlocks, AfterCommit, HasUncommitted, ExtraCommits,
              chainVars, ledgerVars
<1>9. CASE AppendExtra
  BY <1>9 DEF AppendExtra, ledgerVars
<1>10. CASE SubmitAbstract
  BY <1>10 DEF SubmitAbstract, AfterException
<1>11. CASE CommitReturns
  BY <1>11 DEF CommitReturns, chainVars, ledgerVars
<1>12. CASE CommitThrows
  BY <1>12 DEF CommitThrows, AfterException, chainVars, ledgerVars
<1>13. CASE RecordCommit
  BY <1>13 DEF RecordCommit, ledgerVars
<1>14. CASE WalkBack
  BY <1>14 DEF WalkBack, WalkOn, ledgerVars
<1>15. CASE FinalizeBlock
  BY <1>15 DEF FinalizeBlock, AfterCommit, ExtraCommits, ledgerVars
<1>16. CASE Finish
  BY <1>16 DEF Finish, chainVars, ledgerVars
<1>17. CASE MainChain
  <2>1. /\ UNCHANGED <<chainVars, patternVars>>
        /\ inFlight' \cup mainChain' \subseteq inFlight \cup mainChain
    BY <1>17 DEF MainChain, Include, Reject, UpdateCache
  <2> QED
    BY <2>1, PatternInvFrame
<1>18. SenderThread \/ Kill => UNCHANGED <<chainVars, patternVars, ledgerVars>>
  BY DEF SenderThread, Kill, StartSweep, ScanStep, ScanEnd, Decide, SendBlock,
         SendTransaction, SweepDone
<1> QED
  BY <1>1, <1>2, <1>3, <1>4, <1>5, <1>6, <1>7, <1>8, <1>9, <1>10, <1>11, <1>12,
     <1>13, <1>14, <1>15, <1>16, <1>17, <1>18
     DEF Next, Simulation, PatternThread, vars, ledgerVars

-----------------------------------------------------------------------------
(* The confirmations of a block never become fewer.                        *)

\* Counting the known abstracts at or above a block makes sense.
LEMMA AboveFinite ==
    ASSUME NEW C \in SUBSET Block, NEW b
    PROVE  /\ IsFiniteSet({c \in C : b <= c})
           /\ Cardinality({c \in C : b <= c}) \in Nat
<1>1. IsFiniteSet(Block)
  BY ConstantsAssumption, FS_Interval DEF Block
<1>2. IsFiniteSet({c \in C : b <= c})
  BY <1>1, FS_Subset
<1> QED
  BY <1>2, FS_CardinalityType

\* An abstract that the node knows of is never forgotten.
LEMMA CacheGrows == ASSUME TypeOK, [Next]_vars PROVE cache \subseteq cache'
<1>1. CASE UNCHANGED ledgerVars
  BY <1>1 DEF ledgerVars
<1>2. CASE SubmitAbstract
  BY <1>2 DEF SubmitAbstract
<1>3. CASE MainChain
  BY <1>3 DEF MainChain, Include, Reject, UpdateCache
<1> QED
  BY <1>1, <1>2, <1>3, LedgerFrame

\* A block never loses a confirmation.
LEMMA ConfirmationsGrow ==
    ASSUME TypeOK, TypeOK', [Next]_vars, NEW b
    PROVE  /\ Confirmations(b) \in Nat
           /\ Confirmations(b)' \in Nat
           /\ Confirmations(b)' >= Confirmations(b)
<1> DEFINE S == {c \in cache : b <= c}
           T == {c \in cache' : b <= c}
<1>1. S \subseteq T
  BY CacheGrows
<1>2. cache \in SUBSET Block /\ cache' \in SUBSET Block
  BY DEF TypeOK, LedgerType
<1>3. IsFiniteSet(T) /\ Cardinality(S) \in Nat /\ Cardinality(T) \in Nat
  BY <1>2, AboveFinite
<1>4. Cardinality(S) <= Cardinality(T)
  BY <1>1, <1>3, FS_Subset
<1> QED
  BY <1>3, <1>4 DEF Confirmations

\* Blocks committed one above the other: the k-th from the end of a list of
\* them that is in the cache has k confirmations.
LEMMA ListConfirms ==
    ASSUME TypeOK, SweepInv, senderPc = "decide",
           Len(committed) >= RequiredCommits
    PROVE  /\ Confirmations(Chosen) >= RequiredCommits
           /\ Chosen \in cache
           /\ nextCommitted[Chosen] = Chosen
           /\ alreadySent < Chosen
<1> DEFINE n == Len(committed)
           k == n - RequiredCommits + 1
           S == {c \in cache : Chosen <= c}
           f == [i \in k .. n |-> committed[i]]
<1>1. n \in Nat /\ k \in 1 .. n /\ n - k + 1 = RequiredCommits
  BY ConstantsAssumption DEF TypeOK, SenderType
<1>2. \A i \in 1 .. n : committed[i] \in cache /\ committed[i] \in Int
  <2>1. \A c \in cache : c \in Int
    BY DEF TypeOK, LedgerType, Block
  <2> QED
    BY <2>1 DEF SweepInv, ScanInv
<1>3. \A i, j \in 1 .. n : i < j => committed[i] < committed[j]
  BY DEF SweepInv, ScanInv
<1>4. Chosen = committed[k]
  BY DEF Chosen
<1>5. \A i \in 1 .. n : /\ nextCommitted[committed[i]] = committed[i]
                        /\ alreadySent < committed[i]
  BY DEF SweepInv, ScanInv
<1> HIDE DEF n, k
<1>6. \A i \in k .. n : f[i] \in S
  <2> SUFFICES ASSUME NEW i \in k .. n PROVE committed[i] \in S
    OBVIOUS
  <2>1. i \in 1 .. n /\ k \in 1 .. n
    BY <1>1
  <2>2. committed[k] <= committed[i]
    <3>1. CASE i = k
      BY <3>1, <2>1, <1>2
    <3>2. CASE k < i
      BY <3>2, <2>1, <1>2, <1>3
    <3> QED
      BY <3>1, <3>2, <2>1
  <2> QED
    BY <2>1, <2>2, <1>2, <1>4
<1>7. \A i, j \in k .. n : f[i] = f[j] => i = j
  <2> SUFFICES ASSUME NEW i \in k .. n, NEW j \in k .. n, i < j
               PROVE  committed[i] # committed[j]
    BY <1>1
  <2>1. i \in 1 .. n /\ j \in 1 .. n
    BY <1>1
  <2> QED
    BY <2>1, <1>2, <1>3
<1>8. f \in Injection(k .. n, S)
  BY <1>6, <1>7 DEF Injection, IsInjective
<1>9. IsFiniteSet(S) /\ Cardinality(S) \in Nat
  BY AboveFinite DEF TypeOK, LedgerType
<1>10. Cardinality(k .. n) <= Cardinality(S)
  BY <1>8, <1>9, FS_Injection
<1>11. Cardinality(k .. n) = RequiredCommits
  BY <1>1, FS_Interval
<1>12. Confirmations(Chosen) >= RequiredCommits
  BY <1>9, <1>10, <1>11, ConstantsAssumption DEF Confirmations
<1> QED
  BY <1>1, <1>2, <1>4, <1>5, <1>12

-----------------------------------------------------------------------------
(* The sweep of the sender, while the pattern thread goes on.              *)

\* A sequence in ascending order stays so when a larger element is appended.
LEMMA AppendAscending ==
    ASSUME NEW s \in Seq(Int), NEW e \in Int,
           \A i, j \in 1 .. Len(s) : i < j => s[i] < s[j],
           \A i \in 1 .. Len(s) : s[i] < e
    PROVE  /\ \A i \in 1 .. Len(Append(s, e)) :
                  \/ Append(s, e)[i] = e
                  \/ \E j \in 1 .. Len(s) : Append(s, e)[i] = s[j]
           /\ \A i, j \in 1 .. Len(Append(s, e)) :
                  i < j => Append(s, e)[i] < Append(s, e)[j]
<1> DEFINE t == Append(s, e)
           n == Len(s)
<1>1. /\ n \in Nat
      /\ Len(t) = n + 1
      /\ t[n + 1] = e
      /\ \A i \in 1 .. n : t[i] = s[i]
  OBVIOUS
<1> HIDE DEF t, n
<1>2. \A i \in 1 .. Len(t) : i = n + 1 \/ i \in 1 .. n
  BY <1>1
<1>3. \A i \in 1 .. Len(t) : t[i] = e \/ \E j \in 1 .. n : t[i] = s[j]
  BY <1>1, <1>2
<1>4. \A i, j \in 1 .. Len(t) : i < j => t[i] < t[j]
  <2> SUFFICES ASSUME NEW i \in 1 .. Len(t), NEW j \in 1 .. Len(t), i < j
               PROVE  t[i] < t[j]
    OBVIOUS
  <2>1. i \in 1 .. n
    BY <1>1
  <2>2. CASE j \in 1 .. n
    BY <2>1, <2>2, <1>1 DEF n
  <2>3. CASE j = n + 1
    BY <2>1, <2>3, <1>1 DEF n
  <2> QED
    BY <2>2, <2>3, <1>2
<1> QED
  BY <1>3, <1>4 DEF t, n

\* What the sweep has read stays true: pointers and transactions are written
\* once.
LEMMA ChainStable ==
    ASSUME TypeOK, PatternInv, [Next]_vars, NEW b \in Block
    PROVE  /\ nextCommitted[b] # NoBlock => nextCommitted'[b] = nextCommitted[b]
           /\ hasTx[b] => hasTx'[b]
<1> USE DEF TypeOK, ChainType
<1>1. nextCommitted[b] # NoBlock => nextCommitted'[b] = nextCommitted[b]
  <2>1. CASE RecordCommit
    BY <2>1 DEF RecordCommit, PatternInv
  <2>2. CASE WalkBack
    BY <2>2 DEF WalkBack, WalkOn
  <2>3. AppendBlock \/ AddTransaction \/ AppendExtra \/ SubmitAbstract
          \/ FinalizeBlock \/ UNCHANGED chainVars
        => UNCHANGED nextCommitted
    BY DEF AppendBlock, AddTransaction, AppendExtra, SubmitAbstract,
           FinalizeBlock, chainVars
  <2> QED
    BY <2>1, <2>2, <2>3, ChainFrame
<1>2. hasTx[b] => hasTx'[b]
  <2>1. CASE AddTransaction
    BY <2>1 DEF AddTransaction
  <2>2. AppendBlock \/ RecordCommit \/ AppendExtra \/ SubmitAbstract
          \/ WalkBack \/ FinalizeBlock \/ UNCHANGED chainVars
        => UNCHANGED hasTx
    BY DEF AppendBlock, RecordCommit, AppendExtra, SubmitAbstract, WalkBack,
           FinalizeBlock, chainVars
  <2> QED
    BY <2>1, <2>2, ChainFrame
<1> QED
  BY <1>1, <1>2

\* The other threads do not disturb a sweep.
LEMMA SweepInvFrame ==
    ASSUME TypeOK, TypeOK', PatternInv, SweepInv, [Next]_vars,
           UNCHANGED <<alreadySent, index, committed, lastToSend>>,
           senderPc' \in {senderPc, "dead"}
    PROVE  SweepInv'
<1> USE ConstantsAssumption
        DEF TypeOK, LedgerType, SenderType, Block, NoBlock
<1>1. cache \subseteq cache'
  BY CacheGrows
<1>2. \A c \in Block : nextCommitted[c] = c => nextCommitted'[c] = c
  <2> TAKE c \in Block
  <2>1. nextCommitted[c] # NoBlock => nextCommitted'[c] = nextCommitted[c]
    BY ChainStable
  <2> QED
    BY <2>1
<1>3. AnchorInv'
  BY <1>1, <1>2 DEF SweepInv, AnchorInv
<1>4. ScanInv'
  <2> SUFFICES ASSUME senderPc \in {"scan", "decide"}, senderPc' = senderPc
               PROVE  ScanInv'
    BY DEF ScanInv
  <2>1. /\ alreadySent < index
        /\ \A i \in 1 .. Len(committed) :
              /\ committed[i] \in cache
              /\ nextCommitted[committed[i]] = committed[i]
              /\ alreadySent < committed[i]
              /\ committed[i] < index
        /\ \A i, j \in 1 .. Len(committed) :
              i < j => committed[i] < committed[j]
    BY DEF SweepInv, ScanInv
  <2>2. \A i \in 1 .. Len(committed) :
           /\ committed[i] \in cache'
           /\ nextCommitted'[committed[i]] = committed[i]
    BY <2>1, <1>1, <1>2
  <2> QED
    BY <2>1, <2>2 DEF ScanInv
<1>5. SendInv'
  <2>1. /\ Confirmations(lastToSend) \in Nat
        /\ Confirmations(lastToSend)' \in Nat
        /\ Confirmations(lastToSend)' >= Confirmations(lastToSend)
    BY ConfirmationsGrow
  <2>2. hasTx[alreadySent] => hasTx'[alreadySent]
    BY ChainStable
  <2> QED
    BY <1>1, <1>2, <2>1, <2>2, SMTT(30) DEF SweepInv, SendInv
<1> QED
  BY <1>3, <1>4, <1>5 DEF SweepInv

\* One more block found: it lies above all that were found before.
LEMMA ScanStepKeeps ==
    ASSUME TypeOK, ChainInv, ScanInv, ScanStep
    PROVE  ScanInv'
<1> DEFINE e == nextCommitted[index]
           t == Append(committed, e)
           n == Len(committed)
<1>1. /\ committed' = t
      /\ index' = e + 1
      /\ UNCHANGED <<cache, nextCommitted, alreadySent, senderPc>>
      /\ senderPc = "scan"
  BY DEF ScanStep, NextIndex, chainVars, ledgerVars
<1>2. index \in Block /\ alreadySent \in Int /\ index \in Int
  BY ConstantsAssumption
     DEF TypeOK, SenderType, ChainType, Block, ScanStep
<1>3. e \in cache /\ index <= e /\ nextCommitted[e] = e
  BY <1>2 DEF ScanStep, Found, OnMainChain, ChainInv, PointerInv
<1>4. \A c \in cache : c \in Int
  BY DEF TypeOK, LedgerType, Block
<1>5. /\ alreadySent < index
      /\ \A i \in 1 .. n : /\ committed[i] \in cache
                          /\ nextCommitted[committed[i]] = committed[i]
                          /\ alreadySent < committed[i]
                          /\ committed[i] < index
      /\ \A i, j \in 1 .. n : i < j => committed[i] < committed[j]
  BY <1>1 DEF ScanInv
<1>6. committed \in Seq(Int)
  BY <1>4, <1>5 DEF TypeOK, SenderType, Block
<1> HIDE DEF e
<1>7. \A i \in 1 .. n : committed[i] < e
  BY <1>2, <1>3, <1>4, <1>5
<1>8. /\ \A i \in 1 .. Len(t) : \/ t[i] = e
                               \/ \E j \in 1 .. n : t[i] = committed[j]
      /\ \A i, j \in 1 .. Len(t) : i < j => t[i] < t[j]
  BY <1>3, <1>4, <1>5, <1>6, <1>7, AppendAscending
<1> HIDE DEF t, n
<1>9. ASSUME NEW i \in 1 .. Len(t)
      PROVE  /\ t[i] \in cache
             /\ nextCommitted[t[i]] = t[i]
             /\ alreadySent < t[i]
             /\ t[i] < e + 1
  <2>1. CASE t[i] = e
    BY <2>1, <1>2, <1>3, <1>4, <1>5
  <2>2. CASE \E j \in 1 .. n : t[i] = committed[j]
    <3>1. PICK j \in 1 .. n : t[i] = committed[j]
      BY <2>2
    <3> QED
      BY <3>1, <1>2, <1>3, <1>4, <1>5, <1>7
  <2> QED
    BY <2>1, <2>2, <1>8
<1>10. alreadySent < e + 1
  BY <1>2, <1>3, <1>4, <1>5
<1> QED
  BY <1>1, <1>8, <1>9, <1>10 DEF ScanInv

\* Whatever the pattern thread and the main chain do during a sweep, what the
\* sweep has read stays true, and its own steps read consistent values.
LEMMA SweepInvStep ==
    ASSUME TypeOK, TypeOK', ChainInv, PatternInv, SweepInv, [Next]_vars
    PROVE  SweepInv'
<1> USE ConstantsAssumption
        DEF TypeOK, LedgerType, SenderType, Block, NoBlock
<1>1. CASE Kill \/ ScanEnd \/ UNCHANGED senderVars
  <2>1. CASE Kill \/ UNCHANGED senderVars
    BY <2>1, SweepInvFrame DEF Kill, senderVars
  <2>2. CASE ScanEnd
    BY <2>2 DEF ScanEnd, SweepInv, AnchorInv, ScanInv, SendInv, chainVars,
                ledgerVars
  <2> QED
    BY <1>1, <2>1, <2>2
<1>2. SenderThread => UNCHANGED <<cache, nextCommitted, hasTx>>
  BY DEF SenderThread, StartSweep, ScanStep, ScanEnd, Decide, SendBlock,
         SendTransaction, SweepDone, chainVars, ledgerVars
<1>3. CASE StartSweep
  BY <1>3, <1>2 DEF SenderThread, StartSweep, SweepInv, AnchorInv, ScanInv,
                    SendInv
<1>4. CASE ScanStep
  <2>1. ScanInv'
    BY <1>4, ScanStepKeeps DEF SweepInv
  <2>2. UNCHANGED <<cache, nextCommitted, alreadySent, senderPc>>
        /\ senderPc = "scan"
    BY <1>4, <1>2 DEF ScanStep, SenderThread
  <2> QED
    BY <2>1, <2>2 DEF SweepInv, AnchorInv, SendInv
<1>5. CASE Decide
  <2>1. /\ UNCHANGED <<cache, nextCommitted, hasTx, alreadySent>>
        /\ senderPc = "decide"
        /\ \/ senderPc' = "sleep"
           \/ /\ senderPc' = "send"
              /\ lastToSend' = Chosen
              /\ Len(committed) >= RequiredCommits
    BY <1>5, <1>2 DEF Decide, SenderThread
  <2>2. CASE senderPc' = "sleep"
    BY <2>1, <2>2 DEF SweepInv, AnchorInv, ScanInv, SendInv
  <2>3. CASE senderPc' = "send"
    <3>1. /\ Chosen \in cache
          /\ nextCommitted[Chosen] = Chosen
          /\ alreadySent < Chosen
          /\ Confirmations(Chosen) >= RequiredCommits
      BY <2>1, <2>3, ListConfirms
    <3>2. Confirmations(lastToSend)' = Confirmations(Chosen)
      BY <2>1, <2>3 DEF Confirmations
    <3>3. AnchorInv' /\ ScanInv'
      BY <2>1, <2>3 DEF SweepInv, AnchorInv, ScanInv
    <3>4. alreadySent' <= lastToSend' /\ lastToSend' \in cache'
      BY <2>1, <2>3, <3>1
    <3>5. nextCommitted'[lastToSend'] = lastToSend'
      BY <2>1, <2>3, <3>1
    <3>6. SendInv'
      BY <2>3, <3>1, <3>2, <3>4, <3>5 DEF SendInv
    <3> QED
      BY <3>3, <3>6 DEF SweepInv
  <2> QED
    BY <2>1, <2>2, <2>3
<1>6. CASE SendBlock
  <2>1. /\ UNCHANGED <<cache, nextCommitted, hasTx, lastToSend>>
        /\ senderPc = "send"
        /\ alreadySent < lastToSend
        /\ alreadySent' = alreadySent + 1
        /\ \/ senderPc' = "tx" /\ hasTx[alreadySent + 1]
           \/ senderPc' = "send"
    BY <1>6, <1>2 DEF SendBlock, SenderThread
  <2>2. Confirmations(lastToSend)' = Confirmations(lastToSend)
    BY <2>1 DEF Confirmations
  <2>3. /\ lastToSend \in cache
        /\ nextCommitted[lastToSend] = lastToSend
        /\ Confirmations(lastToSend) >= RequiredCommits
    BY <2>1 DEF SweepInv, SendInv
  <2>4. alreadySent' <= lastToSend /\ alreadySent' > 0
    BY <2>1
  <2>5. AnchorInv'
    BY <2>1, <2>3, <2>4 DEF AnchorInv
  <2>6. ScanInv'
    BY <2>1 DEF ScanInv
  <2>7. SendInv'
    BY <2>1, <2>2, <2>3, <2>4 DEF SendInv
  <2> QED
    BY <2>5, <2>6, <2>7 DEF SweepInv
<1>7. CASE SendTransaction \/ SweepDone
  <2>1. /\ UNCHANGED <<cache, nextCommitted, hasTx, alreadySent>>
        /\ \/ senderPc' = "sleep"
           \/ senderPc = "tx" /\ senderPc' = "send" /\ UNCHANGED lastToSend
    BY <1>7, <1>2 DEF SendTransaction, SweepDone, SenderThread
  <2>2. UNCHANGED lastToSend =>
            Confirmations(lastToSend)' = Confirmations(lastToSend)
    BY <2>1 DEF Confirmations
  <2> QED
    BY <2>1, <2>2 DEF SweepInv, AnchorInv, ScanInv, SendInv
<1> QED
  BY <1>1, <1>3, <1>4, <1>5, <1>6, <1>7, SenderFrame DEF SenderThread

-----------------------------------------------------------------------------
(* What has been sent.                                                     *)

\* alreadySent moves only up to lastToSend, whose confirmations were counted
\* when it was chosen and have not become fewer.
LEMMA SentIsConfirmedStep ==
    ASSUME TypeOK, TypeOK', SweepInv, SentIsConfirmed, [Next]_vars
    PROVE  SentIsConfirmed'
<1>1. CASE UNCHANGED alreadySent
  <2>1. /\ Confirmations(alreadySent) \in Nat
        /\ Confirmations(alreadySent)' \in Nat
        /\ Confirmations(alreadySent)' >= Confirmations(alreadySent)
    BY <1>1, ConfirmationsGrow
  <2> QED
    BY <1>1, <2>1, ConstantsAssumption DEF SentIsConfirmed
<1>2. CASE SendBlock
  <2> DEFINE S == {c \in cache : lastToSend <= c}
             T == {c \in cache : alreadySent + 1 <= c}
  <2>1. /\ alreadySent' = alreadySent + 1
        /\ cache' = cache
        /\ alreadySent + 1 <= lastToSend
        /\ Cardinality(S) >= RequiredCommits
    BY <1>2 DEF SendBlock, SweepInv, SendInv, TypeOK, SenderType, Block,
                ledgerVars, Confirmations
  <2>2. \A c \in cache : c \in Int
    BY DEF TypeOK, LedgerType, Block
  <2>3. lastToSend \in Int /\ alreadySent \in Int
    BY DEF TypeOK, SenderType, Block
  <2>4. S \subseteq T
    BY <2>1, <2>2, <2>3
  <2>5. IsFiniteSet(T) /\ Cardinality(T) \in Nat /\ Cardinality(S) \in Nat
    BY AboveFinite DEF TypeOK, LedgerType
  <2>6. Cardinality(S) <= Cardinality(T)
    BY <2>4, <2>5, FS_Subset
  <2>7. Confirmations(alreadySent)' = Cardinality(T)
    BY <2>1 DEF Confirmations
  <2>8. Cardinality(T) >= RequiredCommits
    BY <2>1, <2>5, <2>6, ConstantsAssumption
  <2> QED
    BY <2>7, <2>8 DEF SentIsConfirmed
<1> QED
  <2>1. Kill \/ StartSweep \/ ScanStep \/ ScanEnd \/ Decide \/ SendTransaction
          \/ SweepDone \/ UNCHANGED senderVars => UNCHANGED alreadySent
    BY DEF Kill, StartSweep, ScanStep, ScanEnd, Decide, SendTransaction,
           SweepDone, senderVars
  <2> QED
    BY <2>1, <1>1, <1>2, SenderFrame DEF SenderThread

\* A block that is being filled lies above everything that was sent.
LEMMA FillingIsUnsent ==
    ASSUME TypeOK, ChainInv, PatternInv, SweepInv, patternPc = "addTx"
    PROVE  alreadySent < last
<1>1. PICK c \in cache : alreadySent <= c /\ nextCommitted[c] = c
  BY DEF SweepInv, AnchorInv
<1>2. c \in Block
  BY DEF TypeOK, LedgerType
<1>3. c <= lastCommitted
  BY <1>1, <1>2 DEF ChainInv, PointerInv, Block, NoBlock
<1>4. lastCommitted < last
  BY DEF PatternInv
<1> QED
  BY <1>1, <1>2, <1>3, <1>4
     DEF TypeOK, ChainType, SenderType, Block

\* A node that reported that it stopped has a sender with nothing to send.
LEMMA StoppedIsQuiet ==
    ASSUME TypeOK, SweepInv, SentOnceEach, DrainedWhenStopped,
           patternPc = "idle"
    PROVE  senderPc # "tx"
<1> SUFFICES ASSUME senderPc = "tx" PROVE FALSE
  OBVIOUS
<1>1. alreadySent \in Block \ {0} /\ hasTx[alreadySent]
  BY DEF SweepInv, SendInv, TypeOK, SenderType, Block
<1>2. attempts[alreadySent] = 1
  BY <1>1 DEF DrainedWhenStopped
<1>3. attempts[alreadySent] = 0
  BY <1>1 DEF SentOnceEach
<1> QED
  BY <1>2, <1>3

\* Marking a block as sent and handing over its transaction are two steps; no
\* other step changes which transactions are due.
LEMMA SentOnceEachStep ==
    ASSUME TypeOK, ChainInv, PatternInv, SweepInv, SentOnceEach,
           DrainedWhenStopped, [Next]_vars
    PROVE  SentOnceEach'
<1> USE DEF SentOnceEach
<1>1. CASE UNCHANGED <<hasTx, attempts, alreadySent>> /\ senderPc # "tx"
             /\ senderPc' # "tx"
  BY <1>1
<1>2. CASE UNCHANGED <<hasTx, senderVars>>
  BY <1>2 DEF senderVars
<1>3. CASE AddTransaction
  <2>1. /\ alreadySent < last
        /\ UNCHANGED senderVars
        /\ \A b \in Block : b # last => hasTx'[b] = hasTx[b]
    BY <1>3, FillingIsUnsent DEF AddTransaction, TypeOK, ChainType
  <2>2. ~(last <= alreadySent)
    BY <2>1 DEF TypeOK, ChainType, SenderType, Block
  <2> QED
    BY <2>1, <2>2 DEF senderVars
<1>4. CASE Kill
  BY <1>4, <1>1, StoppedIsQuiet DEF Kill, chainVars
<1>5. CASE SendBlock
  <2>1. /\ UNCHANGED <<hasTx, attempts>>
        /\ alreadySent' = alreadySent + 1
        /\ alreadySent \in Int
        /\ senderPc = "send"
        /\ senderPc' = IF hasTx[alreadySent + 1] THEN "tx" ELSE "send"
    BY <1>5 DEF SendBlock, chainVars, TypeOK, SenderType, Block
  <2>2. \A b \in Block : b <= alreadySent + 1 <=>
                           b <= alreadySent \/ b = alreadySent + 1
    BY <2>1 DEF Block
  <2>3. ~(alreadySent + 1 <= alreadySent)
    BY <2>1
  <2> QED
    BY <2>1, <2>2, <2>3
<1>6. CASE SendTransaction
  <2>1. /\ UNCHANGED <<hasTx, alreadySent>>
        /\ attempts' = [attempts EXCEPT ![alreadySent] = @ + 1]
        /\ senderPc = "tx"
        /\ senderPc' = "send"
        /\ alreadySent \in Block \ {0}
        /\ hasTx[alreadySent]
    BY <1>6 DEF SendTransaction, chainVars, TypeOK, SenderType, SweepInv,
                SendInv, Block
  <2>2. attempts[alreadySent] = 0
    BY <2>1
  <2>3. alreadySent <= alreadySent
    BY <2>1 DEF Block
  <2> QED
    BY <2>1, <2>2, <2>3 DEF TypeOK, SenderType
<1>7. CASE StartSweep \/ ScanStep \/ ScanEnd \/ Decide \/ SweepDone
  BY <1>7, <1>1 DEF StartSweep, ScanStep, ScanEnd, Decide, SweepDone, chainVars
<1> QED
  <2>1. SenderThread \/ Kill => UNCHANGED chainVars
    BY DEF SenderThread, Kill, StartSweep, ScanStep, ScanEnd, Decide, SendBlock,
           SendTransaction, SweepDone
  <2>2. AppendBlock \/ AppendExtra \/ SubmitAbstract \/ RecordCommit
          \/ WalkBack \/ FinalizeBlock \/ UNCHANGED chainVars
        => UNCHANGED hasTx
    BY DEF AppendBlock, AppendExtra, SubmitAbstract, RecordCommit, WalkBack,
           FinalizeBlock, chainVars
  <2> QED
    BY <2>1, <2>2, <1>2, <1>3, <1>4, <1>5, <1>6, <1>7, ChainFrame, SenderFrame
       DEF SenderThread

\* waitUntilDone returns only when everything has been handed over, although
\* it compares with alreadySent, which runs ahead of the sending.
LEMMA FinishIsDrained ==
    ASSUME TypeOK, ChainInv, PatternInv, SweepInv, SentOnceEach, Finish
    PROVE  \A b \in Block \ {0} : hasTx[b] => attempts[b] = 1
<1> USE DEF TypeOK, ChainType, SenderType
<1>1. ~hasTx[last]
  <2> SUFFICES ASSUME hasTx[last] PROVE FALSE
    OBVIOUS
  <2>1. nextCommitted[last] = NoBlock
    BY DEF Finish, PatternInv
  <2>2. PICK c \in cache : alreadySent <= c /\ nextCommitted[c] = c
    BY DEF SweepInv, AnchorInv
  <2>3. c \in Block /\ c # last
    BY <2>1, <2>2 DEF LedgerType, Block, NoBlock
  <2>4. c <= last
    BY <2>2 DEF ChainInv, BoundsInv, LedgerType
  <2>5. alreadySent < last
    BY <2>2, <2>3, <2>4 DEF Block
  <2>6. last <= alreadySent
    BY DEF Finish, BlocksWaiting, FirstOfTail, Block
  <2> QED
    BY <2>5, <2>6 DEF Block
<1>2. \E b \in 0 .. last : (\A d \in b .. last : ~hasTx[d])
                          /\ (b = 0 \/ hasTx[b - 1])
  <2>1. PICK b \in 0 .. last : hasTx[b] /\ \A d \in b + 1 .. last : ~hasTx[d]
    BY DEF ChainInv, TailInv
  <2>2. b + 1 \in 0 .. last /\ (b + 1) - 1 = b
    BY <1>1, <2>1 DEF Block
  <2> QED
    BY <2>1, <2>2
<1>3. /\ FirstOfTail \in 0 .. last
      /\ \A d \in FirstOfTail .. last : ~hasTx[d]
  BY <1>1, <1>2 DEF FirstOfTail
<1>4. FirstOfTail <= alreadySent
  BY <1>3 DEF Finish, BlocksWaiting, Block
<1> SUFFICES ASSUME NEW b \in Block \ {0}, hasTx[b] PROVE attempts[b] = 1
  OBVIOUS
<1>5. b <= last
  BY DEF ChainInv, BoundsInv
<1>6. b < FirstOfTail
  BY <1>3, <1>5 DEF Block
<1>7. b <= alreadySent /\ b # alreadySent
  BY <1>3, <1>4, <1>6 DEF Block
<1> QED
  BY <1>7 DEF SentOnceEach

\* A node that has stopped keeps its chain as it is, and one that stops has
\* handed everything over.
LEMMA DrainedWhenStoppedStep ==
    ASSUME TypeOK, ChainInv, PatternInv, SweepInv, SentOnceEach,
           DrainedWhenStopped, [Next]_vars
    PROVE  DrainedWhenStopped'
<1>1. CASE Finish
  BY <1>1, FinishIsDrained
     DEF Finish, chainVars, senderVars, DrainedWhenStopped
<1>2. CASE patternPc' = "idle" /\ ~Finish
  <2>1. patternPc = "idle"
    BY <1>2, PatternFrame
       DEF Start, Stop, PatternThread, RunLoop, NotEnoughMoney, AppendBlock,
           AddTransaction, CommitBlocks, AppendExtra, SubmitAbstract,
           CommitReturns, CommitThrows, RecordCommit, WalkBack, FinalizeBlock,
           AfterCommit, AfterException, patternVars
  <2>2. UNCHANGED hasTx
    BY <2>1, ChainFrame
       DEF AppendBlock, AddTransaction, AppendExtra, SubmitAbstract,
           RecordCommit, WalkBack, FinalizeBlock, chainVars
  <2>3. ~SendTransaction
    BY <2>1, StoppedIsQuiet DEF SendTransaction
  <2>4. UNCHANGED attempts
    BY <2>3, SenderFrame
       DEF SenderThread, Kill, StartSweep, ScanStep, ScanEnd, Decide, SendBlock,
           SweepDone, senderVars
  <2> QED
    BY <2>1, <2>2, <2>4 DEF DrainedWhenStopped
<1>3. CASE patternPc' # "idle"
  BY <1>3 DEF DrainedWhenStopped
<1> QED
  BY <1>1, <1>2, <1>3

-----------------------------------------------------------------------------
(* The theorems.                                                           *)

\* IInv is inductive.
LEMMA NextIInv == IInv /\ [Next]_vars => IInv'
<1> SUFFICES ASSUME IInv, [Next]_vars PROVE IInv'
  OBVIOUS
<1>1. TypeOK'
  BY TypeStep DEF IInv
<1>2. ChainInv' /\ PatternInv'
  BY ChainInvStep, PatternInvStep DEF IInv
<1>3. SweepInv'
  BY <1>1, SweepInvStep DEF IInv
<1>4. SentIsConfirmed' /\ SentOnceEach' /\ DrainedWhenStopped'
  BY <1>1, SentIsConfirmedStep, SentOnceEachStep, DrainedWhenStoppedStep
     DEF IInv
<1> QED
  BY <1>1, <1>2, <1>3, <1>4 DEF IInv

\* IInv holds in every reachable state.
LEMMA Invariance == Spec => []IInv
BY InitIInv, NextIInv, PTL DEF Spec

\* Every variable keeps its type, whatever the commits do.
THEOREM TypeCorrect == Spec => []TypeOK
BY Invariance, PTL DEF IInv

\* The number of required commits is honoured: no interleaving of the sweep
\* with appends, commits, failed commits and cache updates sends too early.
THEOREM SentOnlyConfirmed == Spec => []SentIsConfirmed
BY Invariance, PTL DEF IInv

\* Every transaction up to alreadySent is handed over exactly once.
THEOREM SentExactlyOnce == Spec => []SentOnceEach
BY Invariance, PTL DEF IInv

\* A node that reports that it stopped has handed over all its transactions,
\* so killing it loses none.
THEOREM StoppedIsDrained == Spec => []DrainedWhenStopped
BY Invariance, PTL DEF IInv

-----------------------------------------------------------------------------
(* The pointers lead to the nearest commit.                                *)

\* Below the block that is being committed the walk has left no gap.
WalkInv ==
    patternPc = "walk" =>
        \A d \in Block : walk < d /\ d <= last => nextCommitted[d] = last

NearestInv == WalkInv /\ NextCommittedIsNearest

\* A commit starts a new range of one block, and the walk extends the range
\* downwards by blocks that were in none.
LEMMA NearestInvStep ==
    ASSUME IInv, NearestInv, [Next]_vars
    PROVE  NearestInv'
<1> USE ConstantsAssumption
        DEF NearestInv, WalkInv, NextCommittedIsNearest, Block, NoBlock
<1>1. /\ nextCommitted \in [Block -> Block \cup {NoBlock}]
      /\ last \in Block /\ walk \in Block \cup {NoBlock}
      /\ lastCommitted \in Block /\ lastCommitted <= last /\ PointerInv
  BY DEF IInv, TypeOK, ChainType, PatternType, ChainInv, BoundsInv
<1>2. CASE RecordCommit
  <2>1. /\ nextCommitted' = [nextCommitted EXCEPT ![last] = last]
        /\ walk' = last - 1 /\ last' = last
        /\ nextCommitted[last] = NoBlock
    BY <1>2 DEF RecordCommit, IInv, PatternInv
  <2>2. /\ nextCommitted'[last] = last
        /\ \A b \in Block : b # last => nextCommitted'[b] = nextCommitted[b]
    BY <1>1, <2>1
  <2>3. \A b \in Block : nextCommitted[b] # NoBlock => nextCommitted[b] # last
    BY <2>1
  <2>4. NextCommittedIsNearest'
    <3> SUFFICES ASSUME NEW b \in Block, nextCommitted'[b] # NoBlock
                 PROVE  /\ b <= nextCommitted'[b]
                        /\ nextCommitted'[nextCommitted'[b]] = nextCommitted'[b]
                        /\ \A d \in b .. nextCommitted'[b] - 1 :
                               nextCommitted'[d] = nextCommitted'[b]
      OBVIOUS
    <3>1. CASE b = last
      BY <1>1, <2>2, <3>1
    <3>2. CASE b # last
      <4>1. nextCommitted[b] # NoBlock /\ nextCommitted'[b] = nextCommitted[b]
        BY <2>2, <3>2
      <4>2. nextCommitted[b] < last
        BY <1>1, <2>3, <4>1 DEF PointerInv
      <4> QED
        BY <1>1, <2>2, <4>1, <4>2
    <3> QED
      BY <3>1, <3>2
  <2> QED
    BY <1>1, <2>1, <2>2, <2>4
<1>3. CASE WalkBack
  <2>1. /\ nextCommitted' = [nextCommitted EXCEPT ![walk] = last]
        /\ walk \in Block /\ walk' = walk - 1 /\ last' = last
        /\ nextCommitted[walk] = NoBlock /\ patternPc = "walk"
        /\ walk < last
    BY <1>1, <1>3 DEF WalkBack, WalkOn, IInv, PatternInv
  <2>2. /\ nextCommitted'[walk] = last
        /\ \A b \in Block : b # walk => nextCommitted'[b] = nextCommitted[b]
    BY <1>1, <2>1
  <2>3. \A d \in Block : walk < d /\ d <= last => nextCommitted[d] = last
    BY <2>1
  <2>4. NextCommittedIsNearest'
    <3> SUFFICES ASSUME NEW b \in Block, nextCommitted'[b] # NoBlock
                 PROVE  /\ b <= nextCommitted'[b]
                        /\ nextCommitted'[nextCommitted'[b]] = nextCommitted'[b]
                        /\ \A d \in b .. nextCommitted'[b] - 1 :
                               nextCommitted'[d] = nextCommitted'[b]
      OBVIOUS
    <3>1. CASE b = walk
      BY <1>1, <2>1, <2>2, <2>3, <3>1
    <3>2. CASE b # walk
      <4>1. nextCommitted[b] # NoBlock /\ nextCommitted'[b] = nextCommitted[b]
        BY <2>2, <3>2
      <4>2. /\ nextCommitted[b] # walk
            /\ ~(b <= walk /\ walk <= nextCommitted[b] - 1)
        BY <1>1, <2>1, <4>1
      <4> QED
        BY <1>1, <2>1, <2>2, <4>1, <4>2
    <3> QED
      BY <3>1, <3>2
  <2>5. WalkInv'
    BY <1>1, <2>1, <2>2, <2>3
  <2> QED
    BY <2>4, <2>5
<1>4. CASE ~RecordCommit /\ ~WalkBack
  <2>1. UNCHANGED nextCommitted
    BY <1>4, ChainFrame DEF AppendBlock, AddTransaction, AppendExtra,
       SubmitAbstract, FinalizeBlock, chainVars
  <2>2. patternPc' = "walk" => UNCHANGED <<patternPc, walk, last>>
    <3>1. ASSUME patternPc' = "walk" PROVE UNCHANGED <<patternPc, walk>>
      BY <1>4, <3>1, PatternFrame
         DEF Start, Stop, PatternThread, RunLoop, NotEnoughMoney, AppendBlock,
             AddTransaction, CommitBlocks, AppendExtra, SubmitAbstract,
             CommitReturns, CommitThrows, FinalizeBlock, Finish, AfterCommit,
             AfterException, patternVars
    <3>2. ASSUME patternPc' = "walk" PROVE UNCHANGED last
      BY <1>4, <3>2, ChainFrame DEF AppendBlock, AddTransaction, AppendExtra,
         SubmitAbstract, FinalizeBlock, chainVars
    <3> QED
      BY <3>1, <3>2
  <2> QED
    BY <2>1, <2>2
<1> QED
  BY <1>2, <1>3, <1>4

\* The sweep that follows the pointers misses no commit, also while the pattern
\* thread is walking back over the blocks it has just committed.
THEOREM PointersToNearest == Spec => []NextCommittedIsNearest
<1>1. Init => NearestInv
  <2> SUFFICES ASSUME Init PROVE NearestInv
    OBVIOUS
  <2>1. /\ patternPc # "walk"
        /\ nextCommitted = [b \in Block |-> IF b = 0 THEN 0 ELSE NoBlock]
    BY DEF Init
  <2>2. 0 \in Block /\ nextCommitted[0] = 0
    BY <2>1, ConstantsAssumption DEF Block
  <2>3. \A b \in Block : nextCommitted[b] # NoBlock => b = 0
    BY <2>1
  <2>4. NextCommittedIsNearest
    BY <2>2, <2>3 DEF NextCommittedIsNearest
  <2> QED
    BY <2>1, <2>4 DEF NearestInv, WalkInv
<1>2. NearestInv => NextCommittedIsNearest
  BY DEF NearestInv
<1> QED
  BY <1>1, <1>2, NearestInvStep, Invariance, PTL DEF Spec

-----------------------------------------------------------------------------
(* Committed blocks are left alone.                                        *)

\* A finalized block is a committed one.
FinalizedInv == \A b \in Block : finalized[b] => nextCommitted[b] # NoBlock

\* Only a block that points at itself is finalized, and pointers stay.
LEMMA FinalizedInvStep ==
    ASSUME TypeOK, PatternInv, FinalizedInv, [Next]_vars
    PROVE  FinalizedInv'
<1> USE DEF TypeOK, ChainType, FinalizedInv
<1>1. CASE FinalizeBlock
  <2>1. nextCommitted[last] # NoBlock
    BY <1>1 DEF FinalizeBlock, PatternInv, Block, NoBlock
  <2> QED
    BY <2>1, <1>1 DEF FinalizeBlock
<1>2. CASE ~FinalizeBlock
  <2>1. UNCHANGED finalized
    BY <1>2, ChainFrame
       DEF AppendBlock, AddTransaction, AppendExtra, SubmitAbstract,
           RecordCommit, WalkBack, chainVars
  <2> QED
    BY <2>1, ChainStable
<1> QED
  BY <1>1, <1>2

\* Neither commitBlocks nor addTransaction meets a finalized block, in any
\* order of starts, stops, failed commits and empty commits.
THEOREM CommitsAreNeverRefused == Spec => []NeverRefused
<1>1. Init => FinalizedInv
  <2> SUFFICES ASSUME Init, NEW b \in Block, finalized[b]
               PROVE  nextCommitted[b] # NoBlock
    BY DEF FinalizedInv
  <2>1. b = 0
    BY Zenon DEF Init
  <2> QED
    BY <2>1 DEF Init, NoBlock
<1>2. IInv /\ FinalizedInv /\ [Next]_vars => FinalizedInv'
  BY FinalizedInvStep DEF IInv
<1>3. IInv /\ FinalizedInv => NeverRefused
  BY DEF IInv, FinalizedInv, NeverRefused, PatternInv, ChainInv, PointerInv,
         TypeOK, ChainType, Block, NoBlock
<1> QED
  BY <1>1, <1>2, <1>3, Invariance, PTL DEF Spec

\* The only content a block ever gets is a transaction for the last block,
\* at a moment at which every submitted abstract lies below it.
LEMMA ContentFrozenStep ==
    ASSUME TypeOK, PatternInv, [Next]_vars,
           NEW b \in Block, NEW c \in inFlight \cup mainChain, b <= c
    PROVE  hasTx'[b] = hasTx[b]
<1>1. CASE AddTransaction
  <2>1. c < last
    BY <1>1 DEF AddTransaction, PatternInv
  <2>2. b # last
    BY <2>1 DEF TypeOK, ChainType, LedgerType, Block
  <2> QED
    BY <2>2, <1>1 DEF AddTransaction, TypeOK, ChainType
<1>2. CASE ~AddTransaction
  BY <1>2, ChainFrame
     DEF AppendBlock, AppendExtra, SubmitAbstract, RecordCommit, WalkBack,
         FinalizeBlock, chainVars
<1> QED
  BY <1>1, <1>2

\* A block that a submitted abstract covers keeps its content, so its hash
\* stays the one on the main chain.
THEOREM CommittedStaysFrozen == Spec => CommittedContentFrozen
<1> DEFINE Frozen == \A b \in Block :
               (\E c \in inFlight \cup mainChain : b <= c) => hasTx'[b] = hasTx[b]
<1>1. IInv /\ [Next]_vars => [Frozen]_vars
  BY ContentFrozenStep DEF IInv
<1> QED
  BY <1>1, Invariance, PTL DEF Spec, CommittedContentFrozen

-----------------------------------------------------------------------------
(* The threads implement ConfirmedDelivery.                                *)

\* A filled block is the next one the promise lets the node produce.
LEMMA AddTransactionProduces ==
    ASSUME TypeOK, ChainInv, PatternInv, AddTransaction
    PROVE  Promise!Next \/ UNCHANGED Promise!vars
<1> USE DEF TypeOK, ChainType, LedgerType, Block
<1>1. CASE finalized[last]
  BY <1>1 DEF AddTransaction, Promise!vars, ledgerVars, senderVars
<1>2. CASE ~finalized[last]
  <2>1. /\ hasTx' = [hasTx EXCEPT ![last] = TRUE]
        /\ UNCHANGED <<cache, attempts>>
    BY <1>2 DEF AddTransaction, ledgerVars, senderVars
  <2>2. ~hasTx[last] /\ last # 0 /\ \A c \in mainChain : c < last
    BY DEF AddTransaction, PatternInv
  <2>3. \A c \in {b \in Block \ {0} : hasTx[b]} \cup cache : c < last
    BY <2>2 DEF ChainInv, BoundsInv
  <2>4. {b \in Block \ {0} : hasTx'[b]}
            = {b \in Block \ {0} : hasTx[b]} \cup {last}
    BY <2>1, <2>2
  <2>5. PICK b \in Block : b = last
    OBVIOUS
  <2>6. Promise!Produce(b)
    BY <2>1, <2>3, <2>4, <2>5 DEF Promise!Produce
  <2> QED
    BY <2>6, Zenon DEF Promise!Next, Promise!Block
<1> QED
  BY <1>1, <1>2

\* Handing over a transaction is a delivery that the promise allows: the
\* first one of its block, after those of all lower blocks, and confirmed.
LEMMA SendTransactionDelivers ==
    ASSUME IInv, SendTransaction
    PROVE  Promise!Next
<1> DEFINE b == alreadySent
           produced == {d \in Block \ {0} : hasTx[d]}
<1> USE DEF IInv, TypeOK, ChainType, SenderType, Block
<1>1. /\ b \in Block \ {0} /\ hasTx[b] /\ senderPc = "tx"
  BY DEF SendTransaction, SweepInv, SendInv
<1>2. attempts[b] = 0
  BY <1>1 DEF SentOnceEach
<1>3. \A d \in produced : d < b => attempts[d] > 0
  BY <1>1 DEF SentOnceEach
<1>4. Confirmations(b) >= RequiredCommits
  BY <1>1 DEF SentIsConfirmed
<1>5. attempts' = [attempts EXCEPT ![b] = 1]
  BY <1>1, <1>2 DEF SendTransaction
<1>6. UNCHANGED <<hasTx, cache>>
  BY DEF SendTransaction, chainVars, ledgerVars
<1>7. Promise!Confirmations(b) >= RequiredCommits
  BY <1>4, Zenon
     DEF Promise!Confirmations, Confirmations, Promise!Cardinality, Cardinality
<1>8. Promise!Deliver(b)
  BY <1>1, <1>2, <1>3, <1>5, <1>6, <1>7, Zenon DEF Promise!Deliver
<1> QED
  BY <1>1, <1>8, Zenon DEF Promise!Next, Promise!Block

\* Every step of the threads and of the main chain is a step of the promise
\* or leaves what it speaks about alone.
LEMMA StepImplements ==
    ASSUME IInv, [Next]_vars
    PROVE  Promise!Next \/ UNCHANGED Promise!vars
<1>1. CASE AddTransaction
  BY <1>1, AddTransactionProduces DEF IInv
<1>2. CASE SendTransaction
  BY <1>2, SendTransactionDelivers
<1>3. CASE MainChain
  <2>1. UNCHANGED <<hasTx, attempts>>
    BY <1>3 DEF MainChain, Include, Reject, UpdateCache, chainVars, senderVars
  <2>2. UNCHANGED cache \/ \E b \in Block : cache' = cache \cup {b}
    BY <1>3 DEF MainChain, Include, Reject, UpdateCache, IInv, TypeOK, LedgerType
  <2>3. CASE UNCHANGED cache
    BY <2>1, <2>3 DEF Promise!vars
  <2>4. ASSUME NEW b \in Block, cache' = cache \cup {b}
        PROVE  Promise!Next
    <3>1. Promise!Confirm(b)
      BY <2>1, <2>4 DEF Promise!Confirm
    <3> QED
      BY <3>1, Zenon DEF Promise!Next, Promise!Block, Block
  <2> QED
    BY <2>2, <2>3, <2>4
<1>4. CASE ~AddTransaction /\ ~SendTransaction /\ ~MainChain
  <2>1. UNCHANGED hasTx
    BY <1>4, ChainFrame
       DEF AppendBlock, AppendExtra, SubmitAbstract, RecordCommit, WalkBack,
           FinalizeBlock, chainVars
  <2>2. UNCHANGED cache
    BY <1>4, LedgerFrame DEF SubmitAbstract, ledgerVars
  <2>3. UNCHANGED attempts
    BY <1>4, SenderFrame
       DEF SenderThread, Kill, StartSweep, ScanStep, ScanEnd, Decide, SendBlock,
           SweepDone, senderVars
  <2> QED
    BY <2>1, <2>2, <2>3 DEF Promise!vars
<1> QED
  BY <1>1, <1>2, <1>3, <1>4

\* The two threads, the pointers they share and the cache implement the
\* promise: transactions go out at most once, in block order and confirmed.
THEOREM PipelineImplementsDelivery == Spec => ImplementsDelivery
<1>1. Init => Promise!Init
  BY DEF Init, Promise!Init, Promise!Block, Block
<1>2. IInv /\ [Next]_vars => [Promise!Next]_(Promise!vars)
  BY StepImplements
<1> QED
  BY <1>1, <1>2, Invariance, PTL DEF Spec, ImplementsDelivery, Promise!Spec
-----------------------------------------------------------------------------
(* The limit on pending blocks.                                            *)

\* The blocks with a transaction that the sender has not come to.
Pending == {b \in Block : hasTx[b] /\ b > alreadySent}

\* Between the check of the limit and the new transaction there is room for
\* one more.
PendingInv ==
    /\ Cardinality(Pending) <= MaxBlocksPending
    /\ patternPc \in {"create", "addTx"} =>
           Cardinality(Pending) <= MaxBlocksPending - 1

\* There are finitely many blocks, so those of any kind can be counted.
LEMMA BlocksFinite ==
    ASSUME NEW S \in SUBSET Block
    PROVE  IsFiniteSet(S) /\ Cardinality(S) \in Nat
<1>1. IsFiniteSet(Block)
  BY ConstantsAssumption, FS_Interval DEF Block
<1>2. IsFiniteSet(S)
  BY <1>1, FS_Subset
<1> QED
  BY <1>2, FS_CardinalityType

\* The check of the limit leaves room: the empty blocks that FirstOfTail
\* skips, and the one it counts too many, err on the safe side, unless the
\* limit is 0.
LEMMA RoomForOneMore ==
    ASSUME TypeOK, ChainInv, HasRoom, MaxBlocksPending # 0
    PROVE  Cardinality(Pending) <= MaxBlocksPending - 1
<1> USE DEF TypeOK, ChainType, SenderType
<1>1. PICK t \in 0 .. last : hasTx[t] /\ \A d \in t + 1 .. last : ~hasTx[d]
  BY DEF ChainInv, TailInv
<1>2. t <= FirstOfTail /\ FirstOfTail \in Int
  <2>1. CASE hasTx[last]
    BY <1>1, <2>1 DEF FirstOfTail, Block
  <2>2. CASE ~hasTx[last]
    <3>1. t + 1 \in 0 .. last /\ (t + 1) - 1 = t
      BY <1>1, <2>2 DEF Block
    <3>2. \E b \in 0 .. last : (\A d \in b .. last : ~hasTx[d])
                              /\ (b = 0 \/ hasTx[b - 1])
      BY <1>1, <3>1
    <3>3. /\ FirstOfTail \in 0 .. last
          /\ \A d \in FirstOfTail .. last : ~hasTx[d]
      BY <2>2, <3>2 DEF FirstOfTail
    <3> QED
      BY <1>1, <3>3 DEF Block
  <2> QED
    BY <2>1, <2>2
<1>3. t - alreadySent <= MaxBlocksPending - 1
  BY <1>2, ConstantsAssumption DEF HasRoom, BlocksWaiting, Block
<1>4. Pending \subseteq alreadySent + 1 .. t
  <2> SUFFICES ASSUME NEW b \in Block, hasTx[b], b > alreadySent
               PROVE  b \in alreadySent + 1 .. t
    BY DEF Pending
  <2>1. b <= last
    BY DEF ChainInv, BoundsInv
  <2>2. b <= t
    BY <1>1, <2>1 DEF Block
  <2> QED
    BY <2>2 DEF Block
<1>5. alreadySent \in Int /\ alreadySent + 1 \in Int /\ t \in Int
  BY <1>1 DEF Block
<1>6. /\ IsFiniteSet(alreadySent + 1 .. t)
      /\ Cardinality(alreadySent + 1 .. t)
           = IF alreadySent + 1 > t THEN 0 ELSE t - (alreadySent + 1) + 1
  BY <1>5, FS_Interval, Zenon
<1>7. Cardinality(Pending) <= Cardinality(alreadySent + 1 .. t)
  BY <1>4, <1>6, FS_Subset
<1>8. Cardinality(Pending) \in Nat
  BY BlocksFinite DEF Pending
<1> HIDE DEF Pending
<1>9. CASE alreadySent + 1 > t
  <2>1. Cardinality(Pending) <= 0
    BY <1>6, <1>7, <1>9
  <2> QED
    BY <1>8, <2>1, ConstantsAssumption
<1>10. CASE ~(alreadySent + 1 > t)
  <2>1. Cardinality(Pending) <= t - (alreadySent + 1) + 1
    BY <1>6, <1>7, <1>10
  <2> QED
    BY <1>3, <1>5, <1>8, <2>1, ConstantsAssumption
<1> QED
  BY <1>9, <1>10

\* What is pending never grows but by a new transaction: alreadySent only
\* goes up.
LEMMA PendingShrinks ==
    ASSUME TypeOK, TypeOK', [Next]_vars, ~AddTransaction
    PROVE  Cardinality(Pending') <= Cardinality(Pending)
<1>1. UNCHANGED hasTx
  BY ChainFrame DEF AppendBlock, AppendExtra, SubmitAbstract, RecordCommit,
                    WalkBack, FinalizeBlock, chainVars
<1>2. alreadySent' >= alreadySent
  BY SenderFrame DEF Kill, SenderThread, StartSweep, ScanStep, ScanEnd, Decide,
                     SendBlock, SendTransaction, SweepDone, senderVars, TypeOK,
                     SenderType, Block
<1>3. Pending' \subseteq Pending
  BY <1>1, <1>2 DEF Pending, TypeOK, SenderType, Block
<1>4. IsFiniteSet(Pending)
  BY BlocksFinite DEF Pending
<1> QED
  BY <1>3, <1>4, FS_Subset

\* A new transaction makes at most one block more pending.
LEMMA AddTransactionAdds ==
    ASSUME TypeOK, AddTransaction
    PROVE  Cardinality(Pending') <= Cardinality(Pending) + 1
<1>1. last \in Block /\ hasTx \in [Block -> BOOLEAN]
  BY DEF TypeOK, ChainType
<1>2. UNCHANGED alreadySent
  BY DEF AddTransaction, senderVars
<1>3. Pending' \subseteq Pending \cup {last}
  BY <1>1, <1>2 DEF AddTransaction, Pending
<1>4. IsFiniteSet(Pending) /\ IsFiniteSet(Pending \cup {last})
  BY <1>1, BlocksFinite DEF Pending
<1>5. Cardinality(Pending') <= Cardinality(Pending \cup {last})
  BY <1>3, <1>4, FS_Subset
<1>6. /\ Cardinality(Pending \cup {last}) \in Nat
      /\ Cardinality(Pending') \in Nat
      /\ Cardinality(Pending) \in Nat
  BY <1>1, BlocksFinite DEF Pending
<1>7. Cardinality(Pending \cup {last})
        = IF last \in Pending THEN Cardinality(Pending)
          ELSE Cardinality(Pending) + 1
  BY <1>4, FS_AddElement
<1> HIDE DEF Pending
<1> QED
  BY <1>5, <1>6, <1>7

\* The pattern thread comes to create and addTx by the check only.
LEMMA RoomWasChecked ==
    ASSUME [Next]_vars, patternPc' \in {"create", "addTx"}
    PROVE  \/ patternPc \in {"create", "addTx"} /\ ~AddTransaction
           \/ HasRoom /\ ~AddTransaction
BY PatternFrame
   DEF Start, Stop, PatternThread, RunLoop, NotEnoughMoney, AppendBlock,
       AddTransaction, CommitBlocks, AppendExtra, SubmitAbstract,
       CommitReturns, CommitThrows, RecordCommit, WalkBack, FinalizeBlock,
       Finish, AfterCommit, AfterException, patternVars

\* PendingInv is preserved by every step.
LEMMA PendingInvStep ==
    ASSUME TypeOK, TypeOK', ChainInv, PendingInv, MaxBlocksPending # 0,
           [Next]_vars
    PROVE  PendingInv'
<1>1. Cardinality(Pending) \in Nat /\ Cardinality(Pending') \in Nat
  BY BlocksFinite DEF Pending
<1> HIDE DEF Pending
<1>2. CASE AddTransaction
  <2>1. patternPc = "addTx"
    BY <1>2 DEF AddTransaction
  <2>2. patternPc' \notin {"create", "addTx"}
    BY <1>2 DEF AddTransaction
  <2>3. Cardinality(Pending') <= Cardinality(Pending) + 1
    BY <1>2, AddTransactionAdds
  <2>4. Cardinality(Pending) <= MaxBlocksPending - 1
    BY <2>1 DEF PendingInv
  <2>5. Cardinality(Pending') <= MaxBlocksPending
    BY <1>1, <2>3, <2>4, ConstantsAssumption
  <2> QED
    BY <2>2, <2>5 DEF PendingInv
<1>3. CASE ~AddTransaction
  <2>1. Cardinality(Pending') <= Cardinality(Pending)
    BY <1>3, PendingShrinks
  <2>2. Cardinality(Pending') <= MaxBlocksPending
    BY <1>1, <2>1, ConstantsAssumption DEF PendingInv
  <2>3. ASSUME patternPc' \in {"create", "addTx"}
        PROVE  Cardinality(Pending') <= MaxBlocksPending - 1
    <3>1. Cardinality(Pending) <= MaxBlocksPending - 1
      BY <2>3, RoomWasChecked, RoomForOneMore DEF PendingInv
    <3> QED
      BY <1>1, <2>1, <3>1, ConstantsAssumption
  <2> QED
    BY <2>2, <2>3 DEF PendingInv
<1> QED
  BY <1>2, <1>3

\* The limit on pending blocks holds although it is checked two steps before
\* the transaction is added and against a count that is off by one in both
\* directions.  It has to be at least 1: with a limit of 0 a node that has
\* been stopped and started again would have room, because the empty blocks
\* that were sent make blocksWaiting() negative.
THEOREM PendingStaysBounded ==
    ASSUME MaxBlocksPending # 0
    PROVE  Spec => []PendingBounded
<1>1. Init => PendingInv
  <2> SUFFICES ASSUME Init PROVE PendingInv
    OBVIOUS
  <2>1. alreadySent = 0 /\ \A b \in Block : hasTx[b] <=> b = 0
    BY DEF Init
  <2>2. \A b \in Block : ~(hasTx[b] /\ b > alreadySent)
    BY <2>1
  <2>3. Pending = {}
    BY <2>2, Zenon DEF Pending
  <2>4. Cardinality(Pending) = 0
    BY <2>3, FS_EmptySet
  <2> QED
    BY <2>4, ConstantsAssumption DEF PendingInv
<1>2. IInv /\ IInv' /\ PendingInv /\ [Next]_vars => PendingInv'
  BY PendingInvStep DEF IInv
<1>3. PendingInv => PendingBounded
  BY DEF PendingInv, PendingBounded, Pending
<1> QED
  BY <1>1, <1>2, <1>3, Invariance, PTL DEF Spec
=============================================================================
