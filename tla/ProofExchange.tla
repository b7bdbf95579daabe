--------------------------- MODULE ProofExchange ---------------------------
(***************************************************************************)
(* The nodes of the ledger paying each other.                              *)
(*                                                                         *)
(* Every node keeps its own chain and a copy of a prefix of each other     *)
(* chain, the set of transactions it can still spend, and for every peer   *)
(* its meta knowledge: how far it believes that peer knows each chain.  To *)
(* hand over a transaction the sender thread builds a proof: the blocks of *)
(* its own chain that the receiver lacks and, recursively, those of the    *)
(* chains the sources of their transactions are on.  The receiver decodes  *)
(* the message, verifies that what it needs is complete and committed as   *)
(* far as its own cache of the main chain tells, appends the blocks to its *)
(* copies and notes what the sender knows.  Messages from different peers  *)
(* are handled on other threads than the sender thread, so meta knowledge  *)
(* may grow while a proof is being built from it.                          *)
(*                                                                         *)
(* A transaction is named by the number of the node that made it and the   *)
(* number of its block, as each block holds at most one; <<n, 0>> is what  *)
(* the genesis block gives to n.  Amounts are left out: a transaction      *)
(* takes some unspent ones as sources and may leave a remainder.  How a    *)
(* node's own threads share its chain is the subject of BlockPipeline;     *)
(* here a block and the commits it brings about are one step, and a block  *)
(* is handed over when ConfirmedDelivery allows it.                        *)
(***************************************************************************)
EXTENDS Integers, Sequences, FiniteSets, SequencesExt

CONSTANTS
    Node,             \* ids of the nodes
    Script,           \* Script[n]: receivers of the payments of n (a bound)
    Stoppers,         \* the nodes that are told to stop (a bound)
    MaxSources,       \* bound: sources of one transaction
    Remainder,        \* whether a transaction may leave a remainder
    CommitEvery,      \* ITransactionPattern.getCommitEvery()
    RequiredCommits,  \* SimulationMain.REQUIRED_COMMITS
    CacheLags,        \* whether a cache may lag behind the main chain
    NetworkFails      \* whether connections may fail

ASSUME ExchangeAssumption ==
    /\ Node \subseteq Nat /\ IsFiniteSet(Node)
    /\ Script \in [Node -> Seq(Node)]
    /\ \A n \in Node : \A i \in DOMAIN Script[n] : Script[n][i] # n
    /\ Stoppers \subseteq Node
    /\ MaxSources \in Nat \ {0}
    /\ Remainder \subseteq BOOLEAN /\ Remainder # {}
    /\ CommitEvery \in Nat \ {0}
    /\ RequiredCommits \in Nat \ {0}
    /\ CacheLags \in BOOLEAN
    /\ NetworkFails \in BOOLEAN

NoNode  == -1
NoBlock == -1

VARIABLES
    chain,     \* chain[n][b]: block b of the own chain of n, genesis left out
    mainChain, \* the committed blocks, in the order of the main chain
    cacheLen,  \* cacheLen[n]: how much of the main chain n has cached
    copy,      \* copy[n][m][b + 1]: nextCommittedBlock of block b of m at n
    unspent,   \* unspent[n]: LocalStore.unspent
    known,     \* known[n][r][m]: last block of m that r knows, to n
    sent,      \* sent[n]: TransactionSender.alreadySent
    proof,     \* proof[n]: the proof the sender thread of n is building
    channel,   \* channel[s][r]: messages written and not yet handled
    verified,  \* verified[s][r]: the first of them is valid, to be applied
    failure    \* history: why a payment was first lost

mainVars == <<mainChain, cacheLen>>
storeVars == <<copy, unspent, known>>
sendVars == <<sent, proof>>
netVars == <<channel, verified, failure>>
vars == <<chain, mainVars, storeVars, sendVars, netVars>>

-----------------------------------------------------------------------------
(* Blocks and transactions.                                                *)

Tx(t) == chain[t[1]][t[2]]

IsTransaction(n, b) == b \in DOMAIN chain[n] /\ chain[n][b].to # NoNode

Transactions == {t \in UNION {{n} \X DOMAIN chain[n] : n \in Node} :
                     IsTransaction(t[1], t[2])}

EmptyBlock == [to |-> NoNode, src |-> {}, rem |-> FALSE]

SourcesOf(n, b) == IF IsTransaction(n, b) THEN chain[n][b].src ELSE {}

IsCommitted(n, b) == b = 0 \/ \E i \in DOMAIN mainChain : mainChain[i] = <<n, b>>

InCache(n, m, b) ==
    b = 0 \/ \E i \in 1 .. cacheLen[n] : mainChain[i] = <<m, b>>

Least(S) == CHOOSE x \in S : \A y \in S : x <= y
LeastOrNone(S) == IF S = {} THEN NoBlock ELSE Least(S)

LastCommitted(n) ==
    CHOOSE b \in 0 .. Len(chain[n]) :
        IsCommitted(n, b) /\ \A c \in b + 1 .. Len(chain[n]) : ~IsCommitted(n, c)

\* The last block of m that n has, -1 for a chain it has nothing of.
View(n, m) == IF m = n THEN Len(chain[n]) ELSE Len(copy[n][m]) - 1

\* Block.nextCommittedBlock of block b of m in the store of n.
NextCommitted(n, m, b) ==
    IF m = n
    THEN LeastOrNone({c \in b .. Len(chain[n]) : IsCommitted(n, c)})
    ELSE copy[n][m][b + 1]

\* Everything the given transactions rest on, genesis left out.
History(T) ==
    LET Reach[i \in Nat] ==
          IF i = 0 THEN T
          ELSE LET before == Reach[i - 1]
               IN  before \cup UNION {SourcesOf(t[1], t[2]) : t \in before}
    IN  {t \in Reach[Cardinality(Transactions)] : t[2] # 0}

\* The payments a node has accepted, those it spent since included.
Accepted(n) ==
    {t \in unspent[n] \cup UNION {SourcesOf(n, b) : b \in DOMAIN chain[n]} :
         t[1] # n}

-----------------------------------------------------------------------------
NoProof == [tx |-> 0, blocks |-> [m \in Node |-> <<>>], todo |-> <<>>,
            calm |-> TRUE]

Init ==
    /\ chain = [n \in Node |-> <<>>]
    /\ mainChain = <<>>
    /\ cacheLen = [n \in Node |-> 0]
    /\ copy = [n \in Node |-> [m \in Node |-> <<>>]]
    /\ unspent = [n \in Node |-> {<<n, 0>>}]
    /\ known = [n \in Node |-> [r \in Node |-> [m \in Node |-> -1]]]
    /\ sent = [n \in Node |-> 0]
    /\ proof = [n \in Node |-> NoProof]
    /\ channel = [s \in Node |-> [r \in Node |-> <<>>]]
    /\ verified = [s \in Node |-> [r \in Node |-> FALSE]]
    /\ failure = "none"

-----------------------------------------------------------------------------
(* The pattern thread of a node: pay, commit, stop.                        *)

\* The main chain takes the blocks; caches that do not lag have them at once.
Commit(blocks) ==
    /\ mainChain' = mainChain \o blocks
    /\ cacheLen' = IF CacheLags THEN cacheLen
                   ELSE [n \in Node |-> Len(mainChain')]

Stopped(n) == chain[n] # <<>> /\ Last(chain[n]).to = NoNode

\* Slip: the sources are not marked as spent.
KeepSources(n, S, t, rem) == unspent[n] \cup (IF rem THEN {t} ELSE {})

SpendSources(n, S, t, rem) ==
    (unspent[n] \ S) \cup (IF rem THEN {t} ELSE {})

\* doAction: create a transaction from unspent sources, append it in a block
\* of its own and commit every CommitEvery blocks.
Pay(n) ==
    LET b == Len(chain[n]) + 1 IN
    /\ ~Stopped(n) /\ b <= Len(Script[n])
    /\ \E S \in SUBSET unspent[n], rem \in Remainder :
          /\ S # {} /\ Cardinality(S) <= MaxSources
          /\ chain' = [chain EXCEPT ![n] =
                 Append(@, [to |-> Script[n][b], src |-> S, rem |-> rem])]
          /\ unspent' = [unspent EXCEPT ![n] = SpendSources(n, S, <<n, b>>, rem)]
    /\ Commit(IF b - LastCommitted(n) >= CommitEvery THEN <<<<n, b>>>> ELSE <<>>)
    /\ UNCHANGED <<copy, known, sendVars, netVars>>

\* onStop: force a commit and append committed empty blocks.
Stop(n) ==
    LET b == Len(chain[n]) IN
    /\ n \in Stoppers /\ ~Stopped(n)
    /\ b = Len(Script[n]) \/ unspent[n] = {}
    /\ chain' = [chain EXCEPT ![n] =
           @ \o [i \in 1 .. RequiredCommits + 1 |-> EmptyBlock]]
    /\ Commit((IF b > LastCommitted(n) THEN <<<<n, b>>>> ELSE <<>>)
              \o [i \in 1 .. RequiredCommits + 1 |-> <<n, b + i>>])
    /\ UNCHANGED <<storeVars, sendVars, netVars>>

\* TendermintChain.updateCacheBlocking gets one more entry of the main chain.
UpdateCache(n) ==
    /\ cacheLen[n] < Len(mainChain)
    /\ cacheLen' = [cacheLen EXCEPT ![n] = @ + 1]
    /\ UNCHANGED <<chain, mainChain, storeVars, sendVars, netVars>>

-----------------------------------------------------------------------------
(* The sender thread of a node: build a proof and send it.                 *)

Numbers(first, last) == [i \in 1 .. last - first + 1 |-> first + i - 1]

\* MetaKnowledge.getBlocksToSend: what r lacks of m up to block last.
BlocksToSend(n, r, m, last) ==
    IF m = r THEN <<>> ELSE Numbers(known[n][r][m] + 1, last)

\* Transaction.compareTo: the order a transaction's sources are visited in.
Before(t, u) == t[1] < u[1] \/ (t[1] = u[1] /\ t[2] < u[2])

\* A set of transactions as a sorted list: a TreeSet.
Sorted(T) ==
    CHOOSE q \in [1 .. Cardinality(T) -> T] :
        \A i, j \in DOMAIN q : i < j => Before(q[i], q[j])

\* The sources processSources looks at: not of genesis, not on the chain of
\* the sender n nor of the receiver r.
SourcesToProve(n, r, m, blocks) ==
    FlattenSeq([i \in DOMAIN blocks |->
        Sorted({t \in SourcesOf(m, blocks[i]) :
                    t[2] # 0 /\ t[1] \notin {n, r}})])

Confirmations(n, b) ==
    Cardinality({c \in b .. Len(chain[n]) : c > 0 /\ InCache(n, n, c)})

\* Slip: the block sent last is sent again.
UnsentAgain(n) ==
    {b \in DOMAIN chain[n] : b >= sent[n] /\ IsTransaction(n, b)}

Unsent(n) == {b \in DOMAIN chain[n] : b > sent[n] /\ IsTransaction(n, b)}

\* The sender gets to the next block it can send and starts the proof with
\* the blocks of the own chain.
StartProof(n) ==
    /\ proof[n] = NoProof
    /\ Unsent(n) # {}
    /\ LET b   == Least(Unsent(n))
           r   == chain[n][b].to
           own == BlocksToSend(n, r, n, NextCommitted(n, n, b))
       IN  /\ Confirmations(n, b) >= RequiredCommits
           /\ sent' = [sent EXCEPT ![n] = b]
           /\ proof' = [proof EXCEPT ![n] =
                 [tx |-> b,
                  blocks |-> [m \in Node |-> IF m = n THEN own ELSE <<>>],
                  todo |-> SourcesToProve(n, r, n, own),
                  calm |-> TRUE]]
    /\ UNCHANGED <<chain, mainVars, storeVars, netVars>>

Receiver(n) == chain[n][proof[n].tx].to

\* Slip: the blocks up to the source only, not up to its commit.
WantedUncommitted(n) ==
    LET t == Head(proof[n].todo)
    IN  BlocksToSend(n, Receiver(n), t[1], t[2])

\* What processSources wants to add for the source it is at.
Wanted(n) ==
    LET t == Head(proof[n].todo)
    IN  BlocksToSend(n, Receiver(n), t[1], NextCommitted(n, t[1], t[2]))

\* Slip: the blocks that are new by count are taken from the front.
NewFromFront(n) ==
    LET current == proof[n].blocks[Head(proof[n].todo)[1]]
    IN  SubSeq(Wanted(n), 1, Len(Wanted(n)) - Len(current))

\* addBlocksToSend: what is new of the wanted blocks, told by their number
\* alone.
NewBlocks(n) ==
    LET current == proof[n].blocks[Head(proof[n].todo)[1]]
    IN  SubSeq(Wanted(n), Len(current) + 1, Len(Wanted(n)))

\* processSources and addBlocksToSend for one source; the sources of the
\* blocks that were added are visited before the rest.  A source that is not
\* in the copy, or has no pointer, is an exception that ends the proof.
AddSource(n) ==
    /\ proof[n].todo # <<>>
    /\ LET t    == Head(proof[n].todo)
           new  == NewBlocks(n)
           more == [proof[n].blocks EXCEPT ![t[1]] = @ \o new]
           todo == SourcesToProve(n, Receiver(n), t[1], new)
                       \o Tail(proof[n].todo)
       IN  proof' = [proof EXCEPT ![n] =
               IF t[2] <= View(n, t[1]) /\ NextCommitted(n, t[1], t[2]) # NoBlock
               THEN [proof[n] EXCEPT !.blocks = more, !.todo = todo]
               ELSE NoProof]
    /\ UNCHANGED <<chain, mainVars, storeVars, sent, netVars>>

\* Slip: the first unknown number is noted for the last known one.
LearnTooMuch(n, p, blocks) ==
    [m \in Node |->
        IF m = p \/ blocks[m] = <<>> \/ Last(blocks[m]) < known[n][p][m]
        THEN known[n][p][m]
        ELSE Last(blocks[m]) + 1]

\* Node.updateMetaKnowledge: peer p knows the chains of a proof up to their
\* last block, its own chain left out.
Learn(n, p, blocks) ==
    [m \in Node |->
        IF m = p \/ blocks[m] = <<>> \/ Last(blocks[m]) < known[n][p][m]
        THEN known[n][p][m]
        ELSE Last(blocks[m])]

\* The message is written: assume that the receiver will know its blocks.
SendProof(n) ==
    /\ proof[n] # NoProof /\ proof[n].todo = <<>>
    /\ LET r == Receiver(n) IN
       /\ channel' = [channel EXCEPT ![n][r] = Append(@,
              [tx |-> proof[n].tx, blocks |-> proof[n].blocks,
               calm |-> proof[n].calm])]
       /\ known' = [known EXCEPT ![n][r] = Learn(n, r, proof[n].blocks)]
    /\ proof' = [proof EXCEPT ![n] = NoProof]
    /\ UNCHANGED <<chain, mainVars, copy, unspent, sent, verified, failure>>

Fail(reason) == failure' = IF failure = "none" THEN reason ELSE failure

\* The connection cannot be made or the write fails: no retry.
SendFails(n) ==
    /\ NetworkFails
    /\ proof[n] # NoProof /\ proof[n].todo = <<>>
    /\ proof' = [proof EXCEPT ![n] = NoProof]
    /\ Fail("network")
    /\ UNCHANGED <<chain, mainVars, storeVars, sent, channel, verified>>

\* A connection breaks: what is on it is lost, but for the message that is
\* being handled.
ConnectionBreaks(s, r) ==
    LET handled == IF verified[s][r] THEN 1 ELSE 0 IN
    /\ NetworkFails
    /\ Len(channel[s][r]) > handled
    /\ channel' = [channel EXCEPT ![s][r] = SubSeq(@, 1, handled)]
    /\ Fail("network")
    /\ UNCHANGED <<chain, mainVars, storeVars, sendVars, verified>>

-----------------------------------------------------------------------------
(* The handler of a proof message, at node r for a message msg of node s.  *)

\* A LightView finds block k of m, in the copy or in the updates.
Finds(r, msg, m, k) ==
    \/ k <= View(r, m)
    \/ \E i \in DOMAIN msg.blocks[m] :
          i = k - Head(msg.blocks[m]) + 1 /\ msg.blocks[m][i] = k

\* ChainView.checkIntegrity: no gap between copy and updates, nor in them.
ChainValid(r, msg, m) ==
    LET us == msg.blocks[m] IN
    /\ \A i \in DOMAIN us : us[i] = Head(us) + i - 1
    /\ us # <<>> /\ View(r, m) # -1 => Head(us) <= View(r, m) + 1

\* fixPreviousBlockPointers finds the block before the first of an update.
Attaches(r, msg, m) ==
    msg.blocks[m] # <<>> => Head(msg.blocks[m]) <= View(r, m) + 1

\* new Proof(message, localStore) returns, without an exception.
Decodes(r, s, msg) ==
    /\ \A m \in Node :
          /\ Attaches(r, msg, m)
          /\ \A i \in DOMAIN msg.blocks[m] :
                \A t \in SourcesOf(m, msg.blocks[m][i]) :
                    Finds(r, msg, t[1], t[2])
    /\ \/ msg.tx <= View(r, s)
       \/ ChainValid(r, msg, s) /\ Finds(r, msg, s, msg.tx)

\* Proof.verifyChainWithTransaction for transaction t: it is in the chain
\* view, and a block at or after it is committed as far as r can tell.
Verifies(r, msg, t) ==
    LET m == t[1]
        inCopy    == t[2] .. View(r, m)
        inUpdates == {b \in ToSet(msg.blocks[m]) : b >= t[2]}
    IN  /\ ChainValid(r, msg, m)
        /\ t[2] <= View(r, m) \/ t[2] \in inUpdates
        /\ \/ \E b \in inCopy : NextCommitted(r, m, b) # NoBlock
           \/ \E b \in inCopy \cup inUpdates : InCache(r, m, b)

\* Verification.checkMoney: the sender is involved in each source.
SpendsOwnMoney(t) ==
    \A u \in Tx(t).src : IF u[2] = 0 THEN u[1] = t[1]
                         ELSE Tx(u).to = t[1] \/ u[1] = t[1]

\* Verification.checkDoubleSpending: no earlier block shares a source.
SpendsOnce(t) ==
    \A b \in 1 .. t[2] - 1 : SourcesOf(t[1], b) \cap Tx(t).src = {}

\* Slip: the sources of the transaction are not verified.
IsValidAlone(r, s, msg) ==
    LET t == <<s, msg.tx>> IN
    Verifies(r, msg, t) /\ SpendsOwnMoney(t) /\ SpendsOnce(t)

\* validateNewMessage: not received before, and everything it rests on that
\* earlier proofs did not show to be valid is valid.
IsValid(r, s, msg) ==
    /\ <<s, msg.tx>> \notin Accepted(r)
    /\ \A t \in History({<<s, msg.tx>>}) \ History(Accepted(r)) :
          Verifies(r, msg, t) /\ SpendsOwnMoney(t) /\ SpendsOnce(t)

Drop(s, r, n) ==
    channel' = [channel EXCEPT ![s][r] = SubSeq(@, n + 1, Len(@))]

\* Why r refuses a proof: its cache is behind, the proof was overtaken by a
\* message of r, or neither.
Refusal(r, msg) ==
    IF cacheLen[r] < Len(mainChain) THEN "lag"
    ELSE IF msg.calm THEN "honest" ELSE "race"

\* Decode and verify the first message.  One that cannot be decoded closes
\* the connection it came on; one that is invalid is dropped.
Verify(s, r) ==
    /\ ~verified[s][r] /\ channel[s][r] # <<>>
    /\ LET msg == Head(channel[s][r]) IN
       \/ /\ Decodes(r, s, msg) /\ IsValid(r, s, msg)
          /\ verified' = [verified EXCEPT ![s][r] = TRUE]
          /\ UNCHANGED <<channel, failure>>
       \/ /\ Decodes(r, s, msg) /\ ~IsValid(r, s, msg)
          /\ Drop(s, r, 1) /\ Fail(Refusal(r, msg))
          /\ UNCHANGED verified
       \/ /\ ~Decodes(r, s, msg)
          /\ Drop(s, r, Len(channel[s][r])) /\ Fail(Refusal(r, msg))
          /\ UNCHANGED verified
    /\ UNCHANGED <<chain, mainVars, storeVars, sendVars>>

\* Slip: every block of an update is taken for committed.
AppendedAsCommitted(r, msg, m) ==
    LET first == View(r, m) + 1
        new   == {b \in ToSet(msg.blocks[m]) : b >= first}
    IN  [i \in 1 .. Cardinality(new) |-> first + i - 1]

\* Slip: the last block of an update is left out.
AppendedShort(r, msg, m) ==
    LET first == View(r, m) + 1
        new   == {b \in ToSet(msg.blocks[m]) : b >= first}
    IN  [i \in 1 .. Cardinality(new) - 1 |-> Last(msg.blocks[m])]

\* Chain.update and fixNextCommitted: the blocks that follow on the copy are
\* appended, and lead to the next one that is committed or ends the update.
Appended(r, msg, m) ==
    LET us    == ToSet(msg.blocks[m])
        first == View(r, m) + 1
        new   == {b \in us : b >= first /\ first .. b \subseteq us}
        ends  == {b \in new : b = Last(msg.blocks[m]) \/ InCache(r, m, b)}
    IN  [i \in 1 .. Cardinality(new) |->
            LeastOrNone({b \in ends : b >= first + i - 1})]

\* Proof.applyUpdates and addUnspentTransaction, for a verified message.
Apply(s, r) ==
    /\ verified[s][r]
    /\ LET msg == Head(channel[s][r]) IN
       /\ copy' = [copy EXCEPT ![r] =
              [m \in Node |-> IF m = r THEN @[m] ELSE @[m] \o Appended(r, msg, m)]]
       /\ known' = [known EXCEPT ![r][s] = Learn(r, s, msg.blocks)]
       /\ unspent' = [unspent EXCEPT ![r] = @ \cup {<<s, msg.tx>>}]
    /\ Drop(s, r, 1)
    /\ verified' = [verified EXCEPT ![s][r] = FALSE]
    /\ proof' = IF /\ proof[r] # NoProof /\ Receiver(r) = s
                   /\ known'[r][s] # known[r][s]
                THEN [proof EXCEPT ![r].calm = FALSE]
                ELSE proof
    /\ UNCHANGED <<chain, mainVars, sent, failure>>

-----------------------------------------------------------------------------
\* What the threads do.
Work ==
    \/ \E n \in Node : UpdateCache(n) \/ SendProof(n) \/ AddSource(n)
    \/ \E s, r \in Node : Apply(s, r) \/ Verify(s, r)
    \/ \E n \in Node : StartProof(n) \/ Pay(n) \/ Stop(n)

Fault ==
    \/ \E n \in Node : SendFails(n)
    \/ \E s, r \in Node : ConnectionBreaks(s, r)

Next == Work \/ Fault

Spec == Init /\ [][Next]_vars

\* The program does not stand still while any of its threads, those of the
\* patterns, the senders, the handlers or the caches, can go on.
Fairness == WF_vars(Work)

FairSpec == Spec /\ Fairness

-----------------------------------------------------------------------------
TxId == Node \X Nat
BlockNumbers == Seq(Nat)

TypeOK ==
    /\ chain \in [Node -> Seq([to : Node \cup {NoNode}, src : SUBSET TxId,
                               rem : BOOLEAN])]
    /\ mainChain \in Seq(TxId)
    /\ cacheLen \in [Node -> 0 .. Len(mainChain)]
    /\ copy \in [Node -> [Node -> Seq(Nat \cup {NoBlock})]]
    /\ unspent \in [Node -> SUBSET TxId]
    /\ known \in [Node -> [Node -> [Node -> Nat \cup {-1}]]]
    /\ \A n, r, m \in Node : known[n][r][m] <= Len(chain[m])
    /\ sent \in [Node -> Nat]
    /\ proof \in [Node -> [tx : Nat, blocks : [Node -> BlockNumbers],
                           todo : Seq(TxId), calm : BOOLEAN]]
    /\ channel \in [Node -> [Node -> Seq([tx : Nat, calm : BOOLEAN,
                                          blocks : [Node -> BlockNumbers]])]]
    /\ verified \in [Node -> [Node -> BOOLEAN]]
    /\ \A s, r \in Node : verified[s][r] => channel[s][r] # <<>>
    /\ failure \in {"none", "network", "lag", "race", "honest"}

\* A payment is in one place: waiting for the sender thread, in the proof
\* being built, in a message, or with the receiver.  It is never in two, and
\* it is in none only after a failure.
Places(t) ==
    LET n == t[1]
        r == Tx(t).to
        at(place, here) == IF here THEN {<<place>>} ELSE {}
    IN  UNION {at("waiting", t[2] > sent[n]),
               at("proof", proof[n].tx = t[2]),
               at("received", t \in Accepted(r)),
               {<<"message", i>> : i \in {j \in DOMAIN channel[n][r] :
                                             channel[n][r][j].tx = t[2]}}}

InOnePlace ==
    \A t \in Transactions :
        /\ Cardinality(Places(t)) <= 1
        /\ failure = "none" => Places(t) # {}

\* What a transaction moves is spent at most once: what it pays by its
\* receiver, its remainder by its sender.
SpentOnce ==
    \A u, v \in Transactions : \A w \in Tx(u).src \cap Tx(v).src :
        u = v \/ (w[2] # 0 /\ {u[1], v[1]} = {w[1], Tx(w).to} /\ Tx(w).rem)

\* Proof.fixTransactionSources, ProofConstructor.processSources: the sources
\* of the blocks a node has of a chain are among the blocks it has.
SourcesAtHand ==
    \A n, m \in Node : \A b \in 1 .. View(n, m) :
        \A t \in SourcesOf(m, b) : t[2] <= View(n, t[1])

\* Chain.fixNextCommitted: whatever the updates were cut into, each block of
\* a copy leads to a committed block at or after it that the copy has.
PointersCommitted ==
    \A n, m \in Node : \A b \in 0 .. View(n, m) :
        n # m => LET c == NextCommitted(n, m, b)
                 IN  c \in b .. View(n, m) /\ IsCommitted(m, c)

\* The first payment that is refused was refused by a receiver whose cache is
\* behind, or had a proof whose receiver sent one of its own meanwhile: what
\* a node believes its peers to know is not more than they know.
HonestProofsPass == failure # "honest"

\* ProofConstructor.addBlocksToSend, line 111: when the proof has as many
\* blocks of the chain as are to be added, there is "Nothing new".
NothingNew ==
    \A n \in Node : proof[n].todo # <<>> =>
        LET current == proof[n].blocks[Head(proof[n].todo)[1]]
        IN  Len(Wanted(n)) <= Len(current)
                => ToSet(Wanted(n)) \subseteq ToSet(current)

\* Every payment gets to its receiver, unless one was lost to the network, to
\* a cache that was behind or to a proof that was overtaken.
EveryPaymentArrives ==
    \A n \in Node : \A i \in DOMAIN Script[n] :
        <<n, i>> \in Transactions ~>
            \/ <<n, i>> \in Accepted(Script[n][i])
            \/ failure \in {"network", "lag", "race"}

=============================================================================
