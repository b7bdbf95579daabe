------------------------ MODULE ProofExchangeProofs ------------------------
(***************************************************************************)
(* Theorems about ProofExchange for any finite set of nodes, any payments, *)
(* and whether or not caches lag and connections fail.                     *)
(***************************************************************************)
EXTENDS ProofExchange, InductionLemmas

-----------------------------------------------------------------------------
(* The operators the proofs of payments are made with.                     *)

\* The least number of a set that is not empty is one of its elements.
LEMMA LeastType ==
    ASSUME NEW S \in SUBSET Nat, S # {}
    PROVE  Least(S) \in S /\ \A x \in S : Least(S) <= x
BY LeastExists, Zenon DEF Least

\* Before orders the transactions of any set: by sender, then by number.
LEMMA BeforeOrders ==
    ASSUME NEW T \in SUBSET (Nat \X Nat)
    PROVE  Orders({p \in (Nat \X Nat) \X (Nat \X Nat) : Before(p[1], p[2])}, T)
<1> DEFINE R == {p \in (Nat \X Nat) \X (Nat \X Nat) : Before(p[1], p[2])}
<1>1. \A x, y \in T : <<x, y>> \in R <=> Before(x, y)
  OBVIOUS
<1>2. \A x \in T : x[1] \in Nat /\ x[2] \in Nat /\ x = <<x[1], x[2]>>
  OBVIOUS
<1> HIDE DEF R
<1>3. \A x \in T : <<x, x>> \notin R
  BY <1>1, <1>2 DEF Before
<1>4. ASSUME NEW x \in T, NEW y \in T
      PROVE  x = y \/ <<x, y>> \in R \/ <<y, x>> \in R
  <2>1. x[1] = y[1] /\ x[2] = y[2] => x = y
    BY <1>2
  <2> QED BY <1>1, <1>2, <2>1 DEF Before
<1>5. ASSUME NEW x \in T, NEW y \in T, NEW z \in T,
             <<x, y>> \in R /\ <<y, z>> \in R
      PROVE  <<x, z>> \in R
  <2>1. Before(x, y) /\ Before(y, z)
    BY <1>1, <1>5
  <2>2. Before(x, z)
    BY <1>2, <2>1 DEF Before
  <2> QED BY <1>1, <2>2
<1>6. Orders(R, T)
  BY <1>3, <1>4, <1>5 DEF Orders
<1> QED BY <1>6 DEF R

\* A TreeSet lists exactly its elements.
LEMMA SortedListsAll ==
    ASSUME NEW T \in SUBSET (Nat \X Nat), IsFiniteSet(T)
    PROVE  /\ Sorted(T) \in Seq(T)
           /\ Range(Sorted(T)) = T
<1> DEFINE R == {p \in (Nat \X Nat) \X (Nat \X Nat) : Before(p[1], p[2])}
           q == Sorted(T)
<1>1. Orders(R, T)
  BY BeforeOrders
<1>2. \A x, y \in T : <<x, y>> \in R <=> Before(x, y)
  OBVIOUS
<1>3. Cardinality(T) \in Nat
  BY FS_CardinalityType
<1> HIDE DEF R
<1>4. PICK p : Lists(p, R, T)
  BY <1>1, ListExists
<1>5. /\ p \in [1 .. Cardinality(T) -> T]
      /\ \A i, j \in DOMAIN p : i < j => Before(p[i], p[j])
  BY <1>2, <1>4, Zenon DEF Lists
<1>6. /\ q \in [1 .. Cardinality(T) -> T]
      /\ \A i, j \in DOMAIN q : i < j => Before(q[i], q[j])
  BY <1>5, Zenon DEF Sorted
<1> HIDE DEF q
<1>7. Lists(q, R, T)
  BY <1>2, <1>6 DEF Lists
<1>8. /\ q \in Seq(T)
      /\ \A x \in T : \E i \in 1 .. Len(q) : q[i] = x
  BY <1>1, <1>7, ListIsComplete
<1>9. Range(q) = {q[i] : i \in 1 .. Len(q)} /\ Range(q) \in SUBSET T
  BY <1>8, RangeEquality, RangeOfSeq
<1> QED BY <1>8, <1>9, Zenon DEF q

\* The numbers from first to last, in order, each once.
LEMMA NumbersType ==
    ASSUME NEW first \in Nat, NEW last \in Int
    PROVE  /\ Numbers(first, last) \in Seq(first .. last)
           /\ Len(Numbers(first, last)) =
                  IF first <= last THEN last - first + 1 ELSE 0
           /\ \A i \in 1 .. Len(Numbers(first, last)) :
                  Numbers(first, last)[i] = first + i - 1
<1>1. CASE first <= last
  <2>1. last - first + 1 \in Nat
    BY <1>1
  <2> QED BY <1>1, <2>1 DEF Numbers
<1>2. CASE last < first
  <2>1. 1 .. last - first + 1 = {}
    BY <1>2
  <2>2. Numbers(first, last) = <<>>
    BY <2>1 DEF Numbers
  <2> QED BY <1>2, <2>2
<1> QED BY <1>1, <1>2

-----------------------------------------------------------------------------
(* Types, with what they depend on: the length of the chains.              *)

Block == [to : Node \cup {NoNode}, src : SUBSET TxId, rem : BOOLEAN]

\* The blocks of m there are.
Blocks(m) == 0 .. Len(chain[m])

\* The blocks of a proof or a message are blocks there are.
Exist(blocks) ==
    /\ blocks \in [Node -> BlockNumbers]
    /\ \A m \in Node : blocks[m] \in Seq(Blocks(m))

ChainTyped ==
    /\ chain \in [Node -> Seq(Block)]
    /\ \A n \in Node : \A b \in DOMAIN chain[n] :
          IsFiniteSet(chain[n][b].src) /\ chain[n][b].to # n
    /\ unspent \in [Node -> SUBSET TxId]
    /\ \A n \in Node : IsFiniteSet(unspent[n])

MainTyped ==
    /\ mainChain \in Seq(TxId)
    /\ cacheLen \in [Node -> 0 .. Len(mainChain)]

CopyTyped ==
    /\ copy \in [Node -> [Node -> Seq(Nat \cup {NoBlock})]]
    /\ \A n, m \in Node : copy[n][m] \in Seq(Blocks(m) \cup {NoBlock})

KnownTyped ==
    /\ known \in [Node -> [Node -> [Node -> Nat \cup {-1}]]]
    /\ \A n, r, m \in Node : known[n][r][m] <= Len(chain[m])

ProofTyped ==
    /\ sent \in [Node -> Nat]
    /\ proof \in [Node -> [tx : Nat, blocks : [Node -> BlockNumbers],
                           todo : Seq(TxId), calm : BOOLEAN]]
    /\ \A n \in Node : Exist(proof[n].blocks)
    /\ \A n \in Node : proof[n] # NoProof => IsTransaction(n, proof[n].tx)

MessageTyped(s, r, msg) ==
    /\ Exist(msg.blocks)
    /\ msg.tx \in DOMAIN chain[s] /\ chain[s][msg.tx].to = r

ChannelTyped ==
    /\ channel \in [Node -> [Node -> Seq([tx : Nat, calm : BOOLEAN,
                                          blocks : [Node -> BlockNumbers]])]]
    /\ \A s, r \in Node : \A i \in DOMAIN channel[s][r] :
          MessageTyped(s, r, channel[s][r][i])
    /\ verified \in [Node -> [Node -> BOOLEAN]]
    /\ \A s, r \in Node : verified[s][r] => channel[s][r] # <<>>
    /\ failure \in {"none", "network", "lag", "race", "honest"}

Typed ==
    /\ ChainTyped
    /\ MainTyped
    /\ CopyTyped
    /\ KnownTyped
    /\ ProofTyped
    /\ ChannelTyped

\* The type invariant in parts says what TypeOK says.
LEMMA TypedIsTypeOK ==
    ASSUME Typed
    PROVE  TypeOK
BY Zenon DEF Typed, TypeOK, ChainTyped, MainTyped, CopyTyped, KnownTyped, ProofTyped,
       ChannelTyped, Block

\* It holds when the simulation begins.
LEMMA InitTyped ==
    ASSUME Init
    PROVE  Typed
<1> USE DEF Init
<1>1. ChainTyped
  <2>1. \A n \in Node : IsFiniteSet({<<n, 0>>})
    BY FS_Singleton, Zenon
  <2>2. \A n \in Node : <<n, 0>> \in TxId
    BY DEF TxId
  <2> QED BY <2>1, <2>2 DEF ChainTyped
<1>2. MainTyped
  BY DEF MainTyped
<1>3. \A S : <<>> \in Seq(S)
  OBVIOUS
<1>4. CopyTyped
  BY <1>3 DEF CopyTyped
<1>5. KnownTyped
  BY DEF KnownTyped
<1>6. ProofTyped
  BY <1>3, Zenon DEF ProofTyped, NoProof, Exist, BlockNumbers
<1>7. ChannelTyped
  BY <1>3 DEF ChannelTyped
<1> QED BY <1>1, <1>2, <1>4, <1>5, <1>6, <1>7 DEF Typed

-----------------------------------------------------------------------------
(* Chains only grow, and what depends on their length persists.            *)

\* The chains of the next state continue those of this one.
Grown ==
    /\ chain' \in [Node -> Seq(Block)]
    /\ \A n \in Node : \A b \in DOMAIN chain[n] :
          b \in DOMAIN chain'[n] /\ chain'[n][b] = chain[n][b]
    /\ \A n \in Node : Len(chain[n]) <= Len(chain'[n])

\* A payment appends a block and leaves the others alone.
LEMMA PayGrows ==
    ASSUME ChainTyped, NEW n \in Node, Pay(n)
    PROVE  /\ Grown
           /\ ChainTyped'
<1> DEFINE b == Len(chain[n]) + 1
<1>1. PICK S \in SUBSET unspent[n], rem \in Remainder :
          /\ S # {}
          /\ chain' = [chain EXCEPT ![n] =
                 Append(@, [to |-> Script[n][b], src |-> S, rem |-> rem])]
          /\ unspent' = [unspent EXCEPT ![n] = SpendSources(n, S, <<n, b>>, rem)]
  BY Zenon DEF Pay
<1>2. b \in 1 .. Len(Script[n]) /\ Script[n] \in Seq(Node)
  <2>1. chain[n] \in Seq(Block) /\ Script[n] \in Seq(Node) /\ b <= Len(Script[n])
    BY ExchangeAssumption, Zenon DEF Pay, ChainTyped
  <2>2. Len(chain[n]) \in Nat /\ Len(Script[n]) \in Nat
    BY <2>1, LenProperties
  <2> QED BY <2>1, <2>2
<1>3. Script[n][b] \in Node /\ Script[n][b] # n
  BY <1>2, ExchangeAssumption
<1>4. rem \in BOOLEAN /\ S \in SUBSET TxId /\ IsFiniteSet(S)
  BY ExchangeAssumption, FS_Subset DEF ChainTyped
<1> DEFINE block == [to |-> Script[n][b], src |-> S, rem |-> rem]
<1>5. block \in Block /\ IsFiniteSet(block.src) /\ block.to # n
  BY <1>3, <1>4 DEF Block
<1>6. n \in Nat /\ b \in Nat
  BY ExchangeAssumption DEF ChainTyped
<1>7. SpendSources(n, S, <<n, b>>, rem) \in SUBSET TxId
      /\ IsFiniteSet(SpendSources(n, S, <<n, b>>, rem))
  <2>1. IsFiniteSet(unspent[n] \ S) /\ IsFiniteSet({<<n, b>>}) /\ IsFiniteSet({})
    BY FS_Subset, FS_Singleton, FS_EmptySet, Zenon DEF ChainTyped
  <2>2. IsFiniteSet((unspent[n] \ S) \cup {<<n, b>>})
        /\ IsFiniteSet((unspent[n] \ S) \cup {})
    BY <2>1, FS_Union, Zenon
  <2>3. SpendSources(n, S, <<n, b>>, rem) \in
            {(unspent[n] \ S) \cup {<<n, b>>}, (unspent[n] \ S) \cup {}}
    BY DEF SpendSources
  <2>4. <<n, b>> \in TxId
    BY <1>6 DEF TxId
  <2> QED BY <2>2, <2>3, <2>4, Zenon DEF ChainTyped
<1>8. /\ Append(chain[n], block) \in Seq(Block)
      /\ Len(Append(chain[n], block)) = b
      /\ \A i \in 1 .. Len(chain[n]) : Append(chain[n], block)[i] = chain[n][i]
      /\ Append(chain[n], block)[b] = block
  BY <1>5, AppendProperties DEF ChainTyped
<1>9. chain' = [chain EXCEPT ![n] = Append(chain[n], block)]
  BY <1>1
<1> HIDE DEF block
<1>10. chain' \in [Node -> Seq(Block)] /\ chain'[n] = Append(chain[n], block)
       /\ \A m \in Node \ {n} : chain'[m] = chain[m]
  BY <1>8, <1>9 DEF ChainTyped
<1>11. Grown
  <2>1. ASSUME NEW m \in Node
        PROVE  /\ \A c \in DOMAIN chain[m] :
                     c \in DOMAIN chain'[m] /\ chain'[m][c] = chain[m][c]
               /\ Len(chain[m]) <= Len(chain'[m])
    <3>1. chain[m] \in Seq(Block) /\ chain'[m] \in Seq(Block)
      BY <1>10 DEF ChainTyped
    <3>2. DOMAIN chain[m] = 1 .. Len(chain[m])
          /\ DOMAIN chain'[m] = 1 .. Len(chain'[m])
          /\ Len(chain[m]) \in Nat
      BY <3>1, LenProperties
    <3>3. CASE m = n
      BY <1>8, <1>10, <3>2, <3>3
    <3>4. CASE m # n
      BY <1>10, <3>2, <3>4
    <3> QED BY <3>3, <3>4
  <2> QED BY <1>10, <2>1 DEF Grown
<1>12. ASSUME NEW m \in Node, NEW c \in DOMAIN chain'[m]
       PROVE  IsFiniteSet(chain'[m][c].src) /\ chain'[m][c].to # m
  <2>1. CASE m = n /\ c = b
    BY <1>5, <1>8, <1>10, <2>1
  <2>2. CASE ~ (m = n /\ c = b)
    <3>1. c \in DOMAIN chain[m] /\ chain'[m][c] = chain[m][c]
      <4>1. CASE m # n
        BY <1>10, <4>1
      <4>2. CASE m = n
        <5>1. chain[n] \in Seq(Block) /\ chain'[n] \in Seq(Block)
          BY <1>10 DEF ChainTyped
        <5>2. DOMAIN chain'[n] = 1 .. b /\ DOMAIN chain[n] = 1 .. Len(chain[n])
              /\ Len(chain[n]) \in Nat
          BY <1>8, <1>10, <5>1, LenProperties
        <5>3. c \in 1 .. Len(chain[n])
          BY <2>2, <4>2, <5>2
        <5> QED BY <1>8, <1>10, <4>2, <5>2, <5>3
      <4> QED BY <4>1, <4>2
    <3> QED BY <3>1 DEF ChainTyped
  <2> QED BY <2>1, <2>2
<1>13. unspent' \in [Node -> SUBSET TxId]
       /\ \A m \in Node : IsFiniteSet(unspent'[m])
  BY <1>1, <1>7, Zenon DEF ChainTyped
<1> QED BY <1>10, <1>11, <1>12, <1>13 DEF ChainTyped

\* So does the marker a node stops with.
LEMMA StopGrows ==
    ASSUME ChainTyped, NEW n \in Node, Stop(n)
    PROVE  /\ Grown
           /\ ChainTyped'
<1> DEFINE b == Len(chain[n])
           empty == [i \in 1 .. RequiredCommits + 1 |-> EmptyBlock]
<1>1. RequiredCommits + 1 \in Nat
  BY ExchangeAssumption
<1>2. EmptyBlock \in Block /\ IsFiniteSet(EmptyBlock.src) /\ EmptyBlock.to = NoNode
  BY FS_EmptySet DEF EmptyBlock, Block
<1>3. empty \in Seq(Block) /\ Len(empty) = RequiredCommits + 1
      /\ \A i \in 1 .. Len(empty) : empty[i] = EmptyBlock
  BY <1>1, <1>2
<1>4. chain' = [chain EXCEPT ![n] = chain[n] \o empty] /\ unspent' = unspent
  BY DEF Stop, storeVars
<1> HIDE DEF empty
<1>5. /\ chain[n] \o empty \in Seq(Block)
      /\ Len(chain[n] \o empty) = b + Len(empty)
      /\ \A i \in 1 .. b + Len(empty) : (chain[n] \o empty)[i] =
              IF i <= b THEN chain[n][i] ELSE empty[i - b]
  <2>1. chain[n] \in Seq(Block)
    BY DEF ChainTyped
  <2> QED BY <1>3, <2>1, ConcatProperties, Zenon
<1>6. chain' \in [Node -> Seq(Block)] /\ chain'[n] = chain[n] \o empty
      /\ \A m \in Node \ {n} : chain'[m] = chain[m]
  BY <1>4, <1>5 DEF ChainTyped
<1>7. NoNode \notin Node /\ b \in Nat /\ Len(empty) \in Nat
  BY <1>1, <1>3, ExchangeAssumption DEF NoNode, ChainTyped
<1>8. ASSUME NEW m \in Node, NEW c \in DOMAIN chain'[m]
      PROVE  \/ c \in DOMAIN chain[m] /\ chain'[m][c] = chain[m][c]
             \/ m = n /\ c > b /\ chain'[m][c] = EmptyBlock
  <2>1. CASE m # n
    BY <1>6, <2>1
  <2>2. CASE m = n
    <3>1. c \in 1 .. b + Len(empty)
      BY <1>5, <1>6, <2>2, LenProperties
    <3>2. CASE c <= b
      <4>1. c \in DOMAIN chain[n]
        BY <3>1, <3>2, LenProperties DEF ChainTyped
      <4> QED BY <1>5, <1>6, <2>2, <3>1, <3>2, <4>1
    <3>3. CASE c > b
      <4>1. c - b \in 1 .. Len(empty)
        BY <1>7, <3>1, <3>3
      <4>2. chain'[m][c] = empty[c - b]
        <5>1. ~ (c <= b)
          BY <1>7, <3>1, <3>3
        <5>2. (chain[n] \o empty)[c] =
                  IF c <= b THEN chain[n][c] ELSE empty[c - b]
          BY <1>5, <3>1
        <5> QED BY <1>6, <2>2, <5>1, <5>2, Zenon
      <4> QED BY <1>3, <2>2, <3>3, <4>1, <4>2
    <3> QED BY <1>7, <3>1, <3>2, <3>3
  <2> QED BY <2>1, <2>2
<1>9. Grown
  <2>1. ASSUME NEW m \in Node
        PROVE  /\ \A c \in DOMAIN chain[m] :
                     c \in DOMAIN chain'[m] /\ chain'[m][c] = chain[m][c]
               /\ Len(chain[m]) <= Len(chain'[m])
    <3>1. chain[m] \in Seq(Block) /\ chain'[m] \in Seq(Block)
      BY <1>6 DEF ChainTyped
    <3>2. DOMAIN chain[m] = 1 .. Len(chain[m])
          /\ DOMAIN chain'[m] = 1 .. Len(chain'[m])
          /\ Len(chain[m]) \in Nat
      BY <3>1, LenProperties
    <3>3. CASE m = n
      <4>1. ASSUME NEW c \in DOMAIN chain[n] PROVE c \in 1 .. b + Len(empty) /\ c <= b
        BY <1>7, <3>2, <3>3
      <4> QED BY <1>5, <1>6, <1>7, <3>2, <3>3, <4>1
    <3>4. CASE m # n
      BY <1>6, <3>2, <3>4
    <3> QED BY <3>3, <3>4
  <2> QED BY <1>6, <2>1 DEF Grown
<1>10. ASSUME NEW m \in Node, NEW c \in DOMAIN chain'[m]
       PROVE  IsFiniteSet(chain'[m][c].src) /\ chain'[m][c].to # m
  BY <1>2, <1>7, <1>8, Zenon DEF ChainTyped
<1> QED BY <1>4, <1>6, <1>9, <1>10 DEF ChainTyped

\* What leaves the chains alone has them grown by nothing.
LEMMA SameGrown ==
    ASSUME ChainTyped, UNCHANGED chain
    PROVE  Grown
<1>1. \A n \in Node : Len(chain[n]) \in Nat
  BY LenProperties DEF ChainTyped
<1> QED BY <1>1 DEF Grown, ChainTyped

\* A message that is taken in leaves chains and money well typed.
LEMMA ApplyTyped ==
    ASSUME ChainTyped, ChannelTyped, NEW s \in Node, NEW r \in Node, Apply(s, r)
    PROVE  ChainTyped'
<1> DEFINE t == <<s, Head(channel[s][r]).tx>>
<1>1. t \in TxId
  <2>1. channel[s][r] \in Seq([tx : Nat, calm : BOOLEAN,
                               blocks : [Node -> BlockNumbers]])
        /\ channel[s][r] # <<>>
    BY Zenon DEF ChannelTyped, Apply
  <2>2. Head(channel[s][r]) \in [tx : Nat, calm : BOOLEAN,
                                 blocks : [Node -> BlockNumbers]]
    BY <2>1, HeadTailProperties, Zenon
  <2> QED BY <2>2 DEF TxId
<1>2. unspent' = [unspent EXCEPT ![r] = @ \cup {t}] /\ chain' = chain
  BY DEF Apply
<1> HIDE DEF t
<1>3. IsFiniteSet(unspent[r] \cup {t})
  BY FS_AddElement, Zenon DEF ChainTyped
<1> QED BY <1>1, <1>2, <1>3 DEF ChainTyped

\* No step shortens a chain or changes a block of one.
LEMMA StepChainTyped ==
    ASSUME ChainTyped, ChannelTyped, [Next]_vars
    PROVE  Grown /\ ChainTyped'
<1>1. ASSUME NEW n \in Node, Pay(n) PROVE Grown /\ ChainTyped'
  BY <1>1, PayGrows
<1>2. ASSUME NEW n \in Node, Stop(n) PROVE Grown /\ ChainTyped'
  BY <1>2, StopGrows
<1>3. ASSUME NEW s \in Node, NEW r \in Node, Apply(s, r)
      PROVE  Grown /\ ChainTyped'
  BY <1>3, ApplyTyped, SameGrown, Zenon DEF Apply
<1>4. ASSUME UNCHANGED <<chain, unspent>> PROVE Grown /\ ChainTyped'
  BY <1>4, SameGrown DEF ChainTyped
<1>5. ASSUME NEW n \in Node,
             UpdateCache(n) \/ SendProof(n) \/ AddSource(n) \/ StartProof(n)
                 \/ SendFails(n)
      PROVE  UNCHANGED <<chain, unspent>>
  BY <1>5 DEF UpdateCache, SendProof, AddSource, StartProof, SendFails, storeVars
<1>6. ASSUME NEW s \in Node, NEW r \in Node, Verify(s, r) \/ ConnectionBreaks(s, r)
      PROVE  UNCHANGED <<chain, unspent>>
  BY <1>6 DEF Verify, ConnectionBreaks, storeVars
<1>7. CASE UNCHANGED vars
  BY <1>4, <1>7 DEF vars, storeVars
<1> QED BY <1>1, <1>2, <1>3, <1>4, <1>5, <1>6, <1>7 DEF Next, Work, Fault

\* What is said of blocks of this state is true of them in the next.
LEMMA Persist ==
    ASSUME ChainTyped, Grown
    PROVE  /\ \A m \in Node : Blocks(m) \subseteq Blocks(m)'
           /\ \A blocks : Exist(blocks) => Exist(blocks)'
           /\ \A n \in Node : \A b : IsTransaction(n, b) => IsTransaction(n, b)'
           /\ \A n \in Node : \A b \in DOMAIN chain[n] :
                 /\ IsTransaction(n, b)' <=> IsTransaction(n, b)
                 /\ SourcesOf(n, b)' = SourcesOf(n, b)
           /\ \A s, r \in Node : \A msg :
                 MessageTyped(s, r, msg) => MessageTyped(s, r, msg)'
<1>1. ASSUME NEW m \in Node PROVE Blocks(m) \subseteq Blocks(m)'
  <2>1. chain[m] \in Seq(Block) /\ chain'[m] \in Seq(Block)
        /\ Len(chain[m]) <= Len(chain'[m])
    BY DEF ChainTyped, Grown
  <2>2. Len(chain[m]) \in Nat /\ Len(chain'[m]) \in Nat
    BY <2>1, LenProperties
  <2> QED BY <2>1, <2>2 DEF Blocks
<1>2. ASSUME NEW blocks, Exist(blocks) PROVE Exist(blocks)'
  BY <1>1, <1>2, SeqMonotonic DEF Exist
<1>3. ASSUME NEW n \in Node, NEW b \in DOMAIN chain[n]
      PROVE  /\ IsTransaction(n, b)' <=> IsTransaction(n, b)
             /\ SourcesOf(n, b)' = SourcesOf(n, b)
  <2>1. b \in DOMAIN chain'[n] /\ chain'[n][b] = chain[n][b]
    BY DEF Grown
  <2> QED BY <2>1 DEF IsTransaction, SourcesOf
<1>4. \A n \in Node : \A b : IsTransaction(n, b) => IsTransaction(n, b)'
  BY <1>3 DEF IsTransaction
<1>5. ASSUME NEW s \in Node, NEW r \in Node, NEW msg, MessageTyped(s, r, msg)
      PROVE  MessageTyped(s, r, msg)'
  BY <1>2, <1>5 DEF MessageTyped, Grown
<1> QED BY <1>1, <1>2, <1>3, <1>4, <1>5

-----------------------------------------------------------------------------
(* The main chain only grows, and so do the caches of it.                  *)

MainGrown ==
    /\ mainChain' \in Seq(TxId)
    /\ \A i \in DOMAIN mainChain :
          i \in DOMAIN mainChain' /\ mainChain'[i] = mainChain[i]
    /\ cacheLen' \in [Node -> 0 .. Len(mainChain')]
    /\ \A n \in Node : cacheLen[n] <= cacheLen'[n]

\* A commit adds its last transactions to the main chain.
LEMMA CommitTyped ==
    ASSUME MainTyped, NEW blocks \in Seq(TxId), Commit(blocks)
    PROVE  MainGrown
<1>1. /\ mainChain \in Seq(TxId) /\ mainChain' = mainChain \o blocks
      /\ Len(mainChain) \in Nat /\ Len(blocks) \in Nat
  BY LenProperties DEF Commit, MainTyped
<1>2. /\ mainChain' \in Seq(TxId)
      /\ Len(mainChain') = Len(mainChain) + Len(blocks)
      /\ \A i \in 1 .. Len(mainChain) + Len(blocks) : mainChain'[i] =
            IF i <= Len(mainChain) THEN mainChain[i] ELSE blocks[i - Len(mainChain)]
  BY <1>1, ConcatProperties
<1>3. DOMAIN mainChain = 1 .. Len(mainChain)
      /\ DOMAIN mainChain' = 1 .. Len(mainChain) + Len(blocks)
  BY <1>1, <1>2, LenProperties
<1>4. \A i \in DOMAIN mainChain :
          i \in DOMAIN mainChain' /\ mainChain'[i] = mainChain[i]
  BY <1>1, <1>2, <1>3
<1>5. CASE cacheLen' = cacheLen
  BY <1>1, <1>2, <1>4, <1>5 DEF MainGrown, MainTyped
<1>6. CASE cacheLen' = [n \in Node |-> Len(mainChain')]
  BY <1>1, <1>2, <1>4, <1>6 DEF MainGrown, MainTyped
<1> QED BY <1>5, <1>6 DEF Commit

\* What the main chain has committed stays committed, and caches only grow.
LEMMA StepMainTyped ==
    ASSUME ChainTyped, MainTyped, [Next]_vars
    PROVE  MainGrown
<1>1. ASSUME NEW n \in Node, Pay(n) PROVE MainGrown
  <2> DEFINE b == Len(chain[n]) + 1
  <2>1. <<n, b>> \in TxId
    BY ExchangeAssumption, LenProperties DEF TxId, ChainTyped
  <2>2. <<<<n, b>>>> \in Seq(TxId) /\ <<>> \in Seq(TxId)
    BY <2>1
  <2>3. PICK blocks \in {<<<<n, b>>>>, <<>>} : Commit(blocks)
    BY <1>1 DEF Pay
  <2> QED BY <2>2, <2>3, CommitTyped, Zenon
<1>2. ASSUME NEW n \in Node, Stop(n) PROVE MainGrown
  <2> DEFINE b == Len(chain[n])
             first == IF b > LastCommitted(n) THEN <<<<n, b>>>> ELSE <<>>
             rest == [i \in 1 .. RequiredCommits + 1 |-> <<n, b + i>>]
  <2>1. b \in Nat /\ n \in Nat /\ RequiredCommits + 1 \in Nat
    BY ExchangeAssumption, LenProperties DEF ChainTyped
  <2>2. <<n, b>> \in TxId
    BY <2>1 DEF TxId
  <2>3. first \in Seq(TxId)
    <3>1. <<<<n, b>>>> \in Seq(TxId) /\ <<>> \in Seq(TxId)
      BY <2>2
    <3> QED BY <3>1
  <2>4. rest \in Seq(TxId)
    <3>1. \A i \in 1 .. RequiredCommits + 1 : <<n, b + i>> \in TxId
      BY <2>1 DEF TxId
    <3> DEFINE k == RequiredCommits + 1
               e(i) == <<n, b + i>>
               q == [i \in 1 .. k |-> e(i)]
    <3>2. k \in Nat /\ \A i \in 1 .. k : e(i) \in TxId
      BY <2>1, <3>1
    <3> HIDE DEF k, e
    <3>3. q \in Seq(TxId)
      BY <3>2
    <3> QED BY <3>3 DEF k, e
  <2>5. Commit(first \o rest)
    BY <1>2 DEF Stop
  <2> HIDE DEF first, rest
  <2>6. first \o rest \in Seq(TxId)
    BY <2>3, <2>4, ConcatProperties
  <2> QED BY <2>5, <2>6, CommitTyped, Zenon
<1>3. Len(mainChain) \in Nat
  BY LenProperties DEF MainTyped
<1>4. ASSUME NEW n \in Node, UpdateCache(n) PROVE MainGrown
  BY <1>3, <1>4 DEF UpdateCache, MainGrown, MainTyped
<1>5. ASSUME UNCHANGED mainVars PROVE MainGrown
  BY <1>3, <1>5 DEF MainGrown, MainTyped, mainVars
<1>6. ASSUME NEW n \in Node,
             SendProof(n) \/ AddSource(n) \/ StartProof(n) \/ SendFails(n)
      PROVE  UNCHANGED mainVars
  BY <1>6 DEF SendProof, AddSource, StartProof, SendFails
<1>7. ASSUME NEW s \in Node, NEW r \in Node,
             Apply(s, r) \/ Verify(s, r) \/ ConnectionBreaks(s, r)
      PROVE  UNCHANGED mainVars
  BY <1>7, Zenon DEF Apply, Verify, ConnectionBreaks
<1>8. CASE UNCHANGED vars
  BY <1>5, <1>8 DEF vars
<1> QED BY <1>1, <1>2, <1>4, <1>5, <1>6, <1>7, <1>8 DEF Next, Work, Fault

-----------------------------------------------------------------------------
(* Copies.                                                                 *)

\* The least of a set, or NoBlock when there is none.
LEMMA LeastOrNoneType ==
    ASSUME NEW S \in SUBSET Nat
    PROVE  /\ LeastOrNone(S) \in S \cup {NoBlock}
           /\ S # {} => /\ LeastOrNone(S) \in S
                        /\ \A x \in S : LeastOrNone(S) <= x
           /\ S = {} => LeastOrNone(S) = NoBlock
BY LeastType, Zenon DEF LeastOrNone

\* The elements of a sequence: finitely many, each at some place.
LEMMA ToSetType ==
    ASSUME NEW S, NEW q \in Seq(S)
    PROVE  /\ ToSet(q) \in SUBSET S
           /\ IsFiniteSet(ToSet(q))
           /\ \A i \in 1 .. Len(q) : q[i] \in ToSet(q)
           /\ \A x \in ToSet(q) : \E i \in 1 .. Len(q) : q[i] = x
           /\ ToSet(q) = Range(q)
<1>1. Len(q) \in Nat /\ DOMAIN q = 1 .. Len(q) /\ q \in [1 .. Len(q) -> S]
  BY LenProperties
<1>2. ToSet(q) = {q[i] : i \in 1 .. Len(q)}
  BY <1>1 DEF ToSet
<1>3. IsFiniteSet(1 .. Len(q))
  BY <1>1, FS_Interval
<1>4. q \in Surjection(1 .. Len(q), ToSet(q))
  BY <1>1, <1>2 DEF Surjection
<1>5. IsFiniteSet(ToSet(q))
  BY <1>3, <1>4, FS_Surjection
<1>6. ToSet(q) = Range(q)
  BY <1>2, RangeEquality
<1> QED BY <1>1, <1>2, <1>5, <1>6

\* What Chain.update appends.
LEMMA AppendedType ==
    ASSUME ChainTyped, CopyTyped, NEW r \in Node, NEW m \in Node, r # m, NEW msg,
           Exist(msg.blocks)
    PROVE  LET us    == ToSet(msg.blocks[m])
               first == View(r, m) + 1
               new   == {b \in us : b >= first /\ first .. b \subseteq us}
           IN  /\ Appended(r, msg, m) \in Seq(Blocks(m) \cup {NoBlock})
               /\ Len(Appended(r, msg, m)) = Cardinality(new)
               /\ IsFiniteSet(new)
<1> DEFINE us    == ToSet(msg.blocks[m])
           first == View(r, m) + 1
           new   == {b \in us : b >= first /\ first .. b \subseteq us}
           ends  == {b \in new : b = Last(msg.blocks[m]) \/ InCache(r, m, b)}
<1>1. us \in SUBSET Blocks(m) /\ IsFiniteSet(us)
  BY ToSetType DEF Exist
<1>2. new \in SUBSET us /\ ends \in SUBSET new
  OBVIOUS
<1>3. IsFiniteSet(new) /\ Cardinality(new) \in Nat
  BY <1>1, <1>2, FS_Subset, FS_CardinalityType
<1>4. Blocks(m) \in SUBSET Nat
  BY DEF Blocks
<1>5. \A x : LeastOrNone({b \in ends : b >= x}) \in Blocks(m) \cup {NoBlock}
  <2>1. ASSUME NEW x
        PROVE  LeastOrNone({b \in ends : b >= x}) \in Blocks(m) \cup {NoBlock}
    <3>1. {b \in ends : b >= x} \in SUBSET Nat
      BY <1>1, <1>2, <1>4
    <3> QED BY <1>1, <1>2, <3>1, LeastOrNoneType
  <2> QED BY <2>1, Zenon
<1>6. Appended(r, msg, m) =
          [i \in 1 .. Cardinality(new) |->
              LeastOrNone({b \in ends : b >= first + i - 1})]
  BY DEF Appended
<1> HIDE DEF us, first, new, ends
<1>7. Appended(r, msg, m) \in Seq(Blocks(m) \cup {NoBlock})
      /\ Len(Appended(r, msg, m)) = Cardinality(new)
  <2> DEFINE e(i) == LeastOrNone({b \in ends : b >= first + i - 1})
             q == [i \in 1 .. Cardinality(new) |-> e(i)]
  <2>1. \A i : e(i) \in Blocks(m) \cup {NoBlock}
    BY <1>5
  <2> HIDE DEF e
  <2>2. q \in Seq(Blocks(m) \cup {NoBlock}) /\ Len(q) = Cardinality(new)
    BY <1>3, <2>1
  <2>3. Appended(r, msg, m) = q
    BY <1>6 DEF e
  <2> QED BY <2>2, <2>3, Zenon
<1> QED BY <1>3, <1>7 DEF us, first, new

\* Copies that are left alone stay parts of the chains, which only grow.
LEMMA SameCopyTyped ==
    ASSUME ChainTyped, CopyTyped, Grown, UNCHANGED copy
    PROVE  CopyTyped'
<1>1. ASSUME NEW n \in Node, NEW m \in Node
      PROVE  copy'[n][m] \in Seq(Blocks(m)' \cup {NoBlock})
  <2>1. Blocks(m) \cup {NoBlock} \subseteq Blocks(m)' \cup {NoBlock}
    BY Persist
  <2> QED BY <2>1, SeqMonotonic, Zenon DEF CopyTyped
<1> QED BY <1>1, Zenon DEF CopyTyped

\* No step puts a block into a copy that the chain does not have.
LEMMA StepCopyTyped ==
    ASSUME Typed, [Next]_vars
    PROVE  CopyTyped'
<1>0. /\ ChainTyped /\ CopyTyped /\ ChannelTyped
      /\ Grown
  BY StepChainTyped DEF Typed
<1>1. ASSUME NEW s \in Node, NEW r \in Node, Apply(s, r) PROVE CopyTyped'
  <2> DEFINE msg == Head(channel[s][r])
  <2>1. /\ verified[s][r] /\ chain' = chain
        /\ copy' = [copy EXCEPT ![r] =
              [m \in Node |-> IF m = r THEN copy[r][m]
                              ELSE copy[r][m] \o Appended(r, msg, m)]]
    BY <1>1 DEF Apply
  <2>2. Exist(msg.blocks)
    <3>1. channel[s][r] # <<>> /\ channel[s][r] \in Seq([tx : Nat, calm : BOOLEAN,
                                         blocks : [Node -> BlockNumbers]])
      BY <1>0, <2>1, Zenon DEF ChannelTyped
    <3>2. 1 \in DOMAIN channel[s][r] /\ msg = channel[s][r][1]
      BY <3>1
    <3> QED BY <1>0, <3>2 DEF ChannelTyped, MessageTyped
  <2> HIDE DEF msg
  <2>3. ASSUME NEW m \in Node, m # r
        PROVE  copy[r][m] \o Appended(r, msg, m) \in Seq(Blocks(m) \cup {NoBlock})
    <3>1. Appended(r, msg, m) \in Seq(Blocks(m) \cup {NoBlock})
      BY <1>0, <2>2, <2>3, AppendedType, Zenon
    <3>2. copy[r][m] \in Seq(Blocks(m) \cup {NoBlock})
      BY <1>0 DEF CopyTyped
    <3> QED BY <3>1, <3>2, ConcatProperties
  <2>4. \A m \in Node : Blocks(m)' = Blocks(m)
    BY <2>1 DEF Blocks
  <2>5. ASSUME NEW m \in Node PROVE Blocks(m) \cup {NoBlock} \subseteq Nat \cup {NoBlock}
    BY DEF Blocks
  <2>6. ASSUME NEW n \in Node, NEW m \in Node
        PROVE  /\ copy'[n][m] \in Seq(Blocks(m)' \cup {NoBlock})
               /\ copy'[n][m] \in Seq(Nat \cup {NoBlock})
    <3>1. copy'[n][m] \in Seq(Blocks(m) \cup {NoBlock})
      BY <1>0, <2>1, <2>3, Zenon DEF CopyTyped
    <3> QED BY <2>4, <2>5, <3>1, SeqMonotonic
  <2>7. copy' \in [Node -> [Node -> Seq(Nat \cup {NoBlock})]]
    <3>1. \A n \in Node : copy'[n] = [m \in Node |-> copy'[n][m]]
      BY <1>0, <2>1, Zenon DEF CopyTyped
    <3>2. copy' = [n \in Node |-> copy'[n]]
      BY <1>0, <2>1, Zenon DEF CopyTyped
    <3> QED BY <2>6, <3>1, <3>2, Zenon
  <2> QED BY <2>6, <2>7, Zenon DEF CopyTyped
<1>2. ASSUME UNCHANGED copy PROVE CopyTyped'
  BY <1>0, <1>2, SameCopyTyped
<1>3. ASSUME NEW n \in Node,
             UpdateCache(n) \/ SendProof(n) \/ AddSource(n) \/ StartProof(n)
                 \/ SendFails(n) \/ Pay(n) \/ Stop(n)
      PROVE  UNCHANGED copy
  BY <1>3 DEF UpdateCache, SendProof, AddSource, StartProof, SendFails, Pay, Stop,
              storeVars
<1>4. ASSUME NEW s \in Node, NEW r \in Node, Verify(s, r) \/ ConnectionBreaks(s, r)
      PROVE  UNCHANGED copy
  BY <1>4 DEF Verify, ConnectionBreaks, storeVars
<1>5. CASE UNCHANGED vars
  BY <1>2, <1>5 DEF vars, storeVars
<1> QED BY <1>1, <1>2, <1>3, <1>4, <1>5 DEF Next, Work, Fault

-----------------------------------------------------------------------------
(* Meta knowledge.                                                         *)

\* The receiver of a payment is another node.
LEMMA ReceiverType ==
    ASSUME ChainTyped, NEW n \in Node, NEW b
    PROVE  /\ b \in DOMAIN chain[n] =>
                 chain[n][b] \in Block /\ b \in Nat \ {0} /\ b \in Blocks(n)
           /\ IsTransaction(n, b) => /\ chain[n][b].to \in Node
                                     /\ chain[n][b].to # n
                                     /\ b \in DOMAIN chain[n]
<1>1. chain[n] \in Seq(Block)
  BY DEF ChainTyped
<1>2. b \in DOMAIN chain[n] =>
          chain[n][b] \in Block /\ b \in Nat \ {0} /\ b \in Blocks(n)
  BY <1>1, LenProperties DEF Blocks
<1> QED BY <1>2 DEF IsTransaction, ChainTyped, Block

\* The message at the head of a channel is a message of that channel.
LEMMA FirstMessage ==
    ASSUME ChannelTyped, NEW s \in Node, NEW r \in Node, channel[s][r] # <<>>
    PROVE  /\ MessageTyped(s, r, Head(channel[s][r]))
           /\ Head(channel[s][r]) \in [tx : Nat, calm : BOOLEAN,
                                       blocks : [Node -> BlockNumbers]]
<1>1. channel[s][r] \in Seq([tx : Nat, calm : BOOLEAN,
                             blocks : [Node -> BlockNumbers]])
  BY Zenon DEF ChannelTyped
<1>2. 1 \in DOMAIN channel[s][r] /\ Head(channel[s][r]) = channel[s][r][1]
  BY <1>1
<1>3. Head(channel[s][r]) \in [tx : Nat, calm : BOOLEAN,
                               blocks : [Node -> BlockNumbers]]
  BY <1>1, HeadTailProperties, Zenon
<1> QED BY <1>2, <1>3 DEF ChannelTyped

\* A node never takes a peer to know less than before.
LEMMA LearnType ==
    ASSUME ChainTyped, KnownTyped, NEW n \in Node, NEW p \in Node, NEW blocks,
           Exist(blocks)
    PROVE  /\ Learn(n, p, blocks) \in [Node -> Nat \cup {-1}]
           /\ \A m \in Node : /\ Learn(n, p, blocks)[m] <= Len(chain[m])
                              /\ known[n][p][m] <= Learn(n, p, blocks)[m]
<1>1. ASSUME NEW m \in Node
      PROVE  /\ Learn(n, p, blocks)[m] \in Nat \cup {-1}
             /\ Learn(n, p, blocks)[m] <= Len(chain[m])
             /\ known[n][p][m] <= Learn(n, p, blocks)[m]
  <2>1. known[n][p][m] \in Nat \cup {-1} /\ known[n][p][m] <= Len(chain[m])
        /\ Len(chain[m]) \in Nat
    BY LenProperties DEF KnownTyped, ChainTyped
  <2>2. Learn(n, p, blocks)[m] =
            IF m = p \/ blocks[m] = <<>> \/ Last(blocks[m]) < known[n][p][m]
            THEN known[n][p][m] ELSE Last(blocks[m])
    BY DEF Learn
  <2>3. ASSUME blocks[m] # <<>> PROVE Last(blocks[m]) \in Blocks(m)
    <3>1. blocks[m] \in Seq(Blocks(m))
      BY DEF Exist
    <3> QED BY <2>3, <3>1 DEF Last
  <2>4. CASE m = p \/ blocks[m] = <<>> \/ Last(blocks[m]) < known[n][p][m]
    BY <2>1, <2>2, <2>4
  <2>5. CASE ~(m = p \/ blocks[m] = <<>> \/ Last(blocks[m]) < known[n][p][m])
    BY <2>1, <2>2, <2>3, <2>5 DEF Blocks
  <2> QED BY <2>4, <2>5
<1> QED BY <1>1 DEF Learn

\* Meta knowledge is of blocks that exist, and is never taken back.
LEMMA StepKnownTyped ==
    ASSUME Typed, [Next]_vars
    PROVE  /\ KnownTyped'
           /\ \A n, r, m \in Node : known[n][r][m] <= known'[n][r][m]
<1> DEFINE goal == /\ KnownTyped'
                   /\ \A n, r, m \in Node : known[n][r][m] <= known'[n][r][m]
<1>0. /\ ChainTyped /\ KnownTyped /\ ChannelTyped /\ ProofTyped /\ Grown
  BY StepChainTyped DEF Typed
<1>1. ASSUME NEW n \in Node, NEW p \in Node, NEW blocks, Exist(blocks),
             chain' = chain,
             known' = [known EXCEPT ![n][p] = Learn(n, p, blocks)]
      PROVE  goal
  <2> DEFINE new == Learn(n, p, blocks)
  <2>1. /\ new \in [Node -> Nat \cup {-1}]
        /\ \A m \in Node : new[m] <= Len(chain[m]) /\ known[n][p][m] <= new[m]
    BY <1>0, <1>1, LearnType
  <2> HIDE DEF new
  <2>2. known' \in [Node -> [Node -> [Node -> Nat \cup {-1}]]]
    BY <1>0, <1>1, <2>1, Zenon DEF KnownTyped, new
  <2>3. ASSUME NEW a \in Node, NEW b \in Node, NEW m \in Node
        PROVE  /\ known'[a][b][m] <= Len(chain[m])
               /\ known[a][b][m] <= known'[a][b][m]
    <3>1. known'[a][b] = IF a = n /\ b = p THEN new ELSE known[a][b]
      BY <1>0, <1>1 DEF KnownTyped, new
    <3>2. known[a][b][m] \in Int /\ known[a][b][m] <= Len(chain[m])
      BY <1>0 DEF KnownTyped
    <3> QED BY <2>1, <3>1, <3>2
  <2> QED BY <1>1, <2>2, <2>3 DEF KnownTyped
<1>2. ASSUME UNCHANGED known PROVE goal
  <2>1. ASSUME NEW a \in Node, NEW b \in Node, NEW m \in Node
        PROVE  /\ known'[a][b][m] <= Len(chain'[m])
               /\ known[a][b][m] <= known'[a][b][m]
    <3>1. known[a][b][m] \in Int /\ known[a][b][m] <= Len(chain[m])
      BY <1>0 DEF KnownTyped
    <3>2. Len(chain[m]) \in Nat /\ Len(chain'[m]) \in Nat
          /\ Len(chain[m]) <= Len(chain'[m])
      BY <1>0, LenProperties DEF ChainTyped, Grown
    <3> QED BY <1>2, <3>1, <3>2
  <2> QED BY <1>0, <1>2, <2>1 DEF KnownTyped
<1> HIDE DEF goal
<1>3. ASSUME NEW n \in Node, SendProof(n) PROVE goal
  <2>1. IsTransaction(n, proof[n].tx) /\ Exist(proof[n].blocks)
    BY <1>0, <1>3 DEF SendProof, ProofTyped
  <2>2. Receiver(n) \in Node
    BY <1>0, <2>1, ReceiverType DEF Receiver
  <2>3. chain' = chain /\ known' = [known EXCEPT ![n][Receiver(n)] =
                                        Learn(n, Receiver(n), proof[n].blocks)]
    BY <1>3 DEF SendProof
  <2> QED BY <1>1, <2>1, <2>2, <2>3, Zenon
<1>4. ASSUME NEW s \in Node, NEW r \in Node, Apply(s, r) PROVE goal
  <2>1. Exist(Head(channel[s][r]).blocks)
    BY <1>0, <1>4, FirstMessage DEF Apply, ChannelTyped, MessageTyped
  <2>2. chain' = chain /\ known' = [known EXCEPT ![r][s] =
                                        Learn(r, s, Head(channel[s][r]).blocks)]
    BY <1>4 DEF Apply
  <2> QED BY <1>1, <2>1, <2>2, Zenon
<1>5. ASSUME NEW n \in Node,
             UpdateCache(n) \/ AddSource(n) \/ StartProof(n) \/ SendFails(n)
                 \/ Pay(n) \/ Stop(n)
      PROVE  UNCHANGED known
  BY <1>5 DEF UpdateCache, AddSource, StartProof, SendFails, Pay, Stop, storeVars
<1>6. ASSUME NEW s \in Node, NEW r \in Node, Verify(s, r) \/ ConnectionBreaks(s, r)
      PROVE  UNCHANGED known
  BY <1>6 DEF Verify, ConnectionBreaks, storeVars
<1>7. ASSUME UNCHANGED vars PROVE goal
  BY <1>2, <1>7 DEF vars, storeVars
<1>8. goal
  BY <1>2, <1>3, <1>4, <1>5, <1>6, <1>7 DEF Next, Work, Fault
<1> QED BY <1>8 DEF goal

-----------------------------------------------------------------------------
(* The proof being built.                                                  *)

\* The blocks to send begin after the last known one and have no gap.
LEMMA BlocksToSendType ==
    ASSUME ChainTyped, KnownTyped, NEW n \in Node, NEW r \in Node, NEW m \in Node,
           NEW last \in Blocks(m) \cup {NoBlock}
    PROVE  LET q == BlocksToSend(n, r, m, last)
           IN  /\ q \in Seq(Blocks(m))
               /\ \A i \in 1 .. Len(q) : q[i] = known[n][r][m] + i
               /\ m # r /\ known[n][r][m] < last => Len(q) = last - known[n][r][m]
               /\ m = r \/ last <= known[n][r][m] => Len(q) = 0
<1>1. CASE m = r
  BY <1>1 DEF BlocksToSend
<1>2. CASE m # r
  <2> DEFINE first == known[n][r][m] + 1
             q == Numbers(first, last)
  <2>1. known[n][r][m] \in Nat \cup {-1}
    BY DEF KnownTyped
  <2>2. first \in Nat /\ last \in Int /\ last <= Len(chain[m])
        /\ Len(chain[m]) \in Nat
    BY <2>1, LenProperties DEF Blocks, NoBlock, ChainTyped
  <2> HIDE DEF first
  <2>3. /\ q \in Seq(first .. last)
        /\ Len(q) = IF first <= last THEN last - first + 1 ELSE 0
        /\ \A i \in 1 .. Len(q) : q[i] = first + i - 1
    BY <2>2, NumbersType, Zenon
  <2>4. first .. last \subseteq Blocks(m)
    BY <2>2 DEF Blocks
  <2>5. q \in Seq(Blocks(m))
    BY <2>3, <2>4, SeqMonotonic, Zenon
  <2>6. BlocksToSend(n, r, m, last) = q
    BY <1>2 DEF BlocksToSend, first
  <2> HIDE DEF q
  <2>7. /\ \A i \in 1 .. Len(q) : q[i] = known[n][r][m] + i
        /\ known[n][r][m] < last => Len(q) = last - known[n][r][m]
        /\ last <= known[n][r][m] => Len(q) = 0
    <3> DEFINE k == known[n][r][m]
               l == Len(q)
    <3>1. /\ l = IF first <= last THEN last - first + 1 ELSE 0
          /\ first = k + 1 /\ k \in Int /\ last \in Int
      BY <2>1, <2>2, <2>3 DEF first
    <3>2. ASSUME NEW i \in 1 .. l PROVE q[i] = k + i
      <4>1. q[i] = first + i - 1 /\ i \in Int
        BY <2>3
      <4> HIDE DEF k, l, first
      <4> QED BY <3>1, <4>1
    <3> HIDE DEF k, l
    <3>3. (k < last => l = last - k) /\ (last <= k => l = 0)
      BY <3>1
    <3> QED BY <3>2, <3>3 DEF k, l
  <2> QED BY <1>2, <2>5, <2>6, <2>7
<1> QED BY <1>1, <1>2

\* The pointer of a block a node has leads to a block of that chain, or nowhere.
LEMMA NextCommittedType ==
    ASSUME ChainTyped, CopyTyped, NEW n \in Node, NEW m \in Node,
           NEW b \in Nat, b <= View(n, m)
    PROVE  NextCommitted(n, m, b) \in Blocks(m) \cup {NoBlock}
<1>1. CASE m = n
  <2> DEFINE S == {c \in b .. Len(chain[n]) : IsCommitted(n, c)}
  <2>1. S \in SUBSET Nat /\ S \in SUBSET Blocks(n)
    BY DEF Blocks
  <2>2. LeastOrNone(S) \in S \cup {NoBlock}
    BY <2>1, LeastOrNoneType
  <2> QED BY <1>1, <2>1, <2>2 DEF NextCommitted
<1>2. CASE m # n
  <2>1. copy[n][m] \in Seq(Blocks(m) \cup {NoBlock})
    BY DEF CopyTyped
  <2>2. b + 1 \in 1 .. Len(copy[n][m])
    BY <1>2, <2>1, LenProperties DEF View
  <2> QED BY <1>2, <2>1, <2>2 DEF NextCommitted
<1> QED BY <1>1, <1>2

\* The sources of a block are finitely many transactions.
LEMMA SourcesType ==
    ASSUME ChainTyped, NEW m \in Node, NEW b
    PROVE  SourcesOf(m, b) \in SUBSET TxId /\ IsFiniteSet(SourcesOf(m, b))
<1>1. CASE IsTransaction(m, b)
  <2>1. b \in DOMAIN chain[m] /\ chain[m] \in Seq(Block)
    BY <1>1 DEF IsTransaction, ChainTyped
  <2>2. chain[m][b] \in Block
    BY <2>1, LenProperties
  <2> QED BY <1>1, <2>1, <2>2 DEF SourcesOf, ChainTyped, Block
<1>2. CASE ~IsTransaction(m, b)
  BY <1>2, FS_EmptySet DEF SourcesOf
<1> QED BY <1>1, <1>2

\* The sources to visit are those of the blocks, without the sender's and the
\* receiver's own transactions and those of genesis.
LEMMA SourcesToProveType ==
    ASSUME ChainTyped, NEW n, NEW r, NEW m \in Node, NEW blocks \in Seq(Nat)
    PROVE  /\ SourcesToProve(n, r, m, blocks) \in Seq(TxId)
           /\ \A t : t \in Range(SourcesToProve(n, r, m, blocks)) <=>
                        /\ t[2] # 0 /\ t[1] \notin {n, r}
                        /\ \E i \in 1 .. Len(blocks) : t \in SourcesOf(m, blocks[i])
<1> DEFINE src(i) == {t \in SourcesOf(m, blocks[i]) :
                          t[2] # 0 /\ t[1] \notin {n, r}}
           q == [i \in 1 .. Len(blocks) |-> Sorted(src(i))]
<1>1. \A b : SourcesOf(m, b) \in SUBSET TxId /\ IsFiniteSet(SourcesOf(m, b))
  BY SourcesType
<1>2. \A i : src(i) \in SUBSET TxId /\ IsFiniteSet(src(i))
  BY <1>1, FS_Subset
<1>3. TxId \in SUBSET (Nat \X Nat)
  BY ExchangeAssumption, Zenon DEF TxId
<1>4. Len(blocks) \in Nat /\ DOMAIN blocks = 1 .. Len(blocks)
  BY LenProperties
<1>5. SourcesToProve(n, r, m, blocks) = FlattenSeq(q)
  BY <1>4 DEF SourcesToProve
<1> HIDE DEF src
<1>6. ASSUME NEW i PROVE Sorted(src(i)) \in Seq(TxId) /\ Range(Sorted(src(i))) = src(i)
  <2>1. src(i) \in SUBSET (Nat \X Nat)
    BY <1>2, <1>3
  <2>2. Sorted(src(i)) \in Seq(src(i)) /\ Range(Sorted(src(i))) = src(i)
    BY <1>2, <2>1, SortedListsAll
  <2> QED BY <1>2, <2>2, SeqMonotonic
<1> DEFINE e(i) == Sorted(src(i))
<1>7. \A i : e(i) \in Seq(TxId) /\ Range(e(i)) = src(i)
  BY <1>6
<1> HIDE DEF e
<1>8. q = [i \in 1 .. Len(blocks) |-> e(i)]
  BY DEF e
<1> HIDE DEF q
<1>9. q \in Seq(Seq(TxId)) /\ DOMAIN q = 1 .. Len(blocks)
      /\ \A i \in 1 .. Len(blocks) : q[i] = e(i)
  BY <1>4, <1>7, <1>8
<1>10. /\ FlattenSeq(q) \in Seq(TxId)
       /\ \A t : t \in Range(FlattenSeq(q)) <=> \E i \in DOMAIN q : t \in Range(q[i])
  BY <1>9, FlattenProperties, Zenon
<1>11. \A t : t \in Range(FlattenSeq(q)) <=>
                  \E i \in 1 .. Len(blocks) : t \in src(i)
  BY <1>7, <1>9, <1>10, Zenon
<1> QED BY <1>5, <1>10, <1>11 DEF src

\* The parts of a proof under construction, and the source it comes to next.
LEMMA ProofType ==
    ASSUME ProofTyped, NEW n \in Node
    PROVE  /\ proof[n] \in [tx : Nat, blocks : [Node -> BlockNumbers],
                            todo : Seq(TxId), calm : BOOLEAN]
           /\ Exist(proof[n].blocks)
           /\ proof[n].todo # <<>> =>
                 /\ proof[n] # NoProof
                 /\ IsTransaction(n, proof[n].tx)
                 /\ Head(proof[n].todo) \in TxId
                 /\ Head(proof[n].todo)[1] \in Node /\ Head(proof[n].todo)[2] \in Nat
                 /\ Tail(proof[n].todo) \in Seq(TxId)
<1>1. proof[n] \in [tx : Nat, blocks : [Node -> BlockNumbers],
                    todo : Seq(TxId), calm : BOOLEAN]
  BY DEF ProofTyped
<1>2. ASSUME proof[n].todo # <<>>
      PROVE  /\ Head(proof[n].todo) \in TxId
             /\ Tail(proof[n].todo) \in Seq(TxId)
  BY <1>1, <1>2, HeadTailProperties
<1>3. proof[n].todo # <<>> => proof[n] # NoProof
  BY DEF NoProof
<1>4. \A t \in TxId : t[1] \in Node /\ t[2] \in Nat
  BY DEF TxId
<1> QED BY <1>1, <1>2, <1>3, <1>4 DEF ProofTyped

\* The source AddSource is at is a block the sender has, with a pointer.
Provable(n) ==
    LET t == Head(proof[n].todo)
    IN  t[2] <= View(n, t[1]) /\ NextCommitted(n, t[1], t[2]) # NoBlock

\* What a source adds to a proof is a part of the chain of its sender.
LEMMA NewBlocksType ==
    ASSUME ChainTyped, CopyTyped, KnownTyped, ProofTyped, NEW n \in Node,
           proof[n].todo # <<>>, Provable(n)
    PROVE  /\ Receiver(n) \in Node
           /\ Wanted(n) \in Seq(Blocks(Head(proof[n].todo)[1]))
           /\ NewBlocks(n) \in Seq(Blocks(Head(proof[n].todo)[1]))
<1> DEFINE t == Head(proof[n].todo)
<1>1. t[1] \in Node /\ t[2] \in Nat /\ IsTransaction(n, proof[n].tx)
  BY ProofType
<1>2. Receiver(n) \in Node
  BY <1>1, ReceiverType DEF Receiver
<1>3. NextCommitted(n, t[1], t[2]) \in Blocks(t[1]) \cup {NoBlock}
  BY <1>1, NextCommittedType DEF Provable
<1>4. Wanted(n) \in Seq(Blocks(t[1]))
  BY <1>1, <1>2, <1>3, BlocksToSendType DEF Wanted
<1> DEFINE current == proof[n].blocks[t[1]]
           w == Wanted(n)
<1>5. Len(current) \in Nat /\ Len(w) \in Nat /\ w \in Seq(Blocks(t[1]))
  <2>1. current \in Seq(Blocks(t[1]))
    BY <1>1, ProofType DEF Exist
  <2> QED BY <1>4, <2>1, LenProperties
<1>6. NewBlocks(n) = SubSeq(w, Len(current) + 1, Len(w))
  BY DEF NewBlocks
<1> HIDE DEF w, current, t
<1>7. ASSUME NEW i \in Len(current) + 1 .. Len(w) PROVE w[i] \in Blocks(t[1])
  <2>1. i \in 1 .. Len(w)
    BY <1>5
  <2> QED BY <1>5, <2>1, ElementOfSeq
<1>8. NewBlocks(n) \in Seq(Blocks(t[1]))
  BY <1>5, <1>6, <1>7, SubSeqProperties
<1> QED BY <1>2, <1>4, <1>8 DEF t

\* A proof keeps its type as long as its transaction and its blocks exist.
LEMMA SameProofTyped ==
    ASSUME ChainTyped, ProofTyped, Grown, UNCHANGED sent,
           proof' \in [Node -> [tx : Nat, blocks : [Node -> BlockNumbers],
                                todo : Seq(TxId), calm : BOOLEAN]],
           \A n \in Node : \/ proof'[n].blocks = proof[n].blocks
                           \/ Exist(proof'[n].blocks)
                           \/ proof'[n] = NoProof,
           \A n \in Node : \/ proof'[n].tx = proof[n].tx /\ proof[n] # NoProof
                           \/ proof'[n] \in {proof[n], NoProof}
    PROVE  ProofTyped'
<1>1. Exist(NoProof.blocks)
  <2>1. \A S : <<>> \in Seq(S)
    OBVIOUS
  <2> QED BY <2>1 DEF Exist, NoProof, BlockNumbers
<1>2. ASSUME NEW n \in Node
      PROVE  /\ Exist(proof[n].blocks)'
             /\ proof'[n] # NoProof => IsTransaction(n, proof[n].tx)'
  <2>1. Exist(proof[n].blocks)'
    <3>1. Exist(proof[n].blocks)
      BY DEF ProofTyped
    <3>2. Exist(proof'[n].blocks)
      BY <1>1, <3>1, Zenon
    <3> QED BY <3>2, Persist
  <2>2. proof'[n] # NoProof => IsTransaction(n, proof'[n].tx)
    BY Zenon DEF ProofTyped
  <2> QED BY <2>1, <2>2, Persist
<1>3. NoProof' = NoProof
  BY DEF NoProof
<1> QED BY <1>2, <1>3 DEF ProofTyped

\* No step puts a block into a proof that does not exist.
LEMMA StepProofTyped ==
    ASSUME Typed, [Next]_vars
    PROVE  ProofTyped'
<1>0. /\ ChainTyped /\ CopyTyped /\ KnownTyped /\ ChannelTyped /\ ProofTyped
      /\ Grown
  BY StepChainTyped DEF Typed
<1> DEFINE Proof == [tx : Nat, blocks : [Node -> BlockNumbers],
                     todo : Seq(TxId), calm : BOOLEAN]
<1>1. NoProof \in Proof /\ \A n \in Node : proof[n] \in Proof
  BY <1>0 DEF NoProof, ProofTyped, BlockNumbers
<1>2. ASSUME NEW n \in Node, StartProof(n) PROVE ProofTyped'
  <2> DEFINE b   == Least(Unsent(n))
             r   == chain[n][b].to
             own == BlocksToSend(n, r, n, NextCommitted(n, n, b))
             blocks == [m \in Node |-> IF m = n THEN own ELSE <<>>]
             new == [tx |-> b, blocks |-> blocks,
                     todo |-> SourcesToProve(n, r, n, own), calm |-> TRUE]
  <2>1. /\ Unsent(n) # {} /\ chain' = chain
        /\ sent' = [sent EXCEPT ![n] = b]
        /\ proof' = [proof EXCEPT ![n] = new]
    BY <1>2 DEF StartProof
  <2>2. b \in Unsent(n)
    <3>1. Unsent(n) \in SUBSET Nat
      BY <1>0, ReceiverType DEF Unsent
    <3> QED BY <2>1, <3>1, LeastType
  <2>3. b \in Nat /\ b \in Blocks(n) /\ IsTransaction(n, b) /\ r \in Node
    BY <1>0, <2>2, ReceiverType, Zenon DEF Unsent
  <2>4. NextCommitted(n, n, b) \in Blocks(n) \cup {NoBlock}
    <3>1. b <= View(n, n)
      BY <2>3 DEF View, Blocks
    <3> QED BY <1>0, <2>3, <3>1, NextCommittedType
  <2>5. own \in Seq(Blocks(n))
    BY <1>0, <2>3, <2>4, BlocksToSendType
  <2>6. \A m \in Node : Blocks(m) \subseteq Nat
    BY DEF Blocks
  <2>7. own \in Seq(Nat)
    BY <2>5, <2>6, SeqMonotonic
  <2>8. SourcesToProve(n, r, n, own) \in Seq(TxId)
    BY <1>0, <2>7, SourcesToProveType, Zenon
  <2> HIDE DEF own, b, r
  <2>9. Exist(blocks)
    <3>1. \A S : <<>> \in Seq(S)
      OBVIOUS
    <3> QED BY <2>5, <2>7, <3>1 DEF Exist, BlockNumbers
  <2>10. new \in Proof
    BY <2>3, <2>8, <2>9 DEF Exist
  <2>11. /\ \A m \in Node : proof'[m] = IF m = n THEN new ELSE proof[m]
         /\ proof' \in [Node -> Proof] /\ sent' \in [Node -> Nat]
         /\ new.blocks = blocks /\ new.tx = b
    BY <1>0, <2>1, <2>3, <2>10 DEF ProofTyped
  <2> HIDE DEF new, blocks
  <2>12. ASSUME NEW m \in Node
         PROVE  /\ Exist(proof'[m].blocks)
                /\ proof'[m] # NoProof => IsTransaction(m, proof'[m].tx)
    BY <1>0, <2>3, <2>9, <2>11, Zenon DEF ProofTyped
  <2>13. NoProof' = NoProof
    BY DEF NoProof
  <2> QED BY <1>0, <2>11, <2>12, <2>13, Persist DEF ProofTyped
<1>3. ASSUME NEW n \in Node, AddSource(n) PROVE ProofTyped'
  <2> DEFINE t   == Head(proof[n].todo)
             new == NewBlocks(n)
             more == proof[n].blocks[t[1]] \o new
             blocks == [proof[n].blocks EXCEPT ![t[1]] = more]
             todo == SourcesToProve(n, Receiver(n), t[1], new) \o Tail(proof[n].todo)
             next == [proof[n] EXCEPT !.blocks = blocks, !.todo = todo]
  <2>1. /\ proof[n].todo # <<>> /\ chain' = chain /\ sent' = sent
        /\ proof' = [proof EXCEPT ![n] = IF Provable(n) THEN next ELSE NoProof]
    BY <1>3 DEF AddSource, Provable
  <2>2. proof[n] # NoProof /\ t[1] \in Node /\ Exist(proof[n].blocks)
        /\ Tail(proof[n].todo) \in Seq(TxId)
    BY <1>0, <2>1, ProofType
  <2>3. CASE Provable(n)
    <3>1. new \in Seq(Blocks(t[1]))
      BY <1>0, <2>1, <2>3, NewBlocksType
    <3>2. more \in Seq(Blocks(t[1]))
      <4>1. proof[n].blocks[t[1]] \in Seq(Blocks(t[1]))
        BY <2>2 DEF Exist
      <4> QED BY <3>1, <4>1, ConcatProperties
    <3>3. Blocks(t[1]) \subseteq Nat
      BY DEF Blocks
    <3>4. new \in Seq(Nat) /\ more \in Seq(Nat)
      BY <3>1, <3>2, <3>3, SeqMonotonic
    <3>5. Exist(blocks)
      <4> HIDE DEF more
      <4> QED BY <2>2, <3>2, <3>4, Zenon DEF Exist, BlockNumbers
    <3>6. todo \in Seq(TxId)
      <4>1. SourcesToProve(n, Receiver(n), t[1], new) \in Seq(TxId)
        BY <1>0, <2>2, <3>4, SourcesToProveType, Zenon
      <4> QED BY <2>2, <4>1, ConcatProperties
    <3> HIDE DEF todo, blocks
    <3>7. next \in Proof /\ next.blocks = blocks /\ next.tx = proof[n].tx
      BY <1>1, <3>5, <3>6, Zenon DEF Exist
    <3> HIDE DEF next
    <3>8. /\ \A m \in Node : proof'[m] = IF m = n THEN next ELSE proof[m]
          /\ proof' \in [Node -> Proof]
      BY <1>0, <2>1, <2>3, <3>7 DEF ProofTyped
    <3> QED BY <1>0, <2>1, <2>2, <3>5, <3>7, <3>8, SameProofTyped
  <2>4. CASE ~Provable(n)
    <3>1. /\ \A m \in Node : proof'[m] \in {proof[m], NoProof}
          /\ proof' \in [Node -> Proof]
      BY <1>0, <1>1, <2>1, <2>4 DEF ProofTyped
    <3> QED BY <1>0, <2>1, <3>1, SameProofTyped, Zenon
  <2> QED BY <2>3, <2>4
<1>4. ASSUME NEW n \in Node, SendProof(n) \/ SendFails(n) PROVE ProofTyped'
  <2>1. sent' = sent /\ proof' = [proof EXCEPT ![n] = NoProof]
    BY <1>4 DEF SendProof, SendFails
  <2>2. /\ \A m \in Node : proof'[m] \in {proof[m], NoProof}
        /\ proof' \in [Node -> Proof]
    BY <1>0, <1>1, <2>1 DEF ProofTyped
  <2> QED BY <1>0, <2>1, <2>2, SameProofTyped
<1>5. ASSUME NEW s \in Node, NEW r \in Node, Apply(s, r) PROVE ProofTyped'
  <2>1. CASE proof' = proof
    BY <1>0, <1>1, <1>5, <2>1, SameProofTyped, Zenon DEF Apply, ProofTyped
  <2>2. CASE proof[r] # NoProof /\ proof' = [proof EXCEPT ![r].calm = FALSE]
    <3>1. /\ \A m \in Node : /\ proof'[m].blocks = proof[m].blocks
                             /\ proof'[m].tx = proof[m].tx
                             /\ m # r => proof'[m] = proof[m]
          /\ proof' \in [Node -> Proof]
      BY <1>0, <1>1, <2>2, Zenon DEF ProofTyped
    <3> QED BY <1>0, <1>5, <2>2, <3>1, SameProofTyped, Zenon DEF Apply
  <2> QED BY <1>5, <2>1, <2>2 DEF Apply
<1>6. ASSUME UNCHANGED sendVars PROVE ProofTyped'
  BY <1>0, <1>1, <1>6, SameProofTyped DEF sendVars, ProofTyped
<1>7. ASSUME NEW n \in Node, UpdateCache(n) \/ Pay(n) \/ Stop(n)
      PROVE  UNCHANGED sendVars
  BY <1>7 DEF UpdateCache, Pay, Stop
<1>8. ASSUME NEW s \in Node, NEW r \in Node, Verify(s, r) \/ ConnectionBreaks(s, r)
      PROVE  UNCHANGED sendVars
  BY <1>8 DEF Verify, ConnectionBreaks
<1>9. CASE UNCHANGED vars
  BY <1>6, <1>9 DEF vars
<1> QED BY <1>2, <1>3, <1>4, <1>5, <1>6, <1>7, <1>8, <1>9 DEF Next, Work, Fault

-----------------------------------------------------------------------------
(* Messages.                                                               *)

\* A table with one entry replaced.
LEMMA ExceptOne ==
    ASSUME NEW T, NEW f \in [Node -> [Node -> T]], NEW s \in Node, NEW r \in Node,
           NEW v \in T, NEW g, g = [f EXCEPT ![s][r] = v]
    PROVE  /\ g \in [Node -> [Node -> T]]
           /\ \A a, b \in Node : g[a][b] = IF a = s /\ b = r THEN v ELSE f[a][b]
OBVIOUS

Message == [tx : Nat, calm : BOOLEAN, blocks : [Node -> BlockNumbers]]

\* Part of the messages on a connection.
LEMMA MessagesOf ==
    ASSUME ChannelTyped, NEW s \in Node, NEW r \in Node,
           NEW m \in Nat \ {0}, NEW n \in Nat, n <= Len(channel[s][r])
    PROVE  LET q == SubSeq(channel[s][r], m, n)
           IN  /\ q \in Seq(Message)
               /\ Len(q) = IF m <= n THEN n - m + 1 ELSE 0
               /\ \A i \in 1 .. Len(q) : /\ m + i - 1 \in DOMAIN channel[s][r]
                                         /\ q[i] = channel[s][r][m + i - 1]
<1> DEFINE c == channel[s][r]
           q == SubSeq(c, m, n)
<1>1. c \in Seq(Message)
  BY Zenon DEF ChannelTyped, Message
<1>2. DOMAIN c = 1 .. Len(c) /\ Len(c) \in Nat
  BY <1>1, LenProperties
<1>3. n <= Len(c)
  OBVIOUS
<1> HIDE DEF c
<1>4. ASSUME NEW i \in m .. n PROVE c[i] \in Message
  <2>1. i \in 1 .. Len(c)
    BY <1>2, <1>3
  <2> QED BY <1>1, <2>1, ElementOfSeq
<1>5. /\ q \in Seq(Message)
      /\ Len(q) = IF m <= n THEN n - m + 1 ELSE 0
      /\ \A i \in 1 .. n - m + 1 : q[i] = c[m + i - 1]
  BY <1>4, SubSeqProperties
<1> HIDE DEF q
<1>6. ASSUME NEW i \in 1 .. Len(q)
      PROVE  m + i - 1 \in DOMAIN c /\ q[i] = c[m + i - 1]
  <2>1. i \in 1 .. n - m + 1
    BY <1>5
  <2>2. m + i - 1 \in 1 .. Len(c)
    BY <1>2, <1>3, <2>1
  <2> QED BY <1>2, <1>5, <2>1, <2>2
<1> QED BY <1>5, <1>6 DEF q, c

\* A step that adds no message but valid ones.
LEMMA ChannelChanges ==
    ASSUME ChainTyped, ChannelTyped, Grown,
           channel' \in [Node -> [Node -> Seq(Message)]],
           verified' \in [Node -> [Node -> BOOLEAN]],
           failure' \in {"none", "network", "lag", "race", "honest"},
           \A s, r \in Node : \A i \in DOMAIN channel'[s][r] :
               \/ \E j \in DOMAIN channel[s][r] :
                     channel'[s][r][i] = channel[s][r][j]
               \/ MessageTyped(s, r, channel'[s][r][i]),
           \A s, r \in Node : verified'[s][r] => channel'[s][r] # <<>>
    PROVE  ChannelTyped'
<1>1. ASSUME NEW s \in Node, NEW r \in Node, NEW i \in DOMAIN channel'[s][r]
      PROVE  MessageTyped(s, r, channel[s][r][i])'
  <2>1. MessageTyped(s, r, channel'[s][r][i])
    BY DEF ChannelTyped
  <2> QED BY <2>1, Persist
<1> QED BY <1>1, Zenon DEF ChannelTyped, Message

\* Messages that are left under way stay well typed.
LEMMA SameChannel ==
    ASSUME ChainTyped, ChannelTyped, Grown, UNCHANGED netVars
    PROVE  ChannelTyped'
<1>1. channel' = channel /\ verified' = verified /\ failure' = failure
  BY DEF netVars
<1> QED BY <1>1, ChannelChanges, Zenon DEF ChannelTyped, Message

\* The messages that are left on a connection after some were lost or handled.
LEMMA ChannelShrinks ==
    ASSUME ChainTyped, ChannelTyped, Grown, NEW s \in Node, NEW r \in Node,
           NEW m \in Nat \ {0}, NEW n \in Nat, n <= Len(channel[s][r]),
           NEW q, q = SubSeq(channel[s][r], m, n),
           channel' = [channel EXCEPT ![s][r] = q],
           verified' \in [Node -> [Node -> BOOLEAN]],
           \A a, b \in Node : verified'[a][b] => verified[a][b],
           verified'[s][r] => m = 1 /\ n > 0,
           failure' \in {"none", "network", "lag", "race", "honest"}
    PROVE  ChannelTyped'
<1>1. /\ q \in Seq(Message)
      /\ Len(q) = IF m <= n THEN n - m + 1 ELSE 0
      /\ \A i \in 1 .. Len(q) : /\ m + i - 1 \in DOMAIN channel[s][r]
                                /\ q[i] = channel[s][r][m + i - 1]
  BY MessagesOf, SMTT(30)
<1>2. channel \in [Node -> [Node -> Seq(Message)]]
  BY Zenon DEF ChannelTyped, Message
<1>3. /\ channel' \in [Node -> [Node -> Seq(Message)]]
      /\ \A a, b \in Node : channel'[a][b] = IF a = s /\ b = r THEN q
                                             ELSE channel[a][b]
  <2>1. q \in Seq(Message)
    BY <1>1
  <2> QED BY <1>2, <2>1, ExceptOne, ZenonT(30)
<1>4. ASSUME NEW a \in Node, NEW b \in Node, NEW i \in DOMAIN channel'[a][b]
      PROVE  \E j \in DOMAIN channel[a][b] : channel'[a][b][i] = channel[a][b][j]
  <2>1. CASE a = s /\ b = r
    <3>1. i \in 1 .. Len(q)
      BY <1>1, <1>3, <2>1, LenProperties
    <3>2. m + i - 1 \in DOMAIN channel[s][r] /\ q[i] = channel[s][r][m + i - 1]
      BY <1>1, <3>1
    <3> QED BY <1>3, <2>1, <3>2
  <2>2. CASE ~ (a = s /\ b = r)
    BY <1>3, <2>2
  <2> QED BY <2>1, <2>2
<1>5. ASSUME NEW a \in Node, NEW b \in Node, verified'[a][b]
      PROVE  channel'[a][b] # <<>>
  <2>1. CASE a = s /\ b = r
    <3>1. Len(q) # 0
      BY <1>1, <1>5, <2>1
    <3> QED BY <1>3, <2>1, <3>1, EmptySeq, Zenon
  <2>2. CASE ~ (a = s /\ b = r)
    BY <1>3, <1>5, <2>2 DEF ChannelTyped
  <2> QED BY <2>1, <2>2
<1>6. \A a, b \in Node : \A i \in DOMAIN channel'[a][b] :
          \/ \E j \in DOMAIN channel[a][b] : channel'[a][b][i] = channel[a][b][j]
          \/ MessageTyped(a, b, channel'[a][b][i])
  BY <1>4
<1>7. \A a, b \in Node : verified'[a][b] => channel'[a][b] # <<>>
  BY <1>5
<1> QED BY <1>3, <1>6, <1>7, ChannelChanges, Zenon

\* The first failure is remembered, by its reason.
LEMMA FailType ==
    ASSUME ChannelTyped, NEW reason \in {"network", "lag", "race", "honest"},
           Fail(reason)
    PROVE  failure' \in {"none", "network", "lag", "race", "honest"}
BY DEF Fail, ChannelTyped

\* Only messages about blocks that exist are sent.
LEMMA StepChannelTyped ==
    ASSUME Typed, [Next]_vars
    PROVE  ChannelTyped'
<1>0. ChainTyped /\ ChannelTyped /\ ProofTyped /\ Grown
  BY StepChainTyped DEF Typed
<1>1. ASSUME NEW n \in Node, SendProof(n) PROVE ChannelTyped'
  <2> DEFINE r == Receiver(n)
             msg == [tx |-> proof[n].tx, blocks |-> proof[n].blocks,
                     calm |-> proof[n].calm]
  <2>1. channel' = [channel EXCEPT ![n][r] = Append(@, msg)]
        /\ verified' = verified /\ failure' = failure
    BY <1>1 DEF SendProof
  <2>2. IsTransaction(n, proof[n].tx) /\ Exist(proof[n].blocks)
    BY <1>0, <1>1 DEF SendProof, ProofTyped
  <2>3. r \in Node /\ proof[n].tx \in DOMAIN chain[n]
    BY <1>0, <2>2, ReceiverType DEF Receiver
  <2>4. MessageTyped(n, r, msg)
    BY <2>2, <2>3 DEF MessageTyped, Receiver
  <2>5. msg \in Message
    BY <1>0 DEF ProofTyped, Message
  <2> HIDE DEF msg, r
  <2>6. channel \in [Node -> [Node -> Seq(Message)]]
    BY <1>0, Zenon DEF ChannelTyped, Message
  <2> DEFINE q == Append(channel[n][r], msg)
  <2>7. /\ q \in Seq(Message) /\ q # <<>>
        /\ Len(q) = Len(channel[n][r]) + 1
        /\ \A i \in 1 .. Len(channel[n][r]) : q[i] = channel[n][r][i]
        /\ q[Len(channel[n][r]) + 1] = msg
    <3>1. channel[n][r] \in Seq(Message)
      BY <2>3, <2>6
    <3> QED BY <2>5, <3>1, AppendProperties
  <2>8. /\ channel' \in [Node -> [Node -> Seq(Message)]]
        /\ \A a, b \in Node : channel'[a][b] = IF a = n /\ b = r THEN q
                                               ELSE channel[a][b]
    <3>1. channel' = [channel EXCEPT ![n][r] = q]
      BY <2>1
    <3> HIDE DEF q
    <3> QED BY <2>3, <2>6, <2>7, <3>1, ExceptOne, Zenon
  <2> HIDE DEF q
  <2>9. ASSUME NEW a \in Node, NEW b \in Node, NEW i \in DOMAIN channel'[a][b]
        PROVE  \/ \E j \in DOMAIN channel[a][b] :
                     channel'[a][b][i] = channel[a][b][j]
               \/ MessageTyped(a, b, channel'[a][b][i])
    <3>1. CASE a = n /\ b = r
      <4>1. DOMAIN channel[n][r] = 1 .. Len(channel[n][r])
            /\ Len(channel[n][r]) \in Nat
        BY <2>3, <2>6, LenProperties
      <4>2. i \in 1 .. Len(channel[n][r]) + 1
        BY <2>7, <2>8, <3>1, LenProperties
      <4>3. CASE i \in 1 .. Len(channel[n][r])
        BY <2>7, <2>8, <3>1, <4>1, <4>3, Zenon
      <4>4. CASE i = Len(channel[n][r]) + 1
        BY <2>4, <2>7, <2>8, <3>1, <4>4
      <4> QED BY <4>1, <4>2, <4>3, <4>4
    <3>2. CASE ~ (a = n /\ b = r)
      BY <2>8, <3>2, Zenon
    <3> QED BY <3>1, <3>2
  <2>10. \A a, b \in Node : verified'[a][b] => channel'[a][b] # <<>>
    BY <1>0, <2>1, <2>7, <2>8 DEF ChannelTyped
  <2> QED BY <1>0, <2>1, <2>8, <2>9, <2>10, ChannelChanges, Zenon DEF ChannelTyped
<1>2. ASSUME NEW s \in Node, NEW r \in Node, ConnectionBreaks(s, r)
      PROVE  ChannelTyped'
  <2> DEFINE handled == IF verified[s][r] THEN 1 ELSE 0
  <2>1. /\ channel' = [channel EXCEPT ![s][r] = SubSeq(@, 1, handled)]
        /\ Len(channel[s][r]) > handled
        /\ verified' = verified /\ Fail("network")
    BY <1>2 DEF ConnectionBreaks
  <2>2. handled \in Nat /\ (verified[s][r] => handled > 0)
    OBVIOUS
  <2> HIDE DEF handled
  <2>3. handled <= Len(channel[s][r])
    <3>1. Len(channel[s][r]) \in Nat
      BY <1>0, LenProperties DEF ChannelTyped
    <3> QED BY <2>1, <2>2, <3>1
  <2>4. channel' = [channel EXCEPT ![s][r] = SubSeq(channel[s][r], 1, handled)]
    BY <2>1
  <2>5. failure' \in {"none", "network", "lag", "race", "honest"}
    BY <1>0, <2>1, FailType
  <2>6. verified' \in [Node -> [Node -> BOOLEAN]] /\ 1 \in Nat \ {0}
    BY <1>0, <2>1 DEF ChannelTyped
  <2> QED BY <1>0, <2>1, <2>2, <2>3, <2>4, <2>5, <2>6, ChannelShrinks, Zenon
<1>3. ASSUME NEW s \in Node, NEW r \in Node, Verify(s, r) PROVE ChannelTyped'
  <2> DEFINE msg == Head(channel[s][r])
  <2>1. channel[s][r] # <<>> /\ ~verified[s][r]
    BY <1>3 DEF Verify
  <2>2. Len(channel[s][r]) \in Nat /\ Len(channel[s][r]) > 0
    <3>1. channel[s][r] \in Seq(Message)
      BY <1>0, Zenon DEF ChannelTyped, Message
    <3> QED BY <2>1, <3>1, EmptySeq, LenProperties
  <2>3. CASE /\ verified' = [verified EXCEPT ![s][r] = TRUE]
             /\ UNCHANGED <<channel, failure>>
    <3>1. /\ verified' \in [Node -> [Node -> BOOLEAN]]
          /\ \A a, b \in Node : verified'[a][b] =>
                                    verified[a][b] \/ (a = s /\ b = r)
      BY <1>0, <2>3 DEF ChannelTyped
    <3> QED BY <1>0, <2>1, <2>3, <3>1, ChannelChanges, Zenon
                 DEF ChannelTyped, Message
  <2>4. ASSUME NEW k \in Nat, k <= Len(channel[s][r]), Drop(s, r, k),
               Fail(Refusal(r, msg)), UNCHANGED verified
        PROVE  ChannelTyped'
    <3>1. channel' = [channel EXCEPT ![s][r] =
                          SubSeq(channel[s][r], k + 1, Len(channel[s][r]))]
      BY <2>4 DEF Drop
    <3>2. Refusal(r, msg) \in {"network", "lag", "race", "honest"}
      BY DEF Refusal
    <3>3. failure' \in {"none", "network", "lag", "race", "honest"}
      BY <1>0, <2>4, <3>2, FailType
    <3>4. verified' \in [Node -> [Node -> BOOLEAN]] /\ k + 1 \in Nat \ {0}
          /\ \A a, b \in Node : verified'[a][b] => verified[a][b]
          /\ ~verified'[s][r] /\ Len(channel[s][r]) <= Len(channel[s][r])
      BY <1>0, <2>1, <2>2, <2>4 DEF ChannelTyped
    <3> DEFINE m == k + 1
               n == Len(channel[s][r])
    <3>5. channel' = [channel EXCEPT ![s][r] = SubSeq(channel[s][r], m, n)]
      BY <3>1
    <3>6. m \in Nat \ {0} /\ n \in Nat /\ n <= Len(channel[s][r])
      BY <2>2, <3>4
    <3> HIDE DEF m, n
    <3> QED BY <1>0, <3>3, <3>4, <3>5, <3>6, ChannelShrinks, Zenon
  <2>5. \/ /\ verified' = [verified EXCEPT ![s][r] = TRUE]
           /\ UNCHANGED <<channel, failure>>
        \/ /\ Drop(s, r, 1) /\ Fail(Refusal(r, msg)) /\ UNCHANGED verified
        \/ /\ Drop(s, r, Len(channel[s][r])) /\ Fail(Refusal(r, msg))
           /\ UNCHANGED verified
    BY <1>3 DEF Verify
  <2> HIDE DEF msg
  <2>6. 1 \in Nat /\ 1 <= Len(channel[s][r])
    BY <2>2
  <2> QED BY <2>2, <2>3, <2>4, <2>5, <2>6
<1>4. ASSUME NEW s \in Node, NEW r \in Node, Apply(s, r) PROVE ChannelTyped'
  <2>1. /\ verified[s][r] /\ failure' = failure
        /\ channel' = [channel EXCEPT ![s][r] =
                           SubSeq(channel[s][r], 2, Len(channel[s][r]))]
        /\ verified' = [verified EXCEPT ![s][r] = FALSE]
    BY <1>4 DEF Apply, Drop
  <2>2. Len(channel[s][r]) \in Nat
    BY <1>0, LenProperties DEF ChannelTyped
  <2>3. /\ verified' \in [Node -> [Node -> BOOLEAN]] /\ ~verified'[s][r]
        /\ \A a, b \in Node : verified'[a][b] => verified[a][b]
    BY <1>0, <2>1 DEF ChannelTyped
  <2>4. failure' \in {"none", "network", "lag", "race", "honest"}
    BY <1>0, <2>1 DEF ChannelTyped
  <2>5. 2 \in Nat \ {0} /\ Len(channel[s][r]) <= Len(channel[s][r])
    BY <2>2
  <2> QED BY <1>0, <2>1, <2>2, <2>3, <2>4, <2>5, ChannelShrinks, Zenon
<1>5. ASSUME NEW n \in Node, SendFails(n) PROVE ChannelTyped'
  BY <1>0, <1>5, FailType, ChannelChanges, Zenon DEF SendFails, ChannelTyped, Message
<1>6. ASSUME UNCHANGED netVars PROVE ChannelTyped'
  BY <1>0, <1>6, SameChannel
<1>7. ASSUME NEW n \in Node,
             UpdateCache(n) \/ AddSource(n) \/ StartProof(n) \/ Pay(n) \/ Stop(n)
      PROVE  UNCHANGED netVars
  BY <1>7 DEF UpdateCache, AddSource, StartProof, Pay, Stop
<1>8. CASE UNCHANGED vars
  BY <1>6, <1>8 DEF vars
<1> QED BY <1>1, <1>2, <1>3, <1>4, <1>5, <1>6, <1>7, <1>8 DEF Next, Work, Fault

\* Every step keeps every type.
LEMMA StepTyped ==
    ASSUME Typed, [Next]_vars
    PROVE  Typed'
<1>1. Grown /\ ChainTyped' /\ MainGrown
  BY StepChainTyped, StepMainTyped DEF Typed
<1>2. MainTyped'
  BY <1>1 DEF MainGrown, MainTyped
<1> QED BY <1>1, <1>2, StepCopyTyped, StepKnownTyped, StepProofTyped,
           StepChannelTyped DEF Typed

\* So the types hold always.
LEMMA AlwaysTyped ==
    Spec => []Typed
<1>1. Init => Typed
  BY InitTyped
<1>2. Typed /\ [Next]_vars => Typed'
  BY StepTyped
<1> QED BY <1>1, <1>2, PTL DEF Spec

\* The types of the nodes' state: proofs, messages and copies are about blocks
\* there are, and no node takes another to know a block that does not exist.
THEOREM TypeCorrect ==
    Spec => []TypeOK
<1>1. Typed => TypeOK
  BY TypedIsTypeOK
<1> QED BY <1>1, AlwaysTyped, PTL

-----------------------------------------------------------------------------
(* Money is spent once.                                                    *)

\* A payment adds a block with the sources it took.
LEMMA PayAdds ==
    ASSUME ChainTyped, NEW n \in Node, Pay(n)
    PROVE  \E b \in Nat \ {0}, S \in SUBSET unspent[n], rem \in BOOLEAN :
              /\ b = Len(chain[n]) + 1 /\ b \notin DOMAIN chain[n]
              /\ DOMAIN chain'[n] = DOMAIN chain[n] \cup {b}
              /\ IsTransaction(n, b)' /\ SourcesOf(n, b)' = S
              /\ chain'[n][b].rem = rem
              /\ \A m \in Node \ {n} : chain'[m] = chain[m]
              /\ unspent' = [unspent EXCEPT ![n] =
                     (unspent[n] \ S) \cup (IF rem THEN {<<n, b>>} ELSE {})]
<1>0. PICK b \in Nat : b = Len(chain[n]) + 1
  BY LenProperties DEF ChainTyped
<1>1. PICK S \in SUBSET unspent[n], rem \in Remainder :
          /\ chain' = [chain EXCEPT ![n] =
                 Append(@, [to |-> Script[n][b], src |-> S, rem |-> rem])]
          /\ unspent' = [unspent EXCEPT ![n] = SpendSources(n, S, <<n, b>>, rem)]
  BY <1>0, Zenon DEF Pay
<1>2. chain[n] \in Seq(Block) /\ Len(chain[n]) \in Nat
  BY LenProperties DEF ChainTyped
<1>3. rem \in BOOLEAN /\ S \in SUBSET TxId
  BY ExchangeAssumption DEF ChainTyped
<1>4. Script[n][b] \in Node /\ NoNode \notin Node
  <2>1. b <= Len(Script[n]) /\ Script[n] \in Seq(Node)
    BY <1>0, ExchangeAssumption DEF Pay
  <2>2. Len(Script[n]) \in Nat
    BY <2>1, LenProperties
  <2>3. b \in 1 .. Len(Script[n])
    BY <1>0, <1>2, <2>1, <2>2
  <2> QED BY <2>1, <2>3, ElementOfSeq, ExchangeAssumption DEF NoNode
<1> DEFINE block == [to |-> Script[n][b], src |-> S, rem |-> rem]
<1>5. block \in Block /\ block.src = S /\ block.to # NoNode /\ block.rem = rem
  BY <1>3, <1>4 DEF Block
<1>6. chain' = [chain EXCEPT ![n] = Append(chain[n], block)]
  BY <1>1
<1> HIDE DEF block
<1>7. /\ Append(chain[n], block) \in Seq(Block)
      /\ Len(Append(chain[n], block)) = b
      /\ Append(chain[n], block)[b] = block
  BY <1>0, <1>2, <1>5, AppendProperties
<1>8. /\ chain'[n] = Append(chain[n], block)
      /\ \A m \in Node \ {n} : chain'[m] = chain[m]
  BY <1>6 DEF ChainTyped
<1>9. DOMAIN chain'[n] = 1 .. b /\ DOMAIN chain[n] = 1 .. Len(chain[n])
  BY <1>2, <1>7, <1>8, LenProperties
<1>10. DOMAIN chain'[n] = DOMAIN chain[n] \cup {b} /\ b \notin DOMAIN chain[n]
       /\ b \in Nat \ {0}
  BY <1>0, <1>2, <1>9
<1>11. IsTransaction(n, b)' /\ SourcesOf(n, b)' = S /\ chain'[n][b].rem = rem
  <2>1. chain'[n][b] = block /\ b \in DOMAIN chain'[n]
    BY <1>7, <1>8, <1>10
  <2> QED BY <1>5, <2>1 DEF IsTransaction, SourcesOf
<1> QED BY <1>0, <1>1, <1>3, <1>8, <1>10, <1>11, Zenon DEF SpendSources

\* Stopping adds blocks that hold no transaction.
LEMMA StopAdds ==
    ASSUME ChainTyped, NEW n \in Node, Stop(n)
    PROVE  /\ \A b \in DOMAIN chain'[n] :
                 b \notin DOMAIN chain[n] =>
                     ~IsTransaction(n, b)' /\ SourcesOf(n, b)' = {}
           /\ \A m \in Node \ {n} : chain'[m] = chain[m]
           /\ unspent' = unspent
<1> DEFINE empty == [i \in 1 .. RequiredCommits + 1 |-> EmptyBlock]
<1>1. RequiredCommits + 1 \in Nat
  BY ExchangeAssumption
<1>2. EmptyBlock \in Block
  BY DEF EmptyBlock, Block
<1>3. empty \in Seq(Block) /\ \A i \in 1 .. Len(empty) : empty[i] = EmptyBlock
  BY <1>1, <1>2
<1>4. chain' = [chain EXCEPT ![n] = chain[n] \o empty] /\ unspent' = unspent
  BY DEF Stop, storeVars
<1> HIDE DEF empty
<1>5. chain[n] \in Seq(Block)
  BY DEF ChainTyped
<1>6. /\ chain[n] \o empty \in Seq(Block)
      /\ Len(chain[n] \o empty) = Len(chain[n]) + Len(empty)
      /\ \A i \in 1 .. Len(chain[n]) + Len(empty) : (chain[n] \o empty)[i] =
              IF i <= Len(chain[n]) THEN chain[n][i] ELSE empty[i - Len(chain[n])]
  BY <1>3, <1>5, ConcatProperties
<1>7. chain'[n] = chain[n] \o empty /\ \A m \in Node \ {n} : chain'[m] = chain[m]
  BY <1>4 DEF ChainTyped
<1>8. ASSUME NEW b \in DOMAIN chain'[n], b \notin DOMAIN chain[n]
      PROVE  chain'[n][b] = EmptyBlock
  <2>1. /\ DOMAIN chain[n] = 1 .. Len(chain[n]) /\ Len(chain[n]) \in Nat
        /\ DOMAIN chain'[n] = 1 .. Len(chain[n]) + Len(empty) /\ Len(empty) \in Nat
    BY <1>3, <1>5, <1>6, <1>7, LenProperties
  <2>2. b \in 1 .. Len(chain[n]) + Len(empty) /\ ~(b <= Len(chain[n]))
        /\ b - Len(chain[n]) \in 1 .. Len(empty)
    BY <1>8, <2>1
  <2> QED BY <1>3, <1>6, <1>7, <2>2, Zenon
<1> QED BY <1>4, <1>7, <1>8 DEF IsTransaction, SourcesOf, EmptyBlock

\* What n may spend: the coin it got from genesis, remainders of its own
\* payments and the payments it received.
Given(n, w) ==
    \/ w = <<n, 0>>
    \/ /\ IsTransaction(w[1], w[2])
       /\ IF w[1] = n THEN Tx(w).rem ELSE Tx(w).to = n

UnspentIsGiven ==
    \A n \in Node : \A w \in unspent[n] :
        Given(n, w) /\ \A b \in DOMAIN chain[n] : w \notin SourcesOf(n, b)

SpentWasGiven ==
    \A n \in Node : \A b \in DOMAIN chain[n] : \A w \in SourcesOf(n, b) :
        Given(n, w) /\ \A c \in DOMAIN chain[n] : b # c => w \notin SourcesOf(n, c)

VerifiedIsNew ==
    \A s, r \in Node : verified[s][r] =>
        <<s, Head(channel[s][r]).tx>> \notin Accepted(r)

\* What was given to a node stays given.
LEMMA GivenPersists ==
    ASSUME ChainTyped, Grown, NEW n \in Node, NEW w \in TxId, Given(n, w)
    PROVE  Given(n, w)'
<1>1. w[1] \in Node
  BY DEF TxId
<1>2. CASE w # <<n, 0>>
  <2>1. IsTransaction(w[1], w[2]) /\ w[2] \in DOMAIN chain[w[1]]
    BY <1>2 DEF Given, IsTransaction
  <2>2. IsTransaction(w[1], w[2])' /\ Tx(w)' = Tx(w)
    BY <1>1, <2>1, Persist DEF Grown, Tx
  <2> QED BY <1>2, <2>2 DEF Given
<1> QED BY <1>2 DEF Given

\* What n accepted only changes when it applies a proof.
LEMMA AcceptedType ==
    ASSUME NEW n, NEW t
    PROVE  t \in Accepted(n) <=>
               /\ t[1] # n
               /\ \/ t \in unspent[n]
                  \/ \E b \in DOMAIN chain[n] : t \in SourcesOf(n, b)
BY DEF Accepted

\* What a node will have accepted, in terms of the chain and money it will have.
LEMMA AcceptedNextType ==
    ASSUME NEW n \in Node, NEW t
    PROVE  t \in Accepted(n)' <=>
               /\ t[1] # n
               /\ \/ t \in unspent'[n]
                  \/ \E b \in DOMAIN chain'[n] : t \in SourcesOf(n, b)'
BY DEF Accepted
\* The payments of a node are made of what it was given, each part once.
MoneyInv == UnspentIsGiven /\ SpentWasGiven /\ VerifiedIsNew

\* A payment moves its sources from the unspent money into the new block.
LEMMA PayKeepsMoney ==
    ASSUME Typed, MoneyInv, NEW n \in Node, Pay(n)
    PROVE  MoneyInv'
<1>1. ChainTyped /\ Grown /\ ChainTyped'
  BY PayGrows DEF Typed
<1>2. PICK b \in Nat \ {0}, S \in SUBSET unspent[n], rem \in BOOLEAN :
          /\ b \notin DOMAIN chain[n]
          /\ DOMAIN chain'[n] = DOMAIN chain[n] \cup {b}
          /\ IsTransaction(n, b)' /\ SourcesOf(n, b)' = S
          /\ chain'[n][b].rem = rem
          /\ \A m \in Node \ {n} : chain'[m] = chain[m]
          /\ unspent' = [unspent EXCEPT ![n] =
                 (unspent[n] \ S) \cup (IF rem THEN {<<n, b>>} ELSE {})]
  BY <1>1, PayAdds
<1>3. /\ \A m \in Node \ {n} : unspent'[m] = unspent[m]
      /\ unspent'[n] = (unspent[n] \ S) \cup (IF rem THEN {<<n, b>>} ELSE {})
  BY <1>1, <1>2 DEF ChainTyped
<1>4. \A m \in Node : \A c \in DOMAIN chain[m] :
          c \in DOMAIN chain'[m] /\ SourcesOf(m, c)' = SourcesOf(m, c)
  BY <1>1, Persist DEF Grown
<1>5. \A m \in Node : \A c \in DOMAIN chain'[m] :
          c \in DOMAIN chain[m] \/ (m = n /\ c = b)
  BY <1>2
<1>6. ~Given(n, <<n, b>>)
  BY <1>2 DEF Given, IsTransaction
<1>7. \A m \in Node : unspent[m] \in SUBSET TxId
      /\ \A c : SourcesOf(m, c) \in SUBSET TxId
  BY <1>1, SourcesType DEF ChainTyped
<1>8. ASSUME NEW m \in Node, NEW w \in unspent[m]
      PROVE  Given(m, w) /\ Given(m, w)'
  BY <1>1, <1>7, GivenPersists DEF MoneyInv, UnspentIsGiven
<1>9. ASSUME NEW m \in Node, NEW c \in DOMAIN chain[m], NEW w \in SourcesOf(m, c)
      PROVE  Given(m, w) /\ Given(m, w)'
  BY <1>1, <1>7, GivenPersists DEF MoneyInv, SpentWasGiven
<1>10. ASSUME NEW m \in Node, NEW w \in unspent'[m]
       PROVE  /\ Given(m, w)'
              /\ \A c \in DOMAIN chain'[m] : w \notin SourcesOf(m, c)'
  <2>1. CASE w \in unspent[m]
    <3>1. ASSUME NEW c \in DOMAIN chain'[m] PROVE w \notin SourcesOf(m, c)'
      <4>1. CASE c \in DOMAIN chain[m]
        BY <1>4, <2>1, <4>1 DEF MoneyInv, UnspentIsGiven
      <4>2. CASE m = n /\ c = b
        <5>1. w # <<n, b>>
          BY <1>6, <1>8, <2>1, <4>2
        <5>2. w \notin S
          BY <1>3, <1>10, <4>2, <5>1
        <5> QED BY <1>2, <4>2, <5>2
      <4> QED BY <1>5, <4>1, <4>2
    <3> QED BY <1>8, <2>1, <3>1
  <2>2. CASE w \notin unspent[m]
    <3>1. m = n /\ w = <<n, b>> /\ rem
      BY <1>3, <1>10, <2>2
    <3>2. Given(n, <<n, b>>)'
      BY <1>2, <3>1, Zenon DEF Given, Tx
    <3>3. ASSUME NEW c \in DOMAIN chain'[m] PROVE w \notin SourcesOf(m, c)'
      <4>1. CASE c \in DOMAIN chain[m]
        BY <1>4, <1>6, <1>9, <3>1, <4>1
      <4>2. CASE c = b
        BY <1>2, <2>2, <3>1, <4>2
      <4> QED BY <1>5, <4>1, <4>2
    <3> QED BY <3>1, <3>2, <3>3
  <2> QED BY <2>1, <2>2
<1>11. ASSUME NEW m \in Node, NEW c \in DOMAIN chain'[m], NEW w \in SourcesOf(m, c)'
       PROVE  /\ Given(m, w)'
              /\ \A d \in DOMAIN chain'[m] : c # d => w \notin SourcesOf(m, d)'
  <2>1. CASE c \in DOMAIN chain[m]
    <3>1. w \in SourcesOf(m, c)
      BY <1>4, <1>11, <2>1
    <3>2. ASSUME NEW d \in DOMAIN chain'[m], c # d PROVE w \notin SourcesOf(m, d)'
      <4>1. CASE d \in DOMAIN chain[m]
        BY <1>4, <2>1, <3>1, <3>2, <4>1 DEF MoneyInv, SpentWasGiven
      <4>2. CASE m = n /\ d = b
        BY <1>2, <2>1, <3>1, <4>2 DEF MoneyInv, UnspentIsGiven
      <4> QED BY <1>5, <4>1, <4>2
    <3> QED BY <1>9, <2>1, <3>1, <3>2
  <2>2. CASE m = n /\ c = b
    <3>1. w \in unspent[n]
      BY <1>2, <1>11, <2>2
    <3>2. ASSUME NEW d \in DOMAIN chain'[n], d # b PROVE w \notin SourcesOf(n, d)'
      BY <1>4, <1>5, <3>1, <3>2 DEF MoneyInv, UnspentIsGiven
    <3> QED BY <1>8, <2>2, <3>1, <3>2
  <2> QED BY <1>5, <2>1, <2>2
<1>12. ASSUME NEW s \in Node, NEW r \in Node, verified'[s][r]
       PROVE  <<s, Head(channel'[s][r]).tx>> \notin Accepted(r)'
  <2>1. channel' = channel /\ verified' = verified
    BY DEF Pay, netVars
  <2> DEFINE t == <<s, Head(channel[s][r]).tx>>
  <2>2. t \notin Accepted(r)
    BY <1>12, <2>1 DEF MoneyInv, VerifiedIsNew
  <2> HIDE DEF t
  <2>3. ASSUME t \in Accepted(r)' PROVE FALSE
    <3>1. t[1] # r /\ (t \in unspent'[r] \/
                           \E c \in DOMAIN chain'[r] : t \in SourcesOf(r, c)')
      BY <2>3, AcceptedNextType
    <3>2. t \notin unspent[r] /\ \A c \in DOMAIN chain[r] : t \notin SourcesOf(r, c)
      BY <2>2, <3>1, AcceptedType
    <3>3. t \notin unspent'[r]
      BY <1>3, <3>1, <3>2
    <3>4. ASSUME NEW c \in DOMAIN chain'[r] PROVE t \notin SourcesOf(r, c)'
      BY <1>2, <1>4, <1>5, <3>2
    <3> QED BY <3>1, <3>3, <3>4
  <2> QED BY <2>1, <2>3 DEF t
<1>13. UnspentIsGiven'
  BY <1>10 DEF UnspentIsGiven
<1>14. SpentWasGiven'
  BY <1>11 DEF SpentWasGiven
<1>15. VerifiedIsNew'
  BY <1>12 DEF VerifiedIsNew
<1> QED BY <1>13, <1>14, <1>15 DEF MoneyInv

\* The marker spends nothing.
LEMMA StopKeepsMoney ==
    ASSUME Typed, MoneyInv, NEW n \in Node, Stop(n)
    PROVE  MoneyInv'
<1>1. ChainTyped /\ Grown
  BY StopGrows DEF Typed
<1>2. /\ \A b \in DOMAIN chain'[n] :
            b \notin DOMAIN chain[n] => SourcesOf(n, b)' = {}
      /\ \A m \in Node \ {n} : chain'[m] = chain[m]
      /\ unspent' = unspent
  BY <1>1, StopAdds
<1>3. \A m \in Node : \A c \in DOMAIN chain[m] :
          c \in DOMAIN chain'[m] /\ SourcesOf(m, c)' = SourcesOf(m, c)
  BY <1>1, Persist DEF Grown
<1>4. ASSUME NEW m \in Node, NEW c \in DOMAIN chain'[m], NEW w \in SourcesOf(m, c)'
      PROVE  c \in DOMAIN chain[m] /\ w \in SourcesOf(m, c)
  BY <1>2, <1>3, <1>4
<1>5. \A m \in Node : unspent[m] \in SUBSET TxId
      /\ \A c : SourcesOf(m, c) \in SUBSET TxId
  BY <1>1, SourcesType DEF ChainTyped
<1>6. UnspentIsGiven'
  <2>1. ASSUME NEW m \in Node, NEW w \in unspent'[m]
        PROVE  /\ Given(m, w)'
               /\ \A c \in DOMAIN chain'[m] : w \notin SourcesOf(m, c)'
    <3>1. w \in unspent[m]
      BY <1>2, <2>1
    <3>2. Given(m, w)'
      BY <1>1, <1>5, <3>1, GivenPersists DEF MoneyInv, UnspentIsGiven
    <3> QED BY <1>4, <3>1, <3>2 DEF MoneyInv, UnspentIsGiven
  <2> QED BY <2>1 DEF UnspentIsGiven
<1>7. SpentWasGiven'
  <2>1. ASSUME NEW m \in Node, NEW c \in DOMAIN chain'[m], NEW w \in SourcesOf(m, c)'
        PROVE  /\ Given(m, w)'
               /\ \A d \in DOMAIN chain'[m] : c # d => w \notin SourcesOf(m, d)'
    <3>1. c \in DOMAIN chain[m] /\ w \in SourcesOf(m, c)
      BY <1>4, <2>1
    <3>2. Given(m, w)'
      BY <1>1, <1>5, <3>1, GivenPersists DEF MoneyInv, SpentWasGiven
    <3> QED BY <1>4, <3>1, <3>2 DEF MoneyInv, SpentWasGiven
  <2> QED BY <2>1 DEF SpentWasGiven
<1>8. VerifiedIsNew'
  <2>1. channel' = channel /\ verified' = verified
    BY DEF Stop, netVars
  <2>2. ASSUME NEW r \in Node PROVE Accepted(r)' \subseteq Accepted(r)
    <3>1. ASSUME NEW t \in Accepted(r)' PROVE t \in Accepted(r)
      <4>1. t[1] # r /\ (t \in unspent[r] \/
                             \E c \in DOMAIN chain'[r] : t \in SourcesOf(r, c)')
        BY <1>2, <3>1, AcceptedNextType
      <4> QED BY <1>4, <4>1, AcceptedType
    <3> QED BY <3>1
  <2> QED BY <2>1, <2>2 DEF MoneyInv, VerifiedIsNew
<1> QED BY <1>6, <1>7, <1>8 DEF MoneyInv

\* A step that spends nothing and after which what is verified is new.
LEMMA OthersKeepMoney ==
    ASSUME MoneyInv, UNCHANGED <<chain, unspent>>, VerifiedIsNew'
    PROVE  MoneyInv'
BY DEF MoneyInv, UnspentIsGiven, SpentWasGiven, Given, SourcesOf, IsTransaction, Tx

\* A payment that is taken in is money that was never there before.
LEMMA ApplyKeepsMoney ==
    ASSUME Typed, MoneyInv, NEW s \in Node, NEW r \in Node, Apply(s, r)
    PROVE  MoneyInv'
<1> DEFINE t == <<s, Head(channel[s][r]).tx>>
<1>1. /\ verified[s][r] /\ chain' = chain
      /\ unspent' = [unspent EXCEPT ![r] = unspent[r] \cup {t}]
      /\ verified' = [verified EXCEPT ![s][r] = FALSE]
      /\ channel' = [channel EXCEPT ![s][r] =
                         SubSeq(channel[s][r], 2, Len(channel[s][r]))]
  BY DEF Apply, Drop
<1>2. ChainTyped /\ ChannelTyped
  BY DEF Typed
<1>3. /\ t[1] = s /\ t[2] \in DOMAIN chain[s] /\ chain[s][t[2]].to = r
      /\ s # r /\ t \notin Accepted(r)
  <2>1. MessageTyped(s, r, Head(channel[s][r]))
    BY <1>1, <1>2, FirstMessage, Zenon DEF ChannelTyped
  <2>2. t \notin Accepted(r)
    BY <1>1 DEF MoneyInv, VerifiedIsNew
  <2>3. chain[s][t[2]].to # s
    BY <1>2, <2>1 DEF ChainTyped, MessageTyped
  <2> QED BY <2>1, <2>2, <2>3 DEF MessageTyped
<1> HIDE DEF t
<1>4. Given(r, t)
  <2>1. r # NoNode
    BY ExchangeAssumption DEF NoNode
  <2>2. IsTransaction(t[1], t[2])
    BY <1>3, <2>1 DEF IsTransaction
  <2> QED BY <1>3, <2>2 DEF Given, Tx
<1>5. \A m \in Node : unspent'[m] = unspent[m] \cup (IF m = r THEN {t} ELSE {})
  BY <1>1, <1>2 DEF ChainTyped
<1>6. \A b \in DOMAIN chain[r] : t \notin SourcesOf(r, b)
  BY <1>3, AcceptedType
<1>7. /\ \A m, w : Given(m, w)' <=> Given(m, w)
      /\ \A m, b : SourcesOf(m, b)' = SourcesOf(m, b)
  BY <1>1 DEF Given, SourcesOf, IsTransaction, Tx
<1>8. UnspentIsGiven'
  <2>1. ASSUME NEW m \in Node, NEW w \in unspent'[m]
        PROVE  Given(m, w) /\ \A b \in DOMAIN chain[m] : w \notin SourcesOf(m, b)
    <3>1. CASE w \in unspent[m]
      BY <3>1 DEF MoneyInv, UnspentIsGiven
    <3>2. CASE m = r /\ w = t
      BY <1>4, <1>6, <3>2
    <3> QED BY <1>5, <2>1, <3>1, <3>2
  <2> QED BY <1>1, <1>7, <2>1 DEF UnspentIsGiven
<1>9. SpentWasGiven'
  BY <1>1, <1>7 DEF MoneyInv, SpentWasGiven
<1>10. VerifiedIsNew'
  <2>1. ASSUME NEW a \in Node, NEW b \in Node, verified'[a][b]
        PROVE  <<a, Head(channel'[a][b]).tx>> \notin Accepted(b)'
    <3>1. verified[a][b] /\ (a # s \/ b # r) /\ channel'[a][b] = channel[a][b]
      BY <1>1, <1>2, <2>1, Zenon DEF ChannelTyped
    <3> DEFINE u == <<a, Head(channel[a][b]).tx>>
    <3>2. u \notin Accepted(b) /\ u[1] = a
      BY <3>1 DEF MoneyInv, VerifiedIsNew
    <3> HIDE DEF u
    <3>3. ASSUME u \in Accepted(b)' PROVE FALSE
      <4>1. u[1] # b /\ (u \in unspent'[b] \/
                             \E c \in DOMAIN chain'[b] : u \in SourcesOf(b, c)')
        BY <3>3, AcceptedNextType
      <4>2. u \notin unspent[b] /\ \A c \in DOMAIN chain[b] : u \notin SourcesOf(b, c)
        BY <3>2, <4>1, AcceptedType
      <4>3. u \in unspent'[b]
        BY <1>1, <1>7, <4>1, <4>2
      <4>4. b = r /\ u = t
        BY <1>5, <4>2, <4>3
      <4> QED BY <1>3, <3>1, <3>2, <4>4
    <3> QED BY <3>1, <3>3 DEF u
  <2> QED BY <2>1 DEF VerifiedIsNew
<1> QED BY <1>8, <1>9, <1>10 DEF MoneyInv

\* Unless a message is verified or applied, what is verified stays new.
LEMMA StaysNew ==
    ASSUME MoneyInv, UNCHANGED <<chain, unspent, verified>>,
           \A s, r \in Node : verified[s][r] =>
               Head(channel'[s][r]) = Head(channel[s][r])
    PROVE  VerifiedIsNew'
<1>1. \A r \in Node : Accepted(r)' = Accepted(r)
  BY DEF Accepted, SourcesOf, IsTransaction
<1> QED BY <1>1 DEF MoneyInv, VerifiedIsNew

\* Neither a new message nor the loss of the others changes the head of a channel.
LEMMA HeadStays ==
    ASSUME NEW q \in Seq(Message), q # <<>>, NEW msg \in Message
    PROVE  /\ Head(Append(q, msg)) = Head(q)
           /\ Head(SubSeq(q, 1, 1)) = Head(q)
<1>1. Len(q) \in Nat \ {0} /\ 1 \in 1 .. Len(q)
  BY EmptySeq, LenProperties
<1>2. Head(Append(q, msg)) = Head(q)
  BY HeadTailAppend
<1>3. Head(SubSeq(q, 1, 1)) = q[1]
  BY <1>1, HeadTailOfSubSeq
<1> QED BY <1>2, <1>3

\* Every step keeps the invariant of the money.
LEMMA StepKeepsMoney ==
    ASSUME Typed, MoneyInv, [Next]_vars
    PROVE  MoneyInv'
<1>0. ChannelTyped /\ ProofTyped /\ ChainTyped
  BY DEF Typed
<1>00. \A s, r \in Node : /\ channel[s][r] \in Seq(Message)
                          /\ verified[s][r] => channel[s][r] # <<>>
  BY <1>0, Zenon DEF ChannelTyped, Message
<1>1. ASSUME NEW n \in Node, Pay(n) PROVE MoneyInv'
  BY <1>1, PayKeepsMoney
<1>2. ASSUME NEW n \in Node, Stop(n) PROVE MoneyInv'
  BY <1>2, StopKeepsMoney
<1>3. ASSUME NEW s \in Node, NEW r \in Node, Apply(s, r) PROVE MoneyInv'
  BY <1>3, ApplyKeepsMoney
<1>4. ASSUME NEW s \in Node, NEW r \in Node, Verify(s, r) PROVE MoneyInv'
  <2>1. ~verified[s][r] /\ UNCHANGED <<chain, unspent>>
    BY <1>4 DEF Verify, storeVars
  <2>2. CASE /\ IsValid(r, s, Head(channel[s][r])) /\ UNCHANGED channel
             /\ verified' = [verified EXCEPT ![s][r] = TRUE]
    <3>1. \A b \in Node : Accepted(b)' = Accepted(b)
      BY <2>1 DEF Accepted, SourcesOf, IsTransaction
    <3>2. <<s, Head(channel[s][r]).tx>> \notin Accepted(r)
      BY <2>2 DEF IsValid
    <3>3. \A a, b \in Node : verified'[a][b] =>
                                 verified[a][b] \/ (a = s /\ b = r)
      BY <1>0, <2>2 DEF ChannelTyped
    <3>4. VerifiedIsNew'
      BY <2>2, <3>1, <3>2, <3>3 DEF MoneyInv, VerifiedIsNew
    <3> QED BY <2>1, <3>4, OthersKeepMoney
  <2>3. ASSUME UNCHANGED verified, NEW k, Drop(s, r, k) PROVE MoneyInv'
    <3>1. \A a, b \in Node : verified[a][b] => channel'[a][b] = channel[a][b]
      BY <1>0, <2>1, <2>3 DEF Drop, ChannelTyped
    <3>2. VerifiedIsNew'
      BY <2>1, <2>3, <3>1, StaysNew
    <3> QED BY <2>1, <3>2, OthersKeepMoney
  <2>4. \/ /\ IsValid(r, s, Head(channel[s][r])) /\ UNCHANGED channel
           /\ verified' = [verified EXCEPT ![s][r] = TRUE]
        \/ UNCHANGED verified /\ \E k : Drop(s, r, k)
    BY <1>4 DEF Verify
  <2> QED BY <2>2, <2>3, <2>4
<1>5. ASSUME NEW s \in Node, NEW r \in Node, ConnectionBreaks(s, r) PROVE MoneyInv'
  <2>1. /\ UNCHANGED <<chain, unspent, verified>>
        /\ channel' = [channel EXCEPT ![s][r] =
               SubSeq(channel[s][r], 1, IF verified[s][r] THEN 1 ELSE 0)]
    BY <1>5 DEF ConnectionBreaks, storeVars
  <2>2. ASSUME NEW a \in Node, NEW b \in Node, verified[a][b]
        PROVE  Head(channel'[a][b]) = Head(channel[a][b])
    <3>1. CASE a = s /\ b = r
      <4>1. channel'[s][r] = SubSeq(channel[s][r], 1, 1)
        BY <1>0, <2>1, <2>2, <3>1 DEF ChannelTyped
      <4>2. Head(channel[s][r]) \in Message
        BY <1>00, <2>2, <3>1, HeadTailProperties
      <4> QED BY <1>00, <2>2, <3>1, <4>1, <4>2, HeadStays
    <3>2. CASE a # s \/ b # r
      BY <1>0, <2>1, <3>2, Zenon DEF ChannelTyped
    <3> QED BY <3>1, <3>2
  <2> QED BY <2>1, <2>2, StaysNew, OthersKeepMoney
<1>6. ASSUME NEW n \in Node, SendProof(n) PROVE MoneyInv'
  <2> DEFINE msg == [tx |-> proof[n].tx, blocks |-> proof[n].blocks,
                     calm |-> proof[n].calm]
             r == Receiver(n)
  <2>1. /\ UNCHANGED <<chain, unspent, verified>>
        /\ channel' = [channel EXCEPT ![n][r] = Append(channel[n][r], msg)]
    BY <1>6 DEF SendProof
  <2>2. msg \in Message
    BY <1>0 DEF ProofTyped, Message
  <2> HIDE DEF msg, r
  <2>3. ASSUME NEW a \in Node, NEW b \in Node, verified[a][b]
        PROVE  Head(channel'[a][b]) = Head(channel[a][b])
    <3>1. CASE a = n /\ b = r
      <4>1. channel'[n][r] = Append(channel[n][r], msg)
        BY <1>0, <2>1, <3>1 DEF ChannelTyped
      <4> QED BY <1>00, <2>2, <2>3, <3>1, <4>1, HeadStays
    <3>2. CASE a # n \/ b # r
      BY <1>0, <2>1, <3>2 DEF ChannelTyped
    <3> QED BY <3>1, <3>2
  <2> QED BY <2>1, <2>3, StaysNew, OthersKeepMoney
<1>7. ASSUME UNCHANGED <<chain, unspent, channel, verified>> PROVE MoneyInv'
  BY <1>7, StaysNew, OthersKeepMoney
<1>8. ASSUME NEW n \in Node,
             UpdateCache(n) \/ AddSource(n) \/ StartProof(n) \/ SendFails(n)
      PROVE  UNCHANGED <<chain, unspent, channel, verified>>
  BY <1>8 DEF UpdateCache, AddSource, StartProof, SendFails, storeVars, netVars
<1>9. CASE UNCHANGED vars
  BY <1>7, <1>9 DEF vars, storeVars, netVars
<1> QED BY <1>1, <1>2, <1>3, <1>4, <1>5, <1>6, <1>7, <1>8, <1>9
        DEF Next, Work, Fault

\* It holds when the simulation begins.
LEMMA InitMoney ==
    ASSUME Init
    PROVE  MoneyInv
<1>1. \A n \in Node : DOMAIN chain[n] = {}
  BY DEF Init
<1>2. UnspentIsGiven
  BY <1>1 DEF Init, UnspentIsGiven, Given
<1> QED BY <1>1, <1>2 DEF Init, MoneyInv, SpentWasGiven, VerifiedIsNew

\* So it holds always.
LEMMA MoneyAlways ==
    Spec => []MoneyInv
<1>1. Init => MoneyInv
  BY InitMoney
<1>2. Typed /\ MoneyInv /\ [Next]_vars => MoneyInv'
  BY StepKeepsMoney
<1> QED BY <1>1, <1>2, AlwaysTyped, PTL DEF Spec

\* And nothing is spent twice where it holds.
LEMMA MoneySpentOnce ==
    ASSUME Typed, MoneyInv
    PROVE  SpentOnce
<1> SUFFICES ASSUME NEW u \in Transactions, NEW v \in Transactions,
                    NEW w \in Tx(u).src \cap Tx(v).src, u # v
             PROVE  w[2] # 0 /\ {u[1], v[1]} = {w[1], Tx(w).to} /\ Tx(w).rem
  BY DEF SpentOnce
<1>1. \A x \in Transactions :
          /\ x = <<x[1], x[2]>> /\ x[1] \in Node /\ x[2] \in DOMAIN chain[x[1]]
          /\ SourcesOf(x[1], x[2]) = Tx(x).src
  BY DEF Transactions, SourcesOf, IsTransaction, Tx
<1>2. w \in SourcesOf(u[1], u[2]) /\ w \in SourcesOf(v[1], v[2])
  BY <1>1
<1>3. Given(u[1], w) /\ Given(v[1], w)
  BY <1>1, <1>2 DEF MoneyInv, SpentWasGiven
<1>4. u[1] # v[1]
  <2>1. ASSUME u[1] = v[1] PROVE FALSE
    <3>1. u[2] # v[2]
      BY <1>1, <2>1
    <3> QED BY <1>1, <1>2, <2>1, <3>1 DEF MoneyInv, SpentWasGiven
  <2> QED BY <2>1
<1>5. w # <<u[1], 0>> /\ w # <<v[1], 0>>
  <2>1. \A n : ~IsTransaction(n, 0) \/ n \notin Node
    BY ReceiverType DEF Typed
  <2> QED BY <1>1, <1>3, <1>4, <2>1 DEF Given
<1>6. IsTransaction(w[1], w[2])
      /\ (IF w[1] = u[1] THEN Tx(w).rem ELSE Tx(w).to = u[1])
      /\ (IF w[1] = v[1] THEN Tx(w).rem ELSE Tx(w).to = v[1])
  BY <1>3, <1>5 DEF Given
<1>7. w[2] # 0
  <2>1. w \in TxId
    BY <1>1, <1>2, SourcesType DEF Typed
  <2>2. w[1] \in Node
    BY <2>1 DEF TxId
  <2> QED BY <1>6, <2>2, ReceiverType DEF Typed
<1> QED BY <1>4, <1>6, <1>7

\* No interleaving of payments, proofs and faults lets money be spent twice:
\* a transaction is a source of its receiver's payments once and, if it left a
\* remainder, of its sender's once.
THEOREM MoneyIsSpentOnce ==
    Spec => []SpentOnce
<1>1. Typed /\ MoneyInv => SpentOnce
  BY MoneySpentOnce
<1> QED BY <1>1, AlwaysTyped, MoneyAlways, PTL

-----------------------------------------------------------------------------
(* What a node has of the other chains only grows.                         *)

ViewsGrow ==
    \A n, m \in Node :
        /\ View(n, m) \in Int /\ View(n, m)' \in Int
        /\ View(n, m) <= View(n, m)'
        /\ n # m => \A b \in 0 .. View(n, m) :
               NextCommitted(n, m, b)' = NextCommitted(n, m, b)

\* A message appends to every copy but that of the receiver's own chain.
LEMMA ApplyCopies ==
    ASSUME Typed, NEW s \in Node, NEW r \in Node, Apply(s, r)
    PROVE  \A n, m \in Node :
               copy'[n][m] = IF n = r /\ m # r
                             THEN copy[r][m] \o Appended(r, Head(channel[s][r]), m)
                             ELSE copy[n][m]
<1>1. copy' = [copy EXCEPT ![r] =
              [m \in Node |-> IF m = r THEN copy[r][m]
                  ELSE copy[r][m] \o Appended(r, Head(channel[s][r]), m)]]
  BY DEF Apply
<1>2. copy \in [Node -> [Node -> Seq(Nat \cup {NoBlock})]]
  BY Zenon DEF Typed, CopyTyped
<1> DEFINE e(m) == copy[r][m] \o Appended(r, Head(channel[s][r]), m)
<1> HIDE DEF e
<1>3. copy' = [copy EXCEPT ![r] =
              [m \in Node |-> IF m = r THEN copy[r][m] ELSE e(m)]]
  BY <1>1 DEF e
<1>4. \A n, m \in Node : copy'[n][m] = IF n = r /\ m # r THEN e(m) ELSE copy[n][m]
  BY <1>2, <1>3, Zenon
<1> QED BY <1>4 DEF e

\* The message at the head of a connection.
LEMMA HeadType ==
    ASSUME Typed, NEW s \in Node, NEW r \in Node, channel[s][r] # <<>>
    PROVE  /\ MessageTyped(s, r, Head(channel[s][r]))
           /\ 1 \in DOMAIN channel[s][r] /\ Head(channel[s][r]) = channel[s][r][1]
<1>1. channel[s][r] \in Seq(Message)
  BY Zenon DEF Typed, ChannelTyped, Message
<1>2. 1 \in DOMAIN channel[s][r] /\ Head(channel[s][r]) = channel[s][r][1]
  BY <1>1
<1> QED BY <1>2 DEF Typed, ChannelTyped

\* No step takes a block out of a copy.
LEMMA StepViewsGrow ==
    ASSUME Typed, [Next]_vars
    PROVE  ViewsGrow
<1>0. /\ ChainTyped /\ CopyTyped /\ ChannelTyped /\ Grown /\ ChainTyped' /\ CopyTyped'
  <2>1. Typed'
    BY StepTyped
  <2>2. Grown
    BY StepChainTyped DEF Typed
  <2> QED BY <2>1, <2>2 DEF Typed
<1> SUFFICES ASSUME NEW n \in Node, NEW m \in Node
             PROVE  /\ View(n, m) \in Int /\ View(n, m)' \in Int
                    /\ View(n, m) <= View(n, m)'
                    /\ n # m => \A b \in 0 .. View(n, m) :
                           NextCommitted(n, m, b)' = NextCommitted(n, m, b)
  BY DEF ViewsGrow
<1>1. CASE m = n
  <2>1. Len(chain[n]) \in Nat /\ Len(chain'[n]) \in Nat /\ Len(chain[n]) <= Len(chain'[n])
    BY <1>0 DEF ChainTyped, Grown
  <2> QED BY <1>1, <2>1 DEF View
<1>2. ASSUME n # m
      PROVE  \E q \in Seq(Nat \cup {NoBlock}) : copy'[n][m] = copy[n][m] \o q
  <2>1. copy[n][m] \in Seq(Nat \cup {NoBlock})
    BY <1>0 DEF CopyTyped
  <2>2. copy[n][m] = copy[n][m] \o <<>> /\ <<>> \in Seq(Nat \cup {NoBlock})
    BY <2>1, ConcatEmptySeq
  <2>3. CASE copy' = copy
    BY <2>2, <2>3, Zenon
  <2>4. ASSUME NEW s \in Node, NEW r \in Node, Apply(s, r)
        PROVE  \E q \in Seq(Nat \cup {NoBlock}) : copy'[n][m] = copy[n][m] \o q
    <3>1. copy'[n][m] = IF n = r /\ m # r
                        THEN copy[r][m] \o Appended(r, Head(channel[s][r]), m)
                        ELSE copy[n][m]
      BY <2>4, ApplyCopies
    <3>2. CASE n = r
      <4>1. Exist(Head(channel[s][r]).blocks)
        BY <1>0, <2>4, HeadType DEF Apply, ChannelTyped, MessageTyped
      <4>2. Appended(r, Head(channel[s][r]), m) \in Seq(Blocks(m) \cup {NoBlock})
        BY <1>0, <1>2, <3>2, <4>1, AppendedType, Zenon
      <4>3. Blocks(m) \cup {NoBlock} \subseteq Nat \cup {NoBlock}
        BY DEF Blocks
      <4>4. Appended(r, Head(channel[s][r]), m) \in Seq(Nat \cup {NoBlock})
        BY <4>2, <4>3, SeqMonotonic
      <4> QED BY <1>2, <3>1, <3>2, <4>4, Zenon
    <3>3. CASE n # r
      BY <2>2, <3>1, <3>3, Zenon
    <3> QED BY <3>2, <3>3, Zenon
  <2>5. ASSUME NEW k \in Node,
               UpdateCache(k) \/ SendProof(k) \/ AddSource(k) \/ StartProof(k)
                   \/ SendFails(k) \/ Pay(k) \/ Stop(k)
        PROVE  copy' = copy
    BY <2>5 DEF UpdateCache, SendProof, AddSource, StartProof, SendFails, Pay, Stop,
                storeVars
  <2>6. ASSUME NEW s \in Node, NEW r \in Node, Verify(s, r) \/ ConnectionBreaks(s, r)
        PROVE  copy' = copy
    BY <2>6 DEF Verify, ConnectionBreaks, storeVars
  <2>7. CASE UNCHANGED vars
    BY <2>3, <2>7, Zenon DEF vars, storeVars
  <2> QED BY <2>3, <2>4, <2>5, <2>6, <2>7, Zenon DEF Next, Work, Fault
<1>3. CASE m # n
  <2>1. PICK q \in Seq(Nat \cup {NoBlock}) : copy'[n][m] = copy[n][m] \o q
    BY <1>2, <1>3, Zenon
  <2>2. copy[n][m] \in Seq(Nat \cup {NoBlock})
    BY <1>0 DEF CopyTyped
  <2>3. Len(copy[n][m]) \in Nat /\ Len(q) \in Nat
    BY <2>2, LenProperties
  <2>4. /\ Len(copy'[n][m]) = Len(copy[n][m]) + Len(q)
        /\ \A i \in 1 .. Len(copy[n][m]) : copy'[n][m][i] = copy[n][m][i]
    BY <2>1, <2>2, <2>3, ConcatProperties
  <2>5. \A b \in 0 .. Len(copy[n][m]) - 1 : b + 1 \in 1 .. Len(copy[n][m])
    BY <2>3
  <2>6. View(n, m) = Len(copy[n][m]) - 1 /\ View(n, m)' = Len(copy'[n][m]) - 1
    BY <1>3 DEF View
  <2>7. \A b : /\ NextCommitted(n, m, b) = copy[n][m][b + 1]
               /\ NextCommitted(n, m, b)' = copy'[n][m][b + 1]
    BY <1>3 DEF NextCommitted
  <2>8. \A b \in 0 .. View(n, m) : NextCommitted(n, m, b)' = NextCommitted(n, m, b)
    BY <2>4, <2>5, <2>6, <2>7, Zenon
  <2> QED BY <2>3, <2>4, <2>6, <2>8
<1> QED BY <1>1, <1>3

\* What is committed stays so.
LEMMA CommittedStays ==
    ASSUME MainGrown
    PROVE  \A m, b : IsCommitted(m, b) => IsCommitted(m, b)'
BY DEF MainGrown, IsCommitted

\* What a node has in its cache is committed.
LEMMA CachedIsCommitted ==
    ASSUME MainTyped, NEW n \in Node, NEW m, NEW b, InCache(n, m, b)
    PROVE  IsCommitted(m, b)
<1>1. cacheLen[n] \in Nat /\ cacheLen[n] <= Len(mainChain)
      /\ Len(mainChain) \in Nat /\ DOMAIN mainChain = 1 .. Len(mainChain)
  BY LenProperties DEF MainTyped
<1> QED BY <1>1 DEF InCache, IsCommitted

-----------------------------------------------------------------------------
(* The blocks of a proof: in ascending order, with a gap only where the    *)
(* sources of other blocks fill it, and up to a committed block.           *)

Ascends(q) == \A i, j \in 1 .. Len(q) : i < j => q[i] < q[j]

Included(blocks, t) ==
    \E m \in Node : \E i \in 1 .. Len(blocks[m]) : t \in SourcesOf(m, blocks[m][i])

Bridged(blocks, m) ==
    \A i \in 1 .. Len(blocks[m]) - 1 :
        blocks[m][i + 1] # blocks[m][i] + 1 =>
            \E k \in Nat : k > blocks[m][i] /\ Included(blocks, <<m, k>>)

EndCommitted(blocks, m) ==
    blocks[m] # <<>> => IsCommitted(m, blocks[m][Len(blocks[m])])

Shape(blocks) ==
    \A m \in Node : /\ Ascends(blocks[m])
                    /\ Bridged(blocks, m)
                    /\ EndCommitted(blocks, m)

\* What verification has found of a message.
Complete(s, r, msg) ==
    /\ \A m \in Node : Attaches(r, msg, m)
    /\ \A t : Included(msg.blocks, t) => Finds(r, msg, t[1], t[2])
    /\ Finds(r, msg, s, msg.tx)

\* Numbers in ascending order lie at least as far apart as their places.
LEMMA AscendsFast ==
    ASSUME NEW q \in Seq(Nat), Ascends(q)
    PROVE  \A i, j \in 1 .. Len(q) : i <= j => q[j] >= q[i] + (j - i)
<1>1. Len(q) \in Nat /\ \A i \in 1 .. Len(q) : q[i] \in Nat
  BY LenProperties, ElementOfSeq
<1> DEFINE Far(k) == \A i \in 1 .. Len(q) : i + k <= Len(q) => q[i + k] >= q[i] + k
           K == {k \in Nat : Far(k)}
<1>2. 0 \in K
  BY <1>1
<1>3. ASSUME NEW k \in Nat, k \in K PROVE k + 1 \in K
  <2>1. Far(k)
    BY <1>3
  <2>2. ASSUME NEW i \in 1 .. Len(q), i + (k + 1) <= Len(q)
        PROVE  q[i + (k + 1)] >= q[i] + (k + 1)
    <3>1. i + k \in 1 .. Len(q) /\ i + (k + 1) \in 1 .. Len(q) /\ i + k < i + (k + 1)
      BY <1>1, <2>2
    <3>2. q[i + k] >= q[i] + k
      BY <2>1, <3>1
    <3>3. q[i + k] < q[i + (k + 1)]
      BY <3>1 DEF Ascends
    <3>4. q[i] \in Nat /\ q[i + k] \in Nat /\ q[i + (k + 1)] \in Nat
      BY <1>1, <3>1
    <3>5. \A a, b, c \in Nat : b >= a + k /\ b < c => c >= a + (k + 1)
      OBVIOUS
    <3> QED BY <3>2, <3>3, <3>4, <3>5, Zenon
  <2> QED BY <2>2
<1>4. Nat \subseteq K
  BY <1>2, <1>3, NatSetInduction, Zenon
<1>5. \A k \in Nat : Far(k)
  BY <1>4
<1>6. ASSUME NEW i \in 1 .. Len(q), NEW j \in 1 .. Len(q), i <= j
      PROVE  q[j] >= q[i] + (j - i)
  <2>1. j - i \in Nat /\ i + (j - i) = j
    BY <1>1, <1>6
  <2> QED BY <1>5, <2>1
<1> QED BY <1>6

\* Numbers without a gap follow from the first of them.
LEMMA WithoutGap ==
    ASSUME NEW q \in Seq(Nat), NEW j \in 1 .. Len(q),
           \A i \in j .. Len(q) - 1 : q[i + 1] = q[i] + 1
    PROVE  \A i \in j .. Len(q) : q[i] = q[j] + (i - j)
<1>1. Len(q) \in Nat /\ \A i \in 1 .. Len(q) : q[i] \in Nat
  BY LenProperties, ElementOfSeq
<1> DEFINE Next1(k) == j + k <= Len(q) => q[j + k] = q[j] + k
           K == {k \in Nat : Next1(k)}
<1>2. 0 \in K
  BY <1>1
<1>3. ASSUME NEW k \in Nat, k \in K PROVE k + 1 \in K
  <2>1. Next1(k)
    BY <1>3
  <2>2. ASSUME j + (k + 1) <= Len(q)
        PROVE  q[j + (k + 1)] = q[j] + (k + 1)
    <3>1. j + k \in j .. Len(q) - 1 /\ j + k \in 1 .. Len(q) /\ (j + k) + 1 = j + (k + 1)
      BY <1>1, <2>2
    <3>2. q[j + (k + 1)] = q[j + k] + 1
      BY <3>1
    <3>3. q[j + k] = q[j] + k
      BY <1>1, <2>1, <3>1
    <3>4. q[j] \in Nat
      BY <1>1
    <3> QED BY <3>2, <3>3, <3>4
  <2> QED BY <2>2
<1>4. Nat \subseteq K
  BY <1>2, <1>3, NatSetInduction, Zenon
<1>5. \A k \in Nat : Next1(k)
  BY <1>4
<1>6. ASSUME NEW i \in j .. Len(q) PROVE q[i] = q[j] + (i - j)
  <2>1. i - j \in Nat /\ j + (i - j) = i
    BY <1>1
  <2> QED BY <1>1, <1>5, <2>1
<1> QED BY <1>6

\* The blocks of an update which the receiver lacks have no gap up to the
\* last one.
LEMMA NoGapBeyondView ==
    ASSUME Typed, NEW s \in Node, NEW r \in Node, NEW m \in Node,
           NEW msg, Exist(msg.blocks), Shape(msg.blocks), Complete(s, r, msg),
           NEW j \in 1 .. Len(msg.blocks[m]), msg.blocks[m][j] > View(r, m)
    PROVE  \A i \in j .. Len(msg.blocks[m]) :
               msg.blocks[m][i] = msg.blocks[m][j] + (i - j)
<1> DEFINE q == msg.blocks[m]
<1>1. q \in Seq(Nat) /\ Ascends(q)
  BY DEF Exist, Shape, BlockNumbers
<1>2. Len(q) \in Nat /\ (\A i \in 1 .. Len(q) : q[i] \in Nat) /\ DOMAIN q = 1 .. Len(q)
  BY <1>1, LenProperties, ElementOfSeq, Zenon
<1>3. View(r, m) \in Int
  BY StepViewsGrow, LenProperties DEF View, Typed, ChainTyped, CopyTyped
<1>4. /\ j \in 1 .. Len(q) /\ q[j] > View(r, m)
      /\ \A i \in 1 .. Len(q) - 1 : q[i + 1] # q[i] + 1 =>
             \E k \in Nat : k > q[i] /\ Included(msg.blocks, <<m, k>>)
      /\ \A k : Finds(r, msg, m, k) <=>
             k <= View(r, m) \/ \E i \in DOMAIN q : i = k - Head(q) + 1 /\ q[i] = k
  BY Zenon DEF Shape, Bridged, Finds
<1> HIDE DEF q
<1>5. ASSUME NEW i \in j .. Len(q) - 1 PROVE q[i + 1] = q[i] + 1
  <2>1. i \in 1 .. Len(q) /\ i + 1 \in 1 .. Len(q) /\ i \in 1 .. Len(q) - 1
    BY <1>2, <1>4
  <2>2. q[i] > View(r, m)
    <3>1. q[j] <= q[i]
      BY <1>1, <1>2, <1>4, <2>1 DEF Ascends
    <3>2. q[i] \in Nat /\ q[j] \in Nat
      BY <1>2, <1>4, <2>1
    <3> QED BY <1>3, <1>4, <3>1, <3>2
  <2> SUFFICES ASSUME q[i + 1] # q[i] + 1 PROVE FALSE
    OBVIOUS
  <2>3. PICK k \in Nat : k > q[i] /\ Included(msg.blocks, <<m, k>>)
    BY <1>4, <2>1, Zenon
  <2>4. Finds(r, msg, m, k)
    BY <2>3 DEF Complete
  <2>5. PICK l \in 1 .. Len(q) : l = k - Head(q) + 1 /\ q[l] = k
    <3>1. ~(k <= View(r, m))
      BY <1>2, <1>3, <2>1, <2>2, <2>3
    <3> QED BY <1>2, <1>4, <2>4, <3>1
  <2>6. Head(q) = q[1] /\ 1 \in 1 .. Len(q) /\ q[1] \in Nat
    BY <1>1, <1>2, <2>1
  <2>7. q[i] \in Nat /\ q[i + 1] \in Nat /\ i \in Nat /\ l \in Nat
    BY <1>2, <2>1
  <2>8. l > i
    <3>1. l < i => q[l] < q[i]
      BY <1>1, <2>1, Zenon DEF Ascends
    <3> QED BY <2>3, <2>5, <2>7, <3>1
  <2>9. i + 1 <= l /\ 1 <= i
    BY <2>1, <2>7, <2>8
  <2>10. q[i + 1] > q[i]
    BY <1>1, <2>1, <2>7 DEF Ascends
  <2>11. q[l] >= q[i + 1] + (l - (i + 1))
    BY <1>1, <2>1, <2>9, AscendsFast
  <2>12. q[i] >= q[1] + (i - 1)
    BY <1>1, <2>1, <2>6, <2>9, AscendsFast
  <2>13. q[i + 1] >= q[i] + 2
    BY <2>7, <2>10
  <2>14. l = k - q[1] + 1 /\ q[l] = k
    BY <2>5, <2>6
  <2>15. \A w, x, y \in Nat : w + (i - 1) <= x /\ x + 2 <= y /\ y + (l - (i + 1)) <= k
             => l # k - w + 1
    BY <2>7
  <2> QED BY <2>6, <2>7, <2>11, <2>12, <2>13, <2>14, <2>15, Zenon
<1> QED BY <1>1, <1>4, <1>5, WithoutGap, Zenon DEF q

-----------------------------------------------------------------------------
(* What an update adds to a copy.                                          *)

\* An update adds either nothing to a copy or all blocks up to its last one.
LEMMA UpdateIsWhole ==
    ASSUME Typed, NEW s \in Node, NEW r \in Node, NEW m \in Node,
           NEW msg, Exist(msg.blocks), Shape(msg.blocks), Complete(s, r, msg)
    PROVE  LET q     == msg.blocks[m]
               us    == ToSet(q)
               first == View(r, m) + 1
               new   == {b \in us : b >= first /\ first .. b \subseteq us}
           IN  /\ first \in Nat
               /\ first \in us => /\ q # <<>> /\ q[Len(q)] \in Nat
                                  /\ first <= q[Len(q)]
                                  /\ new = first .. q[Len(q)]
                                  /\ first .. q[Len(q)] \subseteq us
               /\ first \notin us => new = {}
<1> DEFINE q     == msg.blocks[m]
           us    == ToSet(q)
           first == View(r, m) + 1
           new   == {b \in us : b >= first /\ first .. b \subseteq us}
<1>1. q \in Seq(Nat) /\ Ascends(q)
  BY DEF Exist, Shape, BlockNumbers
<1>2. /\ Len(q) \in Nat /\ \A i \in 1 .. Len(q) : q[i] \in Nat
      /\ us \in SUBSET Nat
      /\ \A i \in 1 .. Len(q) : q[i] \in us
      /\ \A x \in us : \E i \in 1 .. Len(q) : q[i] = x
  BY <1>1, LenProperties, ElementOfSeq, ToSetType, Zenon
<1>3. first \in Nat /\ View(r, m) = first - 1
  BY LenProperties DEF View, Typed, ChainTyped, CopyTyped
<1>4. \A j \in 1 .. Len(q) : q[j] > View(r, m) =>
          \A i \in j .. Len(q) : q[i] = q[j] + (i - j)
  BY NoGapBeyondView
<1> HIDE DEF q, us
<1>5. ASSUME first \in us
      PROVE  /\ q # <<>> /\ q[Len(q)] \in Nat
             /\ first <= q[Len(q)]
             /\ new = first .. q[Len(q)]
             /\ first .. q[Len(q)] \subseteq us
  <2>1. PICK j \in 1 .. Len(q) : q[j] = first
    BY <1>2, <1>5, Zenon
  <2> HIDE DEF first
  <2>2. \A i \in j .. Len(q) : q[i] = first + (i - j)
    <3>1. q[j] > View(r, m)
      BY <1>3, <2>1
    <3> QED BY <1>4, <2>1, <3>1
  <2>3. /\ Len(q) \in 1 .. Len(q) /\ Len(q) \in j .. Len(q) /\ j \in Nat
        /\ q[Len(q)] = first + (Len(q) - j)
    BY <1>2, <2>1, <2>2
  <2>4. q # <<>>
    BY <2>3, EmptySeq
  <2>5. \A x \in first .. q[Len(q)] : x \in us
    <3>1. ASSUME NEW x \in first .. q[Len(q)] PROVE x \in us
      <4>1. j + (x - first) \in j .. Len(q) /\ j + (x - first) \in 1 .. Len(q)
            /\ first + ((j + (x - first)) - j) = x
        BY <1>2, <1>3, <2>1, <2>3
      <4>2. q[j + (x - first)] = x
        BY <2>2, <4>1
      <4> QED BY <1>2, <4>1, <4>2
    <3> QED BY <3>1
  <2>6. \A x \in us : x <= q[Len(q)]
    <3>1. ASSUME NEW x \in us PROVE x <= q[Len(q)]
      <4>1. PICK i \in 1 .. Len(q) : q[i] = x
        BY <1>2
      <4>2. CASE i = Len(q)
        BY <1>2, <4>1, <4>2
      <4>3. CASE i < Len(q)
        BY <1>1, <1>2, <2>3, <4>1, <4>3 DEF Ascends
      <4> QED BY <1>2, <4>1, <4>2, <4>3
    <3> QED BY <3>1
  <2>7. new = first .. q[Len(q)]
    <3>1. \A b \in new : b \in first .. q[Len(q)]
      BY <1>2, <1>3, <2>3, <2>6
    <3>2. \A b \in first .. q[Len(q)] : b \in new
      <4>1. ASSUME NEW b \in first .. q[Len(q)] PROVE b \in new
        <5>1. \A x \in first .. b : x \in first .. q[Len(q)]
          BY <1>3, <2>3
        <5> QED BY <1>3, <2>3, <2>5, <5>1
      <4> QED BY <4>1
    <3> QED BY <3>1, <3>2
  <2>8. first <= q[Len(q)] /\ q[Len(q)] \in Nat
    BY <1>2, <1>3, <2>3
  <2> QED BY <2>4, <2>5, <2>7, <2>8
<1>6. ASSUME first \notin us PROVE new = {}
  <2>1. ASSUME NEW b \in new PROVE FALSE
    <3>1. first \in first .. b
      BY <1>2, <1>3
    <3> QED BY <1>6, <3>1
  <2> QED BY <2>1
<1> QED BY <1>3, <1>5, <1>6 DEF q, us

\* What Chain.fixNextCommitted makes of the pointers of the blocks it adds.
LEMMA AppendedIs ==
    ASSUME Typed, NEW s \in Node, NEW r \in Node, NEW m \in Node, r # m,
           NEW msg, Exist(msg.blocks), Shape(msg.blocks), Complete(s, r, msg)
    PROVE  LET q     == msg.blocks[m]
               first == View(r, m) + 1
               last  == q[Len(q)]
               a     == Appended(r, msg, m)
           IN  /\ first \in Nat
               /\ first \notin ToSet(q) => Len(a) = 0
               /\ first \in ToSet(q) =>
                     /\ last \in Nat /\ first <= last /\ Len(a) = last - first + 1
                     /\ first .. last \subseteq ToSet(q)
                     /\ \A b \in first .. last :
                           LET c == a[b - first + 1]
                           IN  /\ c \in b .. last /\ IsCommitted(m, c)
                               /\ \A x \in b .. c : a[x - first + 1] = c
                               /\ \A x \in b .. c - 1 : ~InCache(r, m, x)
<1> DEFINE q     == msg.blocks[m]
           us    == ToSet(q)
           first == View(r, m) + 1
           last  == q[Len(q)]
           a     == Appended(r, msg, m)
           new   == {b \in us : b >= first /\ first .. b \subseteq us}
           ends  == {b \in new : b = Last(q) \/ InCache(r, m, b)}
<1>1. /\ first \in Nat
      /\ first \in us => /\ q # <<>> /\ last \in Nat /\ first <= last
                         /\ new = first .. last /\ first .. last \subseteq us
      /\ first \notin us => new = {}
  <2> HIDE DEF new, first, us, last
  <2> QED BY UpdateIsWhole DEF new, first, us, last
<1>2. Len(a) = Cardinality(new)
  BY AppendedType, ZenonT(30) DEF Typed
<1>3. a = [i \in 1 .. Cardinality(new) |->
              LeastOrNone({b \in ends : b >= first + i - 1})]
  BY DEF Appended
<1>4. last = Last(q)
  BY DEF Last
<1>5. q # <<>> => IsCommitted(m, last)
  BY DEF Shape, EndCommitted
<1>6. \A b \in ends : b \in new /\ (b = last \/ IsCommitted(m, b))
  BY <1>4, CachedIsCommitted DEF Typed
<1>7. /\ last \in new => last \in ends
      /\ \A x \in new : InCache(r, m, x) => x \in ends
  BY <1>4
<1> HIDE DEF q, us, first, last, a, new, ends
<1>8. CASE first \notin us
  BY <1>1, <1>2, <1>8, FS_EmptySet, Zenon DEF q, us, first, last, a
<1>9. CASE first \in us
  <2>1. new = first .. last /\ last \in Nat /\ first <= last /\ first \in Nat
    BY <1>1, <1>9
  <2>2. Cardinality(new) = last - first + 1
    BY <2>1, FS_Interval
  <2>3. last \in ends /\ \A b \in ends : b \in first .. last /\ IsCommitted(m, b)
    BY <1>1, <1>5, <1>6, <1>7, <1>9, <2>1
  <2> DEFINE E(b) == {e \in ends : e >= b}
             p(b) == LeastOrNone(E(b))
  <2>4. ASSUME NEW b \in first .. last
        PROVE  /\ p(b) \in ends /\ p(b) \in b .. last
               /\ \A e \in ends : e >= b => p(b) <= e
    <3>1. \A e \in ends : e \in Nat /\ e <= last
      BY <2>1, <2>3
    <3>2. E(b) \in SUBSET Nat /\ last \in E(b) /\ b \in Nat
      <4>1. b \in Nat /\ last >= b
        BY <2>1
      <4>2. E(b) \in SUBSET ends
        OBVIOUS
      <4> QED BY <2>3, <3>1, <4>1, <4>2
    <3>3. p(b) \in E(b) /\ \A e \in E(b) : p(b) <= e
      BY <3>2, LeastOrNoneType
    <3>4. p(b) \in ends /\ p(b) >= b
      BY <3>3
    <3>5. \A e \in ends : e >= b => p(b) <= e
      BY <3>3
    <3>6. p(b) \in Nat /\ p(b) <= last
      BY <3>1, <3>4
    <3> HIDE DEF p
    <3> QED BY <2>1, <3>2, <3>4, <3>5, <3>6
  <2>5. ASSUME NEW b \in first .. last PROVE a[b - first + 1] = p(b)
    <3>1. b - first + 1 \in 1 .. Cardinality(new) /\ first + (b - first + 1) - 1 = b
      BY <2>1, <2>2
    <3> QED BY <1>3, <3>1
  <2> HIDE DEF p
  <2>6. ASSUME NEW b \in first .. last
        PROVE  /\ p(b) \in b .. last /\ IsCommitted(m, p(b))
               /\ \A x \in b .. p(b) : p(x) = p(b) /\ x \in first .. last
               /\ \A x \in b .. p(b) - 1 : ~InCache(r, m, x)
    <3>1. p(b) \in ends /\ p(b) \in b .. last /\ \A e \in ends : e >= b => p(b) <= e
      BY <2>4
    <3>2. ASSUME NEW x \in b .. p(b) PROVE p(x) = p(b) /\ x \in first .. last
      <4>1. x \in first .. last /\ x >= b /\ p(b) >= x /\ p(b) \in Nat /\ x \in Nat
        BY <2>1, <3>1
      <4>2. p(x) \in ends /\ p(x) \in x .. last /\ p(x) <= p(b)
        BY <2>4, <3>1, <4>1
      <4>3. p(x) >= b
        BY <2>1, <4>1, <4>2
      <4>4. p(b) <= p(x)
        BY <3>1, <4>2, <4>3
      <4>5. p(x) \in Nat
        BY <2>1, <4>1, <4>2
      <4> QED BY <4>1, <4>2, <4>4, <4>5
    <3>3. ASSUME NEW x \in b .. p(b) - 1, InCache(r, m, x) PROVE FALSE
      <4>1. x \in first .. last /\ x >= b /\ x < p(b)
        BY <2>1, <3>1
      <4>2. x \in ends
        BY <1>7, <2>1, <3>3, <4>1
      <4> QED BY <2>1, <3>1, <4>1, <4>2
    <3> QED BY <2>3, <3>1, <3>2, <3>3
  <2>7. \A b \in first .. last :
            /\ a[b - first + 1] \in b .. last /\ IsCommitted(m, a[b - first + 1])
            /\ \A x \in b .. a[b - first + 1] : a[x - first + 1] = a[b - first + 1]
            /\ \A x \in b .. a[b - first + 1] - 1 : ~InCache(r, m, x)
    BY <2>5, <2>6
  <2>8. Len(a) = last - first + 1 /\ first .. last \subseteq us
    BY <1>1, <1>2, <1>9, <2>2
  <2> QED BY <1>1, <1>9, <2>1, <2>7, <2>8, Zenon DEF q, us, first, last, a
<1> QED BY <1>8, <1>9

\* The blocks of a copy lead to committed blocks that it has, all blocks up
\* to such a one to the same.
Segments(n, m) ==
    \A b \in 0 .. View(n, m) :
        /\ NextCommitted(n, m, b) \in b .. View(n, m)
        /\ IsCommitted(m, NextCommitted(n, m, b))
        /\ \A x \in b .. NextCommitted(n, m, b) :
               NextCommitted(n, m, x) = NextCommitted(n, m, b)

\* The last block a node has of a chain, -1 when it has none.
LEMMA ViewType ==
    ASSUME Typed, NEW n \in Node, NEW m \in Node
    PROVE  View(n, m) \in Int /\ View(n, m) >= -1
BY LenProperties DEF View, Typed, ChainTyped, CopyTyped

\* A copy after an update.
LEMMA ApplyView ==
    ASSUME Typed, NEW s \in Node, NEW r \in Node, Apply(s, r),
           NEW msg, msg = Head(channel[s][r]),
           Shape(msg.blocks), Complete(s, r, msg),
           NEW m \in Node, m # r
    PROVE  LET q     == msg.blocks[m]
               first == View(r, m) + 1
               last  == q[Len(q)]
               a     == Appended(r, msg, m)
           IN  /\ View(r, m)' = IF first \in ToSet(q) THEN last ELSE View(r, m)
               /\ View(r, m)' = View(r, m) + Len(a)
               /\ \A b \in 0 .. View(r, m) :
                      NextCommitted(r, m, b)' = NextCommitted(r, m, b)
               /\ \A b \in first .. View(r, m)' :
                      NextCommitted(r, m, b)' = a[b - first + 1]
<1> DEFINE q     == msg.blocks[m]
           first == View(r, m) + 1
           last  == q[Len(q)]
           a     == Appended(r, msg, m)
<1>1. copy'[r][m] = copy[r][m] \o a
  <2> HIDE DEF a
  <2>1. \A n, k \in Node :
            copy'[n][k] = IF n = r /\ k # r
                          THEN copy[r][k] \o Appended(r, Head(channel[s][r]), k)
                          ELSE copy[n][k]
    BY ApplyCopies
  <2>2. copy'[r][m] = copy[r][m] \o Appended(r, Head(channel[s][r]), m)
    BY <2>1, ZenonT(30)
  <2> QED BY <2>2 DEF a
<1>2. Exist(msg.blocks)
  BY HeadType, SMTT(30) DEF Apply, MessageTyped, Typed, ChannelTyped
<1>3. /\ first \in Nat
      /\ first \notin ToSet(q) => Len(a) = 0
      /\ first \in ToSet(q) =>
             last \in Nat /\ first <= last /\ Len(a) = last - first + 1
  BY <1>2, AppendedIs
<1>4. a \in Seq(Nat \cup {NoBlock})
  <2>1. a \in Seq(Blocks(m) \cup {NoBlock})
    BY <1>2, AppendedType, Zenon DEF Typed
  <2>2. Blocks(m) \cup {NoBlock} \subseteq Nat \cup {NoBlock}
    BY DEF Blocks
  <2> QED BY <2>1, <2>2, SeqMonotonic
<1>5. View(r, m) = Len(copy[r][m]) - 1 /\ View(r, m)' = Len(copy'[r][m]) - 1
      /\ first = Len(copy[r][m])
  BY LenProperties DEF View, Typed, CopyTyped
<1>6. \A b : NextCommitted(r, m, b)' = copy'[r][m][b + 1]
  BY DEF NextCommitted
<1>7. copy[r][m] \in Seq(Nat \cup {NoBlock})
  BY DEF Typed, CopyTyped
<1> HIDE DEF q, first, last, a
<1>8. Len(a) \in Nat /\ Len(copy[r][m]) \in Nat
  BY <1>4, <1>7, LenProperties
<1>9. Len(copy'[r][m]) = Len(copy[r][m]) + Len(a)
      /\ \A i \in 1 .. Len(copy[r][m]) + Len(a) :
             copy'[r][m][i] = IF i <= Len(copy[r][m]) THEN copy[r][m][i]
                              ELSE a[i - Len(copy[r][m])]
  BY <1>1, <1>4, <1>7, ConcatProperties
<1>10. View(r, m)' = View(r, m) + Len(a)
  BY <1>5, <1>8, <1>9
<1>11. View(r, m)' = IF first \in ToSet(q) THEN last ELSE View(r, m)
  <2>1. CASE first \in ToSet(q)
    <3>1. last \in Nat /\ first \in Nat /\ Len(a) = last - first + 1
      BY <1>3, <2>1
    <3> QED BY <1>5, <1>10, <2>1, <3>1
  <2>2. CASE first \notin ToSet(q)
    BY <1>3, <1>5, <1>8, <1>10, <2>2
  <2> QED BY <2>1, <2>2
<1>12. \A b \in 0 .. View(r, m) : NextCommitted(r, m, b)' = NextCommitted(r, m, b)
  BY StepViewsGrow DEF ViewsGrow, Next, Work
<1>13. ASSUME NEW b \in first .. View(r, m)'
       PROVE  NextCommitted(r, m, b)' = a[b - first + 1]
  <2>1. b + 1 \in 1 .. Len(copy[r][m]) + Len(a) /\ ~(b + 1 <= Len(copy[r][m]))
        /\ (b + 1) - Len(copy[r][m]) = b - first + 1
    BY <1>5, <1>8, <1>9
  <2> QED BY <1>6, <1>9, <2>1, Zenon
<1> QED BY <1>10, <1>11, <1>12, <1>13 DEF q, first, last, a

\* What a message appends to a copy again leads to committed blocks.
LEMMA ApplySegments ==
    ASSUME Typed, NEW s \in Node, NEW r \in Node, Apply(s, r),
           NEW msg, msg = Head(channel[s][r]),
           Shape(msg.blocks), Complete(s, r, msg),
           NEW m \in Node, m # r, Segments(r, m)
    PROVE  Segments(r, m)'
<1> DEFINE q     == msg.blocks[m]
           first == View(r, m) + 1
           last  == q[Len(q)]
           a     == Appended(r, msg, m)
<1>1. /\ View(r, m)' = IF first \in ToSet(q) THEN last ELSE View(r, m)
      /\ \A b \in 0 .. View(r, m) :
             NextCommitted(r, m, b)' = NextCommitted(r, m, b)
      /\ \A b \in first .. View(r, m)' :
             NextCommitted(r, m, b)' = a[b - first + 1]
  BY ApplyView, SMTT(30)
<1>2. Exist(msg.blocks)
  BY HeadType, SMTT(30) DEF Apply, MessageTyped, Typed, ChannelTyped
<1>3. /\ first \in Nat
      /\ first \in ToSet(q) =>
             /\ last \in Nat /\ first <= last
             /\ \A b \in first .. last :
                   LET c == a[b - first + 1]
                   IN  /\ c \in b .. last /\ IsCommitted(m, c)
                       /\ \A x \in b .. c : a[x - first + 1] = c
                       /\ \A x \in b .. c - 1 : ~InCache(r, m, x)
  <2>1. Typed /\ Shape(msg.blocks) /\ Complete(s, r, msg) /\ r # m
    OBVIOUS
  <2> HIDE DEF q, first, last, a
  <2> QED BY <1>2, <2>1, AppendedIs, SMTT(30) DEF q, first, last, a
<1>4. View(r, m) = first - 1 /\ View(r, m) \in Int
  BY ViewType
<1>5. \A c : IsCommitted(m, c)' <=> IsCommitted(m, c)
  BY DEF Apply, mainVars, IsCommitted
<1>6. \A b \in 0 .. View(r, m) :
          /\ NextCommitted(r, m, b) \in b .. View(r, m)
          /\ IsCommitted(m, NextCommitted(r, m, b))
          /\ \A x \in b .. NextCommitted(r, m, b) :
                 NextCommitted(r, m, x) = NextCommitted(r, m, b)
  BY DEF Segments
<1> HIDE DEF q, first, last, a
<1>7. ASSUME NEW b \in 0 .. View(r, m)'
      PROVE  /\ NextCommitted(r, m, b)' \in b .. View(r, m)'
             /\ IsCommitted(m, NextCommitted(r, m, b)')
             /\ \A x \in b .. NextCommitted(r, m, b)' :
                    NextCommitted(r, m, x)' = NextCommitted(r, m, b)'
  <2>1. View(r, m) <= View(r, m)' /\ View(r, m)' \in Int
    BY <1>1, <1>3, <1>4
  <2>2. CASE b \in 0 .. View(r, m)
    <3>1. NextCommitted(r, m, b)' = NextCommitted(r, m, b)
      BY <1>1, <2>2
    <3>2. PICK c : c = NextCommitted(r, m, b)
      OBVIOUS
    <3>3. c \in b .. View(r, m) /\ IsCommitted(m, c)
          /\ \A x \in b .. c : NextCommitted(r, m, x) = c
      BY <1>6, <2>2, <3>2
    <3>4. \A x \in b .. c : x \in 0 .. View(r, m)
      BY <1>4, <2>2, <3>3
    <3>5. c \in b .. View(r, m)'
      BY <1>4, <2>1, <2>2, <3>3
    <3> QED BY <1>1, <3>1, <3>2, <3>3, <3>4, <3>5
  <2>3. CASE ~(b \in 0 .. View(r, m))
    <3>1. first \in ToSet(q) /\ b \in first .. last /\ View(r, m)' = last
      BY <1>1, <1>3, <1>4, <2>1, <2>3
    <3>2. PICK c : c = a[b - first + 1]
      OBVIOUS
    <3>3. c \in b .. last /\ IsCommitted(m, c)
          /\ \A x \in b .. c : a[x - first + 1] = c
      BY <1>3, <3>1, <3>2
    <3>4. \A x \in b .. c : x \in first .. last
      BY <1>3, <3>1, <3>3
    <3> QED BY <1>1, <3>1, <3>2, <3>3, <3>4
  <2> QED BY <2>2, <2>3
<1>8. PICK v, f : v = View(r, m)' /\ f = [b \in 0 .. v |-> NextCommitted(r, m, b)']
  BY Zenon
<1> QED BY <1>5, <1>7 DEF Segments

\* Numbers that ascend and fill an interval leave no gap.
LEMMA Squeezed ==
    \A x, y, w, k, l, j \in Nat :
        /\ x >= y + (j - 1) /\ k >= x + (l - j)
        /\ l = k - y + 1 /\ j = w - y + 1
        => x = w
OBVIOUS

\* What was found for a message is at hand once it is applied.
LEMMA FoundIsAtHand ==
    ASSUME Typed, NEW s \in Node, NEW r \in Node, Apply(s, r),
           NEW msg, msg = Head(channel[s][r]),
           Shape(msg.blocks), Complete(s, r, msg), msg.blocks[r] = <<>>,
           NEW m \in Node, NEW k \in Nat, Finds(r, msg, m, k)
    PROVE  k <= View(r, m)'
<1> DEFINE q     == msg.blocks[m]
           first == View(r, m) + 1
<1>1. View(r, m) \in Int /\ View(r, m)' \in Int /\ View(r, m) <= View(r, m)'
  BY StepViewsGrow DEF ViewsGrow, Next, Work
<1>2. CASE k <= View(r, m)
  BY <1>1, <1>2
<1>3. CASE k > View(r, m)
  <2>1. q \in Seq(Nat) /\ Ascends(q) /\ Exist(msg.blocks)
    <3>1. Exist(msg.blocks)
      BY HeadType DEF Apply, MessageTyped, Typed, ChannelTyped
    <3> QED BY <3>1, Zenon DEF Exist, Shape, BlockNumbers
  <2>2. Len(q) \in Nat /\ (\A i \in 1 .. Len(q) : q[i] \in Nat) /\ DOMAIN q = 1 .. Len(q)
        /\ \A i \in 1 .. Len(q) : q[i] \in ToSet(q)
    BY <2>1, LenProperties, ElementOfSeq, ToSetType, Zenon
  <2>3. PICK l \in DOMAIN q : l = k - Head(q) + 1 /\ q[l] = k
    <3>1. ~(k <= View(r, m))
      BY <1>1, <1>3
    <3>2. \E l \in DOMAIN q : l = k - Head(q) + 1 /\ q[l] = k
      BY <3>1, Zenon DEF Finds
    <3> QED BY <3>2, Zenon
  <2> HIDE DEF q
  <2>4. l \in 1 .. Len(q) /\ 1 \in 1 .. Len(q) /\ Len(q) \in 1 .. Len(q) /\ Head(q) = q[1]
        /\ q # <<>>
    <3>0. l \in 1 .. Len(q)
      BY <2>2, <2>3, Zenon
    <3>1. l \in 1 .. Len(q) /\ 1 \in 1 .. Len(q) /\ Len(q) \in 1 .. Len(q)
      BY <2>2, <3>0
    <3>2. Len(q) # 0
      BY <2>2, <3>1
    <3> QED BY <3>1, <3>2, EmptySeq
  <2>5. m # r
    BY <2>4 DEF q
  <2>6. q[1] <= first
    BY <2>4 DEF Complete, Attaches, q
  <2>7. first \in Nat /\ View(r, m) = first - 1
    BY ViewType
  <2>8. View(r, m)' = IF first \in ToSet(q) THEN q[Len(q)] ELSE View(r, m)
    BY <2>5, ApplyView DEF q
  <2> HIDE DEF first
  <2> DEFINE j == first - q[1] + 1
  <2>9. j \in 1 .. Len(q) /\ 1 <= j /\ j <= l /\ j \in Nat /\ l \in Nat /\ q[1] \in Nat
        /\ l = k - q[1] + 1 /\ q[l] = k /\ j = first - q[1] + 1
    BY <1>3, <2>2, <2>3, <2>4, <2>6, <2>7
  <2> HIDE DEF j
  <2>10. q[j] >= q[1] + (j - 1)
    BY <2>1, <2>4, <2>9, AscendsFast, Zenon
  <2>11. q[l] >= q[j] + (l - j)
    BY <2>1, <2>4, <2>9, AscendsFast, Zenon
  <2>12. q[j] = first
    <3>1. q[j] \in Nat
      BY <2>2, <2>9
    <3>2. PICK x, y, z, w : x = q[j] /\ y = q[1] /\ z = q[l] /\ w = first
      OBVIOUS
    <3>3. /\ x \in Nat /\ y \in Nat /\ w \in Nat /\ z = k
          /\ x >= y + (j - 1) /\ z >= x + (l - j) /\ l = k - y + 1 /\ l \in Nat
          /\ j = w - y + 1 /\ j \in Nat
      BY <2>7, <2>9, <2>10, <2>11, <3>1, <3>2
    <3>4. x = w
      BY <3>3, Squeezed, Zenon
    <3> QED BY <3>2, <3>4
  <2>13. first \in ToSet(q)
    BY <2>2, <2>9, <2>12
  <2>14. l <= Len(q) /\ Len(q) - l >= 0
    BY <2>2, <2>4
  <2>15. q[Len(q)] >= q[l] + (Len(q) - l)
    BY <2>1, <2>4, <2>14, AscendsFast
  <2>16. q[Len(q)] \in Nat
    BY <2>2, <2>4
  <2> QED BY <2>2, <2>8, <2>9, <2>13, <2>14, <2>15, <2>16, SMTT(30)
<1> QED BY <1>1, <1>2, <1>3

-----------------------------------------------------------------------------
(* What lasts from one step to the next.                                   *)

\* A proof for r that n is building: blocks it has, all that the sources it
\* has been through need, told apart from those r knows by their number.
BuiltFor(n, r, blocks, todo) ==
    /\ Shape(blocks)
    /\ blocks[r] = <<>>
    /\ \A m \in Node : \A i \in 1 .. Len(blocks[m]) :
           blocks[m][i] <= known[n][r][m] + i /\ blocks[m][i] <= View(n, m)
    /\ \A m \in Node : m # n /\ blocks[m] # <<>> =>
           NextCommitted(n, m, blocks[m][Len(blocks[m])]) = blocks[m][Len(blocks[m])]
    /\ \A t \in Range(todo) : /\ t[2] # 0 /\ t[1] \notin {n, r}
                              /\ Included(blocks, t)

\* The sources of a block never change.
LEMMA SourcesStay ==
    ASSUME ChainTyped, Grown
    PROVE  \A m \in Node : \A b \in Blocks(m) : SourcesOf(m, b)' = SourcesOf(m, b)
<1>1. ASSUME NEW m \in Node, NEW b \in Blocks(m)
      PROVE  SourcesOf(m, b)' = SourcesOf(m, b)
  <2>1. CASE b \in DOMAIN chain[m]
    BY <2>1, Persist
  <2>2. CASE b \notin DOMAIN chain[m]
    <3>1. DOMAIN chain[m] = 1 .. Len(chain[m]) /\ DOMAIN chain'[m] = 1 .. Len(chain'[m])
          /\ Len(chain[m]) \in Nat /\ Len(chain'[m]) \in Nat
      BY LenProperties DEF ChainTyped, Grown
    <3>2. b = 0
      BY <2>2, <3>1 DEF Blocks
    <3>3. b \notin DOMAIN chain'[m]
      BY <3>1, <3>2
    <3> QED BY <2>2, <3>3 DEF SourcesOf, IsTransaction
  <2> QED BY <2>1, <2>2
<1> QED BY <1>1

\* A source of a block of a proof is a transaction there is, or of genesis.
LEMMA IncludedStays ==
    ASSUME ChainTyped, Grown, NEW blocks, Exist(blocks)
    PROVE  \A t : Included(blocks, t)' <=> Included(blocks, t)
<1>1. ASSUME NEW m \in Node, NEW i \in 1 .. Len(blocks[m])
      PROVE  SourcesOf(m, blocks[m][i])' = SourcesOf(m, blocks[m][i])
  <2>1. blocks[m][i] \in Blocks(m)
    BY ElementOfSeq DEF Exist
  <2> QED BY <2>1, SourcesStay
<1> QED BY <1>1 DEF Included

\* The blocks of a proof keep their order, pointers and committed end.
LEMMA ShapeStays ==
    ASSUME ChainTyped, Grown, MainGrown, NEW blocks, Exist(blocks), Shape(blocks)
    PROVE  Shape(blocks)'
<1>1. ASSUME NEW m \in Node
      PROVE  Ascends(blocks[m])' /\ Bridged(blocks, m)' /\ EndCommitted(blocks, m)'
  <2>1. Ascends(blocks[m])'
    BY DEF Shape, Ascends
  <2>2. Bridged(blocks, m)'
    BY IncludedStays DEF Shape, Bridged
  <2>3. EndCommitted(blocks, m)'
    BY CommittedStays DEF Shape, EndCommitted
  <2> QED BY <2>1, <2>2, <2>3
<1> QED BY <1>1 DEF Shape

\* What holds after every step for blocks, messages and proofs of before.
Lasting ==
    /\ Grown /\ MainGrown /\ ViewsGrow
    /\ \A n, r, m \in Node : known[n][r][m] <= known'[n][r][m]

\* What every step leaves true of the chains, the main chain and the copies.
LEMMA StepLasts ==
    ASSUME Typed, [Next]_vars
    PROVE  Lasting
BY StepChainTyped, StepMainTyped, StepViewsGrow, StepKnownTyped DEF Lasting, Typed

\* A proof under construction that is left alone stays sound.
LEMMA BuiltStays ==
    ASSUME Typed, Typed', Lasting, NEW n \in Node, NEW r \in Node,
           NEW blocks, NEW todo, Exist(blocks), BuiltFor(n, r, blocks, todo)
    PROVE  BuiltFor(n, r, blocks, todo)'
<1>1. Shape(blocks)' /\ \A t : Included(blocks, t)' <=> Included(blocks, t)
  BY ShapeStays, IncludedStays DEF Typed, Lasting, BuiltFor
<1>2. ASSUME NEW m \in Node, NEW i \in 1 .. Len(blocks[m])
      PROVE  blocks[m][i] <= known'[n][r][m] + i /\ blocks[m][i] <= View(n, m)'
  <2>1. blocks[m][i] \in Nat /\ i \in Nat
    BY ElementOfSeq, LenProperties DEF Exist, BlockNumbers
  <2>2. known[n][r][m] \in Int /\ known'[n][r][m] \in Int
        /\ known[n][r][m] <= known'[n][r][m]
    BY DEF Typed, KnownTyped, Lasting
  <2>3. View(n, m) \in Int /\ View(n, m)' \in Int /\ View(n, m) <= View(n, m)'
    BY DEF Lasting, ViewsGrow
  <2>4. blocks[m][i] <= known[n][r][m] + i /\ blocks[m][i] <= View(n, m)
    BY DEF BuiltFor
  <2> QED BY <2>1, <2>2, <2>3, <2>4, SMTT(30)
<1>3. ASSUME NEW m \in Node, m # n, blocks[m] # <<>>
      PROVE  NextCommitted(n, m, blocks[m][Len(blocks[m])])'
                 = blocks[m][Len(blocks[m])]
  <2>1. blocks[m] \in Seq(Nat)
    BY DEF Exist, BlockNumbers
  <2>2. Len(blocks[m]) \in 1 .. Len(blocks[m])
    BY <1>3, <2>1, EmptySeq
  <2>3. PICK b : b = blocks[m][Len(blocks[m])]
    OBVIOUS
  <2>4. b \in Nat /\ b <= View(n, m) /\ NextCommitted(n, m, b) = b
    BY <1>3, <2>1, <2>2, <2>3, ElementOfSeq DEF BuiltFor
  <2>5. b \in 0 .. View(n, m)
    BY <2>4 DEF Lasting, ViewsGrow
  <2>6. NextCommitted(n, m, b)' = NextCommitted(n, m, b)
    BY <1>3, <2>5 DEF Lasting, ViewsGrow
  <2> QED BY <2>3, <2>4, <2>6
<1>4. \A t \in Range(todo) : /\ t[2] # 0 /\ t[1] \notin {n, r}
                             /\ Included(blocks, t)'
  BY <1>1 DEF BuiltFor
<1> QED BY <1>1, <1>2, <1>3, <1>4 DEF BuiltFor

\* What passed verification still attaches after any other step.
LEMMA CompleteStays ==
    ASSUME Typed, Typed', Lasting, NEW s \in Node, NEW r \in Node,
           NEW msg, MessageTyped(s, r, msg), Complete(s, r, msg)
    PROVE  Complete(s, r, msg)'
<1>1. /\ \A t : Included(msg.blocks, t)' <=> Included(msg.blocks, t)
      /\ Exist(msg.blocks)
  BY IncludedStays DEF Typed, Lasting, MessageTyped
<1>2. ASSUME NEW m \in Node PROVE Attaches(r, msg, m)'
  <2>1. View(r, m) \in Int /\ View(r, m)' \in Int /\ View(r, m) <= View(r, m)'
    BY DEF Lasting, ViewsGrow
  <2>2. Attaches(r, msg, m)
    BY DEF Complete
  <2>3. msg.blocks[m] # <<>> => Head(msg.blocks[m]) \in Nat
    BY <1>1 DEF Exist, BlockNumbers
  <2> QED BY <2>1, <2>2, <2>3 DEF Attaches
<1>3. ASSUME NEW m \in Node, NEW k \in Nat, Finds(r, msg, m, k)
      PROVE  Finds(r, msg, m, k)'
  <2>1. View(r, m) \in Int /\ View(r, m)' \in Int /\ View(r, m) <= View(r, m)'
    BY DEF Lasting, ViewsGrow
  <2> QED BY <1>3, <2>1 DEF Finds
<1>4. ASSUME NEW t, Included(msg.blocks, t) PROVE Finds(r, msg, t[1], t[2])'
  <2>1. t \in TxId
    BY <1>4, SourcesType DEF Included, Typed
  <2>2. t[1] \in Node /\ t[2] \in Nat
    BY <2>1 DEF TxId
  <2> QED BY <1>3, <1>4, <2>2 DEF Complete
<1>5. msg.tx \in Nat
  <2>1. msg.tx \in DOMAIN chain[s]
    BY DEF MessageTyped
  <2> QED BY <2>1, ReceiverType DEF Typed
<1> QED BY <1>1, <1>2, <1>3, <1>4, <1>5 DEF Complete

-----------------------------------------------------------------------------
(* The blocks of a proof, as sources are added to it.                      *)

\* The tail of consecutive numbers is consecutive again.
LEMMA PartOfNumbers ==
    ASSUME NEW w \in Seq(Nat), NEW K \in Int, NEW k \in Nat,
           \A i \in 1 .. Len(w) : w[i] = K + i
    PROVE  LET q == SubSeq(w, k + 1, Len(w))
           IN  /\ q \in Seq(Nat) /\ Len(q) \in Nat
               /\ \A i \in 1 .. Len(q) : q[i] = K + k + i
               /\ q # <<>> => Len(q) = Len(w) - k /\ Len(w) # 0
               /\ q = <<>> => Len(w) <= k
<1> DEFINE q == SubSeq(w, k + 1, Len(w))
<1>1. Len(w) \in Nat
  BY LenProperties
<1>2. ASSUME NEW i \in k + 1 .. Len(w) PROVE w[i] \in Nat
  <2>1. i \in 1 .. Len(w)
    BY <1>1
  <2> QED BY <2>1, ElementOfSeq
<1>3. /\ q \in Seq(Nat)
      /\ Len(q) = IF k + 1 <= Len(w) THEN Len(w) - (k + 1) + 1 ELSE 0
      /\ \A i \in 1 .. Len(w) - (k + 1) + 1 : q[i] = w[(k + 1) + i - 1]
  BY <1>1, <1>2, SubSeqProperties, SMTT(30)
<1>4. Len(q) \in Nat
  BY <1>3, LenProperties
<1>5. ASSUME NEW i \in 1 .. Len(q) PROVE q[i] = K + k + i
  <2>1. i \in 1 .. Len(w) - (k + 1) + 1 /\ (k + 1) + i - 1 \in 1 .. Len(w)
    BY <1>1, <1>3
  <2>2. w[(k + 1) + i - 1] = K + ((k + 1) + i - 1)
    BY <2>1
  <2>3. q[i] = K + ((k + 1) + i - 1)
    BY <1>3, <2>1, <2>2
  <2> QED BY <2>3
<1>6. q # <<>> => Len(q) = Len(w) - k /\ Len(w) # 0
  <2>1. q # <<>> => Len(q) # 0
    BY <1>3, EmptySeq
  <2> QED BY <1>1, <1>3, <2>1
<1>7. q = <<>> => Len(w) <= k
  <2>1. q = <<>> => Len(q) = 0
    BY <1>3, EmptySeq, Zenon
  <2> QED BY <1>1, <1>3, <2>1
<1> QED BY <1>3, <1>4, <1>5, <1>6, <1>7, Zenon

\* What Chain.getBlocksToSend and addBlocksToSend make of the blocks up to
\* the commit of a source: those with a higher number than the proof has.
LEMMA NewBlocksAre ==
    ASSUME Typed, NEW n \in Node, proof[n].todo # <<>>, Provable(n),
           Head(proof[n].todo)[1] # Receiver(n)
    PROVE  LET t    == Head(proof[n].todo)
               m    == t[1]
               c    == NextCommitted(n, m, t[2])
               base == known[n][Receiver(n)][m] + Len(proof[n].blocks[m])
               q    == NewBlocks(n)
           IN  /\ t \in TxId /\ m \in Node /\ t[2] \in Nat
               /\ Receiver(n) \in Node
               /\ base \in Int /\ c \in Nat
               /\ q \in Seq(Nat) /\ Len(q) \in Nat
               /\ \A i \in 1 .. Len(q) : q[i] = base + i
               /\ q # <<>> => base + Len(q) = c
               /\ q = <<>> => c <= base
<1> DEFINE t == Head(proof[n].todo)
           m == t[1]
           r == Receiver(n)
           c == NextCommitted(n, m, t[2])
           K == known[n][r][m]
           k == Len(proof[n].blocks[m])
           w == Wanted(n)
           q == NewBlocks(n)
<1>1. t \in TxId /\ m \in Node /\ t[2] \in Nat /\ r \in Node
      /\ w \in Seq(Blocks(m))
  BY ProofType, NewBlocksType DEF Typed
<1>2. Blocks(m) \subseteq Nat
  BY DEF Blocks
<1>3. w \in Seq(Nat)
  BY <1>1, <1>2, SeqMonotonic
<1>4. c \in Blocks(m) /\ c \in Nat
  <2>1. t[2] <= View(n, m) /\ c # NoBlock
    BY DEF Provable
  <2>2. c \in Blocks(m) \cup {NoBlock}
    BY <1>1, <2>1, NextCommittedType DEF Typed
  <2> QED BY <1>2, <2>1, <2>2
<1>5. K \in Int
  BY <1>1 DEF Typed, KnownTyped
<1>6. w = BlocksToSend(n, r, m, c) /\ m # r
  BY DEF Wanted
<1>7. k \in Nat
  <2>1. proof[n].blocks[m] \in Seq(Nat)
    BY <1>1, ProofType DEF Typed, Exist, BlockNumbers
  <2> QED BY <2>1, LenProperties
<1>8. q = SubSeq(w, k + 1, Len(w))
  BY DEF NewBlocks
<1> HIDE DEF w, q, t, c, m, r, k
<1>9. /\ \A i \in 1 .. Len(w) : w[i] = K + i
      /\ K < c => Len(w) = c - K
      /\ c <= K => Len(w) = 0
  <2>1. c \in Blocks(m) \cup {NoBlock}
    BY <1>4
  <2>2. LET v == BlocksToSend(n, r, m, c)
        IN  /\ v \in Seq(Blocks(m))
            /\ \A i \in 1 .. Len(v) : v[i] = known[n][r][m] + i
            /\ m # r /\ known[n][r][m] < c => Len(v) = c - known[n][r][m]
            /\ m = r \/ c <= known[n][r][m] => Len(v) = 0
    BY <1>1, <2>1, BlocksToSendType, Zenon DEF Typed
  <2> QED BY <1>6, <2>2
<1> HIDE DEF K
<1>10. /\ q \in Seq(Nat) /\ Len(q) \in Nat
       /\ \A i \in 1 .. Len(q) : q[i] = K + k + i
       /\ q # <<>> => Len(q) = Len(w) - k /\ Len(w) # 0
       /\ q = <<>> => Len(w) <= k
  <2>1. \A i \in 1 .. Len(w) : w[i] = K + i
    BY <1>9
  <2>2. LET v == SubSeq(w, k + 1, Len(w))
        IN  /\ v \in Seq(Nat) /\ Len(v) \in Nat
            /\ \A i \in 1 .. Len(v) : v[i] = K + k + i
            /\ v # <<>> => Len(v) = Len(w) - k /\ Len(w) # 0
            /\ v = <<>> => Len(w) <= k
    BY <1>3, <1>5, <1>7, <2>1, PartOfNumbers, Zenon
  <2> QED BY <1>8, <2>2
<1>11. q # <<>> => K + k + Len(q) = c
  <2>1. Len(w) \in Nat
    BY <1>3, LenProperties
  <2> QED BY <1>4, <1>5, <1>7, <1>9, <1>10, <2>1
<1>12. K + k \in Int
  BY <1>5, <1>7
<1>13. q = <<>> => c <= K + k
  <2>1. Len(w) \in Nat
    BY <1>3, LenProperties
  <2> QED BY <1>4, <1>5, <1>7, <1>9, <1>10, <2>1
<1> QED BY <1>1, <1>4, <1>10, <1>11, <1>12, <1>13, Zenon DEF t, q, c, m, r, K, k

\* An element of two sequences joined is in the first or in the second.
LEMMA RangeOfConcat ==
    ASSUME NEW S, NEW q \in Seq(S), NEW v \in Seq(S), NEW x \in Range(q \o v)
    PROVE  x \in Range(q) \/ x \in Range(v)
<1>1. Len(q) \in Nat /\ Len(v) \in Nat
  BY LenProperties
<1>2. /\ q \o v \in Seq(S) /\ Len(q \o v) = Len(q) + Len(v)
      /\ \A i \in 1 .. Len(q) + Len(v) :
            (q \o v)[i] = IF i <= Len(q) THEN q[i] ELSE v[i - Len(q)]
  BY ConcatProperties
<1>3. PICK i \in 1 .. Len(q) + Len(v) : (q \o v)[i] = x
  <2>1. Range(q \o v) = {(q \o v)[i] : i \in 1 .. Len(q \o v)}
    BY <1>2, RangeEquality, Zenon
  <2> QED BY <1>2, <2>1
<1>4. CASE i <= Len(q)
  <2>1. i \in 1 .. Len(q) /\ q[i] = x
    BY <1>1, <1>2, <1>3, <1>4
  <2> QED BY <2>1, RangeEquality
<1>5. CASE ~(i <= Len(q))
  <2>1. i - Len(q) \in 1 .. Len(v) /\ v[i - Len(q)] = x
    BY <1>1, <1>2, <1>3, <1>5
  <2> QED BY <2>1, RangeEquality
<1> QED BY <1>4, <1>5

\* Head and tail of a sequence have no other elements.
LEMMA RangeOfParts ==
    ASSUME NEW S, NEW q \in Seq(S), q # <<>>
    PROVE  Head(q) \in Range(q) /\ Range(Tail(q)) \subseteq Range(q)
<1>1. Len(q) \in Nat /\ 1 \in 1 .. Len(q) /\ Head(q) = q[1]
  BY EmptySeq
<1>2. /\ Tail(q) \in Seq(S) /\ Len(Tail(q)) = Len(q) - 1
      /\ \A i \in 1 .. Len(Tail(q)) : Tail(q)[i] = q[i + 1]
  BY HeadTailProperties
<1>3. Head(q) \in Range(q)
  BY <1>1, RangeEquality
<1>4. ASSUME NEW x \in Range(Tail(q)) PROVE x \in Range(q)
  <2>1. PICK i \in 1 .. Len(Tail(q)) : Tail(q)[i] = x
    <3>1. Range(Tail(q)) = {Tail(q)[i] : i \in 1 .. Len(Tail(q))}
      BY <1>2, RangeEquality, Zenon
    <3> QED BY <3>1
  <2>2. i + 1 \in 1 .. Len(q) /\ q[i + 1] = x
    BY <1>1, <1>2, <2>1
  <2> QED BY <2>2, RangeEquality
<1> QED BY <1>3, <1>4

\* Blocks q of m that follow on those of a proof, up to a committed block, and
\* that it has a reason for; base is the number before the first of them.
Follows(q, base, blocks, m) ==
    /\ \A i \in 1 .. Len(q) : q[i] = base + i
    /\ \A i \in 1 .. Len(blocks[m]) : blocks[m][i] <= base
    /\ q # <<>> => IsCommitted(m, base + Len(q))
    /\ q # <<>> /\ blocks[m] # <<>> =>
           \E k \in Nat : /\ k > blocks[m][Len(blocks[m])]
                          /\ Included(blocks, <<m, k>>)

\* Blocks that follow those of a proof and end in a committed one keep its shape.
LEMMA ExtendShape ==
    ASSUME Typed, NEW blocks, Exist(blocks), Shape(blocks),
           NEW m \in Node, NEW q \in Seq(Nat), NEW base \in Int,
           Follows(q, base, blocks, m),
           NEW more, more[m] = blocks[m] \o q,
           \A x \in Node : x # m => more[x] = blocks[x]
    PROVE  /\ Shape(more)
           /\ \A t : Included(blocks, t) => Included(more, t)
           /\ \A i \in 1 .. Len(q) : \A t \in SourcesOf(m, q[i]) : Included(more, t)
<1> DEFINE p == blocks[m]
           z == p \o q
<1>1. p \in Seq(Nat) /\ blocks \in [Node -> BlockNumbers]
  BY DEF Exist, BlockNumbers
<1>2. more[m] = z /\ \A x \in Node : x # m => more[x] = blocks[x]
  OBVIOUS
<1>3. Ascends(p) /\ Bridged(blocks, m) /\ EndCommitted(blocks, m)
  BY DEF Shape
<1>4. /\ \A i \in 1 .. Len(p) - 1 : p[i + 1] # p[i] + 1 =>
            \E k \in Nat : k > p[i] /\ Included(blocks, <<m, k>>)
      /\ p # <<>> => IsCommitted(m, p[Len(p)])
      /\ \A i \in 1 .. Len(p) : p[i] <= base
      /\ q # <<>> /\ p # <<>> =>
            \E k \in Nat : k > p[Len(p)] /\ Included(blocks, <<m, k>>)
  BY <1>3, Zenon DEF Bridged, EndCommitted, Follows
<1>5. \A i \in 1 .. Len(q) : q[i] = base + i
  BY DEF Follows
<1>6. q # <<>> => IsCommitted(m, base + Len(q))
  BY DEF Follows
<1> HIDE DEF p
<1>7. Len(p) \in Nat /\ Len(q) \in Nat
      /\ (\A i \in 1 .. Len(p) : p[i] \in Nat) /\ (\A i \in 1 .. Len(q) : q[i] \in Nat)
  BY <1>1, LenProperties, ElementOfSeq, Zenon
<1>8. /\ z \in Seq(Nat) /\ Len(z) = Len(p) + Len(q)
      /\ \A i \in 1 .. Len(p) + Len(q) : z[i] = IF i <= Len(p) THEN p[i] ELSE q[i - Len(p)]
  BY <1>1, ConcatProperties
<1> HIDE DEF z
<1>9. \A i \in 1 .. Len(p) : i \in 1 .. Len(z) /\ z[i] = p[i]
  BY <1>7, <1>8
<1>10. \A i \in Len(p) + 1 .. Len(z) : z[i] = base + (i - Len(p))
  <2>1. ASSUME NEW i \in Len(p) + 1 .. Len(z) PROVE z[i] = base + (i - Len(p))
    <3>1. i - Len(p) \in 1 .. Len(q) /\ i \in 1 .. Len(p) + Len(q) /\ ~(i <= Len(p))
      BY <1>7, <1>8
    <3> QED BY <1>5, <1>8, <3>1, Zenon
  <2> QED BY <2>1
<1>11. Ascends(z)
  <2>1. ASSUME NEW i \in 1 .. Len(z), NEW j \in 1 .. Len(z), i < j
        PROVE  z[i] < z[j]
    <3>1. CASE j <= Len(p)
      <4>1. i \in 1 .. Len(p) /\ j \in 1 .. Len(p)
        BY <1>7, <1>8, <2>1, <3>1
      <4> QED BY <1>3, <1>9, <2>1, <4>1 DEF Ascends
    <3>2. CASE i <= Len(p) /\ ~(j <= Len(p))
      <4>1. i \in 1 .. Len(p) /\ j \in Len(p) + 1 .. Len(z)
        BY <1>7, <1>8, <3>2
      <4>2. z[i] = p[i] /\ p[i] \in Nat /\ p[i] <= base /\ z[j] = base + (j - Len(p))
        BY <1>4, <1>7, <1>9, <1>10, <4>1, Zenon
      <4> QED BY <1>7, <4>1, <4>2
    <3>3. CASE ~(i <= Len(p))
      <4>1. i \in Len(p) + 1 .. Len(z) /\ j \in Len(p) + 1 .. Len(z)
        <5>1. Len(z) \in Nat
          BY <1>8, LenProperties
        <5> QED BY <1>7, <2>1, <3>3, <5>1
      <4>2. z[i] = base + (i - Len(p)) /\ z[j] = base + (j - Len(p))
        BY <1>10, <4>1
      <4> QED BY <1>7, <1>8, <2>1, <4>2
    <3> QED BY <1>7, <1>8, <2>1, <3>1, <3>2, <3>3
  <2> QED BY <2>1 DEF Ascends
<1>12. ASSUME NEW t, Included(blocks, t) PROVE Included(more, t)
  <2>0. PICK x \in Node :
            \E i \in 1 .. Len(blocks[x]) : t \in SourcesOf(x, blocks[x][i])
    BY <1>12 DEF Included
  <2>1. PICK i \in 1 .. Len(blocks[x]) : t \in SourcesOf(x, blocks[x][i])
    BY <2>0
  <2>2. CASE x = m
    <3>1. i \in 1 .. Len(more[m]) /\ more[m][i] = blocks[m][i]
      BY <1>2, <1>9, <2>1, <2>2 DEF p
    <3> QED BY <2>1, <2>2, <3>1 DEF Included
  <2>3. CASE x # m
    BY <1>2, <2>1, <2>3 DEF Included
  <2> QED BY <2>2, <2>3
<1>13. ASSUME NEW i \in 1 .. Len(q), NEW t \in SourcesOf(m, q[i]) PROVE Included(more, t)
  <2>1. Len(p) + i \in 1 .. Len(z) /\ z[Len(p) + i] = q[i]
    <3>1. Len(p) + i \in 1 .. Len(p) + Len(q) /\ ~(Len(p) + i <= Len(p))
          /\ (Len(p) + i) - Len(p) = i
      BY <1>7
    <3> QED BY <1>8, <3>1, Zenon
  <2> QED BY <1>2, <2>1 DEF Included
<1>14. Bridged(more, m)
  <2>1. ASSUME NEW i \in 1 .. Len(z) - 1, z[i + 1] # z[i] + 1
        PROVE  \E k \in Nat : k > z[i] /\ Included(more, <<m, k>>)
    <3>1. CASE i < Len(p)
      <4>1. i \in 1 .. Len(p) - 1 /\ i \in 1 .. Len(p) /\ i + 1 \in 1 .. Len(p)
        BY <1>7, <1>8, <3>1
      <4>2. z[i] = p[i] /\ z[i + 1] = p[i + 1]
        BY <1>9, <4>1
      <4> QED BY <1>4, <1>12, <2>1, <4>1, <4>2, Zenon
    <3>2. CASE i = Len(p)
      <4>1. i \in 1 .. Len(p) /\ Len(q) # 0 /\ Len(p) # 0
        BY <1>7, <1>8, <3>2
      <4>2. q # <<>> /\ p # <<>> /\ z[i] = p[Len(p)]
        BY <1>7, <1>9, <3>2, <4>1, EmptySeq
      <4> QED BY <1>4, <1>12, <4>2, Zenon
    <3>3. CASE i > Len(p)
      <4>1. /\ i \in Len(p) + 1 .. Len(z) /\ i + 1 \in Len(p) + 1 .. Len(z)
            /\ base + ((i + 1) - Len(p)) = base + (i - Len(p)) + 1
        <5>1. Len(z) \in Nat
          BY <1>8, LenProperties
        <5> HIDE <2>1
        <5> QED BY <1>7, <3>3, <5>1
      <4>2. z[i] = base + (i - Len(p)) /\ z[i + 1] = base + ((i + 1) - Len(p))
        BY <1>10, <4>1
      <4>3. z[i + 1] = z[i] + 1
        BY <4>1, <4>2
      <4> QED BY <2>1, <4>3, Zenon
    <3>4. i < Len(p) \/ i = Len(p) \/ i > Len(p)
      <4>1. \A x \in Int : x < Len(p) \/ x = Len(p) \/ x > Len(p)
        BY <1>7
      <4>2. i \in Int
        BY <1>7
      <4> QED BY <4>1, <4>2, Zenon
    <3> QED BY <3>1, <3>2, <3>3, <3>4, Zenon
  <2> QED BY <1>2, <2>1 DEF Bridged
<1>15. EndCommitted(more, m)
  <2>1. ASSUME z # <<>> PROVE IsCommitted(m, z[Len(z)])
    <3>1. CASE q = <<>>
      <4>1. z = p
        BY <1>1, <3>1, ConcatEmptySeq DEF z
      <4> QED BY <1>4, <2>1, <4>1
    <3>2. CASE q # <<>>
      <4>1. Len(q) # 0
        BY <3>2, EmptySeq
      <4>2. Len(z) \in Len(p) + 1 .. Len(z) /\ Len(z) - Len(p) = Len(q)
        BY <1>7, <1>8, <4>1
      <4>3. z[Len(z)] = base + Len(q)
        BY <1>10, <4>2, Zenon
      <4> QED BY <1>6, <3>2, <4>3
    <3> QED BY <3>1, <3>2
  <2> QED BY <1>2, <2>1 DEF EndCommitted
<1>16. ASSUME NEW x \in Node, x # m
       PROVE  Ascends(more[x]) /\ Bridged(more, x) /\ EndCommitted(more, x)
  <2>1. more[x] = blocks[x]
    BY <1>2, <1>16
  <2> QED BY <1>12, <2>1, Zenon DEF Shape, Bridged, EndCommitted
<1>17. Shape(more)
  BY <1>2, <1>11, <1>14, <1>15, <1>16 DEF Shape
<1> QED BY <1>12, <1>13, <1>17

\* A confirmed block has a committed one at or above it.
LEMMA ConfirmedIsCommitted ==
    ASSUME Typed, NEW n \in Node, NEW b \in Nat,
           Confirmations(n, b) >= RequiredCommits
    PROVE  \E x \in b .. Len(chain[n]) : IsCommitted(n, x)
<1> DEFINE T == {x \in b .. Len(chain[n]) : x > 0 /\ InCache(n, n, x)}
<1>1. Cardinality(T) >= RequiredCommits /\ RequiredCommits \in Nat \ {0}
  BY ExchangeAssumption DEF Confirmations
<1> HIDE DEF T
<1>2. Cardinality({}) = 0
  BY FS_EmptySet
<1>3. ASSUME T = {} PROVE FALSE
  <2>1. Cardinality(T) = 0
    BY <1>2, <1>3, Zenon
  <2> QED BY <1>1, <2>1
<1> QED BY <1>3, CachedIsCommitted DEF T, Typed

\* The blocks of the own chain a proof is started with.
LEMMA StartIsBuilt ==
    ASSUME Typed, NEW n \in Node, NEW b \in Nat, IsTransaction(n, b),
           Confirmations(n, b) >= RequiredCommits,
           NEW r, r = chain[n][b].to,
           NEW own, own = BlocksToSend(n, r, n, NextCommitted(n, n, b)),
           NEW blocks, blocks = [m \in Node |-> IF m = n THEN own ELSE <<>>]
    PROVE  BuiltFor(n, r, blocks, SourcesToProve(n, r, n, own))
<1> DEFINE c == NextCommitted(n, n, b)
           K == known[n][r][n]
           S == {x \in b .. Len(chain[n]) : IsCommitted(n, x)}
<1>1. r \in Node /\ r # n /\ b \in Blocks(n)
  BY ReceiverType DEF Typed
<1>2. S \in SUBSET Nat /\ S # {}
  <2>1. S \in SUBSET Nat
    OBVIOUS
  <2>2. S # {}
    BY ConfirmedIsCommitted
  <2> QED BY <2>1, <2>2
<1>3. c \in S
  BY <1>2, LeastOrNoneType, Zenon DEF NextCommitted
<1>4. c \in Blocks(n) /\ c \in Nat /\ IsCommitted(n, c) /\ c <= Len(chain[n])
  <2>1. Len(chain[n]) \in Nat
    BY LenProperties DEF Typed, ChainTyped
  <2> QED BY <1>3, <2>1 DEF Blocks
<1>5. K \in Int
  BY <1>1 DEF Typed, KnownTyped
<1>6. /\ own \in Seq(Blocks(n))
      /\ \A i \in 1 .. Len(own) : own[i] = K + i
      /\ K < c => Len(own) = c - K
      /\ c <= K => Len(own) = 0
  <2>1. c \in Blocks(n) \cup {NoBlock}
    BY <1>4
  <2> HIDE DEF c
  <2>2. LET v == BlocksToSend(n, r, n, c)
        IN  /\ v \in Seq(Blocks(n))
            /\ \A i \in 1 .. Len(v) : v[i] = known[n][r][n] + i
            /\ n # r /\ known[n][r][n] < c => Len(v) = c - known[n][r][n]
            /\ n = r \/ c <= known[n][r][n] => Len(v) = 0
    BY <1>1, <2>1, BlocksToSendType DEF Typed
  <2> QED BY <1>1, <2>2 DEF c
<1>7. own \in Seq(Nat) /\ Len(own) \in Nat
  <2>1. Blocks(n) \subseteq Nat
    BY DEF Blocks
  <2> QED BY <1>6, <2>1, SeqMonotonic, LenProperties
<1> HIDE DEF c, K
<1>8. \A i \in 1 .. Len(own) : own[i] <= c
  <2>1. \A i \in 1 .. Len(own) : Len(own) = c - K
    BY <1>4, <1>5, <1>6, <1>7
  <2> QED BY <1>4, <1>5, <1>6, <1>7, <2>1
<1>9. Ascends(own)
  <2>1. ASSUME NEW i \in 1 .. Len(own), NEW j \in 1 .. Len(own), i < j
        PROVE  own[i] < own[j]
    <3>1. own[i] = K + i /\ own[j] = K + j
      BY <1>6
    <3> QED BY <1>5, <1>7, <2>1, <3>1
  <2> QED BY <2>1 DEF Ascends
<1>10. \A i \in 1 .. Len(own) - 1 : own[i + 1] = own[i] + 1
  <2>1. ASSUME NEW i \in 1 .. Len(own) - 1 PROVE own[i + 1] = own[i] + 1
    <3>1. i \in 1 .. Len(own) /\ i + 1 \in 1 .. Len(own)
      BY <1>7
    <3>2. own[i] = K + i /\ own[i + 1] = K + (i + 1)
      BY <1>6, <3>1
    <3> QED BY <1>5, <3>2
  <2> QED BY <2>1, Zenon
<1>11. own # <<>> => own[Len(own)] = c
  <2>1. own # <<>> => Len(own) # 0
    BY <1>7, EmptySeq
  <2>2. Len(own) # 0 => Len(own) \in 1 .. Len(own) /\ Len(own) = c - K
    BY <1>4, <1>5, <1>6, <1>7
  <2>3. Len(own) # 0 => own[Len(own)] = K + Len(own)
    BY <1>6, <2>2
  <2>4. Len(own) # 0 => K + Len(own) = c
    BY <1>4, <1>5, <2>2
  <2> QED BY <2>1, <2>3, <2>4
<1>12. Len(<<>>) = 0 /\ Ascends(<<>>)
  BY DEF Ascends
<1>13. blocks[n] = own /\ \A m \in Node : m # n => blocks[m] = <<>>
  OBVIOUS
<1>14. Shape(blocks)
  <2>1. ASSUME NEW m \in Node
        PROVE  Ascends(blocks[m]) /\ Bridged(blocks, m) /\ EndCommitted(blocks, m)
    <3>1. CASE m = n
      BY <1>4, <1>9, <1>10, <1>11, <1>13, <3>1, Zenon DEF Bridged, EndCommitted
    <3>2. CASE m # n
      BY <1>12, <1>13, <3>2 DEF Bridged, EndCommitted
    <3> QED BY <3>1, <3>2
  <2> QED BY <2>1 DEF Shape
<1>15. ASSUME NEW m \in Node, NEW i \in 1 .. Len(blocks[m])
       PROVE  blocks[m][i] <= known[n][r][m] + i /\ blocks[m][i] <= View(n, m)
  <2>1. m = n
    BY <1>12, <1>13
  <2>2. own[i] = known[n][r][n] + i /\ known[n][r][n] \in Int /\ i \in Nat
        /\ own[i] <= c /\ own[i] \in Int /\ i \in 1 .. Len(own)
    BY <1>5, <1>6, <1>7, <1>8, <1>13, <2>1 DEF K
  <2>3. View(n, n) = Len(chain[n]) /\ Len(chain[n]) \in Nat
    BY LenProperties DEF View, Typed, ChainTyped
  <2>4. own[i] <= View(n, n)
    <3>1. own[i] <= c /\ own[i] \in Int
      BY <2>2
    <3>2. c <= View(n, n) /\ c \in Int /\ View(n, n) \in Int
      BY <1>4, <2>3
    <3> QED BY <3>1, <3>2
  <2> QED BY <1>13, <2>1, <2>2, <2>4
<1>16. ASSUME NEW t \in Range(SourcesToProve(n, r, n, own))
       PROVE  t[2] # 0 /\ t[1] \notin {n, r} /\ Included(blocks, t)
  <2>1. /\ t[2] # 0 /\ t[1] \notin {n, r}
        /\ \E i \in 1 .. Len(own) : t \in SourcesOf(n, own[i])
    BY <1>7, SourcesToProveType DEF Typed
  <2> QED BY <1>13, <2>1 DEF Included
<1> QED BY <1>1, <1>13, <1>14, <1>15, <1>16 DEF BuiltFor

\* What is left to prove was left before, or is a source of the blocks just added.
LEMMA SourcesAndRest ==
    ASSUME ChainTyped, NEW n \in Node, NEW r \in Node, NEW m \in Node,
           NEW q \in Seq(Nat), NEW rest \in Seq(TxId),
           NEW u \in Range(SourcesToProve(n, r, m, q) \o rest)
    PROVE  \/ u \in Range(rest)
           \/ /\ u[2] # 0 /\ u[1] \notin {n, r}
              /\ \E i \in 1 .. Len(q) : u \in SourcesOf(m, q[i])
<1>1. /\ SourcesToProve(n, r, m, q) \in Seq(TxId)
      /\ \A v : v \in Range(SourcesToProve(n, r, m, q)) <=>
            /\ v[2] # 0 /\ v[1] \notin {n, r}
            /\ \E i \in 1 .. Len(q) : v \in SourcesOf(m, q[i])
  BY SourcesToProveType, Zenon
<1>2. u \in Range(SourcesToProve(n, r, m, q)) \/ u \in Range(rest)
  BY <1>1, RangeOfConcat
<1> QED BY <1>1, <1>2

\* The blocks that are added for a source.
LEMMA AddIsBuilt ==
    ASSUME Typed, NEW n \in Node, NEW r \in Node, NEW p, Exist(p),
           NEW todo \in Seq(TxId), BuiltFor(n, r, p, todo),
           NEW m \in Node, NEW k \in Nat, <<m, k>> \in Range(todo),
           Segments(n, m), k <= View(n, m),
           NEW q \in Seq(Nat),
           \A i \in 1 .. Len(q) : q[i] = known[n][r][m] + Len(p[m]) + i,
           q # <<>> =>
               known[n][r][m] + Len(p[m]) + Len(q) = NextCommitted(n, m, k),
           NEW more, more[m] = p[m] \o q,
           \A x \in Node : x # m => more[x] = p[x],
           NEW rest \in Seq(TxId), Range(rest) \subseteq Range(todo)
    PROVE  BuiltFor(n, r, more, SourcesToProve(n, r, m, q) \o rest)
<1> DEFINE c == NextCommitted(n, m, k)
           K == known[n][r][m]
           P == Len(p[m])
           Q == Len(q)
           V == View(n, m)
<1>1. p \in [Node -> BlockNumbers] /\ p[m] \in Seq(Nat)
  BY DEF Exist, BlockNumbers
<1>2. k # 0 /\ m \notin {n, r} /\ Included(p, <<m, k>>)
  BY DEF BuiltFor
<1>3. V \in Int /\ k <= V
  BY ViewType
<1>4. /\ c \in k .. V /\ IsCommitted(m, c)
      /\ \A x \in k .. c : NextCommitted(n, m, x) = c
  <2>1. k \in 0 .. View(n, m)
    BY <1>3
  <2> QED BY <2>1 DEF Segments
<1>5. K \in Int /\ P \in Nat /\ Q \in Nat
  BY <1>1, LenProperties DEF Typed, KnownTyped
<1>6. /\ \A i \in 1 .. P : p[m][i] <= K + i /\ p[m][i] <= V
      /\ p[m] # <<>> => NextCommitted(n, m, p[m][P]) = p[m][P]
  BY <1>2 DEF BuiltFor
<1>7. \A i \in 1 .. P : p[m][i] \in Nat
  BY <1>1, ElementOfSeq, Zenon
<1>8. /\ \A i \in 1 .. Q : q[i] = K + P + i
      /\ q # <<>> => K + P + Q = c
  OBVIOUS
<1>9. Shape(p) /\ p[r] = <<>>
  BY DEF BuiltFor
<1>10. /\ \A x \in Node : \A i \in 1 .. Len(p[x]) :
              p[x][i] <= known[n][r][x] + i /\ p[x][i] <= View(n, x)
       /\ \A x \in Node : x # n /\ p[x] # <<>> =>
              NextCommitted(n, x, p[x][Len(p[x])]) = p[x][Len(p[x])]
       /\ \A u \in Range(todo) : /\ u[2] # 0 /\ u[1] \notin {n, r}
                                 /\ Included(p, u)
  BY DEF BuiltFor
<1> HIDE DEF c, K, P, Q, V
<1>11. c \in Nat /\ c <= V
  BY <1>3, <1>4
<1>12. /\ q # <<>> => Q # 0
       /\ p[m] # <<>> => P # 0
       /\ Q # 0 => q # <<>>
  BY <1>1, EmptySeq DEF P, Q
<1>13. \A i \in 1 .. P : p[m][i] <= K + P
  <2>1. ASSUME NEW i \in 1 .. P PROVE p[m][i] <= K + P
    <3>1. p[m][i] <= K + i /\ p[m][i] \in Nat
      BY <1>6, <1>7
    <3> QED BY <1>5, <3>1
  <2> QED BY <2>1
<1>14. ASSUME q # <<>>, p[m] # <<>>
       PROVE  \E x \in Nat : x > p[m][P] /\ Included(p, <<m, x>>)
  <2>1. P \in 1 .. P
    BY <1>5, <1>12, <1>14
  <2>2. PICK l : l = p[m][P]
    OBVIOUS
  <2>3. l <= K + P /\ l \in Nat /\ NextCommitted(n, m, l) = l
    BY <1>6, <1>7, <1>13, <1>14, <2>1, <2>2
  <2>4. l < c
    <3>1. Q # 0 /\ K + P + Q = c
      BY <1>8, <1>12, <1>14
    <3> QED BY <1>5, <2>3, <3>1
  <2>5. ASSUME k <= l PROVE FALSE
    <3>1. l \in k .. c
      BY <1>11, <2>3, <2>4, <2>5
    <3>2. l = c
      BY <1>4, <2>3, <3>1
    <3> QED BY <1>11, <2>3, <2>4, <3>2
  <2>6. k > l
    BY <2>3, <2>5
  <2> QED BY <1>2, <2>2, <2>6, Zenon
<1>15. more[m] = p[m] \o q /\ \A x \in Node : x # m => more[x] = p[x]
  OBVIOUS
<1>16. /\ Shape(more)
       /\ \A u : Included(p, u) => Included(more, u)
       /\ \A i \in 1 .. Len(q) : \A u \in SourcesOf(m, q[i]) : Included(more, u)
  <2>1. PICK base \in Int : base = K + P
    BY <1>5
  <2>2. \A i \in 1 .. Len(q) : q[i] = base + i
    BY <1>8, <2>1 DEF Q
  <2>3. \A i \in 1 .. Len(p[m]) : p[m][i] <= base
    BY <1>13, <2>1 DEF P
  <2>4. q # <<>> => IsCommitted(m, base + Len(q))
    <3>1. base + Len(q) = K + P + Q
      BY <2>1 DEF Q
    <3> QED BY <1>4, <1>8, <3>1
  <2>5. q # <<>> /\ p[m] # <<>> =>
            \E x \in Nat : x > p[m][Len(p[m])] /\ Included(p, <<m, x>>)
    BY <1>14, Zenon DEF P
  <2>6. Follows(q, base, p, m)
    BY <2>2, <2>3, <2>4, <2>5, Zenon DEF Follows
  <2> QED BY <1>9, <2>6, ExtendShape, Zenon
<1>17. /\ Len(more[m]) = P + Q
       /\ \A i \in 1 .. P + Q : more[m][i] = IF i <= P THEN p[m][i] ELSE q[i - P]
  BY <1>1, <1>15, ConcatProperties DEF P, Q
<1>18. \A i \in 1 .. P + Q : more[m][i] <= K + i /\ more[m][i] <= V
  <2>1. ASSUME NEW i \in 1 .. P + Q PROVE more[m][i] <= K + i /\ more[m][i] <= V
    <3>1. CASE i <= P
      <4>1. i \in 1 .. P
        BY <1>5, <3>1
      <4> QED BY <1>6, <1>17, <3>1, <4>1, Zenon
    <3>2. CASE ~(i <= P)
      <4>1. i - P \in 1 .. Q /\ K + P + (i - P) = K + i /\ Q # 0
        BY <1>5, <3>2
      <4>2. more[m][i] = K + i
        BY <1>8, <1>17, <3>2, <4>1, Zenon
      <4>3. K + i <= c /\ K + i \in Int
        <5>1. K + P + Q = c
          BY <1>8, <1>12, <4>1
        <5>2. K + i <= K + P + Q /\ K + i \in Int
          BY <1>5
        <5>3. c \in Int
          BY <1>11
        <5> QED BY <5>1, <5>2, <5>3, Zenon
      <4>4. K + i <= V /\ K + i <= K + i
        BY <1>3, <1>11, <4>3
      <4> QED BY <4>2, <4>4
    <3> QED BY <3>1, <3>2, Zenon
  <2> QED BY <2>1, Zenon
<1>19. ASSUME NEW x \in Node, NEW i \in 1 .. Len(more[x])
       PROVE  more[x][i] <= known[n][r][x] + i /\ more[x][i] <= View(n, x)
  <2>1. CASE x # m
    BY <1>10, <1>15, <2>1, Zenon
  <2>2. CASE x = m
    BY <1>17, <1>18, <2>2, Zenon DEF K, V
  <2> QED BY <2>1, <2>2
<1>20. more[m] # <<>> => NextCommitted(n, m, more[m][P + Q]) = more[m][P + Q]
  <2>1. CASE q = <<>>
    <3>1. more[m] = p[m] /\ Q = 0
      BY <1>1, <1>15, <2>1, ConcatEmptySeq DEF Q
    <3>2. P + Q = P
      BY <1>5, <3>1
    <3> QED BY <1>6, <3>1, <3>2
  <2>2. CASE q # <<>>
    <3>1. Q \in 1 .. Q /\ ~(P + Q <= P) /\ (P + Q) - P = Q /\ P + Q \in 1 .. P + Q
      BY <1>5, <1>12, <2>2
    <3>2. more[m][P + Q] = q[Q]
      BY <1>17, <3>1, Zenon
    <3>3. q[Q] = c
      BY <1>8, <2>2, <3>1, Zenon
    <3>4. NextCommitted(n, m, c) = c
      BY <1>4, <1>11
    <3> QED BY <3>2, <3>3, <3>4
  <2> QED BY <2>1, <2>2, Zenon
<1>21. ASSUME NEW x \in Node, x # n, more[x] # <<>>
       PROVE  NextCommitted(n, x, more[x][Len(more[x])]) = more[x][Len(more[x])]
  <2>1. CASE x # m
    BY <1>10, <1>15, <1>21, <2>1, Zenon
  <2>2. CASE x = m
    BY <1>17, <1>20, <1>21, <2>2, Zenon
  <2> QED BY <2>1, <2>2
<1>22. ASSUME NEW u \in Range(SourcesToProve(n, r, m, q) \o rest)
       PROVE  u[2] # 0 /\ u[1] \notin {n, r} /\ Included(more, u)
  <2>1. ChainTyped
    BY DEF Typed
  <2>2. \/ u \in Range(rest)
        \/ /\ u[2] # 0 /\ u[1] \notin {n, r}
           /\ \E i \in 1 .. Len(q) : u \in SourcesOf(m, q[i])
    BY <2>1, SourcesAndRest
  <2> QED BY <1>10, <1>16, <2>2
<1>23. more[r] = <<>>
  BY <1>2, <1>9, <1>15
<1> QED BY <1>16, <1>19, <1>21, <1>22, <1>23 DEF BuiltFor

-----------------------------------------------------------------------------
(* What a step does to the messages on a connection.                       *)

\* The message that SendProof writes.
Sending(n) == [tx |-> proof[n].tx, blocks |-> proof[n].blocks,
               calm |-> proof[n].calm]

\* A proof is sent as the last message of the channel to its receiver.
LEMMA SendAppends ==
    ASSUME Typed, NEW n \in Node, SendProof(n)
    PROVE  /\ proof[n] # NoProof /\ IsTransaction(n, proof[n].tx)
           /\ Exist(proof[n].blocks)
           /\ Receiver(n) \in Node /\ Receiver(n) # n /\ Sending(n) \in Message
           /\ channel'[n][Receiver(n)] = Append(channel[n][Receiver(n)], Sending(n))
           /\ \A a, b \in Node : a # n \/ b # Receiver(n) =>
                  channel'[a][b] = channel[a][b]
<1>1. /\ proof[n] # NoProof
      /\ channel' = [channel EXCEPT ![n][Receiver(n)] =
                         Append(channel[n][Receiver(n)], Sending(n))]
  BY DEF SendProof, Sending
<1>2. ProofTyped /\ ChannelTyped /\ ChainTyped
  BY DEF Typed
<1>3. IsTransaction(n, proof[n].tx) /\ Exist(proof[n].blocks)
  BY <1>1, <1>2 DEF ProofTyped
<1>4. Receiver(n) \in Node /\ Receiver(n) # n
  BY <1>2, <1>3, ReceiverType DEF Receiver
<1>5. Sending(n) \in Message
  BY <1>2 DEF ProofTyped, Message, Sending
<1>6. channel \in [Node -> [Node -> Seq(Message)]]
  BY <1>2, Zenon DEF ChannelTyped, Message
<1> DEFINE r == Receiver(n)
           q == Append(channel[n][r], Sending(n))
<1>7. q \in Seq(Message) /\ r \in Node /\ channel' = [channel EXCEPT ![n][r] = q]
  <2>1. channel[n][r] \in Seq(Message)
    BY <1>4, <1>6
  <2> QED BY <1>1, <1>4, <1>5, <2>1, AppendProperties
<1> HIDE DEF q, r
<1>8. \A a, b \in Node : channel'[a][b] = IF a = n /\ b = r THEN q ELSE channel[a][b]
  BY <1>6, <1>7, ExceptOne, Zenon
<1> QED BY <1>1, <1>3, <1>4, <1>5, <1>7, <1>8, Zenon DEF q, r

\* A connection keeps its messages, loses some at either end, or gets the one
\* its sender has made a proof for.
ChannelStep(a, b) ==
    \/ channel'[a][b] = channel[a][b]
    \/ \E m \in Nat \ {0}, k \in Nat :
          /\ k <= Len(channel[a][b])
          /\ channel'[a][b] = SubSeq(channel[a][b], m, k)
    \/ /\ SendProof(a) /\ b = Receiver(a)
       /\ channel'[a][b] = Append(channel[a][b], Sending(a))

\* What a step can do to a channel.
LEMMA StepChannel ==
    ASSUME Typed, [Next]_vars, NEW a \in Node, NEW b \in Node
    PROVE  ChannelStep(a, b)
<1>0. ChannelTyped
  BY DEF Typed
<1>00. /\ channel[a][b] \in Seq(Message) /\ Len(channel[a][b]) \in Nat
       /\ Len(channel[a][b]) <= Len(channel[a][b])
  <2>1. channel[a][b] \in Seq(Message)
    BY <1>0, Zenon DEF ChannelTyped, Message
  <2>2. Len(channel[a][b]) \in Nat
    BY <2>1, LenProperties
  <2> QED BY <2>1, <2>2
<1>1. ASSUME channel' = channel PROVE ChannelStep(a, b)
  BY <1>1 DEF ChannelStep
<1>2. ASSUME NEW n \in Node, SendProof(n) PROVE ChannelStep(a, b)
  BY <1>2, SendAppends DEF ChannelStep
<1>3. ASSUME NEW s \in Node, NEW r \in Node, NEW k \in Nat, Drop(s, r, k)
      PROVE  ChannelStep(a, b)
  <2>1. channel' = [channel EXCEPT ![s][r] =
                        SubSeq(channel[s][r], k + 1, Len(channel[s][r]))]
    BY <1>3 DEF Drop
  <2>2. CASE a = s /\ b = r
    <3>1. channel'[a][b] = SubSeq(channel[a][b], k + 1, Len(channel[a][b]))
      BY <1>0, <2>1, <2>2 DEF ChannelTyped
    <3>2. k + 1 \in Nat \ {0}
      OBVIOUS
    <3> QED BY <1>00, <3>1, <3>2, Zenon DEF ChannelStep
  <2>3. CASE a # s \/ b # r
    BY <1>0, <2>1, <2>3, Zenon DEF ChannelTyped, ChannelStep
  <2> QED BY <2>2, <2>3
<1>4. ASSUME NEW s \in Node, NEW r \in Node, Verify(s, r) PROVE ChannelStep(a, b)
  <2>1. Len(channel[s][r]) \in Nat /\ 1 \in Nat
    BY <1>0, LenProperties DEF ChannelTyped
  <2>2. \/ channel' = channel
        \/ Drop(s, r, 1)
        \/ Drop(s, r, Len(channel[s][r]))
    BY <1>4 DEF Verify
  <2> QED BY <1>1, <1>3, <2>1, <2>2
<1>5. ASSUME NEW s \in Node, NEW r \in Node, Apply(s, r) PROVE ChannelStep(a, b)
  <2>1. Drop(s, r, 1) /\ 1 \in Nat
    BY <1>5 DEF Apply
  <2> QED BY <1>3, <2>1
<1>6. ASSUME NEW s \in Node, NEW r \in Node, ConnectionBreaks(s, r)
      PROVE  ChannelStep(a, b)
  <2> DEFINE handled == IF verified[s][r] THEN 1 ELSE 0
  <2>1. /\ channel' = [channel EXCEPT ![s][r] = SubSeq(channel[s][r], 1, handled)]
        /\ Len(channel[s][r]) > handled /\ handled \in Nat
    BY <1>6 DEF ConnectionBreaks
  <2> HIDE DEF handled
  <2>2. CASE a = s /\ b = r
    <3>1. channel'[a][b] = SubSeq(channel[a][b], 1, handled)
      BY <1>0, <2>1, <2>2 DEF ChannelTyped
    <3>2. handled <= Len(channel[a][b]) /\ 1 \in Nat \ {0}
      BY <1>00, <2>1, <2>2
    <3> QED BY <2>1, <3>1, <3>2, Zenon DEF ChannelStep
  <2>3. CASE a # s \/ b # r
    BY <1>0, <2>1, <2>3 DEF ChannelTyped, ChannelStep
  <2> QED BY <2>2, <2>3
<1>7. ASSUME NEW n \in Node,
             UpdateCache(n) \/ AddSource(n) \/ StartProof(n) \/ Pay(n) \/ Stop(n)
                 \/ SendFails(n)
      PROVE  channel' = channel
  BY <1>7 DEF UpdateCache, AddSource, StartProof, Pay, Stop, SendFails, netVars
<1>8. CASE UNCHANGED vars
  BY <1>1, <1>8 DEF vars, netVars
<1> QED BY <1>1, <1>2, <1>4, <1>5, <1>6, <1>7, <1>8 DEF Next, Work, Fault

\* The messages on a connection keep their order.
LEMMA MessagesMove ==
    ASSUME Typed, [Next]_vars, NEW a \in Node, NEW b \in Node
    PROVE  \E d \in Nat :
              /\ Apply(a, b) => d = 1
              /\ \A i \in DOMAIN channel'[a][b] :
                    /\ i \in Nat \ {0}
                    /\ \/ /\ i + d \in DOMAIN channel[a][b]
                          /\ channel'[a][b][i] = channel[a][b][i + d]
                       \/ /\ SendProof(a) /\ b = Receiver(a)
                          /\ i = Len(channel[a][b]) + 1
                          /\ channel'[a][b][i] = Sending(a)
<1>0. ChannelTyped /\ channel[a][b] \in Seq(Message)
      /\ DOMAIN channel[a][b] = 1 .. Len(channel[a][b]) /\ Len(channel[a][b]) \in Nat
  <2>1. ChannelTyped /\ channel[a][b] \in Seq(Message)
    BY Zenon DEF Typed, ChannelTyped, Message
  <2> QED BY <2>1, LenProperties
<1>1. ASSUME NEW m \in Nat \ {0}, NEW k \in Nat, k <= Len(channel[a][b]),
             channel'[a][b] = SubSeq(channel[a][b], m, k),
             NEW i \in DOMAIN channel'[a][b]
      PROVE  /\ i \in Nat \ {0}
             /\ i + (m - 1) \in DOMAIN channel[a][b]
             /\ channel'[a][b][i] = channel[a][b][i + (m - 1)]
  <2> DEFINE q == SubSeq(channel[a][b], m, k)
  <2>1. /\ q \in Seq(Message)
        /\ \A x \in 1 .. Len(q) : /\ m + x - 1 \in DOMAIN channel[a][b]
                                  /\ q[x] = channel[a][b][m + x - 1]
    BY <1>0, <1>1, MessagesOf
  <2>2. channel'[a][b] = q
    BY <1>1
  <2> HIDE DEF q
  <2>3. i \in 1 .. Len(q) /\ Len(q) \in Nat
    BY <1>1, <2>1, <2>2, LenProperties
  <2>4. m + i - 1 = i + (m - 1) /\ i \in Nat \ {0}
    BY <2>3
  <2>5. i + (m - 1) \in DOMAIN channel[a][b] /\ q[i] = channel[a][b][i + (m - 1)]
    BY <2>1, <2>3, <2>4
  <2> QED BY <2>2, <2>4, <2>5
<1>2. CASE Apply(a, b)
  <2>1. channel' = [channel EXCEPT ![a][b] =
                        SubSeq(channel[a][b], 2, Len(channel[a][b]))]
    BY <1>2 DEF Apply, Drop
  <2>2. channel'[a][b] = SubSeq(channel[a][b], 2, Len(channel[a][b]))
    BY <1>0, <2>1 DEF ChannelTyped
  <2>3. PICK k \in Nat : k = Len(channel[a][b]) /\ k <= Len(channel[a][b])
    BY <1>0
  <2>4. 2 \in Nat \ {0} /\ 2 - 1 = 1 /\ 1 \in Nat
    OBVIOUS
  <2>5. ASSUME NEW i \in DOMAIN channel'[a][b]
        PROVE  /\ i \in Nat \ {0} /\ i + 1 \in DOMAIN channel[a][b]
               /\ channel'[a][b][i] = channel[a][b][i + 1]
    <3>1. channel'[a][b] = SubSeq(channel[a][b], 2, k)
      BY <2>2, <2>3
    <3>2. /\ i \in Nat \ {0} /\ i + (2 - 1) \in DOMAIN channel[a][b]
          /\ channel'[a][b][i] = channel[a][b][i + (2 - 1)]
      BY <1>1, <2>3, <2>4, <3>1, Zenon
    <3> QED BY <2>4, <3>2
  <2> QED BY <2>4, <2>5
<1>3. CASE ~Apply(a, b)
  <2>1. CASE channel'[a][b] = channel[a][b]
    <3>1. \A i \in DOMAIN channel'[a][b] :
              /\ i \in Nat \ {0} /\ i + 0 \in DOMAIN channel[a][b]
              /\ channel'[a][b][i] = channel[a][b][i + 0]
      BY <1>0, <2>1
    <3>2. 0 \in Nat
      OBVIOUS
    <3> QED BY <1>3, <3>1, <3>2, Zenon
  <2>2. ASSUME NEW m \in Nat \ {0}, NEW k \in Nat, k <= Len(channel[a][b]),
               channel'[a][b] = SubSeq(channel[a][b], m, k)
        PROVE  \E d \in Nat : \A i \in DOMAIN channel'[a][b] :
                   /\ i \in Nat \ {0} /\ i + d \in DOMAIN channel[a][b]
                   /\ channel'[a][b][i] = channel[a][b][i + d]
    <3>1. m - 1 \in Nat
      OBVIOUS
    <3> QED BY <1>1, <2>2, <3>1, Zenon
  <2>3. ASSUME SendProof(a), b = Receiver(a),
               channel'[a][b] = Append(channel[a][b], Sending(a)),
               NEW i \in DOMAIN channel'[a][b]
        PROVE  /\ i \in Nat \ {0}
               /\ \/ /\ i + 0 \in DOMAIN channel[a][b]
                     /\ channel'[a][b][i] = channel[a][b][i + 0]
                  \/ /\ i = Len(channel[a][b]) + 1
                     /\ channel'[a][b][i] = Sending(a)
    <3>1. Sending(a) \in Message
      BY <2>3, SendAppends
    <3> DEFINE q == Append(channel[a][b], Sending(a))
    <3>2. /\ q \in Seq(Message) /\ Len(q) = Len(channel[a][b]) + 1
          /\ \A x \in 1 .. Len(channel[a][b]) : q[x] = channel[a][b][x]
          /\ q[Len(channel[a][b]) + 1] = Sending(a)
      BY <1>0, <3>1, AppendProperties
    <3>3. channel'[a][b] = q
      BY <2>3
    <3> HIDE DEF q
    <3>4. i \in 1 .. Len(channel[a][b]) + 1
      BY <2>3, <3>2, <3>3, LenProperties
    <3>5. (i \in 1 .. Len(channel[a][b]) \/ i = Len(channel[a][b]) + 1)
          /\ i \in Nat \ {0} /\ i + 0 = i
      BY <1>0, <3>4
    <3> QED BY <1>0, <3>2, <3>3, <3>5
  <2>4. 0 \in Nat
    OBVIOUS
  <2> QED BY <1>3, <2>1, <2>2, <2>3, <2>4, StepChannel, Zenon DEF ChannelStep
<1> QED BY <1>2, <1>3

\* A message after a step was there before, or was written by it.
LEMMA StepMessages ==
    ASSUME Typed, [Next]_vars, NEW a \in Node, NEW b \in Node,
           NEW i \in DOMAIN channel'[a][b]
    PROVE  \/ \E j \in DOMAIN channel[a][b] :
                 channel'[a][b][i] = channel[a][b][j]
           \/ SendProof(a) /\ b = Receiver(a) /\ channel'[a][b][i] = Sending(a)
BY MessagesMove

\* The message a node has verified stays where it is until it is applied.
LEMMA StepVerified ==
    ASSUME Typed, [Next]_vars, NEW a \in Node, NEW b \in Node, verified'[a][b]
    PROVE  /\ channel[a][b] # <<>>
           /\ Head(channel'[a][b]) = Head(channel[a][b])
           /\ verified[a][b] \/ Decodes(b, a, Head(channel[a][b]))
<1>0. ChannelTyped
  BY DEF Typed
<1>00. /\ channel[a][b] \in Seq(Message)
       /\ verified[a][b] => channel[a][b] # <<>>
  BY <1>0, Zenon DEF ChannelTyped, Message
<1> DEFINE goal == /\ channel[a][b] # <<>>
                   /\ Head(channel'[a][b]) = Head(channel[a][b])
                   /\ verified[a][b] \/ Decodes(b, a, Head(channel[a][b]))
<1>1. ASSUME channel' = channel, verified' = verified PROVE goal
  BY <1>00, <1>1
<1>2. ASSUME NEW n \in Node, SendProof(n) PROVE goal
  <2>1. verified' = verified
    BY <1>2 DEF SendProof
  <2>2. CASE a = n /\ b = Receiver(n)
    <3>1. channel'[a][b] = Append(channel[a][b], Sending(n)) /\ Sending(n) \in Message
      BY <1>2, <2>2, SendAppends
    <3> QED BY <1>00, <2>1, <3>1, HeadStays
  <2>3. CASE a # n \/ b # Receiver(n)
    BY <1>00, <1>2, <2>1, <2>3, SendAppends
  <2> QED BY <2>2, <2>3
<1>3. ASSUME NEW s \in Node, NEW r \in Node, Verify(s, r) PROVE goal
  <2>1. channel[s][r] # <<>> /\ ~verified[s][r]
    BY <1>3 DEF Verify
  <2>2. CASE /\ Decodes(r, s, Head(channel[s][r])) /\ channel' = channel
             /\ verified' = [verified EXCEPT ![s][r] = TRUE]
    <3>1. verified[a][b] \/ (a = s /\ b = r)
      BY <1>0, <2>2 DEF ChannelTyped
    <3> QED BY <1>00, <2>1, <2>2, <3>1
  <2>3. ASSUME verified' = verified, NEW k, Drop(s, r, k) PROVE goal
    <3>1. a # s \/ b # r
      BY <2>1, <2>3
    <3>2. channel'[a][b] = channel[a][b]
      BY <1>0, <2>3, <3>1 DEF Drop, ChannelTyped
    <3> QED BY <1>00, <2>3, <3>2
  <2>4. \/ /\ Decodes(r, s, Head(channel[s][r])) /\ channel' = channel
           /\ verified' = [verified EXCEPT ![s][r] = TRUE]
        \/ verified' = verified /\ \E k : Drop(s, r, k)
    BY <1>3 DEF Verify
  <2> QED BY <2>2, <2>3, <2>4
<1>4. ASSUME NEW s \in Node, NEW r \in Node, Apply(s, r) PROVE goal
  <2>1. /\ verified' = [verified EXCEPT ![s][r] = FALSE]
        /\ Drop(s, r, 1)
    BY <1>4 DEF Apply
  <2>2. (a # s \/ b # r) /\ verified[a][b]
    BY <1>0, <2>1, Zenon DEF ChannelTyped
  <2>3. channel'[a][b] = channel[a][b]
    BY <1>0, <2>1, <2>2 DEF Drop, ChannelTyped
  <2> QED BY <1>00, <2>2, <2>3
<1>5. ASSUME NEW s \in Node, NEW r \in Node, ConnectionBreaks(s, r) PROVE goal
  <2>1. /\ channel' = [channel EXCEPT ![s][r] =
               SubSeq(channel[s][r], 1, IF verified[s][r] THEN 1 ELSE 0)]
        /\ verified' = verified
    BY <1>5 DEF ConnectionBreaks
  <2>2. CASE a = s /\ b = r
    <3>1. channel'[a][b] = SubSeq(channel[a][b], 1, 1)
      BY <1>0, <2>1, <2>2 DEF ChannelTyped
    <3>2. Head(channel[a][b]) \in Message
      BY <1>00, <2>1, HeadTailProperties
    <3> QED BY <1>00, <2>1, <3>1, <3>2, HeadStays
  <2>3. CASE a # s \/ b # r
    BY <1>0, <1>00, <2>1, <2>3 DEF ChannelTyped
  <2> QED BY <2>2, <2>3
<1>6. ASSUME NEW n \in Node,
             UpdateCache(n) \/ AddSource(n) \/ StartProof(n) \/ Pay(n) \/ Stop(n)
                 \/ SendFails(n)
      PROVE  channel' = channel /\ verified' = verified
  BY <1>6 DEF UpdateCache, AddSource, StartProof, Pay, Stop, SendFails, netVars
<1>7. CASE UNCHANGED vars
  BY <1>1, <1>7 DEF vars, netVars
<1> QED BY <1>1, <1>2, <1>3, <1>4, <1>5, <1>6, <1>7 DEF Next, Work, Fault

-----------------------------------------------------------------------------
(* The chains the nodes have of each other.                                *)

AllSegments == \A n, m \in Node : n # m => Segments(n, m)

AllBuilt ==
    \A n \in Node : proof[n] # NoProof =>
        BuiltFor(n, Receiver(n), proof[n].blocks, proof[n].todo)

AllShaped ==
    \A s, r \in Node : \A i \in DOMAIN channel[s][r] :
        Shape(channel[s][r][i].blocks) /\ channel[s][r][i].blocks[r] = <<>>

AllComplete ==
    \A s, r \in Node : verified[s][r] => Complete(s, r, Head(channel[s][r]))

UnspentAtHand == \A n \in Node : \A t \in unspent[n] : t[2] <= View(n, t[1])

\* What the nodes have of each other's chains has a committed end and all
\* that it needs, and so has what they send each other.
ChainInv ==
    /\ AllSegments
    /\ AllBuilt
    /\ AllShaped
    /\ AllComplete
    /\ UnspentAtHand
    /\ SourcesAtHand

\* The message a node applies.
LEMMA ApplyHead ==
    ASSUME Typed, ChainInv, NEW s \in Node, NEW r \in Node, Apply(s, r)
    PROVE  LET msg == Head(channel[s][r])
           IN  /\ MessageTyped(s, r, msg) /\ Exist(msg.blocks)
               /\ Shape(msg.blocks) /\ Complete(s, r, msg)
               /\ msg.blocks[r] = <<>> /\ msg.tx \in Nat
<1>1. verified[s][r] /\ channel[s][r] # <<>>
  BY DEF Apply, Typed, ChannelTyped
<1>2. /\ MessageTyped(s, r, Head(channel[s][r]))
      /\ 1 \in DOMAIN channel[s][r] /\ Head(channel[s][r]) = channel[s][r][1]
  BY <1>1, HeadType
<1>3. Head(channel[s][r]).tx \in Nat
  BY <1>2, ReceiverType DEF MessageTyped, Typed
<1> QED BY <1>1, <1>2, <1>3 DEF ChainInv, AllShaped, AllComplete, MessageTyped

\* Copies change when a proof is applied, chains when their owner adds to them.
LEMMA StepCopies ==
    ASSUME [Next]_vars
    PROVE  \/ copy' = copy
           \/ \E s, r \in Node : Apply(s, r)
<1>1. ASSUME NEW n \in Node,
             UpdateCache(n) \/ SendProof(n) \/ AddSource(n) \/ StartProof(n)
                 \/ Pay(n) \/ Stop(n) \/ SendFails(n)
      PROVE  copy' = copy
  BY <1>1 DEF UpdateCache, SendProof, AddSource, StartProof, Pay, Stop, SendFails,
              storeVars
<1>2. ASSUME NEW s \in Node, NEW r \in Node, Verify(s, r) \/ ConnectionBreaks(s, r)
      PROVE  copy' = copy
  BY <1>2 DEF Verify, ConnectionBreaks, storeVars
<1>3. CASE UNCHANGED vars
  BY <1>3 DEF vars, storeVars
<1> QED BY <1>1, <1>2, <1>3 DEF Next, Work, Fault

\* Only payments and markers change a chain.
LEMMA StepBlocks ==
    ASSUME [Next]_vars
    PROVE  \/ chain' = chain
           \/ \E n \in Node : Pay(n) \/ Stop(n)
<1>1. ASSUME NEW n \in Node,
             UpdateCache(n) \/ SendProof(n) \/ AddSource(n) \/ StartProof(n)
                 \/ SendFails(n)
      PROVE  chain' = chain
  BY <1>1 DEF UpdateCache, SendProof, AddSource, StartProof, SendFails
<1>2. ASSUME NEW s \in Node, NEW r \in Node,
             Verify(s, r) \/ ConnectionBreaks(s, r) \/ Apply(s, r)
      PROVE  chain' = chain
  BY <1>2, Zenon DEF Verify, ConnectionBreaks, Apply
<1>3. CASE UNCHANGED vars
  BY <1>3 DEF vars
<1> QED BY <1>1, <1>2, <1>3 DEF Next, Work, Fault

\* A block a node has of another chain is a block there is.
LEMMA HasBlocks ==
    ASSUME Typed, AllSegments, NEW n \in Node, NEW m \in Node,
           NEW b \in 0 .. View(n, m)
    PROVE  b \in Blocks(m)
<1>1. CASE m = n
  BY <1>1 DEF View, Blocks
<1>2. CASE m # n
  <2>1. NextCommitted(n, m, b) \in b .. View(n, m) /\ View(n, m) \in Int
    BY <1>2, ViewType DEF AllSegments, Segments
  <2>2. NextCommitted(n, m, b) \in Blocks(m) \cup {NoBlock}
    BY <2>1, NextCommittedType DEF Typed
  <2>3. Len(chain[m]) \in Nat
    BY LenProperties DEF Typed, ChainTyped
  <2> QED BY <2>1, <2>2, <2>3 DEF Blocks, NoBlock
<1> QED BY <1>1, <1>2

\* Every step keeps the pointers of the copies.
LEMMA StepSegments ==
    ASSUME Typed, ChainInv, [Next]_vars
    PROVE  AllSegments'
<1>0. Lasting
  BY StepLasts
<1>1. ASSUME NEW n \in Node, NEW m \in Node, n # m PROVE Segments(n, m)'
  <2>1. CASE copy'[n][m] = copy[n][m]
    <3>1. /\ View(n, m)' = View(n, m)
          /\ \A b : NextCommitted(n, m, b)' = NextCommitted(n, m, b)
      BY <1>1, <2>1 DEF View, NextCommitted
    <3>2. \A b : IsCommitted(m, b) => IsCommitted(m, b)'
      BY <1>0, CommittedStays DEF Lasting
    <3>3. Segments(n, m)
      BY <1>1 DEF ChainInv, AllSegments
    <3>4. ASSUME NEW b \in 0 .. View(n, m)
          PROVE  /\ NextCommitted(n, m, b)' \in b .. View(n, m)'
                 /\ IsCommitted(m, NextCommitted(n, m, b))'
                 /\ \A x \in b .. NextCommitted(n, m, b)' :
                        NextCommitted(n, m, x)' = NextCommitted(n, m, b)'
      <4>1. PICK c : c = NextCommitted(n, m, b)
        OBVIOUS
      <4>2. /\ c \in b .. View(n, m) /\ IsCommitted(m, c)
            /\ \A x \in b .. c : NextCommitted(n, m, x) = c
        BY <3>3, <4>1 DEF Segments
      <4>3. IsCommitted(m, c)' /\ NextCommitted(n, m, b)' = c
        BY <3>1, <3>2, <4>1, <4>2
      <4> QED BY <3>1, <4>2, <4>3
    <3> QED BY <3>1, <3>4 DEF Segments
  <2>2. ASSUME NEW s \in Node, NEW r \in Node, Apply(s, r) PROVE Segments(n, m)'
    <3>1. CASE n = r
      <4>1. PICK msg : msg = Head(channel[s][r])
        OBVIOUS
      <4>2. Shape(msg.blocks) /\ Complete(s, r, msg)
        BY <2>2, <4>1, ApplyHead
      <4>3. Segments(r, m) /\ m # r
        BY <1>1, <3>1 DEF ChainInv, AllSegments
      <4> QED BY <2>2, <3>1, <4>1, <4>2, <4>3, ApplySegments
    <3>2. CASE n # r
      BY <2>1, <2>2, <3>2, ApplyCopies
    <3> QED BY <3>1, <3>2
  <2> QED BY <2>1, <2>2, StepCopies
<1> QED BY <1>1 DEF AllSegments

\* Every step leaves a node with the blocks of its unspent money.
LEMMA StepUnspent ==
    ASSUME Typed, ChainInv, [Next]_vars
    PROVE  UnspentAtHand'
<1>0. Lasting /\ ChainTyped
  BY StepLasts DEF Typed
<1>1. ASSUME NEW n \in Node, NEW t \in unspent[n] PROVE t[2] <= View(n, t[1])'
  <2>1. t[1] \in Node /\ t[2] \in Nat
    BY <1>0 DEF ChainTyped, TxId
  <2>2. t[2] <= View(n, t[1])
    BY DEF ChainInv, UnspentAtHand
  <2>3. View(n, t[1]) \in Int /\ View(n, t[1])' \in Int
        /\ View(n, t[1]) <= View(n, t[1])'
    BY <1>0, <2>1 DEF Lasting, ViewsGrow
  <2> QED BY <2>1, <2>2, <2>3
<1>2. ASSUME NEW p \in Node, Pay(p) PROVE UnspentAtHand'
  <2>1. PICK b \in Nat \ {0}, S \in SUBSET unspent[p], rem \in BOOLEAN :
            /\ DOMAIN chain'[p] = DOMAIN chain[p] \cup {b}
            /\ unspent' = [unspent EXCEPT ![p] =
                   (unspent[p] \ S) \cup (IF rem THEN {<<p, b>>} ELSE {})]
    BY <1>0, <1>2, PayAdds, Zenon
  <2>2. b <= View(p, p)'
    <3>1. chain'[p] \in Seq(Block)
      BY <1>0 DEF Lasting, Grown
    <3>2. DOMAIN chain'[p] = 1 .. Len(chain'[p]) /\ Len(chain'[p]) \in Nat
      BY <3>1, LenProperties
    <3> QED BY <2>1, <3>2 DEF View
  <2>3. ASSUME NEW n \in Node, NEW t \in unspent'[n]
        PROVE  t \in unspent[n] \/ (n = p /\ t = <<p, b>>)
    BY <1>0, <2>1, <2>3 DEF ChainTyped
  <2>4. ASSUME NEW n \in Node, NEW t \in unspent'[n] PROVE t[2] <= View(n, t[1])'
    <3>1. CASE t \in unspent[n]
      BY <1>1, <3>1
    <3>2. CASE n = p /\ t = <<p, b>>
      BY <2>2, <3>2
    <3> QED BY <2>3, <3>1, <3>2
  <2> QED BY <2>4 DEF UnspentAtHand
<1>3. ASSUME NEW s \in Node, NEW r \in Node, Apply(s, r) PROVE UnspentAtHand'
  <2>1. PICK msg : msg = Head(channel[s][r])
    OBVIOUS
  <2>2. /\ Shape(msg.blocks) /\ Complete(s, r, msg)
        /\ msg.blocks[r] = <<>> /\ msg.tx \in Nat
    BY <1>3, <2>1, ApplyHead
  <2>3. unspent' = [unspent EXCEPT ![r] = unspent[r] \cup {<<s, msg.tx>>}]
    BY <1>3, <2>1 DEF Apply
  <2>4. msg.tx <= View(r, s)'
    <3>1. PICK k \in Nat : k = msg.tx
      BY <2>2
    <3>2. Finds(r, msg, s, k)
      BY <2>2, <3>1 DEF Complete
    <3>3. k <= View(r, s)'
      BY <1>3, <2>1, <2>2, <3>2, FoundIsAtHand
    <3> QED BY <3>1, <3>3
  <2>5. ASSUME NEW n \in Node, NEW t \in unspent'[n] PROVE t[2] <= View(n, t[1])'
    <3>1. CASE t \in unspent[n]
      BY <1>1, <3>1
    <3>2. CASE n = r /\ t = <<s, msg.tx>>
      BY <2>4, <3>2
    <3>3. t \in unspent[n] \/ (n = r /\ t = <<s, msg.tx>>)
      BY <1>0, <2>3, <2>5 DEF ChainTyped
    <3> QED BY <3>1, <3>2, <3>3
  <2> QED BY <2>5 DEF UnspentAtHand
<1>4. ASSUME unspent' = unspent PROVE UnspentAtHand'
  BY <1>1, <1>4 DEF UnspentAtHand
<1>5. ASSUME NEW n \in Node,
             UpdateCache(n) \/ SendProof(n) \/ AddSource(n) \/ StartProof(n)
                 \/ Stop(n) \/ SendFails(n)
      PROVE  unspent' = unspent
  BY <1>5 DEF UpdateCache, SendProof, AddSource, StartProof, Stop, SendFails,
              storeVars
<1>6. ASSUME NEW s \in Node, NEW r \in Node, Verify(s, r) \/ ConnectionBreaks(s, r)
      PROVE  unspent' = unspent
  BY <1>6 DEF Verify, ConnectionBreaks, storeVars
<1>7. CASE UNCHANGED vars
  BY <1>4, <1>7 DEF vars, storeVars
<1> QED BY <1>2, <1>3, <1>4, <1>5, <1>6, <1>7 DEF Next, Work, Fault

\* The sources of a block that a step adds to what a node has of a chain.
LEMMA NewBlockSources ==
    ASSUME Typed, ChainInv, [Next]_vars, NEW n \in Node, NEW m \in Node,
           NEW b \in Nat, b > View(n, m), b <= View(n, m)',
           NEW t, t \in SourcesOf(m, b)'
    PROVE  t \in TxId /\ t[2] <= View(n, t[1])'
<1>0. Lasting /\ ChainTyped /\ Grown
  BY StepLasts DEF Typed, Lasting
<1>1. CASE m = n
  <2>1. chain[n] \in Seq(Block) /\ chain'[n] \in Seq(Block)
    BY <1>0 DEF ChainTyped, Grown
  <2>2. b \in DOMAIN chain'[n] /\ b \notin DOMAIN chain[n]
    <3>1. DOMAIN chain[n] = 1 .. Len(chain[n]) /\ Len(chain[n]) \in Nat
          /\ DOMAIN chain'[n] = 1 .. Len(chain'[n]) /\ Len(chain'[n]) \in Nat
      BY <2>1, LenProperties
    <3> QED BY <1>1, <3>1 DEF View
  <2>3. PICK p \in Node : Pay(p) \/ Stop(p)
    BY <2>2, StepBlocks
  <2>4. CASE Pay(p)
    <3>1. PICK c \in Nat \ {0}, S \in SUBSET unspent[p] :
              /\ DOMAIN chain'[p] = DOMAIN chain[p] \cup {c}
              /\ SourcesOf(p, c)' = S
              /\ \A x \in Node \ {p} : chain'[x] = chain[x]
      BY <1>0, <2>4, PayAdds
    <3>2. p = n /\ b = c
      BY <2>2, <3>1
    <3>3. t \in unspent[n]
      BY <1>1, <3>1, <3>2
    <3>4. t \in TxId /\ t[1] \in Node /\ t[2] \in Nat
      BY <1>0, <3>3 DEF ChainTyped, TxId
    <3>5. t[2] <= View(n, t[1])
      BY <3>3 DEF ChainInv, UnspentAtHand
    <3>6. View(n, t[1]) \in Int /\ View(n, t[1])' \in Int
          /\ View(n, t[1]) <= View(n, t[1])'
      BY <1>0, <3>4 DEF Lasting, ViewsGrow
    <3> QED BY <3>4, <3>5, <3>6
  <2>5. CASE Stop(p)
    <3>1. /\ \A c \in DOMAIN chain'[p] :
                 c \notin DOMAIN chain[p] => SourcesOf(p, c)' = {}
          /\ \A x \in Node \ {p} : chain'[x] = chain[x]
      BY <1>0, <2>5, StopAdds
    <3>2. p = n
      BY <2>2, <3>1
    <3> QED BY <1>1, <2>2, <3>1, <3>2
  <2> QED BY <2>3, <2>4, <2>5
<1>2. CASE m # n
  <2>1. View(n, m) \in Int /\ View(n, m)' \in Int
    BY <1>0 DEF Lasting, ViewsGrow
  <2>2. copy'[n][m] # copy[n][m]
    <3>1. ASSUME copy'[n][m] = copy[n][m] PROVE FALSE
      <4>1. View(n, m)' = View(n, m)
        BY <1>2, <3>1 DEF View
      <4> QED BY <2>1, <4>1
    <3> QED BY <3>1
  <2>3. PICK s \in Node, r \in Node : Apply(s, r)
    BY <2>2, StepCopies
  <2>4. n = r
    BY <2>2, <2>3, ApplyCopies
  <2>5. PICK msg : msg = Head(channel[s][r])
    OBVIOUS
  <2>6. /\ Exist(msg.blocks) /\ Shape(msg.blocks) /\ Complete(s, r, msg)
        /\ msg.blocks[r] = <<>>
    BY <2>3, <2>5, ApplyHead
  <2> DEFINE q     == msg.blocks[m]
             first == View(r, m) + 1
             last  == q[Len(q)]
  <2>7. View(r, m)' = IF first \in ToSet(q) THEN last ELSE View(r, m)
    BY <1>2, <2>3, <2>4, <2>5, <2>6, ApplyView
  <2>8. /\ first \in Nat
        /\ first \in ToSet(q) => last \in Nat /\ first .. last \subseteq ToSet(q)
    BY <1>2, <2>4, <2>6, AppendedIs
  <2>9. q \in Seq(Blocks(m))
    BY <2>6 DEF Exist
  <2> HIDE DEF q
  <2>10. b \in ToSet(q)
    <3>1. first \in ToSet(q)
      BY <2>1, <2>4, <2>7
    <3>2. b \in first .. last
      BY <2>1, <2>4, <2>7, <2>8, <3>1
    <3> QED BY <2>8, <3>1, <3>2
  <2>11. PICK i \in 1 .. Len(q) : q[i] = b
    BY <2>9, <2>10, ToSetType
  <2>12. SourcesOf(m, b)' = SourcesOf(m, b)
    BY <2>3 DEF Apply, SourcesOf, IsTransaction
  <2>13. Included(msg.blocks, t)
    BY <2>11, <2>12 DEF Included, q
  <2>14. t \in TxId
    BY <1>0, <2>12, SourcesType
  <2>15. t[1] \in Node /\ t[2] \in Nat
    BY <2>14 DEF TxId
  <2>16. Finds(r, msg, t[1], t[2])
    BY <2>6, <2>13 DEF Complete
  <2>17. t[2] <= View(r, t[1])'
    BY <2>3, <2>5, <2>6, <2>15, <2>16, FoundIsAtHand
  <2> QED BY <2>4, <2>14, <2>17
<1> QED BY <1>1, <1>2

\* Every step leaves copies closed under sources.
LEMMA StepSources ==
    ASSUME Typed, ChainInv, [Next]_vars
    PROVE  SourcesAtHand'
<1>0. Lasting /\ ChainTyped /\ Grown
  BY StepLasts DEF Typed, Lasting
<1>1. ASSUME NEW n \in Node, NEW m \in Node, NEW b \in 1 .. View(n, m)',
             NEW t, t \in SourcesOf(m, b)'
      PROVE  t[2] <= View(n, t[1])'
  <2>1. View(n, m) \in Int /\ View(n, m)' \in Int /\ b \in Nat
    BY <1>0 DEF Lasting, ViewsGrow
  <2>2. CASE b <= View(n, m)
    <3>1. b \in 0 .. View(n, m) /\ b \in 1 .. View(n, m)
      BY <2>1, <2>2
    <3>2. b \in Blocks(m)
      BY <3>1, HasBlocks DEF ChainInv
    <3>3. SourcesOf(m, b)' = SourcesOf(m, b)
      BY <1>0, <3>2, SourcesStay
    <3>4. t \in SourcesOf(m, b)
      BY <1>1, <3>3
    <3>5. t \in TxId
      BY <1>0, <3>4, SourcesType
    <3>6. t[1] \in Node /\ t[2] \in Nat
      BY <3>5 DEF TxId
    <3>7. t[2] <= View(n, t[1])
      BY <3>1, <3>4 DEF ChainInv, SourcesAtHand
    <3>8. View(n, t[1]) \in Int /\ View(n, t[1])' \in Int
          /\ View(n, t[1]) <= View(n, t[1])'
      BY <1>0, <3>6 DEF Lasting, ViewsGrow
    <3> QED BY <3>6, <3>7, <3>8
  <2>3. CASE b > View(n, m)
    BY <1>1, <2>1, <2>3, NewBlockSources
  <2> QED BY <2>1, <2>2, <2>3
<1> QED BY <1>1 DEF SourcesAtHand

\* Every step keeps the shape of the messages under way.
LEMMA StepShaped ==
    ASSUME Typed, ChainInv, [Next]_vars
    PROVE  AllShaped'
<1>0. Lasting /\ ChainTyped /\ Grown /\ MainGrown /\ ProofTyped /\ ChannelTyped
  BY StepLasts DEF Typed, Lasting
<1>1. ASSUME NEW s \in Node, NEW r \in Node, NEW i \in DOMAIN channel'[s][r]
      PROVE  /\ Shape(channel[s][r][i].blocks)'
             /\ channel'[s][r][i].blocks[r] = <<>>
  <2>1. PICK blocks : blocks = channel'[s][r][i].blocks
    OBVIOUS
  <2>2. Exist(blocks) /\ Shape(blocks) /\ blocks[r] = <<>>
    <3>1. CASE \E j \in DOMAIN channel[s][r] : channel'[s][r][i] = channel[s][r][j]
      <4>1. PICK j \in DOMAIN channel[s][r] : channel'[s][r][i] = channel[s][r][j]
        BY <3>1
      <4>2. Exist(blocks)
        BY <1>0, <2>1, <4>1 DEF ChannelTyped, MessageTyped
      <4> QED BY <2>1, <4>1, <4>2 DEF ChainInv, AllShaped
    <3>2. CASE SendProof(s) /\ r = Receiver(s) /\ channel'[s][r][i] = Sending(s)
      <4>1. proof[s] # NoProof /\ Exist(proof[s].blocks)
        BY <3>2, SendAppends
      <4>2. blocks = proof[s].blocks
        BY <2>1, <3>2 DEF Sending
      <4>3. BuiltFor(s, r, proof[s].blocks, proof[s].todo)
        BY <3>2, <4>1 DEF ChainInv, AllBuilt
      <4> QED BY <4>1, <4>2, <4>3 DEF BuiltFor
    <3> QED BY <3>1, <3>2, StepMessages
  <2>3. Shape(blocks)'
    BY <1>0, <2>2, ShapeStays
  <2> QED BY <2>1, <2>2, <2>3
<1> QED BY <1>1 DEF AllShaped

\* A message that can be decoded has all that its blocks need.
LEMMA DecodedIsComplete ==
    ASSUME Typed, NEW s \in Node, NEW r \in Node, NEW msg, MessageTyped(s, r, msg),
           Decodes(r, s, msg)
    PROVE  Complete(s, r, msg)
<1>1. \A m \in Node : Attaches(r, msg, m)
  BY DEF Decodes
<1>2. ASSUME NEW t, Included(msg.blocks, t) PROVE Finds(r, msg, t[1], t[2])
  <2>1. PICK m \in Node : \E i \in 1 .. Len(msg.blocks[m]) :
            t \in SourcesOf(m, msg.blocks[m][i])
    BY <1>2 DEF Included
  <2>2. DOMAIN msg.blocks[m] = 1 .. Len(msg.blocks[m])
    BY LenProperties DEF MessageTyped, Exist
  <2> QED BY <2>1, <2>2 DEF Decodes
<1>3. Finds(r, msg, s, msg.tx)
  BY DEF Decodes, Finds
<1> QED BY <1>1, <1>2, <1>3 DEF Complete

\* Every step keeps what was verified complete.
LEMMA StepComplete ==
    ASSUME Typed, ChainInv, [Next]_vars
    PROVE  AllComplete'
<1>0. Lasting /\ Typed'
  BY StepLasts, StepTyped
<1>1. ASSUME NEW s \in Node, NEW r \in Node, verified'[s][r]
      PROVE  Complete(s, r, Head(channel[s][r]))'
  <2>1. /\ channel[s][r] # <<>>
        /\ Head(channel'[s][r]) = Head(channel[s][r])
        /\ verified[s][r] \/ Decodes(r, s, Head(channel[s][r]))
    BY <1>1, StepVerified
  <2>2. PICK msg : msg = Head(channel[s][r])
    OBVIOUS
  <2>3. MessageTyped(s, r, msg)
    BY <2>1, <2>2, HeadType
  <2>4. Complete(s, r, msg)
    <3>1. CASE verified[s][r]
      BY <2>2, <3>1 DEF ChainInv, AllComplete
    <3>2. CASE Decodes(r, s, Head(channel[s][r]))
      BY <2>2, <2>3, <3>2, DecodedIsComplete
    <3> QED BY <2>1, <3>1, <3>2
  <2>5. Complete(s, r, msg)'
    BY <1>0, <2>3, <2>4, CompleteStays
  <2>6. msg = Head(channel'[s][r])
    BY <2>1, <2>2
  <2> QED BY <2>5, <2>6
<1> QED BY <1>1 DEF AllComplete

\* What a step does to the proof a node is building.
LEMMA StepProof ==
    ASSUME Typed, [Next]_vars, NEW n \in Node
    PROVE  \/ proof'[n] = NoProof
           \/ /\ proof[n] # NoProof /\ proof'[n] # NoProof
              /\ proof'[n].tx = proof[n].tx
              /\ proof'[n].blocks = proof[n].blocks
              /\ proof'[n].todo = proof[n].todo
           \/ StartProof(n)
           \/ AddSource(n)
<1>0. ProofTyped
  BY DEF Typed
<1> DEFINE same == /\ proof[n] # NoProof /\ proof'[n] # NoProof
                   /\ proof'[n].tx = proof[n].tx
                   /\ proof'[n].blocks = proof[n].blocks
                   /\ proof'[n].todo = proof[n].todo
           goal == \/ proof'[n] = NoProof \/ same
                   \/ StartProof(n) \/ AddSource(n)
<1>1. ASSUME proof'[n] = proof[n] PROVE goal
  BY <1>1
<1>2. ASSUME NEW p \in Node, StartProof(p) \/ AddSource(p) PROVE goal
  <2>1. CASE p = n
    BY <1>2, <2>1
  <2>2. CASE p # n
    <3>1. proof'[n] = proof[n]
      BY <1>0, <1>2, <2>2 DEF StartProof, AddSource, ProofTyped
    <3> QED BY <1>1, <3>1
  <2> QED BY <2>1, <2>2
<1>3. ASSUME NEW p \in Node, SendProof(p) \/ SendFails(p) PROVE goal
  <2>1. proof' = [proof EXCEPT ![p] = NoProof]
    BY <1>3 DEF SendProof, SendFails
  <2> QED BY <1>0, <1>1, <2>1 DEF ProofTyped
<1>4. ASSUME NEW s \in Node, NEW r \in Node, Apply(s, r) PROVE goal
  <2>1. CASE proof' = proof
    BY <1>1, <2>1
  <2>2. CASE proof[r] # NoProof /\ proof' = [proof EXCEPT ![r].calm = FALSE]
    <3>1. CASE r = n
      <4>1. proof'[n] = [proof[n] EXCEPT !.calm = FALSE]
        BY <1>0, <2>2, <3>1 DEF ProofTyped
      <4>2. /\ proof'[n].tx = proof[n].tx
            /\ proof'[n].blocks = proof[n].blocks
            /\ proof'[n].todo = proof[n].todo
        BY <1>0, <4>1 DEF ProofTyped
      <4> QED BY <2>2, <3>1, <4>2
    <3>2. CASE r # n
      BY <1>0, <1>1, <2>2, <3>2 DEF ProofTyped
    <3> QED BY <3>1, <3>2
  <2> QED BY <1>4, <2>1, <2>2 DEF Apply
<1>5. ASSUME UNCHANGED sendVars PROVE goal
  BY <1>1, <1>5 DEF sendVars
<1>6. ASSUME NEW p \in Node, UpdateCache(p) \/ Pay(p) \/ Stop(p)
      PROVE  UNCHANGED sendVars
  BY <1>6 DEF UpdateCache, Pay, Stop
<1>7. ASSUME NEW s \in Node, NEW r \in Node, Verify(s, r) \/ ConnectionBreaks(s, r)
      PROVE  UNCHANGED sendVars
  BY <1>7 DEF Verify, ConnectionBreaks
<1>8. CASE UNCHANGED vars
  BY <1>5, <1>8 DEF vars
<1> QED BY <1>2, <1>3, <1>4, <1>5, <1>6, <1>7, <1>8 DEF Next, Work, Fault

\* The block a proof is started for.
LEMMA UnsentType ==
    ASSUME ChainTyped, NEW n \in Node, Unsent(n) # {}
    PROVE  LET b == Least(Unsent(n))
           IN  /\ b \in Unsent(n) /\ b \in Nat /\ b > sent[n]
               /\ IsTransaction(n, b) /\ chain[n][b].to \in Node
               /\ \A x \in Unsent(n) : b <= x
<1>1. Unsent(n) \in SUBSET Nat
  BY ReceiverType DEF Unsent
<1>2. /\ Least(Unsent(n)) \in Unsent(n)
      /\ \A x \in Unsent(n) : Least(Unsent(n)) <= x
  BY <1>1, LeastType
<1> QED BY <1>1, <1>2, ReceiverType, Zenon DEF Unsent

\* A proof begins with blocks of the sender's own chain, up to a committed one.
LEMMA StartKeepsBuilt ==
    ASSUME Typed, ChainInv, NEW n \in Node, StartProof(n)
    PROVE  LET p == proof'[n]
           IN  /\ IsTransaction(n, p.tx) /\ Exist(p.blocks)
               /\ chain[n][p.tx].to \in Node
               /\ BuiltFor(n, chain[n][p.tx].to, p.blocks, p.todo)
<1> DEFINE b   == Least(Unsent(n))
           r   == chain[n][b].to
           own == BlocksToSend(n, r, n, NextCommitted(n, n, b))
           blocks == [m \in Node |-> IF m = n THEN own ELSE <<>>]
           todo == SourcesToProve(n, r, n, own)
<1>0. ChainTyped /\ ProofTyped /\ Unsent(n) # {}
  BY DEF Typed, StartProof
<1>1. b \in Nat /\ IsTransaction(n, b) /\ r \in Node
  BY <1>0, UnsentType
<1>2. Confirmations(n, b) >= RequiredCommits
  BY DEF StartProof
<1>3. proof'[n] = [tx |-> b, blocks |-> blocks, todo |-> todo, calm |-> TRUE]
  BY <1>0 DEF StartProof, ProofTyped
<1> HIDE DEF b
<1>4. BuiltFor(n, r, blocks, todo)
  BY <1>1, <1>2, StartIsBuilt
<1>5. Exist(blocks)
  <2>1. ProofTyped'
    BY StepProofTyped DEF Next, Work
  <2>2. Exist(proof[n].blocks)'
    BY <2>1 DEF ProofTyped
  <2>3. chain' = chain
    BY DEF StartProof
  <2>4. Exist(proof'[n].blocks)
    BY <2>2, <2>3 DEF Exist, Blocks
  <2> QED BY <1>3, <2>4
<1> HIDE DEF blocks, todo
<1>6. proof'[n].tx = b /\ proof'[n].blocks = blocks /\ proof'[n].todo = todo
  BY <1>3
<1> QED BY <1>1, <1>4, <1>5, <1>6

\* A source that is visited is a block the node has, with a pointer to the
\* commit that follows.
LEMMA TodoIsProvable ==
    ASSUME Typed, ChainInv, NEW n \in Node, proof[n].todo # <<>>
    PROVE  /\ Provable(n) /\ Receiver(n) \in Node
           /\ Head(proof[n].todo)[1] # Receiver(n) /\ Head(proof[n].todo)[1] # n
           /\ Head(proof[n].todo) \in Range(proof[n].todo)
           /\ Range(Tail(proof[n].todo)) \subseteq Range(proof[n].todo)
           /\ Tail(proof[n].todo) \in Seq(TxId) /\ proof[n].todo \in Seq(TxId)
<1> DEFINE t == Head(proof[n].todo)
           r == Receiver(n)
<1>0. ProofTyped /\ ChainTyped
  BY DEF Typed
<1>1. /\ proof[n] # NoProof /\ IsTransaction(n, proof[n].tx)
      /\ t \in TxId /\ t[1] \in Node /\ t[2] \in Nat
      /\ Tail(proof[n].todo) \in Seq(TxId) /\ proof[n].todo \in Seq(TxId)
      /\ Exist(proof[n].blocks)
  BY <1>0, ProofType
<1>2. r \in Node
  BY <1>0, <1>1, ReceiverType DEF Receiver
<1>3. t \in Range(proof[n].todo) /\ Range(Tail(proof[n].todo)) \subseteq Range(proof[n].todo)
  BY <1>1, RangeOfParts
<1>4. BuiltFor(n, r, proof[n].blocks, proof[n].todo)
  BY <1>1 DEF ChainInv, AllBuilt
<1> HIDE DEF t, r
<1>5. t[2] # 0 /\ t[1] \notin {n, r} /\ Included(proof[n].blocks, t)
  <2>1. \A u \in Range(proof[n].todo) :
            u[2] # 0 /\ u[1] \notin {n, r} /\ Included(proof[n].blocks, u)
    BY <1>4 DEF BuiltFor
  <2> QED BY <1>3, <2>1
<1>6. t[2] <= View(n, t[1])
  <2>0. PICK m \in Node : \E i \in 1 .. Len(proof[n].blocks[m]) :
            t \in SourcesOf(m, proof[n].blocks[m][i])
    BY <1>5 DEF Included
  <2>1. PICK i \in 1 .. Len(proof[n].blocks[m]) :
            t \in SourcesOf(m, proof[n].blocks[m][i])
    BY <2>0
  <2>2. proof[n].blocks[m][i] <= View(n, m)
    BY <1>4, <2>1 DEF BuiltFor
  <2>3. PICK b : b = proof[n].blocks[m][i]
    OBVIOUS
  <2>4. b \in Nat
    BY <1>1, <2>3, ElementOfSeq, Zenon DEF Exist, BlockNumbers
  <2>5. b # 0
    <3>1. IsTransaction(m, b)
      BY <2>1, <2>3 DEF SourcesOf
    <3> QED BY <1>0, <3>1, ReceiverType
  <2>6. b \in 1 .. View(n, m)
    BY <2>2, <2>3, <2>4, <2>5, ViewType, SMTT(30)
  <2> QED BY <2>1, <2>3, <2>6 DEF ChainInv, SourcesAtHand
<1>7. NextCommitted(n, t[1], t[2]) # NoBlock
  <2>1. t[2] \in 0 .. View(n, t[1])
    BY <1>1, <1>6, ViewType
  <2>2. NextCommitted(n, t[1], t[2]) \in t[2] .. View(n, t[1])
    BY <1>1, <1>5, <2>1 DEF ChainInv, AllSegments, Segments
  <2> QED BY <1>1, <2>2 DEF NoBlock
<1> QED BY <1>1, <1>2, <1>3, <1>5, <1>6, <1>7 DEF Provable, t, r

\* Each source that is added leaves the proof sound.
LEMMA AddKeepsBuilt ==
    ASSUME Typed, ChainInv, NEW n \in Node, AddSource(n)
    PROVE  LET p == proof'[n]
           IN  /\ proof[n] # NoProof /\ IsTransaction(n, proof[n].tx)
               /\ p # NoProof /\ p.tx = proof[n].tx /\ Exist(p.blocks)
               /\ Receiver(n) \in Node
               /\ BuiltFor(n, Receiver(n), p.blocks, p.todo)
<1> DEFINE t == Head(proof[n].todo)
           r == Receiver(n)
           p == proof[n].blocks
           q == NewBlocks(n)
           more == [p EXCEPT ![t[1]] = p[t[1]] \o q]
           rest == Tail(proof[n].todo)
           todo == SourcesToProve(n, r, t[1], q) \o rest
<1>0. ChainTyped /\ ProofTyped /\ proof[n].todo # <<>>
  BY DEF Typed, AddSource
<1>1. /\ proof[n] # NoProof /\ IsTransaction(n, proof[n].tx)
      /\ t \in TxId /\ t[1] \in Node /\ t[2] \in Nat /\ Exist(p)
  BY <1>0, ProofType
<1>2. /\ Provable(n) /\ r \in Node /\ t[1] # r /\ t[1] # n
      /\ t \in Range(proof[n].todo) /\ Range(rest) \subseteq Range(proof[n].todo)
      /\ rest \in Seq(TxId) /\ proof[n].todo \in Seq(TxId)
  BY <1>0, TodoIsProvable, Zenon
<1>3. proof'[n] = [proof[n] EXCEPT !.blocks = more, !.todo = todo]
  BY <1>0, <1>2 DEF AddSource, Provable, ProofTyped
<1>4. proof'[n].blocks = more /\ proof'[n].todo = todo /\ proof'[n].tx = proof[n].tx
  <2> HIDE DEF more, todo
  <2> QED BY <1>0, <1>3 DEF ProofTyped
<1>5. BuiltFor(n, r, p, proof[n].todo)
  BY <1>1 DEF ChainInv, AllBuilt
<1>6. /\ q \in Seq(Nat) /\ Len(q) \in Nat
      /\ \A i \in 1 .. Len(q) : q[i] = known[n][r][t[1]] + Len(p[t[1]]) + i
      /\ q # <<>> => known[n][r][t[1]] + Len(p[t[1]]) + Len(q)
                         = NextCommitted(n, t[1], t[2])
  BY <1>0, <1>2, NewBlocksAre
<1>7. more[t[1]] = p[t[1]] \o q /\ \A x \in Node : x # t[1] => more[x] = p[x]
  BY <1>1, Zenon DEF Exist
<1>8. /\ t = <<t[1], t[2]>>
      /\ Segments(n, t[1]) /\ t[2] <= View(n, t[1])
  BY <1>1, <1>2 DEF ChainInv, AllSegments, Provable, TxId
<1>9. proof'[n] # NoProof
  <2>1. p # NoProof.blocks
    <3>1. Included(p, t)
      BY <1>2, <1>5 DEF BuiltFor
    <3>2. PICK m \in Node : \E i \in 1 .. Len(p[m]) : t \in SourcesOf(m, p[m][i])
      BY <3>1 DEF Included
    <3>3. p[m] # <<>>
      BY <3>2
    <3> QED BY <3>2, <3>3 DEF NoProof
  <2>2. proof[n].tx # 0
    BY <1>0, <1>1, ReceiverType
  <2>3. NoProof.tx = 0
    BY DEF NoProof
  <2> QED BY <1>4, <2>2, <2>3, Zenon
<1>10. Exist(more)
  <2>1. ProofTyped'
    BY StepProofTyped DEF Next, Work
  <2>2. Exist(proof[n].blocks)'
    BY <2>1 DEF ProofTyped
  <2>3. chain' = chain
    BY DEF AddSource
  <2>4. Exist(proof'[n].blocks)
    BY <2>2, <2>3 DEF Exist, Blocks
  <2> QED BY <1>4, <2>4, Zenon
<1>11. BuiltFor(n, r, more, todo)
  <2>1. PICK m \in Node, k \in Nat : t = <<m, k>> /\ m = t[1] /\ k = t[2]
    BY <1>1, <1>8
  <2> HIDE DEF more, rest, q, p, t, r
  <2>2. /\ \A i \in 1 .. Len(q) : q[i] = known[n][r][m] + Len(p[m]) + i
        /\ q # <<>> => known[n][r][m] + Len(p[m]) + Len(q) = NextCommitted(n, m, k)
        /\ more[m] = p[m] \o q /\ \A x \in Node : x # m => more[x] = p[x]
        /\ <<m, k>> \in Range(proof[n].todo) /\ Segments(n, m) /\ k <= View(n, m)
        /\ todo = SourcesToProve(n, r, m, q) \o rest
    BY <1>2, <1>6, <1>7, <1>8, <2>1, Zenon
  <2> HIDE DEF todo
  <2>3. BuiltFor(n, r, more, SourcesToProve(n, r, m, q) \o rest)
    <3>1. PICK old : old = proof[n].todo
      OBVIOUS
    <3>2. /\ r \in Node /\ Exist(p) /\ old \in Seq(TxId) /\ BuiltFor(n, r, p, old)
          /\ <<m, k>> \in Range(old) /\ Segments(n, m) /\ k <= View(n, m)
          /\ q \in Seq(Nat)
          /\ rest \in Seq(TxId) /\ Range(rest) \subseteq Range(old)
      BY <1>1, <1>2, <1>5, <1>6, <2>2, <3>1
    <3>3. /\ \A i \in 1 .. Len(q) : q[i] = known[n][r][m] + Len(p[m]) + i
          /\ q # <<>> => known[n][r][m] + Len(p[m]) + Len(q) = NextCommitted(n, m, k)
          /\ more[m] = p[m] \o q /\ \A x \in Node : x # m => more[x] = p[x]
      BY <2>2
    <3> QED BY <3>2, <3>3, AddIsBuilt, Zenon
  <2> QED BY <2>2, <2>3
<1> HIDE DEF more, todo, r
<1>12. BuiltFor(n, r, proof'[n].blocks, proof'[n].todo) /\ Exist(proof'[n].blocks)
  BY <1>4, <1>10, <1>11
<1> QED BY <1>1, <1>2, <1>4, <1>9, <1>12 DEF r

\* Every step keeps the proofs under construction sound.
LEMMA StepBuilt ==
    ASSUME Typed, ChainInv, [Next]_vars
    PROVE  AllBuilt'
<1>0. Lasting /\ Typed' /\ ChainTyped /\ ProofTyped /\ Grown
  BY StepLasts, StepTyped DEF Typed, Lasting
<1>1. ASSUME NEW n \in Node, proof'[n] # NoProof
      PROVE  BuiltFor(n, Receiver(n), proof[n].blocks, proof[n].todo)'
  <2>1. \E b : \E r \in Node : \E blocks, todo :
            /\ b = proof'[n].tx /\ blocks = proof'[n].blocks /\ todo = proof'[n].todo
            /\ IsTransaction(n, b) /\ r = chain[n][b].to
            /\ Exist(blocks) /\ BuiltFor(n, r, blocks, todo)
    <3>1. CASE /\ proof[n] # NoProof
               /\ proof'[n].tx = proof[n].tx
               /\ proof'[n].blocks = proof[n].blocks
               /\ proof'[n].todo = proof[n].todo
      <4>1. IsTransaction(n, proof[n].tx) /\ Exist(proof[n].blocks)
            /\ BuiltFor(n, Receiver(n), proof[n].blocks, proof[n].todo)
        BY <1>0, <3>1 DEF ProofTyped, ChainInv, AllBuilt
      <4>2. Receiver(n) \in Node /\ Receiver(n) = chain[n][proof[n].tx].to
        BY <1>0, <4>1, ReceiverType DEF Receiver
      <4> QED BY <3>1, <4>1, <4>2
    <3>2. CASE StartProof(n)
      BY <3>2, StartKeepsBuilt
    <3>3. CASE AddSource(n)
      <4>1. /\ IsTransaction(n, proof[n].tx)
            /\ proof'[n].tx = proof[n].tx /\ Exist(proof'[n].blocks)
            /\ Receiver(n) \in Node
            /\ BuiltFor(n, Receiver(n), proof'[n].blocks, proof'[n].todo)
        BY <3>3, AddKeepsBuilt
      <4>2. Receiver(n) = chain[n][proof[n].tx].to
        BY DEF Receiver
      <4> QED BY <4>1, <4>2
    <3> QED BY <1>1, <3>1, <3>2, <3>3, StepProof
  <2>2. PICK b : \E r \in Node : \E blocks, todo :
            /\ b = proof'[n].tx /\ blocks = proof'[n].blocks /\ todo = proof'[n].todo
            /\ IsTransaction(n, b) /\ r = chain[n][b].to
            /\ Exist(blocks) /\ BuiltFor(n, r, blocks, todo)
    BY <2>1
  <2>3. PICK r \in Node : \E blocks, todo :
            /\ b = proof'[n].tx /\ blocks = proof'[n].blocks /\ todo = proof'[n].todo
            /\ IsTransaction(n, b) /\ r = chain[n][b].to
            /\ Exist(blocks) /\ BuiltFor(n, r, blocks, todo)
    BY <2>2
  <2>4. PICK blocks, todo :
            /\ b = proof'[n].tx /\ blocks = proof'[n].blocks /\ todo = proof'[n].todo
            /\ IsTransaction(n, b) /\ r = chain[n][b].to
            /\ Exist(blocks) /\ BuiltFor(n, r, blocks, todo)
    BY <2>3
  <2>5. BuiltFor(n, r, blocks, todo)'
    BY <1>0, <2>4, BuiltStays
  <2>6. chain'[n][b].to = r
    BY <1>0, <2>4 DEF Grown, IsTransaction
  <2>7. Receiver(n)' = r
    BY <2>4, <2>6 DEF Receiver
  <2> QED BY <2>4, <2>5, <2>7
<1>2. NoProof' = NoProof
  BY DEF NoProof
<1> QED BY <1>1, <1>2 DEF AllBuilt

\* Every step keeps the invariant of chains, copies and proofs.
LEMMA StepKeepsChains ==
    ASSUME Typed, ChainInv, [Next]_vars
    PROVE  ChainInv'
BY StepSegments, StepBuilt, StepShaped, StepComplete, StepUnspent, StepSources
   DEF ChainInv

\* It holds when the simulation begins.
LEMMA InitChains ==
    ASSUME Init
    PROVE  ChainInv
<1> USE DEF Init
<1>1. \A n, m \in Node : n # m => View(n, m) = -1
  BY DEF View
<1>2. AllSegments
  BY <1>1 DEF AllSegments, Segments
<1>3. \A n \in Node : View(n, n) = 0
  BY DEF View
<1>4. UnspentAtHand
  <2>1. ASSUME NEW n \in Node, NEW t \in unspent[n] PROVE t[2] <= View(n, t[1])
    <3>1. t = <<n, 0>>
      OBVIOUS
    <3> QED BY <1>3, <3>1
  <2> QED BY <2>1 DEF UnspentAtHand
<1>5. ASSUME NEW n \in Node, NEW m \in Node PROVE 1 .. View(n, m) = {}
  <2>1. View(n, m) \in {-1, 0}
    BY <1>1, <1>3
  <2> QED BY <2>1
<1>6. SourcesAtHand
  BY <1>5, Zenon DEF SourcesAtHand
<1>7. AllBuilt
  BY DEF AllBuilt
<1>8. AllShaped
  BY DEF AllShaped
<1>9. AllComplete
  BY DEF AllComplete
<1> QED BY <1>2, <1>4, <1>6, <1>7, <1>8, <1>9 DEF ChainInv

\* So it holds always.
LEMMA ChainsAlways ==
    Spec => []ChainInv
<1>1. Init => ChainInv
  BY InitChains
<1>2. Typed /\ ChainInv /\ [Next]_vars => ChainInv'
  BY StepKeepsChains
<1> QED BY <1>1, <1>2, AlwaysTyped, PTL DEF Spec

\* Whatever the updates were cut into, a block of a copy leads to a committed
\* block that the copy has: the pointers Chain.fixNextCommitted sets, at a
\* receiver whose cache may lag, are those the next proof is built from.
THEOREM PointersAreCommitted ==
    Spec => []PointersCommitted
<1>1. AllSegments => PointersCommitted
  BY DEF AllSegments, Segments, PointersCommitted
<1> QED BY <1>1, ChainsAlways, PTL DEF ChainInv

\* A node that has a block has the blocks its sources are in: the proof sent
\* on for one of its own payments finds all it has to include.
THEOREM SourcesAreAtHand ==
    Spec => []SourcesAtHand
BY ChainsAlways, PTL DEF ChainInv

ProofsCanGoOn == \A n \in Node : proof[n].todo # <<>> => Provable(n)

\* A source that ProofConstructor comes to is a block the node has, with a
\* committed block at or above it: the search for the blocks to send never
\* ends in the exception for an unknown block or in a null pointer.
THEOREM ProofsAreNotAbandoned ==
    Spec => []ProofsCanGoOn
<1>1. Typed /\ ChainInv => ProofsCanGoOn
  BY TodoIsProvable DEF ProofsCanGoOn
<1> QED BY <1>1, AlwaysTyped, ChainsAlways, PTL

-----------------------------------------------------------------------------
(* A payment is in one place.                                              *)

\* The sender thread of n is done with its transaction x.
Handed(n, x) == x \in Nat \ {0} /\ x <= sent[n] /\ x # proof[n].tx

SentIsThere == \A n \in Node : sent[n] <= Len(chain[n])

ProofIsSent == \A n \in Node : proof[n] # NoProof => proof[n].tx = sent[n]

AcceptedWasSent == \A r \in Node : \A t \in Accepted(r) : Handed(t[1], t[2])

MessagesWereSent ==
    \A s, r \in Node : \A i \in DOMAIN channel[s][r] :
        /\ Handed(s, channel[s][r][i].tx)
        /\ <<s, channel[s][r][i].tx>> \notin Accepted(r)
        /\ \A j \in DOMAIN channel[s][r] :
              channel[s][r][i].tx = channel[s][r][j].tx => i = j

Placed(t) ==
    \/ t[2] > sent[t[1]]
    \/ proof[t[1]].tx = t[2]
    \/ t \in Accepted(Tx(t).to)
    \/ \E i \in DOMAIN channel[t[1]][Tx(t).to] :
          channel[t[1]][Tx(t).to][i].tx = t[2]

AllPlaced == failure = "none" => \A t \in Transactions : Placed(t)

PlaceInv ==
    /\ SentIsThere
    /\ ProofIsSent
    /\ AcceptedWasSent
    /\ MessagesWereSent
    /\ AllPlaced

\* A proof is given up for a failure only: AddSource, which would end it with
\* an exception, always finds the source.
LEMMA ProofEnds ==
    ASSUME Typed, ChainInv, [Next]_vars, NEW n \in Node, proof'[n] = NoProof
    PROVE  \/ proof[n] = NoProof
           \/ SendProof(n)
           \/ SendFails(n)
<1>0. ProofTyped
  BY DEF Typed
<1>1. ASSUME NEW p \in Node, StartProof(p), proof[n] # NoProof PROVE FALSE
  <2>1. p # n
    BY <1>1 DEF StartProof
  <2>2. proof'[n] = proof[n]
    BY <1>0, <1>1, <2>1 DEF StartProof, ProofTyped
  <2> QED BY <1>1, <2>2
<1>2. ASSUME NEW p \in Node, AddSource(p), proof[n] # NoProof PROVE FALSE
  <2>1. CASE p = n
    BY <1>2, <2>1, AddKeepsBuilt
  <2>2. CASE p # n
    <3>1. proof'[n] = proof[n]
      BY <1>0, <1>2, <2>2 DEF AddSource, ProofTyped
    <3> QED BY <1>2, <3>1
  <2> QED BY <2>1, <2>2
<1>3. ASSUME NEW p \in Node, SendProof(p) \/ SendFails(p), proof[n] # NoProof
      PROVE  p = n
  <2>1. proof' = [proof EXCEPT ![p] = NoProof]
    BY <1>3 DEF SendProof, SendFails
  <2> QED BY <1>0, <1>3, <2>1 DEF ProofTyped
<1>4. ASSUME NEW s \in Node, NEW r \in Node, Apply(s, r), proof[n] # NoProof
      PROVE FALSE
  <2>1. CASE proof' = proof
    BY <1>4, <2>1
  <2>2. CASE proof' = [proof EXCEPT ![r].calm = FALSE]
    <3>1. proof'[n].tx = proof[n].tx
      BY <1>0, <2>2 DEF ProofTyped
    <3>2. IsTransaction(n, proof[n].tx)
      BY <1>0, <1>4 DEF ProofTyped
    <3>3. proof[n].tx # 0
      BY <3>2, ReceiverType DEF Typed
    <3> QED BY <3>1, <3>3 DEF NoProof
  <2> QED BY <1>4, <2>1, <2>2 DEF Apply
<1>5. ASSUME UNCHANGED sendVars PROVE proof[n] = NoProof
  BY <1>5 DEF sendVars
<1>6. ASSUME NEW p \in Node, UpdateCache(p) \/ Pay(p) \/ Stop(p)
      PROVE  UNCHANGED sendVars
  BY <1>6 DEF UpdateCache, Pay, Stop
<1>7. ASSUME NEW s \in Node, NEW r \in Node, Verify(s, r) \/ ConnectionBreaks(s, r)
      PROVE  UNCHANGED sendVars
  BY <1>7 DEF Verify, ConnectionBreaks
<1>8. CASE UNCHANGED vars
  BY <1>5, <1>8 DEF vars
<1> QED BY <1>1, <1>2, <1>3, <1>4, <1>5, <1>6, <1>7, <1>8 DEF Next, Work, Fault

\* The sender thread moves on when it starts a proof.
LEMMA StepSent ==
    ASSUME Typed, [Next]_vars, NEW n \in Node
    PROVE  \/ sent'[n] = sent[n]
           \/ StartProof(n)
<1>0. sent \in [Node -> Nat]
  BY DEF Typed, ProofTyped
<1>1. ASSUME NEW p \in Node, StartProof(p) PROVE sent'[n] = sent[n] \/ StartProof(n)
  <2>1. CASE p = n
    BY <1>1, <2>1
  <2>2. CASE p # n
    BY <1>0, <1>1, <2>2 DEF StartProof
  <2> QED BY <2>1, <2>2
<1>2. ASSUME NEW p \in Node,
             UpdateCache(p) \/ SendProof(p) \/ AddSource(p) \/ Pay(p) \/ Stop(p)
                 \/ SendFails(p)
      PROVE  sent' = sent
  BY <1>2 DEF UpdateCache, SendProof, AddSource, Pay, Stop, SendFails, sendVars
<1>3. ASSUME NEW s \in Node, NEW r \in Node,
             Verify(s, r) \/ ConnectionBreaks(s, r) \/ Apply(s, r)
      PROVE  sent' = sent
  BY <1>3, Zenon DEF Verify, ConnectionBreaks, Apply, sendVars
<1>4. CASE UNCHANGED vars
  BY <1>4 DEF vars, sendVars
<1> QED BY <1>1, <1>2, <1>3, <1>4 DEF Next, Work, Fault

\* What StartProof and AddSource make of the number of the transaction.
LEMMA StartSends ==
    ASSUME Typed, NEW n \in Node, StartProof(n)
    PROVE  LET b == Least(Unsent(n))
           IN  /\ proof[n] = NoProof /\ chain' = chain
               /\ b \in Nat /\ b > sent[n] /\ IsTransaction(n, b)
               /\ \A x \in Unsent(n) : b <= x
               /\ sent'[n] = b /\ proof'[n].tx = b
<1>0. ChainTyped /\ ProofTyped
  BY DEF Typed
<1>1. Unsent(n) # {} /\ chain' = chain /\ proof[n] = NoProof
  BY DEF StartProof
<1> DEFINE b == Least(Unsent(n))
<1>2. /\ b \in Nat /\ b > sent[n] /\ IsTransaction(n, b)
      /\ \A x \in Unsent(n) : b <= x
  BY <1>0, <1>1, UnsentType
<1>3. sent'[n] = b /\ proof'[n].tx = b
  BY <1>0 DEF StartProof, ProofTyped
<1> QED BY <1>1, <1>2, <1>3

\* What was handed over stays handed over.
LEMMA HandedStays ==
    ASSUME Typed, ChainInv, [Next]_vars, NEW n \in Node, NEW x, Handed(n, x)
    PROVE  Handed(n, x)'
<1>0. sent[n] \in Nat /\ x \in Nat \ {0} /\ x <= sent[n] /\ x # proof[n].tx
  BY DEF Typed, ProofTyped, Handed
<1>1. CASE StartProof(n)
  <2>1. PICK b \in Nat : b > sent[n] /\ sent'[n] = b /\ proof'[n].tx = b
    BY <1>1, StartSends
  <2>2. x <= b /\ x # b
    BY <1>0, <2>1
  <2> QED BY <1>0, <2>1, <2>2 DEF Handed
<1>2. CASE ~StartProof(n)
  <2>1. sent'[n] = sent[n]
    BY <1>2, StepSent
  <2>2. x # proof'[n].tx
    <3>1. CASE proof'[n] = NoProof
      BY <1>0, <3>1 DEF NoProof
    <3>2. CASE proof'[n].tx = proof[n].tx
      BY <1>0, <3>2
    <3>3. CASE AddSource(n)
      BY <1>0, <3>3, AddKeepsBuilt
    <3> QED BY <1>2, <3>1, <3>2, <3>3, StepProof
  <2> QED BY <1>0, <2>1, <2>2 DEF Handed
<1> QED BY <1>1, <1>2

\* The sender thread goes through its chain once, one proof at a time.
LEMMA StepProofIsSent ==
    ASSUME Typed, ChainInv, PlaceInv, [Next]_vars
    PROVE  SentIsThere' /\ ProofIsSent'
<1>0. ChainTyped /\ Grown /\ ProofTyped
  BY StepLasts DEF Typed, Lasting
<1>1. ASSUME NEW n \in Node PROVE sent'[n] <= Len(chain'[n])
  <2>1. /\ Len(chain[n]) \in Nat /\ Len(chain'[n]) \in Nat
        /\ Len(chain[n]) <= Len(chain'[n])
    BY <1>0, LenProperties DEF ChainTyped, Grown
  <2>2. CASE sent'[n] = sent[n]
    <3>1. sent[n] <= Len(chain[n]) /\ sent[n] \in Nat
      BY <1>0 DEF PlaceInv, SentIsThere, ProofTyped
    <3> QED BY <2>1, <2>2, <3>1
  <2>3. CASE StartProof(n)
    <3>1. PICK b \in Nat : IsTransaction(n, b) /\ sent'[n] = b
      BY <2>3, StartSends
    <3>2. b \in Blocks(n)
      BY <1>0, <3>1, ReceiverType
    <3> QED BY <2>1, <3>1, <3>2 DEF Blocks
  <2> QED BY <2>2, <2>3, StepSent
<1>2. ASSUME NEW n \in Node, proof'[n] # NoProof PROVE proof'[n].tx = sent'[n]
  <2>1. CASE StartProof(n)
    BY <2>1, StartSends
  <2>2. CASE ~StartProof(n)
    <3>1. sent'[n] = sent[n]
      BY <2>2, StepSent
    <3>2. proof[n] # NoProof /\ proof'[n].tx = proof[n].tx
      BY <1>2, <2>2, StepProof, AddKeepsBuilt
    <3> QED BY <3>1, <3>2 DEF PlaceInv, ProofIsSent
  <2> QED BY <2>1, <2>2
<1>3. NoProof' = NoProof
  BY DEF NoProof
<1> QED BY <1>1, <1>2, <1>3 DEF SentIsThere, ProofIsSent

\* A node goes on having accepted what it has, and accepts what it applies.
LEMMA StepAccepted ==
    ASSUME Typed, [Next]_vars, NEW r \in Node
    PROVE  /\ \A t \in Accepted(r) : t \in Accepted(r)'
           /\ \A t \in Accepted(r)' :
                 \/ t \in Accepted(r)
                 \/ Apply(t[1], r) /\ t[1] \in Node
                        /\ t[2] = Head(channel[t[1]][r]).tx
           /\ \A s \in Node : Apply(s, r) /\ s # r =>
                 <<s, Head(channel[s][r]).tx>> \in Accepted(r)'
<1> DEFINE goal ==
        /\ \A t \in Accepted(r) : t \in Accepted(r)'
        /\ \A t \in Accepted(r)' :
              \/ t \in Accepted(r)
              \/ Apply(t[1], r) /\ t[1] \in Node
                     /\ t[2] = Head(channel[t[1]][r]).tx
<1>0. ChainTyped /\ Grown /\ ChannelTyped
  BY StepLasts DEF Typed, Lasting
<1>1. ASSUME UNCHANGED <<chain, unspent>> PROVE goal
  <2>1. Accepted(r)' = Accepted(r)
    BY <1>1 DEF Accepted, SourcesOf, IsTransaction
  <2> QED BY <2>1
<1>2. ASSUME NEW n \in Node, Pay(n) PROVE goal
  <2>1. PICK b \in Nat \ {0}, S \in SUBSET unspent[n], rem \in BOOLEAN :
            /\ DOMAIN chain'[n] = DOMAIN chain[n] \cup {b}
            /\ SourcesOf(n, b)' = S
            /\ \A m \in Node \ {n} : chain'[m] = chain[m]
            /\ unspent' = [unspent EXCEPT ![n] =
                   (unspent[n] \ S) \cup (IF rem THEN {<<n, b>>} ELSE {})]
    BY <1>0, <1>2, PayAdds, ZenonT(30)
  <2>2. CASE n # r
    <3>1. chain'[r] = chain[r] /\ unspent'[r] = unspent[r]
      BY <1>0, <2>1, <2>2 DEF ChainTyped
    <3>2. Accepted(r)' = Accepted(r)
      BY <3>1 DEF Accepted, SourcesOf, IsTransaction
    <3> QED BY <3>2
  <2>3. CASE n = r
    <3>1. /\ unspent'[r] = (unspent[r] \ S) \cup (IF rem THEN {<<r, b>>} ELSE {})
          /\ S \subseteq unspent[r]
          /\ \A c \in DOMAIN chain[r] : SourcesOf(r, c)' = SourcesOf(r, c)
      BY <1>0, <2>1, <2>3, Persist DEF ChainTyped
    <3>2. ASSUME NEW t PROVE t \in Accepted(r)' <=> t \in Accepted(r)
      <4>1. \/ t \in unspent'[r]
            \/ \E c \in DOMAIN chain'[r] : t \in SourcesOf(r, c)'
            <=> \/ t \in unspent[r] \/ (t = <<r, b>> /\ rem)
                \/ \E c \in DOMAIN chain[r] : t \in SourcesOf(r, c)
        BY <2>1, <2>3, <3>1
      <4>2. t = <<r, b>> => t[1] = r
        OBVIOUS
      <4> QED BY <4>1, <4>2, AcceptedType, AcceptedNextType
    <3> QED BY <3>2
  <2> QED BY <2>2, <2>3
<1>3. ASSUME NEW n \in Node, Stop(n) PROVE goal
  <2>1. /\ \A b \in DOMAIN chain'[n] :
               b \notin DOMAIN chain[n] => SourcesOf(n, b)' = {}
        /\ \A m \in Node \ {n} : chain'[m] = chain[m]
        /\ unspent' = unspent
    BY <1>0, <1>3, StopAdds
  <2>2. CASE n # r
    <3>1. Accepted(r)' = Accepted(r)
      BY <2>1, <2>2 DEF Accepted, SourcesOf, IsTransaction
    <3> QED BY <3>1
  <2>3. CASE n = r
    <3>1. \A c \in DOMAIN chain[r] : c \in DOMAIN chain'[r]
              /\ SourcesOf(r, c)' = SourcesOf(r, c)
      BY <1>0, Persist DEF Grown
    <3>2. ASSUME NEW t PROVE t \in Accepted(r)' <=> t \in Accepted(r)
      <4>1. (\E c \in DOMAIN chain'[r] : t \in SourcesOf(r, c)')
            <=> \E c \in DOMAIN chain[r] : t \in SourcesOf(r, c)
        BY <2>1, <2>3, <3>1
      <4> QED BY <2>1, <4>1, AcceptedType, AcceptedNextType
    <3> QED BY <3>2
  <2> QED BY <2>2, <2>3
<1>4. ASSUME NEW s \in Node, NEW q \in Node, Apply(s, q)
      PROVE  /\ goal
             /\ q = r /\ s # r => <<s, Head(channel[s][r]).tx>> \in Accepted(r)'
  <2> DEFINE u == <<s, Head(channel[s][q]).tx>>
  <2>1. chain' = chain /\ unspent' = [unspent EXCEPT ![q] = unspent[q] \cup {u}]
    BY <1>4 DEF Apply
  <2>2. u[1] = s /\ u[2] = Head(channel[s][q]).tx
    OBVIOUS
  <2> HIDE DEF u
  <2>3. unspent'[r] = unspent[r] \cup (IF q = r THEN {u} ELSE {})
    BY <1>0, <2>1 DEF ChainTyped
  <2>4. ASSUME NEW t
        PROVE  t \in Accepted(r)' <=>
                   t \in Accepted(r) \/ (q = r /\ t = u /\ t[1] # r)
    <3>1. \A c : SourcesOf(r, c)' = SourcesOf(r, c)
      BY <2>1 DEF SourcesOf, IsTransaction
    <3> QED BY <2>1, <2>3, <3>1, AcceptedType, AcceptedNextType
  <2>5. goal
    BY <1>4, <2>2, <2>4
  <2>6. q = r /\ s # r => u \in Accepted(r)'
    BY <2>2, <2>4
  <2> QED BY <2>5, <2>6 DEF u
<1>5. ASSUME NEW n \in Node,
             UpdateCache(n) \/ SendProof(n) \/ AddSource(n) \/ StartProof(n)
                 \/ SendFails(n)
      PROVE  UNCHANGED <<chain, unspent>>
  BY <1>5 DEF UpdateCache, SendProof, AddSource, StartProof, SendFails, storeVars
<1>6. ASSUME NEW s \in Node, NEW q \in Node, Verify(s, q) \/ ConnectionBreaks(s, q)
      PROVE  UNCHANGED <<chain, unspent>>
  BY <1>6 DEF Verify, ConnectionBreaks, storeVars
<1>7. ASSUME UNCHANGED vars PROVE UNCHANGED <<chain, unspent>>
  BY <1>7 DEF vars, storeVars
<1>8. goal
  BY <1>1, <1>2, <1>3, <1>4, <1>5, <1>6, <1>7, Zenon DEF Next, Work, Fault
<1>9. \A s \in Node : Apply(s, r) /\ s # r =>
          <<s, Head(channel[s][r]).tx>> \in Accepted(r)'
  BY <1>4
<1> QED BY <1>8, <1>9


\* What a node accepted is a transaction.
LEMMA AcceptedIsTx ==
    ASSUME ChainTyped, NEW r \in Node, NEW t \in Accepted(r)
    PROVE  t \in TxId /\ t[1] \in Node /\ t = <<t[1], t[2]>>
<1>1. t \in TxId
  BY AcceptedType, SourcesType DEF ChainTyped
<1> QED BY <1>1 DEF TxId

\* The message a node applies has been sent.
LEMMA AppliedWasSent ==
    ASSUME Typed, PlaceInv, NEW s \in Node, NEW r \in Node, Apply(s, r)
    PROVE  /\ 1 \in DOMAIN channel[s][r] /\ Head(channel[s][r]) = channel[s][r][1]
           /\ Handed(s, Head(channel[s][r]).tx)
           /\ s # r /\ chain[s][Head(channel[s][r]).tx].to = r
<1>1. channel[s][r] # <<>>
  BY DEF Apply, Typed, ChannelTyped
<1>2. /\ MessageTyped(s, r, Head(channel[s][r]))
      /\ 1 \in DOMAIN channel[s][r] /\ Head(channel[s][r]) = channel[s][r][1]
  BY <1>1, HeadType
<1>3. Handed(s, Head(channel[s][r]).tx)
  BY <1>2, Zenon DEF PlaceInv, MessagesWereSent
<1>4. chain[s][Head(channel[s][r]).tx].to = r
      /\ Head(channel[s][r]).tx \in DOMAIN chain[s]
  BY <1>2 DEF MessageTyped
<1>5. s # r
  BY <1>4 DEF Typed, ChainTyped
<1> QED BY <1>2, <1>3, <1>4, <1>5

\* Nothing is accepted that was not handed over.
LEMMA StepAcceptedSent ==
    ASSUME Typed, ChainInv, PlaceInv, [Next]_vars
    PROVE  AcceptedWasSent'
<1>1. ASSUME NEW r \in Node, NEW t \in Accepted(r)' PROVE Handed(t[1], t[2])'
  <2>1. t[1] \in Node /\ Handed(t[1], t[2])
    <3>1. CASE t \in Accepted(r)
      <4>1. t[1] \in Node
        BY <3>1, AcceptedIsTx DEF Typed
      <4> QED BY <3>1, <4>1 DEF PlaceInv, AcceptedWasSent
    <3>2. CASE Apply(t[1], r) /\ t[1] \in Node
                   /\ t[2] = Head(channel[t[1]][r]).tx
      BY <3>2, AppliedWasSent
    <3> QED BY <1>1, <3>1, <3>2, StepAccepted
  <2> QED BY <2>1, HandedStays
<1> QED BY <1>1 DEF AcceptedWasSent

\* Nothing is under way that was not handed over, or twice, or after it was accepted.
LEMMA StepMessagesSent ==
    ASSUME Typed, ChainInv, PlaceInv, [Next]_vars
    PROVE  MessagesWereSent'
<1>0. ChainTyped /\ ProofTyped
  BY DEF Typed
<1>1. ASSUME NEW s \in Node, NEW r \in Node
      PROVE  \A i \in DOMAIN channel'[s][r] :
                /\ Handed(s, channel[s][r][i].tx)'
                /\ <<s, channel'[s][r][i].tx>> \notin Accepted(r)'
                /\ \A j \in DOMAIN channel'[s][r] :
                      channel'[s][r][i].tx = channel'[s][r][j].tx => i = j
  <2>1. PICK d \in Nat :
            /\ Apply(s, r) => d = 1
            /\ \A i \in DOMAIN channel'[s][r] :
                  /\ i \in Nat \ {0}
                  /\ \/ /\ i + d \in DOMAIN channel[s][r]
                        /\ channel'[s][r][i] = channel[s][r][i + d]
                     \/ /\ SendProof(s) /\ r = Receiver(s)
                        /\ i = Len(channel[s][r]) + 1
                        /\ channel'[s][r][i] = Sending(s)
    BY MessagesMove
  <2> DEFINE Old(i) == /\ i + d \in DOMAIN channel[s][r]
                       /\ channel'[s][r][i] = channel[s][r][i + d]
             New(i) == /\ SendProof(s)
                       /\ i = Len(channel[s][r]) + 1
                       /\ channel'[s][r][i].tx = proof[s].tx
  <2>2. ASSUME NEW i \in DOMAIN channel'[s][r] PROVE i \in Nat \ {0} /\ (Old(i) \/ New(i))
    BY <2>1 DEF Sending
  <2>3. ASSUME NEW k \in DOMAIN channel[s][r]
        PROVE  /\ Handed(s, channel[s][r][k].tx)
               /\ <<s, channel[s][r][k].tx>> \notin Accepted(r)
               /\ \A j \in DOMAIN channel[s][r] :
                     channel[s][r][k].tx = channel[s][r][j].tx => k = j
    BY DEF PlaceInv, MessagesWereSent
  <2>4. ASSUME SendProof(s)
        PROVE  /\ proof[s].tx \in Nat \ {0} /\ proof[s].tx = sent[s]
               /\ sent'[s] = sent[s] /\ proof'[s].tx = 0
    <3>1. proof[s] # NoProof /\ sent' = sent /\ proof' = [proof EXCEPT ![s] = NoProof]
      BY <2>4 DEF SendProof
    <3>2. IsTransaction(s, proof[s].tx)
      BY <1>0, <3>1 DEF ProofTyped
    <3>3. proof[s].tx \in Nat \ {0}
      BY <1>0, <3>2, ReceiverType
    <3>4. proof[s].tx = sent[s]
      BY <3>1 DEF PlaceInv, ProofIsSent
    <3>5. proof'[s].tx = 0
      BY <1>0, <3>1 DEF ProofTyped, NoProof
    <3> QED BY <3>1, <3>3, <3>4, <3>5
  <2>5. ASSUME NEW i \in DOMAIN channel'[s][r] PROVE Handed(s, channel[s][r][i].tx)'
    <3>1. PICK x : x = channel'[s][r][i].tx
      OBVIOUS
    <3>2. CASE Old(i)
      <4>1. Handed(s, x)
        BY <2>3, <3>1, <3>2, Zenon
      <4>2. Handed(s, x)'
        BY <4>1, HandedStays
      <4> QED BY <3>1, <4>2
    <3>3. CASE New(i)
      BY <2>4, <3>3 DEF Handed
    <3> QED BY <2>2, <3>2, <3>3
  <2>6. ASSUME NEW x, <<s, x>> \in Accepted(r)'
        PROVE  \/ <<s, x>> \in Accepted(r)
               \/ Apply(s, r) /\ x = Head(channel[s][r]).tx
    <3>0. PICK t : t = <<s, x>>
      BY Zenon
    <3>1. t = <<s, x>> /\ t[1] = s /\ t[2] = x
      BY <3>0
    <3>2. t \in Accepted(r)'
      BY <2>6, <3>1
    <3>3. t \in Accepted(r) \/ (Apply(t[1], r) /\ t[2] = Head(channel[t[1]][r]).tx)
      BY <3>2, StepAccepted
    <3> QED BY <3>1, <3>3
  <2>7. ASSUME NEW i \in DOMAIN channel'[s][r],
               <<s, channel'[s][r][i].tx>> \in Accepted(r)'
        PROVE  FALSE
    <3>1. PICK x : x = channel'[s][r][i].tx
      OBVIOUS
    <3>2. <<s, x>> \in Accepted(r) \/ (Apply(s, r) /\ x = Head(channel[s][r]).tx)
      BY <2>6, <2>7, <3>1
    <3>3. ASSUME <<s, x>> \in Accepted(r) PROVE Handed(s, x)
      <4>0. PICK t : t = <<s, x>>
        BY Zenon
      <4>1. t = <<s, x>> /\ t[1] = s /\ t[2] = x
        BY <4>0
      <4>2. t \in Accepted(r)
        BY <3>3, <4>1
      <4>3. Handed(t[1], t[2])
        BY <4>2 DEF PlaceInv, AcceptedWasSent
      <4> QED BY <4>1, <4>3
    <3>4. CASE Old(i)
      <4>1. <<s, x>> \notin Accepted(r)
        BY <2>3, <3>1, <3>4
      <4>2. Apply(s, r) /\ x = channel[s][r][1].tx /\ 1 \in DOMAIN channel[s][r]
        BY <3>2, <4>1, AppliedWasSent
      <4>3. i + d = 1 /\ d = 1 /\ i \in Nat \ {0}
        <5>1. d = 1 /\ i \in Nat \ {0}
          BY <2>1, <2>2, <4>2
        <5>2. i + d = 1
          BY <2>3, <3>1, <3>4, <4>2, Zenon
        <5> QED BY <5>1, <5>2
      <4> QED BY <4>3
    <3>5. CASE New(i)
      <4>1. x = proof[s].tx
        BY <3>1, <3>5
      <4>2. Handed(s, x)
        BY <3>2, <3>3, AppliedWasSent
      <4> QED BY <4>1, <4>2 DEF Handed
    <3> QED BY <2>2, <3>4, <3>5
  <2>8. ASSUME NEW i \in DOMAIN channel'[s][r], NEW j \in DOMAIN channel'[s][r],
               Old(i), New(j)
        PROVE  channel'[s][r][i].tx # channel'[s][r][j].tx
    <3>1. Handed(s, channel'[s][r][i].tx)
      BY <2>3, <2>8, Zenon
    <3> QED BY <2>8, <3>1 DEF Handed
  <2>9. ASSUME NEW i \in DOMAIN channel'[s][r], NEW j \in DOMAIN channel'[s][r],
               channel'[s][r][i].tx = channel'[s][r][j].tx
        PROVE  i = j
    <3>1. CASE Old(i) /\ Old(j)
      <4>1. i + d = j + d
        BY <2>3, <2>9, <3>1, Zenon
      <4> QED BY <2>2, <4>1
    <3>2. CASE New(i) /\ New(j)
      BY <3>2
    <3>3. CASE Old(i) /\ New(j)
      BY <2>8, <2>9, <3>3
    <3>4. CASE New(i) /\ Old(j)
      BY <2>8, <2>9, <3>4
    <3> QED BY <2>2, <3>1, <3>2, <3>3, <3>4
  <2> QED BY <2>5, <2>7, <2>9
<1> QED BY <1>1, Zenon DEF MessagesWereSent

\* A step without a failure loses no message but for the one it applies.
LEMMA NothingLost ==
    ASSUME Typed, [Next]_vars, failure' = "none", NEW a \in Node, NEW b \in Node
    PROVE  /\ failure = "none" /\ ~SendFails(a)
           /\ \A i \in DOMAIN channel[a][b] :
                 \/ \E j \in DOMAIN channel'[a][b] :
                       channel'[a][b][j] = channel[a][b][i]
                 \/ Apply(a, b) /\ channel[a][b][i] = Head(channel[a][b])
           /\ SendProof(a) /\ b = Receiver(a) =>
                 \E j \in DOMAIN channel'[a][b] : channel'[a][b][j] = Sending(a)
<1>0. ChannelTyped /\ channel[a][b] \in Seq(Message)
      /\ DOMAIN channel[a][b] = 1 .. Len(channel[a][b]) /\ Len(channel[a][b]) \in Nat
  <2>1. ChannelTyped /\ channel[a][b] \in Seq(Message)
    BY Zenon DEF Typed, ChannelTyped, Message
  <2> QED BY <2>1, LenProperties
<1> DEFINE kept == \A i \in DOMAIN channel[a][b] :
               \/ \E j \in DOMAIN channel'[a][b] :
                     channel'[a][b][j] = channel[a][b][i]
               \/ Apply(a, b) /\ channel[a][b][i] = Head(channel[a][b])
<1>1. \A reason \in {"network", "lag", "race", "honest"} : ~Fail(reason)
  BY DEF Fail
<1>2. \A n, s, r \in Node : ~SendFails(n) /\ ~ConnectionBreaks(s, r)
  BY <1>1 DEF SendFails, ConnectionBreaks
<1>3. ASSUME channel'[a][b] = channel[a][b] PROVE kept
  BY <1>3
<1>4. ASSUME SendProof(a), b = Receiver(a)
      PROVE  /\ kept
             /\ \E j \in DOMAIN channel'[a][b] : channel'[a][b][j] = Sending(a)
  <2>1. Sending(a) \in Message /\ channel'[a][b] = Append(channel[a][b], Sending(a))
    BY <1>4, SendAppends
  <2> DEFINE q == Append(channel[a][b], Sending(a))
             l == Len(channel[a][b]) + 1
  <2>2. /\ q \in Seq(Message) /\ Len(q) = l
        /\ \A x \in 1 .. Len(channel[a][b]) : q[x] = channel[a][b][x]
        /\ q[l] = Sending(a)
    BY <1>0, <2>1, AppendProperties
  <2>3. l \in 1 .. l /\ \A x \in DOMAIN channel[a][b] : x \in 1 .. l
    BY <1>0
  <2> HIDE DEF q, l
  <2>4. DOMAIN q = 1 .. l
    BY <2>2, LenProperties
  <2> QED BY <1>0, <2>1, <2>2, <2>3, <2>4 DEF q
<1>5. ASSUME NEW n \in Node, SendProof(n), a # n \/ b # Receiver(n) PROVE kept
  BY <1>3, <1>5, SendAppends
<1>6. ASSUME NEW s \in Node, NEW r \in Node, Verify(s, r) PROVE kept
  <2>1. Refusal(r, Head(channel[s][r])) \in {"network", "lag", "race", "honest"}
    BY DEF Refusal
  <2>2. channel' = channel
    BY <1>1, <1>6, <2>1 DEF Verify
  <2> QED BY <1>3, <2>2
<1>7. ASSUME NEW s \in Node, NEW r \in Node, Apply(s, r) PROVE kept
  <2>1. channel' = [channel EXCEPT ![s][r] =
                        SubSeq(channel[s][r], 2, Len(channel[s][r]))]
    BY <1>7 DEF Apply, Drop
  <2>2. CASE a # s \/ b # r
    <3>1. channel'[a][b] = channel[a][b]
      BY <1>0, <2>1, <2>2 DEF ChannelTyped
    <3> QED BY <1>3, <3>1
  <2>3. CASE a = s /\ b = r
    <3>1. channel'[a][b] = SubSeq(channel[a][b], 2, Len(channel[a][b]))
      BY <1>0, <2>1, <2>3 DEF ChannelTyped
    <3>2. ASSUME NEW i \in DOMAIN channel[a][b]
          PROVE  \/ \E j \in DOMAIN channel'[a][b] :
                       channel'[a][b][j] = channel[a][b][i]
                 \/ channel[a][b][i] = Head(channel[a][b])
      <4>1. CASE i = 1
        <5>1. Head(channel[a][b]) = channel[a][b][1]
          BY <1>0
        <5> QED BY <4>1, <5>1
      <4>2. CASE i # 1
        <5>1. PICK k \in Nat : k = Len(channel[a][b]) /\ k <= Len(channel[a][b])
          BY <1>0
        <5> DEFINE q == SubSeq(channel[a][b], 2, k)
        <5>2. /\ q \in Seq(Message)
              /\ Len(q) = IF 2 <= k THEN k - 2 + 1 ELSE 0
              /\ \A x \in 1 .. Len(q) : q[x] = channel[a][b][2 + x - 1]
          BY <1>0, <5>1, MessagesOf
        <5>3. channel'[a][b] = q
          BY <3>1, <5>1
        <5> HIDE DEF q
        <5>4. i - 1 \in 1 .. Len(q) /\ 2 + (i - 1) - 1 = i
          BY <1>0, <4>2, <5>1, <5>2
        <5>5. i - 1 \in DOMAIN q /\ q[i - 1] = channel[a][b][i]
          BY <5>2, <5>4, LenProperties
        <5> QED BY <5>3, <5>5
      <4> QED BY <4>1, <4>2
    <3> QED BY <1>7, <2>3, <3>2
  <2> QED BY <2>2, <2>3
<1>8. ASSUME NEW n \in Node,
             UpdateCache(n) \/ AddSource(n) \/ StartProof(n) \/ Pay(n) \/ Stop(n)
      PROVE  channel' = channel
  BY <1>8 DEF UpdateCache, AddSource, StartProof, Pay, Stop, netVars
<1>9. ASSUME UNCHANGED vars PROVE channel' = channel
  BY <1>9 DEF vars, netVars
<1>10. kept
  BY <1>2, <1>3, <1>4, <1>5, <1>6, <1>7, <1>8, <1>9 DEF Next, Work, Fault
<1>11. failure = "none"
  <2>1. ASSUME NEW n \in Node,
               UpdateCache(n) \/ SendProof(n) \/ AddSource(n) \/ StartProof(n)
                   \/ Pay(n) \/ Stop(n)
        PROVE  failure' = failure
    BY <2>1 DEF UpdateCache, SendProof, AddSource, StartProof, Pay, Stop, netVars
  <2>2. ASSUME NEW s \in Node, NEW r \in Node, Apply(s, r) PROVE failure' = failure
    BY <2>2 DEF Apply
  <2>3. ASSUME NEW s \in Node, NEW r \in Node, Verify(s, r) PROVE failure' = failure
    <3>1. Refusal(r, Head(channel[s][r])) \in {"network", "lag", "race", "honest"}
      BY DEF Refusal
    <3> QED BY <1>1, <2>3, <3>1 DEF Verify
  <2>4. ASSUME UNCHANGED vars PROVE failure' = failure
    BY <2>4 DEF vars, netVars
  <2> QED BY <1>2, <2>1, <2>2, <2>3, <2>4 DEF Next, Work, Fault
<1> QED BY <1>2, <1>4, <1>10, <1>11

\* What counts as a transaction: a block of a node that pays another.
LEMMA TransactionType ==
    ASSUME NEW t
    PROVE  t \in Transactions <=>
               /\ t = <<t[1], t[2]>> /\ t[1] \in Node /\ IsTransaction(t[1], t[2])
BY DEF Transactions, IsTransaction

\* A payment that was somewhere is somewhere after a step without a failure.
LEMMA PlacedStays ==
    ASSUME Typed, ChainInv, PlaceInv, [Next]_vars, failure' = "none",
           NEW t \in Transactions, Placed(t)
    PROVE  Placed(t)'
<1>0. ChainTyped /\ ProofTyped /\ Grown
  BY StepLasts DEF Typed, Lasting
<1>01. PICK n, x, r : n = t[1] /\ x = t[2] /\ r = Tx(t).to
  OBVIOUS
<1>1. t = <<n, x>> /\ n \in Node /\ IsTransaction(n, x)
  BY <1>01, TransactionType
<1>2. /\ r \in Node /\ r # n /\ x \in Nat \ {0} /\ r = chain[n][x].to
      /\ x \in DOMAIN chain[n]
  BY <1>0, <1>01, <1>1, ReceiverType DEF Tx
<1>3. Tx(t)' = Tx(t)
  BY <1>0, <1>01, <1>1, <1>2 DEF Grown, Tx
<1> SUFFICES \/ x > sent'[n]
             \/ proof'[n].tx = x
             \/ t \in Accepted(r)'
             \/ \E i \in DOMAIN channel'[n][r] : channel'[n][r][i].tx = x
  BY <1>01, <1>3 DEF Placed
<1> DEFINE goal == \/ x > sent'[n]
                   \/ proof'[n].tx = x
                   \/ t \in Accepted(r)'
                   \/ \E i \in DOMAIN channel'[n][r] : channel'[n][r][i].tx = x
<1>5. CASE x > sent[n]
  <2>1. CASE sent'[n] = sent[n]
    BY <1>5, <2>1
  <2>2. CASE StartProof(n)
    <3>1. x \in Unsent(n)
      BY <1>1, <1>2, <1>5 DEF Unsent
    <3>2. PICK b \in Nat : b <= x /\ sent'[n] = b /\ proof'[n].tx = b
      BY <1>1, <2>2, <3>1, StartSends
    <3>3. b = x \/ x > b
      BY <1>2, <3>2
    <3> QED BY <3>2, <3>3
  <2> QED BY <1>1, <2>1, <2>2, StepSent
<1>6. CASE proof[n].tx = x
  <2>1. proof[n] # NoProof
    BY <1>2, <1>6 DEF NoProof
  <2>2. CASE proof'[n] = NoProof
    <3>1. SendProof(n)
      BY <1>1, <2>1, <2>2, ProofEnds, NothingLost
    <3>2. r = Receiver(n)
      BY <1>2, <1>6 DEF Receiver
    <3>3. PICK j \in DOMAIN channel'[n][r] : channel'[n][r][j] = Sending(n)
      BY <1>1, <1>2, <3>1, <3>2, NothingLost
    <3>4. channel'[n][r][j].tx = x
      BY <1>6, <3>3 DEF Sending
    <3> QED BY <3>4
  <2>3. CASE proof'[n].tx = proof[n].tx
    BY <1>6, <2>3
  <2>4. CASE StartProof(n)
    BY <1>1, <2>1, <2>4, StartSends
  <2>5. CASE AddSource(n)
    BY <1>1, <1>6, <2>5, AddKeepsBuilt
  <2> QED BY <1>1, <2>2, <2>3, <2>4, <2>5, StepProof
<1>7. CASE t \in Accepted(r)
  BY <1>2, <1>7, StepAccepted, SMTT(30)
<1>8. ASSUME NEW i \in DOMAIN channel[n][r], channel[n][r][i].tx = x PROVE goal
  <2>1. CASE \E j \in DOMAIN channel'[n][r] : channel'[n][r][j] = channel[n][r][i]
    BY <1>8, <2>1
  <2>2. CASE Apply(n, r) /\ channel[n][r][i] = Head(channel[n][r])
    <3>1. <<n, Head(channel[n][r]).tx>> \in Accepted(r)'
      BY <1>1, <1>2, <2>2, StepAccepted
    <3>2. t \in Accepted(r)'
      BY <1>1, <1>8, <2>2, <3>1
    <3> QED BY <3>2
  <2> QED BY <1>1, <1>2, <2>1, <2>2, NothingLost, SMTT(30)
<1>9. \/ x > sent[n] \/ proof[n].tx = x \/ t \in Accepted(r)
      \/ \E i \in DOMAIN channel[n][r] : channel[n][r][i].tx = x
  BY <1>01 DEF Placed
<1> QED BY <1>5, <1>6, <1>7, <1>8, <1>9

\* Without failures, what was handed over is under way or accepted.
LEMMA StepPlaced ==
    ASSUME Typed, ChainInv, PlaceInv, [Next]_vars
    PROVE  AllPlaced'
<1>0. ChainTyped /\ ProofTyped /\ Grown
  BY StepLasts DEF Typed, Lasting
<1>1. ASSUME failure' = "none", NEW t \in Transactions' PROVE Placed(t)'
  <2>1. CASE t \in Transactions
    <3>1. failure = "none"
      BY <1>1, <2>1, NothingLost, TransactionType
    <3>2. Placed(t)
      BY <2>1, <3>1 DEF PlaceInv, AllPlaced
    <3> QED BY <1>1, <2>1, <3>2, PlacedStays
  <2>2. CASE t \notin Transactions
    <3>1. t = <<t[1], t[2]>> /\ t[1] \in Node /\ IsTransaction(t[1], t[2])'
      BY <1>1 DEF Transactions, IsTransaction
    <3>2. t[2] \in DOMAIN chain'[t[1]] /\ t[2] \notin DOMAIN chain[t[1]]
      <4>1. t[2] \in DOMAIN chain'[t[1]] /\ ~IsTransaction(t[1], t[2])
        BY <2>2, <3>1, TransactionType DEF IsTransaction
      <4>2. t[2] \in DOMAIN chain[t[1]] =>
                (IsTransaction(t[1], t[2])' <=> IsTransaction(t[1], t[2]))
        BY <1>0, <3>1, Persist
      <4> QED BY <3>1, <4>1, <4>2
    <3>3. PICK m : m = t[1]
      OBVIOUS
    <3>4. PICK x : x = t[2]
      OBVIOUS
    <3>5. m \in Node /\ x \in DOMAIN chain'[m] /\ x \notin DOMAIN chain[m]
      BY <3>1, <3>2, <3>3, <3>4
    <3>6. x > Len(chain[m]) /\ Len(chain[m]) \in Nat /\ x \in Nat
      <4>1. chain[m] \in Seq(Block) /\ chain'[m] \in Seq(Block)
        BY <1>0, <3>5 DEF ChainTyped, Grown
      <4>2. DOMAIN chain[m] = 1 .. Len(chain[m]) /\ Len(chain[m]) \in Nat
            /\ DOMAIN chain'[m] = 1 .. Len(chain'[m]) /\ Len(chain'[m]) \in Nat
        BY <4>1, LenProperties
      <4> QED BY <3>5, <4>2
    <3>7. sent'[m] = sent[m]
      <4>1. ~StartProof(m)
        <5>1. chain' # chain
          BY <3>5
        <5> QED BY <5>1 DEF StartProof
      <4> QED BY <3>5, <4>1, StepSent
    <3>8. sent[m] <= Len(chain[m]) /\ sent[m] \in Nat
      BY <1>0, <3>5 DEF PlaceInv, SentIsThere, ProofTyped
    <3>9. x > sent'[m]
      BY <3>6, <3>7, <3>8
    <3> QED BY <3>3, <3>4, <3>9 DEF Placed
  <2> QED BY <2>1, <2>2
<1> QED BY <1>1 DEF AllPlaced

\* Nothing is anywhere when the simulation begins.
LEMMA InitPlaced ==
    ASSUME Init
    PROVE  PlaceInv
<1> USE DEF Init
<1>1. Transactions = {}
  BY DEF Transactions, IsTransaction
<1>2. \A r \in Node : Accepted(r) = {}
  <2>1. ASSUME NEW r \in Node, NEW t \in Accepted(r) PROVE FALSE
    <3>1. t[1] # r /\ t \in unspent[r]
      <4>1. DOMAIN chain[r] = {}
        OBVIOUS
      <4>2. /\ t[1] # r
            /\ t \in unspent[r] \/ \E b \in DOMAIN chain[r] : t \in SourcesOf(r, b)
        BY <2>1, AcceptedType, Zenon
      <4> QED BY <4>1, <4>2
    <3>2. t = <<r, 0>>
      BY <3>1
    <3> QED BY <3>1, <3>2
  <2> QED BY <2>1
<1>3. SentIsThere /\ ProofIsSent /\ MessagesWereSent
  BY DEF SentIsThere, ProofIsSent, MessagesWereSent
<1>4. AcceptedWasSent
  BY <1>2 DEF AcceptedWasSent
<1> QED BY <1>1, <1>3, <1>4 DEF PlaceInv, AllPlaced

\* So the invariant of the places holds always.
LEMMA PlacedAlways ==
    Spec => []PlaceInv
<1>1. Init => PlaceInv
  BY InitPlaced
<1>2. Typed /\ ChainInv /\ PlaceInv /\ [Next]_vars => PlaceInv'
  BY StepProofIsSent, StepAcceptedSent, StepMessagesSent, StepPlaced DEF PlaceInv
<1> QED BY <1>1, <1>2, AlwaysTyped, ChainsAlways, PTL DEF Spec

\* A set all of whose elements are equal has at most one.
LEMMA AtMostOne ==
    ASSUME NEW S, \A x, y \in S : x = y
    PROVE  Cardinality(S) <= 1
<1>1. CASE S = {}
  BY <1>1, FS_EmptySet
<1>2. CASE S # {}
  <2>1. PICK x : S = {x}
    BY <1>2
  <2> QED BY <2>1, FS_Singleton
<1> QED BY <1>1, <1>2

\* And no payment is in two places where it holds.
LEMMA PlaceIsOne ==
    ASSUME Typed, PlaceInv
    PROVE  InOnePlace
<1>0. ChainTyped /\ ProofTyped
  BY DEF Typed
<1> SUFFICES ASSUME NEW t \in Transactions
             PROVE  /\ Cardinality(Places(t)) <= 1
                    /\ failure = "none" => Places(t) # {}
  BY DEF InOnePlace
<1> DEFINE n == t[1]
           x == t[2]
           r == Tx(t).to
           message(i) == i \in DOMAIN channel[n][r] /\ channel[n][r][i].tx = x
<1>1. t = <<n, x>> /\ n \in Node /\ IsTransaction(n, x)
  BY TransactionType
<1>2. r \in Node /\ x \in Nat \ {0} /\ sent[n] \in Nat
  BY <1>0, <1>1, ReceiverType DEF Tx, ProofTyped
<1>3. \A p : p \in Places(t) <=>
          \/ x > sent[n] /\ p = <<"waiting">>
          \/ proof[n].tx = x /\ p = <<"proof">>
          \/ t \in Accepted(r) /\ p = <<"received">>
          \/ \E i : message(i) /\ p = <<"message", i>>
  BY DEF Places
<1> HIDE DEF n, x, r
<1>4. x > sent[n] => ~Handed(n, x) /\ proof[n].tx # x
  <2>1. x > sent[n] => ~(x <= sent[n])
    BY <1>2
  <2>2. ASSUME x > sent[n], proof[n].tx = x PROVE FALSE
    <3>1. proof[n] # NoProof
      BY <1>2, <2>2 DEF NoProof
    <3>2. x = sent[n]
      BY <1>1, <2>2, <3>1 DEF PlaceInv, ProofIsSent
    <3> QED BY <1>2, <2>2, <3>2
  <2> QED BY <2>1, <2>2 DEF Handed
<1>5. proof[n].tx = x => ~Handed(n, x)
  BY DEF Handed
<1>6. t \in Accepted(r) => Handed(n, x)
  BY <1>2 DEF PlaceInv, AcceptedWasSent, n, x
<1>7. \A i : message(i) =>
          /\ Handed(n, x) /\ t \notin Accepted(r)
          /\ \A j : message(j) => i = j
  BY <1>1, <1>2 DEF PlaceInv, MessagesWereSent
<1>8. \A p, q \in Places(t) : p = q
  <2> HIDE DEF message
  <2> QED BY <1>3, <1>4, <1>5, <1>6, <1>7
<1>9. Cardinality(Places(t)) <= 1
  BY <1>8, AtMostOne
<1>10. ASSUME failure = "none" PROVE Places(t) # {}
  <2>1. Placed(t)
    BY <1>10 DEF PlaceInv, AllPlaced
  <2>2. \/ x > sent[n] \/ proof[n].tx = x \/ t \in Accepted(r)
        \/ \E i : message(i)
    BY <2>1 DEF Placed, n, x, r
  <2> HIDE DEF message
  <2> QED BY <1>3, <2>2, Zenon
<1> QED BY <1>9, <1>10

\* Sender thread, connections and handlers hand each payment on without
\* keeping it: it is never in two places, and in none only after a failure.
THEOREM PaymentIsInOnePlace ==
    Spec => []InOnePlace
<1>1. Typed /\ PlaceInv => InOnePlace
  BY PlaceIsOne
<1> QED BY <1>1, AlwaysTyped, PlacedAlways, PTL

-----------------------------------------------------------------------------
(* A proof is refused for a reason: no cache lags from here on.            *)

FullCaches == \A n \in Node : cacheLen[n] = Len(mainChain)

\* Only blocks there are are committed.
CommitsExist == \A m \in Node : \A b : IsCommitted(m, b) => b \in Blocks(m)

\* A node that has cached the whole main chain knows what is committed.
LEMMA FullCacheTells ==
    ASSUME MainTyped, FullCaches, NEW n \in Node, NEW m, NEW b
    PROVE  InCache(n, m, b) <=> IsCommitted(m, b)
<1>1. DOMAIN mainChain = 1 .. cacheLen[n]
  BY LenProperties DEF MainTyped, FullCaches
<1> QED BY <1>1 DEF InCache, IsCommitted

\* Caches that do not lag have everything that was committed.
LEMMA StepCaches ==
    ASSUME ~CacheLags, Typed, FullCaches, [Next]_vars
    PROVE  FullCaches'
<1>1. ASSUME NEW n \in Node, Pay(n) \/ Stop(n) PROVE FullCaches'
  <2>1. \E blocks : Commit(blocks)
    BY <1>1 DEF Pay, Stop
  <2> QED BY <2>1 DEF Commit, FullCaches
<1>2. ASSUME NEW n \in Node, UpdateCache(n) PROVE FALSE
  <2>1. cacheLen[n] < Len(mainChain) /\ cacheLen[n] = Len(mainChain)
        /\ Len(mainChain) \in Nat
    BY <1>2, LenProperties DEF UpdateCache, FullCaches, Typed, MainTyped
  <2> QED BY <2>1
<1>3. ASSUME NEW n \in Node,
             SendProof(n) \/ AddSource(n) \/ StartProof(n) \/ SendFails(n)
      PROVE  UNCHANGED mainVars
  BY <1>3 DEF SendProof, AddSource, StartProof, SendFails
<1>4. ASSUME NEW s \in Node, NEW r \in Node,
             Apply(s, r) \/ Verify(s, r) \/ ConnectionBreaks(s, r)
      PROVE  UNCHANGED mainVars
  BY <1>4, Zenon DEF Apply, Verify, ConnectionBreaks
<1>5. CASE UNCHANGED mainVars
  BY <1>5 DEF mainVars, FullCaches
<1>6. CASE UNCHANGED vars
  BY <1>5, <1>6 DEF vars
<1> QED BY <1>1, <1>2, <1>3, <1>4, <1>5, <1>6 DEF Next, Work, Fault

\* What a commit adds.
LEMMA CommitAdds ==
    ASSUME MainTyped, NEW blocks \in Seq(TxId), Commit(blocks),
           NEW m, NEW b, IsCommitted(m, b)'
    PROVE  \/ IsCommitted(m, b)
           \/ \E i \in 1 .. Len(blocks) : blocks[i] = <<m, b>>
<1>1. /\ mainChain \in Seq(TxId) /\ mainChain' = mainChain \o blocks
      /\ Len(mainChain) \in Nat /\ Len(blocks) \in Nat
  BY LenProperties DEF Commit, MainTyped
<1>2. /\ mainChain' \in Seq(TxId)
      /\ Len(mainChain') = Len(mainChain) + Len(blocks)
      /\ \A i \in 1 .. Len(mainChain) + Len(blocks) : mainChain'[i] =
            IF i <= Len(mainChain) THEN mainChain[i] ELSE blocks[i - Len(mainChain)]
  BY <1>1, ConcatProperties
<1>3. DOMAIN mainChain = 1 .. Len(mainChain)
      /\ DOMAIN mainChain' = 1 .. Len(mainChain) + Len(blocks)
  BY <1>1, <1>2, LenProperties
<1>4. CASE b = 0
  BY <1>4 DEF IsCommitted
<1>5. ASSUME NEW i \in DOMAIN mainChain', mainChain'[i] = <<m, b>>
      PROVE  \/ IsCommitted(m, b)
             \/ \E j \in 1 .. Len(blocks) : blocks[j] = <<m, b>>
  <2>1. CASE i <= Len(mainChain)
    <3>1. i \in DOMAIN mainChain /\ mainChain[i] = <<m, b>>
      BY <1>1, <1>2, <1>3, <1>5, <2>1
    <3> QED BY <3>1 DEF IsCommitted
  <2>2. CASE ~(i <= Len(mainChain))
    <3>1. i - Len(mainChain) \in 1 .. Len(blocks)
          /\ blocks[i - Len(mainChain)] = <<m, b>>
      BY <1>1, <1>2, <1>3, <1>5, <2>2
    <3> QED BY <3>1
  <2> QED BY <2>1, <2>2
<1> QED BY <1>4, <1>5 DEF IsCommitted

\* Commits are of the last block of a chain, or of a block that is added to it.
LEMMA NewCommits ==
    ASSUME Typed, [Next]_vars, NEW m \in Node, NEW b, IsCommitted(m, b)'
    PROVE  \/ IsCommitted(m, b)
           \/ b \in Len(chain[m]) .. Len(chain'[m])
<1>0. ChainTyped /\ MainTyped /\ \A n \in Node : Len(chain[n]) \in Nat /\ n \in Nat
  BY ExchangeAssumption, LenProperties DEF Typed, ChainTyped
<1> DEFINE Goal == \/ IsCommitted(m, b)
                   \/ b \in Len(chain[m]) .. Len(chain'[m])
<1>1. ASSUME NEW n \in Node, Pay(n) PROVE Goal
  <2>1. PICK k \in Nat : k = Len(chain[n]) + 1
    BY <1>0
  <2>2. Len(chain'[n]) = k
    <3>1. \E S, rem : chain' = [chain EXCEPT ![n] =
              Append(@, [to |-> Script[n][k], src |-> S, rem |-> rem])]
      BY <1>1, <2>1, Zenon DEF Pay
    <3>2. chain[n] \in Seq(Block) /\ \A x : Len(Append(chain[n], x)) = k
      BY <1>0, <2>1 DEF ChainTyped
    <3> QED BY <1>0, <3>1, <3>2 DEF ChainTyped
  <2>3. <<n, k>> \in TxId
    BY <1>0, <2>1 DEF TxId
  <2>4. <<<<n, k>>>> \in Seq(TxId) /\ <<>> \in Seq(TxId)
    BY <2>3
  <2>5. PICK blocks \in {<<<<n, k>>>>, <<>>} : Commit(blocks)
    BY <1>1, <2>1 DEF Pay
  <2>6. \/ IsCommitted(m, b)
        \/ \E i \in 1 .. Len(blocks) : blocks[i] = <<m, b>>
    <3>1. blocks \in Seq(TxId)
      BY <2>4, <2>5, Zenon
    <3> QED BY <1>0, <2>5, <3>1, CommitAdds
  <2>7. ASSUME NEW i \in 1 .. Len(blocks), blocks[i] = <<m, b>>
        PROVE  n = m /\ k = b
    BY <2>5, <2>7
  <2> QED BY <1>0, <2>1, <2>2, <2>6, <2>7
<1>2. ASSUME NEW n \in Node, Stop(n) PROVE Goal
  <2> DEFINE l     == Len(chain[n])
             first == IF l > LastCommitted(n) THEN <<<<n, l>>>> ELSE <<>>
             rest  == [i \in 1 .. RequiredCommits + 1 |-> <<n, l + i>>]
             empty == [i \in 1 .. RequiredCommits + 1 |-> EmptyBlock]
  <2>1. l \in Nat /\ n \in Nat /\ RequiredCommits + 1 \in Nat
    BY <1>0, ExchangeAssumption
  <2>2. Len(chain'[n]) = l + (RequiredCommits + 1)
    <3>1. chain' = [chain EXCEPT ![n] = chain[n] \o empty]
      BY <1>2 DEF Stop
    <3>2. EmptyBlock \in Block
      BY DEF EmptyBlock, Block
    <3>3. empty \in Seq(Block) /\ Len(empty) = RequiredCommits + 1
      BY <2>1, <3>2
    <3>4. chain[n] \in Seq(Block)
      BY <1>0 DEF ChainTyped
    <3> HIDE DEF empty
    <3>5. Len(chain[n] \o empty) = Len(chain[n]) + Len(empty)
      BY <3>3, <3>4, ConcatProperties, Zenon
    <3>6. chain'[n] = chain[n] \o empty
      BY <1>0, <3>1 DEF ChainTyped
    <3> QED BY <3>3, <3>5, <3>6
  <2>3. Commit(first \o rest)
    BY <1>2 DEF Stop
  <2>4. first \in Seq(TxId) /\ \A i \in 1 .. Len(first) : first[i] = <<n, l>>
    <3>1. <<n, l>> \in TxId
      BY <1>0, <2>1 DEF TxId
    <3>2. <<<<n, l>>>> \in Seq(TxId) /\ <<>> \in Seq(TxId)
      BY <3>1
    <3> QED BY <3>2
  <2>5. /\ rest \in Seq(TxId) /\ Len(rest) = RequiredCommits + 1
        /\ \A i \in 1 .. Len(rest) : rest[i] = <<n, l + i>>
    <3>1. \A i \in 1 .. RequiredCommits + 1 : <<n, l + i>> \in TxId
      BY <2>1 DEF TxId
    <3> DEFINE k == RequiredCommits + 1
               e(i) == <<n, l + i>>
               q == [i \in 1 .. k |-> e(i)]
    <3>2. k \in Nat /\ \A i \in 1 .. k : e(i) \in TxId
      BY <2>1, <3>1
    <3> HIDE DEF k, e
    <3>3. q \in Seq(TxId) /\ Len(q) = k /\ \A i \in 1 .. Len(q) : q[i] = e(i)
      BY <3>2
    <3> QED BY <3>3, Zenon DEF k, e
  <2> HIDE DEF l, first, rest
  <2>6. /\ first \o rest \in Seq(TxId) /\ Len(first) \in Nat /\ Len(rest) \in Nat
        /\ Len(first \o rest) = Len(first) + Len(rest)
        /\ \A i \in 1 .. Len(first) + Len(rest) : (first \o rest)[i] =
              IF i <= Len(first) THEN first[i] ELSE rest[i - Len(first)]
    BY <2>4, <2>5, ConcatProperties, LenProperties, Zenon
  <2>7. \/ IsCommitted(m, b)
        \/ \E i \in 1 .. Len(first \o rest) : (first \o rest)[i] = <<m, b>>
    BY <1>0, <2>3, <2>6, CommitAdds, Zenon
  <2>8. ASSUME NEW i \in 1 .. Len(first \o rest), (first \o rest)[i] = <<m, b>>
        PROVE  n = m /\ b \in l .. l + (RequiredCommits + 1)
    <3>1. CASE i <= Len(first)
      <4>1. first[i] = <<m, b>> /\ first[i] = <<n, l>>
        BY <2>4, <2>6, <2>8, <3>1
      <4> QED BY <2>1, <4>1
    <3>2. CASE ~(i <= Len(first))
      <4>1. PICK j \in 1 .. Len(rest) : rest[j] = <<m, b>>
        <5>1. i - Len(first) \in 1 .. Len(rest)
              /\ rest[i - Len(first)] = <<m, b>>
          BY <2>6, <2>8, <3>2
        <5> QED BY <5>1
      <4>2. n = m /\ b = l + j
        BY <2>5, <4>1
      <4> QED BY <2>1, <2>5, <4>2
    <3> QED BY <3>1, <3>2
  <2> QED BY <2>2, <2>7, <2>8, Zenon DEF l
<1>3. CASE mainChain' = mainChain
  BY <1>3 DEF IsCommitted
<1>4. ASSUME NEW n \in Node,
             UpdateCache(n) \/ SendProof(n) \/ AddSource(n) \/ StartProof(n)
                 \/ SendFails(n)
      PROVE  mainChain' = mainChain
  BY <1>4 DEF UpdateCache, SendProof, AddSource, StartProof, SendFails, mainVars
<1>5. ASSUME NEW s \in Node, NEW r \in Node,
             Apply(s, r) \/ Verify(s, r) \/ ConnectionBreaks(s, r)
      PROVE  mainChain' = mainChain
  BY <1>5, Zenon DEF Apply, Verify, ConnectionBreaks, mainVars
<1>6. CASE UNCHANGED vars
  BY <1>3, <1>6 DEF vars, mainVars
<1> QED BY <1>1, <1>2, <1>3, <1>4, <1>5, <1>6 DEF Next, Work, Fault

\* A commit below one that there was is not new.
LEMMA CommitsGoUp ==
    ASSUME Typed, CommitsExist, [Next]_vars, NEW m \in Node, NEW b \in Int, NEW c,
           IsCommitted(m, c), b < c, IsCommitted(m, b)'
    PROVE  IsCommitted(m, b)
<1>1. c \in Blocks(m) /\ Len(chain[m]) \in Nat
  BY LenProperties DEF CommitsExist, Typed, ChainTyped
<1>2. IsCommitted(m, b) \/ b >= Len(chain[m])
  BY NewCommits
<1> QED BY <1>1, <1>2 DEF Blocks

\* Only blocks that exist are committed.
LEMMA StepCommitsExist ==
    ASSUME Typed, CommitsExist, [Next]_vars
    PROVE  CommitsExist'
<1>1. ASSUME NEW m \in Node, NEW b, IsCommitted(m, b)' PROVE b \in Blocks(m)'
  <2>1. ChainTyped /\ Grown /\ Len(chain[m]) \in Nat
    BY StepLasts, LenProperties DEF Lasting, Typed, ChainTyped
  <2>2. IsCommitted(m, b) => b \in Blocks(m)'
    BY <2>1, Persist DEF CommitsExist
  <2>3. b \in Len(chain[m]) .. Len(chain'[m]) => b \in Blocks(m)'
    BY <2>1 DEF Blocks
  <2> QED BY <1>1, <2>2, <2>3, NewCommits
<1> QED BY <1>1 DEF CommitsExist

\* A transaction takes remainders of earlier ones.
SourcesEarlier ==
    \A n \in Node : \A b \in DOMAIN chain[n] : \A w \in SourcesOf(n, b) :
        w[1] = n => w[2] < b

\* Every step leaves a block with sources that were there before it.
LEMMA StepSourcesEarlier ==
    ASSUME Typed, MoneyInv, SourcesEarlier, [Next]_vars
    PROVE  SourcesEarlier'
<1>0. ChainTyped /\ Grown
  BY StepLasts DEF Lasting, Typed
<1>1. ASSUME NEW n \in Node, NEW b \in DOMAIN chain[n], NEW w \in SourcesOf(n, b)',
             w[1] = n
      PROVE  w[2] < b
  BY <1>0, <1>1, Persist DEF SourcesEarlier
<1>2. ASSUME NEW n \in Node, Pay(n), NEW b \in DOMAIN chain'[n], b \notin DOMAIN chain[n],
             NEW w \in SourcesOf(n, b)', w[1] = n
      PROVE  w[2] < b
  <2>1. b = Len(chain[n]) + 1 /\ w \in unspent[n] /\ Len(chain[n]) \in Nat
    BY <1>0, <1>2, PayAdds, LenProperties DEF ChainTyped
  <2>2. Given(n, w)
    BY <2>1 DEF MoneyInv, UnspentIsGiven
  <2>3. CASE w = <<n, 0>>
    BY <2>1, <2>3
  <2>4. CASE IsTransaction(w[1], w[2])
    <3>1. w[2] \in Blocks(n)
      BY <1>0, <1>2, <2>4, ReceiverType
    <3> QED BY <2>1, <3>1 DEF Blocks
  <2> QED BY <2>2, <2>3, <2>4 DEF Given
<1>3. ASSUME NEW n \in Node, Pay(n) PROVE SourcesEarlier'
  <2>1. \A m \in Node \ {n} : chain'[m] = chain[m]
    BY <1>0, <1>3, PayAdds
  <2> QED BY <1>1, <1>2, <1>3, <2>1 DEF SourcesEarlier
<1>4. ASSUME NEW n \in Node, Stop(n) PROVE SourcesEarlier'
  <2>1. /\ \A b \in DOMAIN chain'[n] : b \notin DOMAIN chain[n] => SourcesOf(n, b)' = {}
        /\ \A m \in Node \ {n} : chain'[m] = chain[m]
    BY <1>0, <1>4, StopAdds
  <2> QED BY <1>1, <2>1 DEF SourcesEarlier
<1>5. CASE chain' = chain
  BY <1>5 DEF SourcesEarlier, SourcesOf, IsTransaction
<1> QED BY <1>3, <1>4, <1>5, StepBlocks

\* What a sender has sent is committed, or followed by a committed block.
SentConfirmed == \A n \in Node : \E c \in Nat : c >= sent[n] /\ IsCommitted(n, c)

\* Whatever a step hands over has a committed block after it.
LEMMA StepSentConfirmed ==
    ASSUME Typed, SentConfirmed, [Next]_vars
    PROVE  SentConfirmed'
<1>0. ChainTyped /\ MainGrown
  BY StepLasts DEF Lasting, Typed
<1>1. ASSUME NEW n \in Node, NEW c \in Nat, IsCommitted(n, c)
      PROVE  IsCommitted(n, c)'
  BY <1>0, <1>1, CommittedStays
<1>2. ASSUME NEW n \in Node, sent'[n] = sent[n]
      PROVE  \E c \in Nat : c >= sent'[n] /\ IsCommitted(n, c)'
  BY <1>1, <1>2 DEF SentConfirmed
<1>3. ASSUME NEW n \in Node, StartProof(n)
      PROVE  \E c \in Nat : c >= sent'[n] /\ IsCommitted(n, c)'
  <2>1. PICK b \in Nat : b = Least(Unsent(n)) /\ sent'[n] = b
    BY <1>3, StartSends
  <2>2. Confirmations(n, b) >= RequiredCommits
    BY <1>3, <2>1 DEF StartProof
  <2>3. PICK x \in b .. Len(chain[n]) : IsCommitted(n, x)
    BY <2>2, ConfirmedIsCommitted
  <2>4. x \in Nat /\ x >= b
    BY <2>3
  <2> QED BY <1>1, <2>1, <2>3, <2>4
<1> QED BY <1>2, <1>3, StepSent DEF SentConfirmed

\* No committed block lies before the one that a block of a copy leads to.
Direct(n, m) ==
    \A b \in 0 .. View(n, m) :
        \A c \in b .. NextCommitted(n, m, b) - 1 : ~IsCommitted(m, c)

AllDirect == \A n, m \in Node : n # m => Direct(n, m)

\* What a message appends to a copy points to the next committed block.
LEMMA ApplyDirect ==
    ASSUME Typed, FullCaches, NEW s \in Node, NEW r \in Node, Apply(s, r),
           NEW msg, msg = Head(channel[s][r]),
           Shape(msg.blocks), Complete(s, r, msg),
           NEW m \in Node, m # r, Direct(r, m)
    PROVE  Direct(r, m)'
<1> DEFINE q     == msg.blocks[m]
           first == View(r, m) + 1
           last  == q[Len(q)]
           a     == Appended(r, msg, m)
<1>1. /\ View(r, m)' = IF first \in ToSet(q) THEN last ELSE View(r, m)
      /\ \A b \in 0 .. View(r, m) :
             NextCommitted(r, m, b)' = NextCommitted(r, m, b)
      /\ \A b \in first .. View(r, m)' :
             NextCommitted(r, m, b)' = a[b - first + 1]
  BY ApplyView, SMTT(30)
<1>2. Exist(msg.blocks)
  BY HeadType, SMTT(30) DEF Apply, MessageTyped, Typed, ChannelTyped
<1>3. /\ first \in Nat
      /\ first \in ToSet(q) =>
             /\ last \in Nat /\ first <= last
             /\ \A b \in first .. last :
                   LET c == a[b - first + 1]
                   IN  /\ c \in b .. last /\ IsCommitted(m, c)
                       /\ \A x \in b .. c : a[x - first + 1] = c
                       /\ \A x \in b .. c - 1 : ~InCache(r, m, x)
  <2>1. Typed /\ Shape(msg.blocks) /\ Complete(s, r, msg) /\ r # m
    OBVIOUS
  <2> HIDE DEF q, first, last, a
  <2> QED BY <1>2, <2>1, AppendedIs, SMTT(30) DEF q, first, last, a
<1>4. View(r, m) = first - 1 /\ View(r, m) \in Int
  BY ViewType
<1>5. \A c : /\ IsCommitted(m, c)' <=> IsCommitted(m, c)
             /\ InCache(r, m, c) <=> IsCommitted(m, c)
  BY FullCacheTells DEF Typed, Apply, mainVars, IsCommitted
<1>6. \A b \in 0 .. View(r, m) :
          \A c \in b .. NextCommitted(r, m, b) - 1 : ~IsCommitted(m, c)
  BY DEF Direct
<1> HIDE DEF q, first, last, a
<1>7. ASSUME NEW b \in 0 .. View(r, m)'
      PROVE  \A c \in b .. NextCommitted(r, m, b)' - 1 : ~IsCommitted(m, c)
  <2>1. CASE b \in 0 .. View(r, m)
    BY <1>1, <1>6, <2>1
  <2>2. CASE ~(b \in 0 .. View(r, m))
    <3>1. first \in ToSet(q) /\ b \in first .. last /\ View(r, m)' = last
      BY <1>1, <1>3, <1>4, <2>2
    <3>2. NextCommitted(r, m, b)' = a[b - first + 1]
      BY <1>1, <3>1
    <3> QED BY <1>3, <1>5, <3>1, <3>2
  <2> QED BY <2>1, <2>2
<1> QED BY <1>5, <1>7 DEF Direct

\* So do the pointers of every copy, after every step.
LEMMA StepDirect ==
    ASSUME Typed, ChainInv, FullCaches, CommitsExist, AllDirect, [Next]_vars
    PROVE  AllDirect'
<1>1. ASSUME NEW n \in Node, NEW m \in Node, n # m PROVE Direct(n, m)'
  <2>1. CASE copy'[n][m] = copy[n][m]
    <3>1. /\ View(n, m)' = View(n, m)
          /\ \A b : NextCommitted(n, m, b)' = NextCommitted(n, m, b)
      BY <1>1, <2>1 DEF View, NextCommitted
    <3>2. ASSUME NEW b \in 0 .. View(n, m),
                 NEW c \in b .. NextCommitted(n, m, b) - 1
          PROVE  ~IsCommitted(m, c)'
      <4>1. PICK d : d = NextCommitted(n, m, b)
        OBVIOUS
      <4>2. d \in b .. View(n, m) /\ IsCommitted(m, d) /\ View(n, m) \in Int
        BY <1>1, <4>1, ViewType DEF ChainInv, AllSegments, Segments
      <4>3. ~IsCommitted(m, c) /\ c \in Int /\ c < d
        BY <1>1, <3>2, <4>1, <4>2 DEF AllDirect, Direct
      <4> QED BY <4>2, <4>3, CommitsGoUp
    <3> QED BY <3>1, <3>2 DEF Direct
  <2>2. ASSUME NEW s \in Node, NEW r \in Node, Apply(s, r) PROVE Direct(n, m)'
    <3>1. CASE n = r
      <4>1. PICK msg : msg = Head(channel[s][r])
        OBVIOUS
      <4>2. Shape(msg.blocks) /\ Complete(s, r, msg)
        BY <2>2, <4>1, ApplyHead
      <4>3. Direct(r, m) /\ m # r
        BY <1>1, <3>1 DEF AllDirect
      <4> QED BY <2>2, <3>1, <4>1, <4>2, <4>3, ApplyDirect
    <3>2. CASE n # r
      BY <2>1, <2>2, <3>2, ApplyCopies
    <3> QED BY <3>1, <3>2
  <2> QED BY <2>1, <2>2, StepCopies
<1> QED BY <1>1 DEF AllDirect

-----------------------------------------------------------------------------
(* A gap in the blocks of a proof is filled by what the receiver has.      *)

\* Where the blocks have a gap, the blocks from a source above it on lead to a
\* commit beyond the gap.
Joined(blocks, m) ==
    \A i \in 1 .. Len(blocks[m]) - 1 :
        blocks[m][i + 1] # blocks[m][i] + 1 =>
            \E k \in Nat :
                /\ k > blocks[m][i] /\ Included(blocks, <<m, k>>)
                /\ \A c \in k .. blocks[m][i + 1] - 1 : ~IsCommitted(m, c)

\* The receiver of a message has all its blocks once it has applied it.
LEMMA AppliedUpToLast ==
    ASSUME Typed, NEW s \in Node, NEW r \in Node, Apply(s, r),
           NEW msg, msg = Head(channel[s][r]),
           Shape(msg.blocks), Complete(s, r, msg), msg.blocks[r] = <<>>,
           NEW m \in Node, m # r, Segments(r, m), Joined(msg.blocks, m),
           msg.blocks[m] # <<>>
    PROVE  msg.blocks[m][Len(msg.blocks[m])] <= View(r, m)'
<1> DEFINE q == msg.blocks[m]
<1>1. PICK v \in Int : v = View(r, m)
  BY ViewType, SMTT(30)
<1>2. Exist(msg.blocks)
  BY HeadType DEF Apply, MessageTyped, Typed, ChannelTyped
<1>3. q \in Seq(Nat)
  BY <1>2, Zenon DEF Exist, BlockNumbers
<1>4. Len(q) \in Nat \ {0}
  BY <1>3, LenProperties, EmptySeq
<1>5. \A i \in 1 .. Len(q) : q[i] \in Nat /\ q[i] \in ToSet(q)
  BY <1>3, ElementOfSeq, ToSetType, Zenon
<1>6. PICK l \in Nat : l = q[Len(q)]
  <2>1. Len(q) \in 1 .. Len(q)
    BY <1>4
  <2> QED BY <1>5, <2>1, Zenon
<1>7. View(r, m)' = IF v + 1 \in ToSet(q) THEN l ELSE v
  BY <1>1, <1>6, ApplyView
<1>8. q[1] <= v + 1
  <2>1. Head(q) <= v + 1
    BY <1>1 DEF Complete, Attaches
  <2>2. Head(q) = q[1]
    BY <1>3
  <2> QED BY <2>1, <2>2
<1>9. \A t : Included(msg.blocks, t) => Finds(r, msg, t[1], t[2])
  BY DEF Complete
<1>10. \A i \in 1 .. Len(q) - 1 : q[i + 1] # q[i] + 1 =>
          \E k \in Nat : /\ k > q[i] /\ Included(msg.blocks, <<m, k>>)
                         /\ \A c \in k .. q[i + 1] - 1 : ~IsCommitted(m, c)
  BY Zenon DEF Joined
<1> HIDE DEF q
<1>11. CASE l <= v
  <2>1. [Next]_vars
    BY DEF Next, Work
  <2>2. View(r, m) <= View(r, m)' /\ View(r, m)' \in Int
    BY <2>1, StepViewsGrow DEF ViewsGrow
  <2> QED BY <1>1, <1>11, <1>6, <2>2, SMTT(30) DEF q
<1>12. CASE l > v
  <2> DEFINE J == {j \in 1 .. Len(q) : q[j] > v}
  <2>1. Len(q) \in J /\ J \in SUBSET Nat
    BY <1>4, <1>12, <1>6
  <2>2. PICK j \in J : \A i \in J : j <= i
    BY <2>1, LeastOrNoneType, Zenon
  <2>3. j \in 1 .. Len(q) /\ q[j] > v /\ \A i \in 1 .. Len(q) : q[i] > v => j <= i
    BY <2>2
  <2> HIDE DEF J
  <2>4. CASE j = 1
    <3>1. q[j] = v + 1 /\ q[j] \in ToSet(q)
      BY <1>5, <1>8, <2>3, <2>4
    <3> QED BY <1>7, <1>6, <3>1, SMTT(30) DEF q
  <2>5. CASE j # 1
    <3>1. PICK i \in 1 .. Len(q) - 1 : i + 1 = j
      <4>1. j - 1 \in 1 .. Len(q) - 1 /\ (j - 1) + 1 = j
        BY <1>4, <2>3, <2>5
      <4> QED BY <4>1
    <3>2. i \in 1 .. Len(q) /\ q[i] <= v /\ q[i] \in Nat /\ q[i + 1] > v
      <4>1. i \in 1 .. Len(q) /\ ~(j <= i)
        BY <1>4, <3>1
      <4> QED BY <1>5, <2>3, <3>1, <4>1
    <3>3. CASE q[i + 1] = q[i] + 1
      <4>1. q[j] = v + 1
        BY <3>1, <3>2, <3>3
      <4>2. v + 1 \in ToSet(q)
        BY <1>5, <2>3, <4>1
      <4> QED BY <1>7, <1>6, <4>2, SMTT(30) DEF q
    <3>4. CASE q[i + 1] # q[i] + 1
      <4>1. PICK k \in Nat : /\ k > q[i] /\ Included(msg.blocks, <<m, k>>)
                             /\ \A c \in k .. q[i + 1] - 1 : ~IsCommitted(m, c)
        BY <1>10, <3>4
      <4>2. Finds(r, msg, m, k)
        BY <1>9, <4>1
      <4>3. k <= View(r, m)'
        BY <4>2, FoundIsAtHand
      <4>4. CASE v + 1 \in ToSet(q)
        BY <1>7, <1>6, <4>4, SMTT(30) DEF q
      <4>5. CASE v + 1 \notin ToSet(q)
        <5>1. k \in 0 .. v
          BY <1>7, <4>3, <4>5
        <5>2. PICK d : d = NextCommitted(r, m, k)
          OBVIOUS
        <5>3. d \in k .. v /\ IsCommitted(m, d)
          BY <1>1, <5>1, <5>2 DEF Segments
        <5>4. d \in k .. q[i + 1] - 1
          BY <1>5, <2>3, <3>1, <3>2, <5>3
        <5> QED BY <4>1, <5>3, <5>4
      <4> QED BY <4>4, <4>5
    <3> QED BY <3>3, <3>4
  <2> QED BY <2>4, <2>5
<1> QED BY <1>1, <1>11, <1>12, <1>6

\* What a node finds when it starts a proof for its transaction b: the blocks
\* that r lacks up to its commit, and their sources to go through.
Started(n, b, r, own, c) ==
    /\ proof[n] = NoProof /\ chain' = chain /\ known' = known
    /\ IsTransaction(n, b) /\ r = chain[n][b].to /\ r # n
    /\ proof'[n].tx = b /\ proof'[n].calm = TRUE /\ sent'[n] = b
    /\ proof'[n].blocks[n] = own
    /\ \A m \in Node : m # n => proof'[n].blocks[m] = <<>>
    /\ \A i \in 1 .. Len(own) : own[i] = known[n][r][n] + i
    /\ own # <<>> => known[n][r][n] + Len(own) = c
    /\ own = <<>> => c <= known[n][r][n]
    /\ b <= c
    /\ \A t : (\E i \in 1 .. Len(own) : t \in SourcesOf(n, own[i])) =>
           t[2] = 0 \/ t[1] \in {n, r} \/ t \in Range(proof'[n].todo)

\* A proof begins with the unknown blocks up to the next committed one.
LEMMA StartIs ==
    ASSUME Typed, NEW n \in Node, StartProof(n)
    PROVE  \E b \in Nat, r \in Node, own \in Seq(Nat), c \in Nat :
               Started(n, b, r, own, c)
<1> DEFINE r0   == chain[n][Least(Unsent(n))].to
           own0 == BlocksToSend(n, r0, n, NextCommitted(n, n, Least(Unsent(n))))
<1>0. ChainTyped /\ ProofTyped /\ KnownTyped /\ Unsent(n) # {}
  BY DEF Typed, StartProof
<1>1. PICK b \in Nat : b = Least(Unsent(n))
  BY <1>0, UnsentType
<1>2. /\ IsTransaction(n, b) /\ r0 = chain[n][b].to /\ r0 \in Node /\ r0 # n
      /\ b \in Blocks(n)
  BY <1>0, <1>1, UnsentType, ReceiverType
<1>3. PICK r \in Node : r = r0
  BY <1>2
<1> DEFINE K == known[n][r][n]
           S == {x \in b .. Len(chain[n]) : IsCommitted(n, x)}
<1>4. PICK c : c = NextCommitted(n, n, b)
  OBVIOUS
<1>5. c \in Blocks(n) /\ c \in Nat /\ b <= c
  <2>1. S \in SUBSET Nat /\ S # {}
    <3>1. Confirmations(n, b) >= RequiredCommits
      BY <1>1 DEF StartProof
    <3> QED BY <3>1, ConfirmedIsCommitted
  <2>2. c \in S
    BY <1>4, <2>1, LeastOrNoneType DEF NextCommitted
  <2>3. Len(chain[n]) \in Nat
    BY <1>0, LenProperties DEF ChainTyped
  <2> QED BY <2>2, <2>3 DEF Blocks
<1>6. PICK own : own = BlocksToSend(n, r, n, c)
  OBVIOUS
<1>7. /\ own \in Seq(Blocks(n))
      /\ \A i \in 1 .. Len(own) : own[i] = K + i
      /\ K < c => Len(own) = c - K
      /\ c <= K => Len(own) = 0
  BY <1>0, <1>2, <1>3, <1>5, <1>6, BlocksToSendType
<1>8. own \in Seq(Nat) /\ Len(own) \in Nat /\ K \in Int
      /\ (own # <<>> <=> Len(own) # 0)
  <2>1. Blocks(n) \subseteq Nat
    BY DEF Blocks
  <2>2. own \in Seq(Nat)
    BY <1>7, <2>1, SeqMonotonic
  <2> QED BY <1>0, <2>2, LenProperties, EmptySeq DEF KnownTyped
<1>9. own0 = own
  BY <1>1, <1>3, <1>4, <1>6
<1>10. /\ proof[n] = NoProof /\ chain' = chain /\ known' = known /\ sent'[n] = b
       /\ proof'[n] = [tx |-> b,
              blocks |-> [m \in Node |-> IF m = n THEN own ELSE <<>>],
              todo |-> SourcesToProve(n, r, n, own), calm |-> TRUE]
  BY <1>0, <1>1, <1>3, <1>9 DEF StartProof, ProofTyped, storeVars
<1> HIDE DEF own0, r0, K
<1>11. /\ proof'[n].tx = b /\ proof'[n].calm = TRUE
       /\ proof'[n].todo = SourcesToProve(n, r, n, own)
       /\ proof'[n].blocks[n] = own
       /\ \A m \in Node : m # n => proof'[n].blocks[m] = <<>>
  BY <1>10
<1>12. ASSUME NEW t, \E i \in 1 .. Len(own) : t \in SourcesOf(n, own[i])
       PROVE  t[2] = 0 \/ t[1] \in {n, r} \/ t \in Range(proof'[n].todo)
  BY <1>0, <1>8, <1>11, <1>12, SourcesToProveType
<1>13. own # <<>> => K + Len(own) = c
  BY <1>5, <1>7, <1>8
<1>14. own = <<>> => c <= K
  BY <1>5, <1>7, <1>8
<1>15. Started(n, b, r, own, c)
  BY <1>2, <1>3, <1>5, <1>7, <1>10, <1>11, <1>12, <1>13, <1>14 DEF Started, K
<1> QED BY <1>5, <1>8, <1>15

\* What AddSource makes of the proof of n for r when it comes to source k of
\* m: the blocks q up to c, the commit that follows, and their sources.
Added(n, r, m, k, q, c) ==
    /\ proof[n] # NoProof /\ chain' = chain /\ known' = known
    /\ r = Receiver(n) /\ m \notin {n, r}
    /\ <<m, k>> = Head(proof[n].todo) /\ <<m, k>> \in Range(proof[n].todo)
    /\ k <= View(n, m) /\ k <= c /\ c = NextCommitted(n, m, k)
    /\ proof'[n].tx = proof[n].tx /\ proof'[n].calm = proof[n].calm
    /\ proof'[n].blocks[m] = proof[n].blocks[m] \o q
    /\ \A x \in Node : x # m => proof'[n].blocks[x] = proof[n].blocks[x]
    /\ \A i \in 1 .. Len(q) :
           q[i] = known[n][r][m] + Len(proof[n].blocks[m]) + i
    /\ q # <<>> => known[n][r][m] + Len(proof[n].blocks[m]) + Len(q) = c
    /\ q = <<>> => c <= known[n][r][m] + Len(proof[n].blocks[m])
    /\ \A t : (\E i \in 1 .. Len(q) : t \in SourcesOf(m, q[i])) =>
           t[2] = 0 \/ t[1] \in {n, r} \/ t \in Range(proof'[n].todo)
    /\ \A t \in Range(proof[n].todo) :
           t = <<m, k>> \/ t \in Range(proof'[n].todo)

\* Joining two sequences loses no element.
LEMMA RangeOfBoth ==
    ASSUME NEW S, NEW q \in Seq(S), NEW v \in Seq(S)
    PROVE  Range(q) \subseteq Range(q \o v) /\ Range(v) \subseteq Range(q \o v)
<1>1. /\ q \o v \in Seq(S) /\ Len(q) \in Nat /\ Len(v) \in Nat
      /\ Len(q \o v) = Len(q) + Len(v)
      /\ \A i \in 1 .. Len(q) + Len(v) : (q \o v)[i] =
             IF i <= Len(q) THEN q[i] ELSE v[i - Len(q)]
  BY ConcatProperties, LenProperties
<1>2. /\ DOMAIN q = 1 .. Len(q) /\ DOMAIN v = 1 .. Len(v)
      /\ DOMAIN (q \o v) = 1 .. Len(q) + Len(v)
  BY <1>1, LenProperties
<1>3. ASSUME NEW i \in DOMAIN q PROVE q[i] \in Range(q \o v)
  <2>1. i \in 1 .. Len(q) + Len(v) /\ i <= Len(q)
    BY <1>1, <1>2
  <2> QED BY <1>1, <1>2, <2>1 DEF Range
<1>4. ASSUME NEW i \in DOMAIN v PROVE v[i] \in Range(q \o v)
  <2>1. /\ i + Len(q) \in 1 .. Len(q) + Len(v) /\ ~(i + Len(q) <= Len(q))
        /\ (i + Len(q)) - Len(q) = i
    BY <1>1, <1>2
  <2>2. (q \o v)[i + Len(q)] = v[i]
    BY <1>1, <2>1
  <2> QED BY <1>2, <2>1, <2>2 DEF Range
<1> QED BY <1>3, <1>4, Zenon DEF Range

\* An element of a sequence is its head or in its tail.
LEMMA HeadOrTail ==
    ASSUME NEW S, NEW q \in Seq(S), q # <<>>, NEW x \in Range(q)
    PROVE  x = Head(q) \/ x \in Range(Tail(q))
<1>1. /\ Len(q) \in Nat \ {0} /\ DOMAIN q = 1 .. Len(q) /\ Head(q) = q[1]
      /\ Tail(q) \in Seq(S) /\ Len(Tail(q)) = Len(q) - 1
      /\ \A i \in 1 .. Len(Tail(q)) : Tail(q)[i] = q[i + 1]
  BY HeadTailProperties, EmptySeq, LenProperties
<1>2. PICK i \in 1 .. Len(q) : q[i] = x
  BY <1>1 DEF Range
<1>3. CASE i = 1
  BY <1>1, <1>2, <1>3
<1>4. CASE i # 1
  <2>1. i - 1 \in 1 .. Len(Tail(q)) /\ (i - 1) + 1 = i
    BY <1>1, <1>4
  <2>2. Tail(q)[i - 1] = x
    BY <1>1, <1>2, <2>1
  <2>3. DOMAIN Tail(q) = 1 .. Len(Tail(q))
    BY <1>1, LenProperties
  <2> QED BY <2>1, <2>2, <2>3 DEF Range
<1> QED BY <1>3, <1>4

\* What the next source adds: the unknown blocks up to the next committed one.
LEMMA AddIs ==
    ASSUME Typed, ChainInv, NEW n \in Node, AddSource(n)
    PROVE  \E r \in Node, m \in Node, k \in Nat, q \in Seq(Nat), c \in Nat :
               Added(n, r, m, k, q, c)
<1> DEFINE t == Head(proof[n].todo)
           p == proof[n].blocks
           rest == Tail(proof[n].todo)
<1>0. ChainTyped /\ ProofTyped /\ proof[n].todo # <<>>
  BY DEF Typed, AddSource
<1>1. /\ proof[n] # NoProof /\ t \in TxId /\ t[1] \in Node /\ t[2] \in Nat
      /\ Exist(p)
  BY <1>0, ProofType
<1>2. /\ Provable(n) /\ Receiver(n) \in Node /\ t[1] # Receiver(n) /\ t[1] # n
      /\ t \in Range(proof[n].todo)
      /\ rest \in Seq(TxId) /\ proof[n].todo \in Seq(TxId)
  BY <1>0, TodoIsProvable
<1>3. PICK r \in Node, m \in Node, k \in Nat :
          r = Receiver(n) /\ m = t[1] /\ k = t[2] /\ t = <<m, k>>
  BY <1>1, <1>2 DEF TxId
<1> DEFINE q == NewBlocks(n)
           c == NextCommitted(n, m, k)
<1>4. /\ q \in Seq(Nat) /\ c \in Nat
      /\ \A i \in 1 .. Len(q) : q[i] = known[n][r][m] + Len(p[m]) + i
      /\ q # <<>> => known[n][r][m] + Len(p[m]) + Len(q) = c
      /\ q = <<>> => c <= known[n][r][m] + Len(p[m])
  BY <1>0, <1>2, <1>3, NewBlocksAre, Zenon
<1>5. k <= View(n, m) /\ c # NoBlock
  BY <1>2, <1>3 DEF Provable
<1>6. k <= c
  <2>1. k \in 0 .. View(n, m) /\ Segments(n, m)
    BY <1>2, <1>3, <1>5, ViewType DEF ChainInv, AllSegments
  <2> QED BY <1>3, <2>1 DEF Segments
<1> DEFINE more == [p EXCEPT ![m] = p[m] \o q]
           todo == SourcesToProve(n, r, m, q) \o rest
<1>7. /\ proof'[n] = [proof[n] EXCEPT !.blocks = more, !.todo = todo]
      /\ chain' = chain /\ known' = known
  BY <1>0, <1>3, <1>5 DEF AddSource, ProofTyped, storeVars
<1>8. more[m] = p[m] \o q /\ \A x \in Node : x # m => more[x] = p[x]
  BY <1>1, Zenon DEF Exist
<1>9. /\ proof'[n].blocks = more /\ proof'[n].todo = todo
      /\ proof'[n].tx = proof[n].tx /\ proof'[n].calm = proof[n].calm
  <2> HIDE DEF more, todo
  <2> QED BY <1>0, <1>7 DEF ProofTyped
<1>10. /\ SourcesToProve(n, r, m, q) \in Seq(TxId)
       /\ \A u : u \in Range(SourcesToProve(n, r, m, q)) <=>
                     /\ u[2] # 0 /\ u[1] \notin {n, r}
                     /\ \E i \in 1 .. Len(q) : u \in SourcesOf(m, q[i])
  BY <1>0, <1>4, SourcesToProveType, Zenon
<1>11. /\ Range(SourcesToProve(n, r, m, q)) \subseteq Range(todo)
       /\ Range(rest) \subseteq Range(todo)
  BY <1>2, <1>10, RangeOfBoth, Zenon
<1>12. \A u \in Range(proof[n].todo) : u = t \/ u \in Range(rest)
  BY <1>0, <1>2, HeadOrTail
<1> HIDE DEF more, todo, rest, t, q
<1>13. ASSUME NEW u, \E i \in 1 .. Len(q) : u \in SourcesOf(m, q[i])
       PROVE  u[2] = 0 \/ u[1] \in {n, r} \/ u \in Range(proof'[n].todo)
  BY <1>9, <1>10, <1>11, <1>13
<1>14. \A u \in Range(proof[n].todo) : u = <<m, k>> \/ u \in Range(proof'[n].todo)
  BY <1>3, <1>9, <1>11, <1>12
<1>15. <<m, k>> = Head(proof[n].todo) /\ m \notin {n, r}
  BY <1>2, <1>3 DEF t
<1>16. Added(n, r, m, k, q, c)
  BY <1>1, <1>2, <1>3, <1>4, <1>5, <1>6, <1>7, <1>8, <1>9, <1>13, <1>14, <1>15, Zenon
     DEF Added
<1> QED BY <1>4, <1>16

\* What joins the blocks of a proof is not undone by a step.
LEMMA JoinedStays ==
    ASSUME Typed, CommitsExist, [Next]_vars, NEW blocks, Exist(blocks), Shape(blocks),
           NEW m \in Node, Joined(blocks, m)
    PROVE  Joined(blocks, m)'
<1>0. ChainTyped /\ Grown
  BY StepLasts DEF Lasting, Typed
<1> DEFINE q == blocks[m]
<1>1. q \in Seq(Nat) /\ Len(q) \in Nat /\ \A i \in 1 .. Len(q) : q[i] \in Nat
  BY ElementOfSeq, LenProperties DEF Exist, BlockNumbers
<1>2. Ascends(q) /\ (q # <<>> => IsCommitted(m, q[Len(q)]))
  BY DEF Shape, EndCommitted
<1>3. \A i \in 1 .. Len(q) - 1 : q[i + 1] # q[i] + 1 =>
          \E k \in Nat : /\ k > q[i] /\ Included(blocks, <<m, k>>)
                         /\ \A c \in k .. q[i + 1] - 1 : ~IsCommitted(m, c)
  BY DEF Joined
<1>4. \A t : Included(blocks, t) => Included(blocks, t)'
  BY <1>0, IncludedStays
<1> HIDE DEF q
<1>5. ASSUME NEW i \in 1 .. Len(q) - 1, q[i + 1] # q[i] + 1
      PROVE  \E k \in Nat : /\ k > q[i] /\ Included(blocks, <<m, k>>)'
                            /\ \A c \in k .. q[i + 1] - 1 : ~IsCommitted(m, c)'
  <2>1. PICK k \in Nat : /\ k > q[i] /\ Included(blocks, <<m, k>>)
                         /\ \A c \in k .. q[i + 1] - 1 : ~IsCommitted(m, c)
    BY <1>3, <1>5
  <2>2. /\ i + 1 \in 1 .. Len(q) /\ Len(q) \in 1 .. Len(q) /\ i + 1 <= Len(q)
        /\ q # <<>>
    BY <1>1, EmptySeq
  <2>3. q[i + 1] <= q[Len(q)]
    <3>1. i + 1 < Len(q) => q[i + 1] < q[Len(q)]
      BY <1>2, <2>2 DEF Ascends
    <3>2. q[i + 1] \in Nat /\ q[Len(q)] \in Nat
      BY <1>1, <2>2
    <3>3. i + 1 = Len(q) => q[i + 1] = q[Len(q)]
      OBVIOUS
    <3>4. i + 1 < Len(q) \/ i + 1 = Len(q)
      BY <1>1, <2>2
    <3> QED BY <3>1, <3>2, <3>3, <3>4
  <2>4. ASSUME NEW c \in k .. q[i + 1] - 1 PROVE ~IsCommitted(m, c)'
    <3>1. c \in Int /\ c < q[Len(q)]
      BY <1>1, <2>2, <2>3
    <3>2. ~IsCommitted(m, c) /\ IsCommitted(m, q[Len(q)])
      BY <1>2, <2>1, <2>2
    <3> QED BY <3>1, <3>2, CommitsGoUp
  <2> QED BY <1>4, <2>1, <2>4
<1> QED BY <1>5 DEF Joined, q

\* Blocks that are added to a proof are joined to those before.
LEMMA ExtendJoined ==
    ASSUME NEW blocks, Exist(blocks), NEW m \in Node, NEW q \in Seq(Nat),
           NEW base \in Int, \A i \in 1 .. Len(q) : q[i] = base + i,
           q # <<>> /\ blocks[m] # <<>> =>
               \E k \in Nat : /\ k > blocks[m][Len(blocks[m])]
                              /\ Included(blocks, <<m, k>>)
                              /\ \A c \in k .. base : ~IsCommitted(m, c),
           NEW more, more[m] = blocks[m] \o q,
           \A t : Included(blocks, t) => Included(more, t),
           Joined(blocks, m)
    PROVE  Joined(more, m)
<1> DEFINE p == blocks[m]
           z == p \o q
<1>1. p \in Seq(Nat)
  BY DEF Exist, BlockNumbers
<1>2. \A i \in 1 .. Len(p) - 1 : p[i + 1] # p[i] + 1 =>
          \E k \in Nat : /\ k > p[i] /\ Included(blocks, <<m, k>>)
                         /\ \A c \in k .. p[i + 1] - 1 : ~IsCommitted(m, c)
  BY Zenon DEF Joined
<1>3. more[m] = z
      /\ (q # <<>> /\ p # <<>> =>
             \E k \in Nat : /\ k > p[Len(p)] /\ Included(blocks, <<m, k>>)
                            /\ \A c \in k .. base : ~IsCommitted(m, c))
  BY Zenon
<1> HIDE DEF p
<1>4. Len(p) \in Nat /\ Len(q) \in Nat
  BY <1>1, LenProperties
<1>5. /\ z \in Seq(Nat) /\ Len(z) = Len(p) + Len(q)
      /\ \A i \in 1 .. Len(p) + Len(q) : z[i] = IF i <= Len(p) THEN p[i] ELSE q[i - Len(p)]
  BY <1>1, ConcatProperties
<1> HIDE DEF z
<1>6. \A i \in Len(p) + 1 .. Len(z) : z[i] = base + (i - Len(p))
  <2>1. ASSUME NEW i \in Len(p) + 1 .. Len(z) PROVE z[i] = base + (i - Len(p))
    <3>1. i - Len(p) \in 1 .. Len(q) /\ i \in 1 .. Len(p) + Len(q) /\ ~(i <= Len(p))
      BY <1>4, <1>5
    <3> QED BY <1>5, <3>1, Zenon
  <2> QED BY <2>1
<1>7. ASSUME NEW i \in 1 .. Len(z) - 1, z[i + 1] # z[i] + 1
      PROVE  \E k \in Nat : /\ k > z[i] /\ Included(more, <<m, k>>)
                            /\ \A c \in k .. z[i + 1] - 1 : ~IsCommitted(m, c)
  <2>1. i \in Nat \ {0} /\ i < Len(p) + Len(q) /\ Len(z) \in Nat
    BY <1>4, <1>5
  <2>2. CASE i < Len(p)
    <3>1. /\ i \in 1 .. Len(p) - 1 /\ i \in 1 .. Len(p) + Len(q) /\ i <= Len(p)
          /\ i + 1 \in 1 .. Len(p) + Len(q) /\ i + 1 <= Len(p)
      BY <1>4, <2>1, <2>2
    <3>2. z[i] = p[i] /\ z[i + 1] = p[i + 1]
      BY <1>5, <3>1, Zenon
    <3> QED BY <1>2, <1>7, <3>1, <3>2, Zenon
  <2>3. CASE i = Len(p)
    <3>1. /\ i \in 1 .. Len(p) + Len(q) /\ i <= Len(p) /\ i + 1 \in Len(p) + 1 .. Len(z)
          /\ (i + 1) - Len(p) = 1 /\ Len(q) # 0 /\ Len(p) # 0
      BY <1>4, <1>5, <2>1, <2>3
    <3>2. z[i] = p[Len(p)] /\ z[i + 1] = base + 1 /\ q # <<>> /\ p # <<>>
      BY <1>5, <1>6, <2>3, <3>1, EmptySeq, Zenon
    <3>3. z[i + 1] - 1 = base
      BY <3>2
    <3> QED BY <1>3, <3>2, <3>3, Zenon
  <2>4. CASE i > Len(p)
    <3>1. /\ i \in Len(p) + 1 .. Len(z) /\ i + 1 \in Len(p) + 1 .. Len(z)
          /\ base + ((i + 1) - Len(p)) = base + (i - Len(p)) + 1
      BY <1>4, <1>5, <2>1, <2>4, SMTT(30)
    <3>2. z[i] = base + (i - Len(p)) /\ z[i + 1] = base + ((i + 1) - Len(p))
      BY <1>6, <3>1, Zenon
    <3>3. z[i + 1] = z[i] + 1
      BY <3>1, <3>2
    <3> QED BY <1>7, <3>3
  <2>5. i < Len(p) \/ i = Len(p) \/ i > Len(p)
    <3>1. \A x, y \in Int : x < y \/ x = y \/ x > y
      OBVIOUS
    <3>2. i \in Int /\ Len(p) \in Int
      BY <1>4, <2>1
    <3> QED BY <3>1, <3>2, Zenon
  <2> QED BY <2>2, <2>3, <2>4, <2>5, Zenon
<1> QED BY <1>3, <1>7 DEF Joined

ProofsJoined == \A n, m \in Node : Joined(proof[n].blocks, m)

MessagesJoined ==
    \A s, r, m \in Node : \A i \in DOMAIN channel[s][r] :
        Joined(channel[s][r][i].blocks, m)

\* The next source keeps the parts of a proof joined.
LEMMA AddKeepsJoined ==
    ASSUME Typed, ChainInv, AllDirect, ProofsJoined, NEW n \in Node, AddSource(n)
    PROVE  \A x \in Node : Joined(proof'[n].blocks, x)
<1>1. PICK r \in Node, m \in Node, k \in Nat, q \in Seq(Nat), c \in Nat :
          Added(n, r, m, k, q, c)
  BY AddIs
<1> DEFINE p    == proof[n].blocks
           more == proof'[n].blocks
           K    == known[n][r][m]
           P    == Len(p[m])
<1>2. BuiltFor(n, r, p, proof[n].todo) /\ m # n /\ <<m, k>> \in Range(proof[n].todo)
  BY <1>1 DEF Added, ChainInv, AllBuilt
<1>3. Exist(p) /\ Shape(p) /\ Included(p, <<m, k>>)
  BY <1>2 DEF Typed, ProofTyped, BuiltFor
<1>4. K \in Int /\ P \in Nat /\ p[m] \in Seq(Nat) /\ Len(q) \in Nat
  BY <1>3, LenProperties DEF Typed, KnownTyped, Exist, BlockNumbers
<1>5. /\ more[m] = p[m] \o q /\ \A x \in Node : x # m => more[x] = p[x]
      /\ \A i \in 1 .. Len(q) : q[i] = K + P + i
      /\ q # <<>> => K + P + Len(q) = c
      /\ k <= c /\ k <= View(n, m) /\ c = NextCommitted(n, m, k)
  BY <1>1 DEF Added
<1>6. \A x \in k .. c - 1 : ~IsCommitted(m, x)
  <2>1. k \in 0 .. View(n, m)
    BY <1>5, ViewType
  <2> QED BY <1>2, <1>5, <2>1 DEF AllDirect, Direct
<1>7. p[m] # <<>> => p[m][P] \in Nat /\ IsCommitted(m, p[m][P]) /\ p[m][P] <= K + P
  <2>1. ASSUME p[m] # <<>> PROVE P \in 1 .. P
    BY <1>4, <2>1, EmptySeq
  <2> QED BY <1>2, <1>3, <1>4, <2>1, ElementOfSeq, Zenon DEF BuiltFor, Shape, EndCommitted
<1>8. /\ Joined(p, m) /\ \A x \in Node : Joined(p, x)
      /\ (p[m] # <<>> => p[m][P] = p[m][Len(p[m])])
  BY DEF ProofsJoined
<1> HIDE DEF p, more, K, P
<1>9. Len(q) = 0 <=> q = <<>>
  BY EmptySeq
<1>10. ASSUME q # <<>>, p[m] # <<>>
       PROVE  /\ k > p[m][Len(p[m])]
              /\ \A x \in k .. K + P : ~IsCommitted(m, x)
  <2>1. K + P + Len(q) = c /\ Len(q) > 0
    BY <1>4, <1>5, <1>9, <1>10
  <2>2. K + P <= c - 1
    BY <1>4, <2>1
  <2>3. PICK l \in Nat : l = p[m][P] /\ l <= K + P /\ IsCommitted(m, l)
    BY <1>7, <1>10
  <2>4. ~(k <= l)
    <3>1. ASSUME k <= l PROVE l \in k .. c - 1
      BY <1>4, <2>2, <2>3, <3>1
    <3> QED BY <1>6, <2>3, <3>1
  <2>5. k > l
    BY <2>3, <2>4
  <2>6. \A x \in k .. K + P : x \in k .. c - 1
    BY <1>4, <2>2
  <2>7. \A x \in k .. K + P : ~IsCommitted(m, x)
    BY <1>6, <2>6
  <2>8. p[m][Len(p[m])] = l
    BY <1>8, <1>10, <2>3
  <2> QED BY <2>5, <2>7, <2>8
<1>11. \A t : Included(p, t) => Included(more, t)
  <2>1. ASSUME NEW t, NEW x \in Node, NEW i \in 1 .. Len(p[x]),
               t \in SourcesOf(x, p[x][i])
        PROVE  Included(more, t)
    <3>1. CASE x # m
      BY <1>5, <2>1, <3>1, Zenon DEF Included
    <3>2. CASE x = m
      <4>1. i \in 1 .. Len(p[m] \o q) /\ (p[m] \o q)[i] = p[m][i]
        <5>1. i \in 1 .. Len(p[m]) /\ Len(p[m]) \in Nat
          BY <1>4, <3>2, LenProperties
        <5>2. i \in 1 .. Len(p[m]) + Len(q) /\ i <= Len(p[m])
          BY <1>4, <5>1
        <5> QED BY <1>4, <5>2, ConcatProperties
      <4> QED BY <1>5, <2>1, <3>2, <4>1 DEF Included
    <3> QED BY <3>1, <3>2
  <2> QED BY <2>1, Zenon DEF Included
<1>12. Joined(more, m)
  <2>1. PICK base \in Int : base = K + P
    BY <1>4
  <2>2. \A i \in 1 .. Len(q) : q[i] = base + i
    BY <1>5, <2>1, Zenon
  <2>3. q # <<>> /\ p[m] # <<>> =>
            \E j \in Nat : /\ j > p[m][Len(p[m])] /\ Included(p, <<m, j>>)
                           /\ \A x \in j .. base : ~IsCommitted(m, x)
    BY <1>3, <1>10, <2>1, Zenon
  <2>4. more[m] = p[m] \o q /\ Joined(p, m) /\ Exist(p)
    BY <1>3, <1>5, <1>8
  <2> QED BY <1>11, <2>2, <2>3, <2>4, ExtendJoined, Zenon
<1>13. ASSUME NEW x \in Node, x # m PROVE Joined(more, x)
  <2>1. more[x] = p[x] /\ Joined(p, x)
    BY <1>5, <1>8, <1>13
  <2> QED BY <1>11, <2>1 DEF Joined
<1> QED BY <1>12, <1>13 DEF more

\* Every step keeps the proofs under construction joined.
LEMMA StepProofsJoined ==
    ASSUME Typed, ChainInv, CommitsExist, AllDirect, ProofsJoined, [Next]_vars
    PROVE  ProofsJoined'
<1>0. ProofTyped /\ NoProof.blocks = [m \in Node |-> <<>>] /\ Len(<<>>) = 0
  BY DEF Typed, NoProof
<1>1. ASSUME NEW n \in Node, NEW m \in Node PROVE Joined(proof[n].blocks, m)'
  <2>1. PICK blocks : blocks = proof'[n].blocks
    OBVIOUS
  <2>2. CASE blocks[m] = <<>>
    BY <1>0, <2>1, <2>2 DEF Joined
  <2>3. CASE proof[n] # NoProof /\ proof'[n].blocks = proof[n].blocks
    <3>1. Exist(blocks) /\ Shape(blocks) /\ Joined(blocks, m)
      BY <1>0, <2>1, <2>3 DEF ProofTyped, ChainInv, AllBuilt, BuiltFor, ProofsJoined
    <3>2. Joined(blocks, m)'
      BY <3>1, JoinedStays
    <3> QED BY <2>1, <3>2
  <2>4. CASE StartProof(n)
    <3>1. PICK b \in Nat, r \in Node, own \in Seq(Nat), c \in Nat :
              Started(n, b, r, own, c)
      BY <2>4, StartIs
    <3>2. /\ blocks[n] = own /\ \A i \in 1 .. Len(own) : own[i] = known[n][r][n] + i
          /\ m # n => blocks[m] = <<>>
      BY <2>1, <3>1 DEF Started
    <3>3. CASE m = n
      <4>1. \A i \in 1 .. Len(own) - 1 : own[i + 1] = own[i] + 1
        <5>1. ASSUME NEW i \in 1 .. Len(own) - 1 PROVE own[i + 1] = own[i] + 1
          <6>1. PICK K \in Int : K = known[n][r][n]
            BY DEF Typed, KnownTyped
          <6>2. Len(own) \in Nat
            BY LenProperties
          <6>3. i \in 1 .. Len(own) /\ i + 1 \in 1 .. Len(own) /\ i \in Nat
            BY <6>2
          <6>4. own[i] = K + i /\ own[i + 1] = K + (i + 1)
            BY <3>2, <6>1, <6>3
          <6>5. K + (i + 1) = (K + i) + 1
            BY <6>3
          <6> QED BY <6>4, <6>5
        <5> QED BY <5>1
      <4> QED BY <2>1, <3>2, <3>3, <4>1, Zenon DEF Joined
    <3> QED BY <2>2, <3>2, <3>3
  <2>5. CASE AddSource(n)
    <3>1. /\ Exist(blocks) /\ Shape(blocks) /\ chain' = chain /\ mainChain' = mainChain
      BY <2>1, <2>5, AddKeepsBuilt, Zenon DEF BuiltFor, AddSource, mainVars
    <3>2. Joined(blocks, m)
      BY <2>1, <2>5, AddKeepsJoined
    <3>3. Joined(blocks, m)'
      BY <3>1, <3>2 DEF Joined, Included, SourcesOf, IsTransaction, IsCommitted
    <3> QED BY <2>1, <3>3
  <2>6. proof'[n] = NoProof => blocks[m] = <<>>
    BY <1>0, <2>1
  <2> QED BY <2>2, <2>3, <2>4, <2>5, <2>6, StepProof
<1> QED BY <1>1 DEF ProofsJoined

\* So are the messages that are sent.
LEMMA StepMessagesJoined ==
    ASSUME Typed, ChainInv, CommitsExist, ProofsJoined, MessagesJoined, [Next]_vars
    PROVE  MessagesJoined'
<1>1. ASSUME NEW s \in Node, NEW r \in Node, NEW m \in Node,
             NEW i \in DOMAIN channel'[s][r]
      PROVE  Joined(channel[s][r][i].blocks, m)'
  <2>1. PICK blocks : blocks = channel'[s][r][i].blocks
    OBVIOUS
  <2>2. Exist(blocks) /\ Shape(blocks) /\ Joined(blocks, m)
    <3>1. CASE \E j \in DOMAIN channel[s][r] : channel'[s][r][i] = channel[s][r][j]
      <4>1. PICK j \in DOMAIN channel[s][r] : channel'[s][r][i] = channel[s][r][j]
        BY <3>1
      <4>2. Exist(blocks)
        BY <2>1, <4>1 DEF Typed, ChannelTyped, MessageTyped
      <4> QED BY <2>1, <4>1, <4>2 DEF ChainInv, AllShaped, MessagesJoined
    <3>2. CASE SendProof(s) /\ r = Receiver(s) /\ channel'[s][r][i] = Sending(s)
      <4>1. proof[s] # NoProof /\ Exist(proof[s].blocks)
        BY <3>2, SendAppends
      <4>2. blocks = proof[s].blocks
        BY <2>1, <3>2 DEF Sending
      <4>3. BuiltFor(s, r, proof[s].blocks, proof[s].todo)
        BY <3>2, <4>1 DEF ChainInv, AllBuilt
      <4> QED BY <4>1, <4>2, <4>3 DEF BuiltFor, ProofsJoined
    <3> QED BY <3>1, <3>2, StepMessages
  <2>3. Joined(blocks, m)'
    BY <2>2, JoinedStays
  <2> QED BY <2>1, <2>3
<1> QED BY <1>1 DEF MessagesJoined

\* The sender of a message has its blocks.
SendersHave ==
    \A s, r, m \in Node : \A i \in DOMAIN channel[s][r] :
        LET q == channel[s][r][i].blocks[m]
        IN  \A j \in 1 .. Len(q) : q[j] <= View(s, m)

\* Senders have the blocks that they tell of.
LEMMA StepSendersHave ==
    ASSUME Typed, ChainInv, SendersHave, [Next]_vars
    PROVE  SendersHave'
<1>1. ASSUME NEW s \in Node, NEW r \in Node, NEW m \in Node,
             NEW i \in DOMAIN channel'[s][r],
             NEW j \in 1 .. Len(channel'[s][r][i].blocks[m])
      PROVE  channel'[s][r][i].blocks[m][j] <= View(s, m)'
  <2>1. PICK blocks : blocks = channel'[s][r][i].blocks
    OBVIOUS
  <2>2. Exist(blocks) /\ blocks[m][j] <= View(s, m)
    <3>1. CASE \E x \in DOMAIN channel[s][r] : channel'[s][r][i] = channel[s][r][x]
      <4>1. PICK x \in DOMAIN channel[s][r] : channel'[s][r][i] = channel[s][r][x]
        BY <3>1
      <4>2. Exist(blocks)
        BY <2>1, <4>1 DEF Typed, ChannelTyped, MessageTyped
      <4> QED BY <1>1, <2>1, <4>1, <4>2 DEF SendersHave
    <3>2. CASE SendProof(s) /\ r = Receiver(s) /\ channel'[s][r][i] = Sending(s)
      <4>1. proof[s] # NoProof /\ Exist(proof[s].blocks)
        BY <3>2, SendAppends
      <4>2. blocks = proof[s].blocks
        BY <2>1, <3>2 DEF Sending
      <4>3. BuiltFor(s, r, proof[s].blocks, proof[s].todo)
        BY <3>2, <4>1 DEF ChainInv, AllBuilt
      <4> QED BY <1>1, <2>1, <4>1, <4>2, <4>3 DEF BuiltFor
    <3> QED BY <3>1, <3>2, StepMessages
  <2>3. blocks[m][j] \in Nat
    BY <1>1, <2>1, <2>2, ElementOfSeq, Zenon DEF Exist, BlockNumbers
  <2>4. View(s, m) \in Int /\ View(s, m)' \in Int /\ View(s, m) <= View(s, m)'
    BY StepViewsGrow DEF ViewsGrow
  <2> QED BY <2>1, <2>2, <2>3, <2>4
<1> QED BY <1>1 DEF SendersHave

-----------------------------------------------------------------------------
(* Without a failure, what a node takes a peer to know is underway to it.  *)

\* Block b of m is with r, or will be when it has applied the first k messages
\* of s.
Reached(s, r, m, k, b) ==
    \/ b <= View(r, m)
    \/ \E j \in 1 .. k : LET q == channel[s][r][j].blocks[m]
                         IN  q # <<>> /\ b <= q[Len(q)]

KnownReached ==
    \A s, r, m \in Node :
        Reached(s, r, m, Len(channel[s][r]), known[s][r][m])

MessagesAttach ==
    \A s, r, m \in Node : \A i \in DOMAIN channel[s][r] :
        LET q == channel[s][r][i].blocks[m]
        IN  q # <<>> => Reached(s, r, m, i - 1, q[1] - 1)

\* The messages of s to r after a step that loses none: the first d of them,
\* one at most, have been applied, and one may have been added.
Shifted(s, r, d) ==
    /\ d = 0 \/ (d = 1 /\ Apply(s, r))
    /\ Len(channel[s][r]) - d <= Len(channel'[s][r])
    /\ \A j \in d + 1 .. Len(channel[s][r]) :
           channel'[s][r][j - d] = channel[s][r][j]
    /\ \A i \in DOMAIN channel'[s][r] :
           \/ /\ i + d \in DOMAIN channel[s][r]
              /\ channel'[s][r][i] = channel[s][r][i + d]
           \/ /\ SendProof(s) /\ r = Receiver(s)
              /\ i = Len(channel[s][r]) + 1 /\ channel'[s][r][i] = Sending(s)
    /\ SendProof(s) /\ r = Receiver(s) =>
           /\ Len(channel'[s][r]) = Len(channel[s][r]) + 1
           /\ channel'[s][r][Len(channel[s][r]) + 1] = Sending(s)

\* A step without failure takes one message from a channel at most, and that to apply it.
LEMMA QuietStep ==
    ASSUME Typed, [Next]_vars, failure' = "none", NEW s \in Node, NEW r \in Node
    PROVE  \E d \in {0, 1} : Shifted(s, r, d)
<1> DEFINE q    == channel[s][r]
           next == channel'[s][r]
           goal == \E d \in {0, 1} : Shifted(s, r, d)
<1>0. /\ ChannelTyped /\ channel \in [Node -> [Node -> Seq(Message)]]
      /\ q \in Seq(Message) /\ Len(q) \in Nat /\ DOMAIN q = 1 .. Len(q)
  <2>1. ChannelTyped /\ channel \in [Node -> [Node -> Seq(Message)]]
    BY Zenon DEF Typed, ChannelTyped, Message
  <2> QED BY <2>1, LenProperties
<1>1. CASE SendProof(s) /\ r = Receiver(s)
  <2>1. Sending(s) \in Message /\ next = Append(q, Sending(s))
    BY <1>1, SendAppends
  <2>2. /\ next \in Seq(Message) /\ Len(next) = Len(q) + 1
        /\ \A x \in 1 .. Len(q) : next[x] = q[x]
        /\ next[Len(q) + 1] = Sending(s)
    BY <1>0, <2>1, AppendProperties
  <2>3. DOMAIN next = 1 .. Len(q) + 1
    BY <2>2, LenProperties
  <2>4. \A j \in 0 + 1 .. Len(q) : j - 0 = j /\ next[j] = q[j]
    BY <1>0, <2>2
  <2>5. ASSUME NEW i \in DOMAIN next
        PROVE  \/ i + 0 \in DOMAIN q /\ next[i] = q[i + 0]
               \/ i = Len(q) + 1 /\ next[i] = Sending(s)
    <3>1. CASE i \in 1 .. Len(q)
      BY <1>0, <2>2, <3>1
    <3>2. CASE i \notin 1 .. Len(q)
      BY <1>0, <2>2, <2>3, <3>2
    <3> QED BY <3>1, <3>2
  <2>6. Len(q) - 0 <= Len(next)
    BY <1>0, <2>2
  <2> HIDE DEF q, next
  <2>7. Shifted(s, r, 0)
    BY <1>1, <2>2, <2>4, <2>5, <2>6 DEF Shifted, q, next
  <2> QED BY <2>7
<1>2. CASE next = q /\ ~(SendProof(s) /\ r = Receiver(s))
  <2>1. \A j \in 0 + 1 .. Len(q) : j - 0 = j
    BY <1>0
  <2>2. \A i \in DOMAIN q : i + 0 = i
    BY <1>0
  <2>3. Len(q) - 0 <= Len(q)
    BY <1>0
  <2>4. Shifted(s, r, 0)
    BY <1>2, <2>1, <2>2, <2>3 DEF Shifted
  <2> QED BY <2>4
<1>3. CASE Apply(s, r) /\ ~(SendProof(s) /\ r = Receiver(s))
  <2>1. channel' = [channel EXCEPT ![s][r] = SubSeq(q, 2, Len(q))] /\ q # <<>>
    BY <1>0, <1>3 DEF Apply, Drop, ChannelTyped
  <2>2. next = SubSeq(q, 2, Len(q)) /\ Len(q) # 0
    BY <1>0, <2>1, EmptySeq
  <2>3. PICK k \in Nat : k = Len(q) /\ k <= Len(q) /\ k # 0
    BY <1>0, <2>2
  <2>4. /\ next \in Seq(Message)
        /\ Len(next) = IF 2 <= k THEN k - 2 + 1 ELSE 0
        /\ \A x \in 1 .. Len(next) : next[x] = q[2 + x - 1]
    <3>1. LET v == SubSeq(channel[s][r], 2, k)
          IN  /\ v \in Seq(Message)
              /\ Len(v) = IF 2 <= k THEN k - 2 + 1 ELSE 0
              /\ \A x \in 1 .. Len(v) : v[x] = channel[s][r][2 + x - 1]
      BY <1>0, <2>3, MessagesOf
    <3> QED BY <2>2, <2>3, <3>1
  <2> HIDE DEF q, next
  <2>5. Len(next) = k - 1
    BY <2>3, <2>4
  <2>6. DOMAIN next = 1 .. k - 1
    BY <2>4, <2>5, LenProperties
  <2>7. \A x \in 1 .. k - 1 : next[x] = q[x + 1] /\ x + 1 \in 1 .. k
    <3>1. ASSUME NEW x \in 1 .. k - 1 PROVE next[x] = q[x + 1] /\ x + 1 \in 1 .. k
      <4>1. x \in 1 .. Len(next) /\ 2 + x - 1 = x + 1 /\ x + 1 \in 1 .. k
        BY <2>3, <2>5
      <4> QED BY <2>4, <4>1
    <3> QED BY <3>1
  <2>8. ASSUME NEW j \in 1 + 1 .. k PROVE next[j - 1] = q[j]
    <3>1. j - 1 \in 1 .. k - 1 /\ (j - 1) + 1 = j
      BY <2>3
    <3> QED BY <2>7, <3>1
  <2>9. k - 1 <= Len(next)
    BY <2>3, <2>5
  <2>10. Shifted(s, r, 1)
    BY <1>0, <1>3, <2>3, <2>6, <2>7, <2>8, <2>9, Zenon DEF Shifted, q, next
  <2> QED BY <2>10
<1> HIDE DEF goal
<1>4. \A reason \in {"network", "lag", "race", "honest"} : ~Fail(reason)
  BY DEF Fail
<1>5. \A n, a, b \in Node : ~SendFails(n) /\ ~ConnectionBreaks(a, b)
  BY <1>4 DEF SendFails, ConnectionBreaks
<1>6. ASSUME NEW n \in Node, SendProof(n) PROVE goal
  BY <1>1, <1>2, <1>6, SendAppends DEF goal
<1>7. ASSUME NEW a \in Node, NEW b \in Node, Verify(a, b) PROVE next = q
  <2>1. Refusal(b, Head(channel[a][b])) \in {"network", "lag", "race", "honest"}
    BY DEF Refusal
  <2> QED BY <1>4, <1>7, <2>1 DEF Verify
<1>8. ASSUME NEW a \in Node, NEW b \in Node, Apply(a, b) PROVE goal
  <2>1. channel' = [channel EXCEPT ![a][b] =
                        SubSeq(channel[a][b], 2, Len(channel[a][b]))]
    BY <1>8 DEF Apply, Drop
  <2>2. CASE a # s \/ b # r
    <3>1. next = q
      BY <1>0, <2>1, <2>2
    <3> QED BY <1>1, <1>2, <3>1 DEF goal
  <2>3. CASE a = s /\ b = r
    BY <1>1, <1>3, <1>8, <2>3 DEF goal
  <2> QED BY <2>2, <2>3
<1>9. ASSUME NEW n \in Node,
             UpdateCache(n) \/ AddSource(n) \/ StartProof(n) \/ Pay(n) \/ Stop(n)
      PROVE  next = q
  BY <1>9 DEF UpdateCache, AddSource, StartProof, Pay, Stop, netVars
<1>10. ASSUME UNCHANGED vars PROVE next = q
  BY <1>10 DEF vars, netVars
<1>11. goal
  BY <1>1, <1>2, <1>5, <1>6, <1>7, <1>8, <1>9, <1>10 DEF Next, Work, Fault, goal
<1> QED BY <1>11 DEF goal

\* What changes in what s takes r to know: the last block of a proof of s for
\* r, or of r for s.
LEMMA KnownChanges ==
    ASSUME Typed, [Next]_vars, NEW s \in Node, NEW r \in Node, NEW m \in Node,
           known'[s][r][m] # known[s][r][m]
    PROVE  \E q \in Seq(Nat) :
               /\ q # <<>> /\ m # r /\ known'[s][r][m] = q[Len(q)]
               /\ \/ SendProof(s) /\ r = Receiver(s) /\ q = proof[s].blocks[m]
                  \/ Apply(r, s) /\ q = Head(channel[r][s]).blocks[m]
<1>0. /\ ChainTyped /\ KnownTyped /\ ChannelTyped /\ ProofTyped
      /\ known \in [Node -> [Node -> [Node -> Nat \cup {-1}]]]
  BY DEF Typed, KnownTyped
<1>1. ASSUME NEW n \in Node, NEW p \in Node, NEW blocks, Exist(blocks),
             known' = [known EXCEPT ![n][p] = Learn(n, p, blocks)]
      PROVE  /\ n = s /\ p = r /\ blocks[m] \in Seq(Nat) /\ blocks[m] # <<>> /\ m # r
             /\ known'[s][r][m] = blocks[m][Len(blocks[m])]
  <2>1. PICK l : l = Learn(n, p, blocks)
    OBVIOUS
  <2>2. known'[s][r] = IF n = s /\ p = r THEN l ELSE known[s][r]
    BY <1>0, <1>1, <2>1
  <2>3. n = s /\ p = r /\ known'[s][r][m] = l[m]
    BY <2>2
  <2>4. l[m] = IF m = p \/ blocks[m] = <<>> \/ Last(blocks[m]) < known[n][p][m]
               THEN known[n][p][m] ELSE Last(blocks[m])
    BY <2>1 DEF Learn
  <2>5. blocks[m] \in Seq(Nat) /\ Last(blocks[m]) = blocks[m][Len(blocks[m])]
    BY <1>1 DEF Exist, BlockNumbers, Last
  <2> QED BY <2>3, <2>4, <2>5
<1>2. ASSUME NEW n \in Node, SendProof(n)
      PROVE  /\ n = s /\ r = Receiver(s)
             /\ proof[s].blocks[m] \in Seq(Nat) /\ proof[s].blocks[m] # <<>> /\ m # r
             /\ known'[s][r][m] = proof[s].blocks[m][Len(proof[s].blocks[m])]
  <2>1. Exist(proof[n].blocks) /\ Receiver(n) \in Node
    BY <1>2, SendAppends
  <2>2. known' = [known EXCEPT ![n][Receiver(n)] =
                      Learn(n, Receiver(n), proof[n].blocks)]
    BY <1>2 DEF SendProof
  <2> QED BY <1>1, <2>1, <2>2, ZenonT(30)
<1>3. ASSUME NEW a \in Node, NEW b \in Node, Apply(a, b)
      PROVE  LET q == Head(channel[r][s]).blocks[m]
             IN  /\ a = r /\ b = s /\ q \in Seq(Nat) /\ q # <<>> /\ m # r
                 /\ known'[s][r][m] = q[Len(q)]
  <2>1. Exist(Head(channel[a][b]).blocks)
    BY <1>0, <1>3, FirstMessage, SMTT(30) DEF Apply, ChannelTyped, MessageTyped
  <2>2. known' = [known EXCEPT ![b][a] = Learn(b, a, Head(channel[a][b]).blocks)]
    BY <1>3 DEF Apply
  <2> QED BY <1>1, <2>1, <2>2, Zenon
<1>4. ASSUME NEW n \in Node,
             UpdateCache(n) \/ AddSource(n) \/ StartProof(n) \/ SendFails(n)
                 \/ Pay(n) \/ Stop(n)
      PROVE  UNCHANGED known
  BY <1>4 DEF UpdateCache, AddSource, StartProof, SendFails, Pay, Stop, storeVars
<1>5. ASSUME NEW a \in Node, NEW b \in Node, Verify(a, b) \/ ConnectionBreaks(a, b)
      PROVE  UNCHANGED known
  BY <1>5 DEF Verify, ConnectionBreaks, storeVars
<1>6. ASSUME UNCHANGED vars PROVE UNCHANGED known
  BY <1>6 DEF vars, storeVars
<1> QED BY <1>2, <1>3, <1>4, <1>5, <1>6 DEF Next, Work, Fault

\* What is underway stays so, or is there.
LEMMA ReachedStays ==
    ASSUME Typed, ChainInv, MessagesJoined, [Next]_vars,
           NEW s \in Node, NEW r \in Node, NEW m \in Node,
           NEW d \in {0, 1}, Shifted(s, r, d),
           NEW k \in 0 .. Len(channel[s][r]), NEW b \in Int, Reached(s, r, m, k, b)
    PROVE  Reached(s, r, m, k - d, b)'
<1>1. View(r, m) \in Int /\ View(r, m)' \in Int /\ View(r, m) <= View(r, m)'
  BY StepViewsGrow, SMTT(30) DEF ViewsGrow
<1>2. CASE b <= View(r, m)
  <2>1. b <= View(r, m)'
    BY <1>1, <1>2
  <2> QED BY <2>1 DEF Reached
<1>3. ASSUME NEW j \in 1 .. k, channel[s][r][j].blocks[m] # <<>>,
             b <= channel[s][r][j].blocks[m][Len(channel[s][r][j].blocks[m])]
      PROVE  Reached(s, r, m, k - d, b)'
  <2>0. /\ channel[s][r] \in Seq(Message) /\ Len(channel[s][r]) \in Nat
        /\ DOMAIN channel[s][r] = 1 .. Len(channel[s][r])
    <3>1. channel[s][r] \in Seq(Message)
      BY Zenon DEF Typed, ChannelTyped, Message
    <3> QED BY <3>1, LenProperties
  <2>1. PICK msg : msg = channel[s][r][j]
    OBVIOUS
  <2>2. PICK q : q = msg.blocks[m]
    OBVIOUS
  <2>3. j \in DOMAIN channel[s][r] /\ j \in Nat \ {0}
    BY <2>0
  <2>4. Exist(msg.blocks) /\ Shape(msg.blocks) /\ msg.blocks[r] = <<>>
        /\ Joined(msg.blocks, m)
    BY <2>1, <2>3 DEF Typed, ChannelTyped, MessageTyped, ChainInv, AllShaped,
                      MessagesJoined
  <2>5. q # <<>> /\ b <= q[Len(q)] /\ m # r
    BY <1>3, <2>1, <2>2, <2>4, SMTT(30)
  <2>6. CASE j <= d
    <3>1. j = 1 /\ Apply(s, r)
      BY <2>3, <2>6 DEF Shifted
    <3>2. msg = Head(channel[s][r])
      <4>1. Head(channel[s][r]) = channel[s][r][1]
        BY <2>0
      <4> QED BY <2>1, <3>1, <4>1
    <3>3. Complete(s, r, msg)
      BY <3>1, <3>2, ApplyHead
    <3>4. Segments(r, m)
      BY <2>5 DEF ChainInv, AllSegments
    <3>5. q[Len(q)] <= View(r, m)'
      BY <2>2, <2>4, <2>5, <3>1, <3>2, <3>3, <3>4, AppliedUpToLast, Zenon
    <3>6. q[Len(q)] \in Nat
      <4>1. q \in Seq(Nat)
        BY <2>2, <2>4 DEF Exist, BlockNumbers
      <4>2. Len(q) \in 1 .. Len(q)
        BY <2>5, <4>1, EmptySeq, LenProperties
      <4> QED BY <4>1, <4>2, ElementOfSeq
    <3>7. b <= View(r, m)'
      <4>1. PICK l \in Nat : l = q[Len(q)]
        BY <3>6
      <4> QED BY <1>1, <2>5, <3>5, <4>1
    <3> QED BY <3>7 DEF Reached
  <2>7. CASE ~(j <= d)
    <3>1. j \in d + 1 .. Len(channel[s][r]) /\ j - d \in 1 .. k - d
      BY <2>0, <2>3, <2>7
    <3>2. channel'[s][r][j - d] = msg
      BY <2>1, <3>1 DEF Shifted
    <3> QED BY <2>2, <2>5, <3>1, <3>2, Zenon DEF Reached
  <2> QED BY <2>6, <2>7
<1> QED BY <1>2, <1>3, Zenon DEF Reached

\* What a sender takes its peer to know, it knows or is about to be told.
LEMMA StepKnownReached ==
    ASSUME Typed, ChainInv, MessagesJoined, SendersHave, KnownReached,
           [Next]_vars, failure' = "none"
    PROVE  KnownReached'
<1>1. ASSUME NEW s \in Node, NEW r \in Node, NEW m \in Node
      PROVE  Reached(s, r, m, Len(channel[s][r]), known[s][r][m])'
  <2>0. PICK d \in {0, 1} : Shifted(s, r, d)
    BY <1>1, QuietStep
  <2>1. PICK l \in Nat : l = Len(channel[s][r])
    <3>1. channel[s][r] \in Seq(Message)
      BY Zenon DEF Typed, ChannelTyped, Message
    <3> QED BY <3>1, LenProperties
  <2>2. PICK n \in Nat : n = Len(channel'[s][r])
    <3>1. channel'[s][r] \in Seq(Message)
      BY StepTyped, Zenon DEF Typed, ChannelTyped, Message
    <3> QED BY <3>1, LenProperties
  <2>3. PICK b \in Int : b = known'[s][r][m]
    <3>1. known' \in [Node -> [Node -> [Node -> Nat \cup {-1}]]]
      BY StepTyped, SMTT(30) DEF Typed, KnownTyped
    <3> QED BY <3>1
  <2>4. CASE known'[s][r][m] = known[s][r][m]
    <3>1. Reached(s, r, m, l, b)
      BY <2>1, <2>3, <2>4 DEF KnownReached
    <3>2. l \in 0 .. Len(channel[s][r])
      BY <2>1
    <3>3. Reached(s, r, m, l - d, b)'
      BY <2>0, <3>1, <3>2, ReachedStays
    <3>4. \A j \in 1 .. l - d : j \in 1 .. n
      <4>1. l - d <= n
        BY <2>0, <2>1, <2>2 DEF Shifted
      <4> QED BY <2>1, <2>2, <4>1
    <3> QED BY <2>2, <2>3, <3>3, <3>4 DEF Reached
  <2>5. CASE known'[s][r][m] # known[s][r][m]
    <3>1. PICK q \in Seq(Nat) :
              /\ q # <<>> /\ b = q[Len(q)]
              /\ \/ SendProof(s) /\ r = Receiver(s) /\ q = proof[s].blocks[m]
                 \/ Apply(r, s) /\ q = Head(channel[r][s]).blocks[m]
      BY <2>3, <2>5, KnownChanges
    <3>2. CASE SendProof(s) /\ r = Receiver(s) /\ q = proof[s].blocks[m]
      <4>1. n = l + 1 /\ channel'[s][r][l + 1] = Sending(s)
        BY <2>0, <2>1, <2>2, <3>2 DEF Shifted
      <4>2. n \in 1 .. n /\ channel'[s][r][n].blocks[m] = q
        BY <2>1, <2>2, <3>2, <4>1, SMTT(30) DEF Sending
      <4>3. b <= q[Len(q)]
        BY <3>1
      <4> QED BY <2>2, <2>3, <3>1, <4>2, <4>3 DEF Reached
    <3>3. CASE Apply(r, s) /\ q = Head(channel[r][s]).blocks[m]
      <4>1. channel[r][s] # <<>>
        BY <3>3 DEF Apply, Typed, ChannelTyped
      <4>2. 1 \in DOMAIN channel[r][s] /\ Head(channel[r][s]) = channel[r][s][1]
        BY <4>1, HeadType
      <4>3. Len(q) \in 1 .. Len(q)
        BY <3>1, LenProperties, EmptySeq
      <4>4. b <= View(r, m)
        BY <3>1, <3>3, <4>2, <4>3, Zenon DEF SendersHave
      <4>5. View(r, m) \in Int /\ View(r, m)' \in Int /\ View(r, m) <= View(r, m)'
        BY StepViewsGrow DEF ViewsGrow
      <4>6. b <= View(r, m)'
        BY <4>4, <4>5
      <4> QED BY <2>3, <4>6 DEF Reached
    <3> QED BY <3>1, <3>2, <3>3
  <2> QED BY <2>4, <2>5
<1> QED BY <1>1 DEF KnownReached

\* Whoever will know a block will know those before it.
LEMMA ReachedBelow ==
    ASSUME Typed, NEW s \in Node, NEW r \in Node, NEW m \in Node,
           NEW k \in 0 .. Len(channel[s][r]), NEW c \in Int, Reached(s, r, m, k, c),
           NEW b \in Int, b <= c
    PROVE  Reached(s, r, m, k, b)
<1>1. CASE c <= View(r, m)
  <2>1. b <= View(r, m)
    BY <1>1, ViewType, SMTT(30)
  <2> QED BY <2>1 DEF Reached
<1>2. ASSUME NEW j \in 1 .. k, channel[s][r][j].blocks[m] # <<>>,
             c <= channel[s][r][j].blocks[m][Len(channel[s][r][j].blocks[m])]
      PROVE  Reached(s, r, m, k, b)
  <2>1. PICK v : v = channel[s][r][j].blocks[m]
    OBVIOUS
  <2>2. j \in DOMAIN channel[s][r]
    <3>1. channel[s][r] \in Seq(Message)
      BY Zenon DEF Typed, ChannelTyped, Message
    <3>2. DOMAIN channel[s][r] = 1 .. Len(channel[s][r]) /\ Len(channel[s][r]) \in Nat
      BY <3>1, LenProperties
    <3> QED BY <3>2
  <2>3. Exist(channel[s][r][j].blocks)
    BY <2>2 DEF Typed, ChannelTyped, MessageTyped
  <2>4. v \in Seq(Nat)
    BY <2>1, <2>3, Zenon DEF Exist, BlockNumbers
  <2>5. Len(v) \in 1 .. Len(v)
    BY <1>2, <2>1, <2>4, LenProperties, EmptySeq
  <2>6. v[Len(v)] \in Nat
    BY <2>4, <2>5, ElementOfSeq
  <2>7. b <= v[Len(v)]
    BY <1>2, <2>1, <2>6, SMTT(30)
  <2> QED BY <1>2, <2>1, <2>7 DEF Reached
<1> QED BY <1>1, <1>2, Zenon DEF Reached

\* When its turn comes, what a message tells attaches to the copy.
LEMMA StepMessagesAttach ==
    ASSUME Typed, ChainInv, MessagesJoined, KnownReached, MessagesAttach,
           [Next]_vars, failure' = "none"
    PROVE  MessagesAttach'
<1>1. ASSUME NEW s \in Node, NEW r \in Node, NEW m \in Node,
             NEW i \in DOMAIN channel'[s][r],
             channel'[s][r][i].blocks[m] # <<>>
      PROVE  Reached(s, r, m, i - 1, channel[s][r][i].blocks[m][1] - 1)'
  <2>0. PICK d \in {0, 1} : Shifted(s, r, d)
    BY <1>1, QuietStep
  <2>1. PICK q : q = channel'[s][r][i].blocks[m]
    OBVIOUS
  <2>2. q \in Seq(Nat) /\ 1 \in 1 .. Len(q)
    <3>1. Exist(channel[s][r][i].blocks)'
      BY StepTyped, Zenon DEF Typed, ChannelTyped, MessageTyped
    <3>2. q \in Seq(Nat)
      BY <2>1, <3>1, Zenon DEF Exist, BlockNumbers
    <3> QED BY <1>1, <2>1, <3>2, LenProperties, EmptySeq
  <2>3. PICK b \in Int : b = q[1] - 1
    BY <2>2, ElementOfSeq
  <2>4. PICK l \in Nat : l = Len(channel[s][r]) /\ DOMAIN channel[s][r] = 1 .. l
    <3>1. channel[s][r] \in Seq(Message)
      BY Zenon DEF Typed, ChannelTyped, Message
    <3> QED BY <3>1, LenProperties
  <2>5. CASE i + d \in DOMAIN channel[s][r] /\ channel'[s][r][i] = channel[s][r][i + d]
    <3>1. Reached(s, r, m, (i + d) - 1, b)
      BY <1>1, <2>1, <2>3, <2>5 DEF MessagesAttach
    <3>2. i \in Nat
      <4>1. channel'[s][r] \in Seq(Message)
        <5>1. channel' \in [Node -> [Node -> Seq(Message)]]
          BY StepTyped, Zenon DEF Typed, ChannelTyped, Message
        <5> QED BY <5>1
      <4> QED BY <4>1, LenProperties
    <3>3. (i + d) - 1 \in 0 .. Len(channel[s][r]) /\ ((i + d) - 1) - d = i - 1
      BY <2>4, <2>5, <3>2
    <3>4. Reached(s, r, m, ((i + d) - 1) - d, b)'
      BY <2>0, <3>1, <3>3, ReachedStays
    <3>5. Reached(s, r, m, i - 1, b)'
      BY <3>3, <3>4
    <3> QED BY <2>1, <2>3, <3>5
  <2>6. CASE /\ SendProof(s) /\ r = Receiver(s)
             /\ i = Len(channel[s][r]) + 1 /\ channel'[s][r][i] = Sending(s)
    <3>1. proof[s] # NoProof /\ q = proof[s].blocks[m]
      BY <2>1, <2>6, SendAppends DEF Sending
    <3>2. q[1] <= known[s][r][m] + 1
      BY <2>2, <2>6, <3>1 DEF ChainInv, AllBuilt, BuiltFor
    <3>3. known[s][r][m] \in Int /\ q[1] \in Nat
      BY <2>2, ElementOfSeq DEF Typed, KnownTyped
    <3>4. b <= known[s][r][m]
      BY <2>3, <3>2, <3>3
    <3>5. Reached(s, r, m, l, b)
      <4>1. PICK K \in Int : K = known[s][r][m] /\ b <= K
        BY <3>3, <3>4
      <4>2. Reached(s, r, m, l, K)
        BY <2>4, <4>1 DEF KnownReached
      <4> QED BY <2>4, <4>1, <4>2, ReachedBelow
    <3>6. l \in 0 .. Len(channel[s][r]) /\ \A j \in 1 .. l - d : j \in 1 .. i - 1
      BY <2>4, <2>6
    <3>7. Reached(s, r, m, l - d, b)'
      BY <2>0, <3>5, <3>6, ReachedStays, SMTT(30)
    <3>8. Reached(s, r, m, i - 1, b)'
      BY <3>6, <3>7 DEF Reached
    <3> QED BY <2>1, <2>3, <3>8
  <2> QED BY <2>0, <2>5, <2>6 DEF Shifted
<1> QED BY <1>1 DEF MessagesAttach

-----------------------------------------------------------------------------
(* A proof that is not overtaken has all that its receiver lacks.          *)

\* To n, block b of m is with r or in the proof it is building.
Covered(n, r, blocks, m, b) ==
    \/ b <= known[n][r][m]
    \/ blocks[m] # <<>> /\ b <= blocks[m][Len(blocks[m])]

\* The blocks of the proof go on where r ends, without a gap, and cover the
\* transaction and all sources but those that are still to be visited.
CalmProof(n, r, p) ==
    /\ \A m \in Node : \A i \in 1 .. Len(p.blocks[m]) :
           p.blocks[m][i] = known[n][r][m] + i
    /\ Covered(n, r, p.blocks, n, p.tx)
    /\ \A t : Included(p.blocks, t) /\ t[2] # 0 /\ t[1] # r =>
           Covered(n, r, p.blocks, t[1], t[2]) \/ t \in Range(p.todo)

CalmProofs ==
    \A n \in Node : proof[n] # NoProof /\ proof[n].calm =>
        CalmProof(n, Receiver(n), proof[n])

\* A proof that is not overtaken was not before, and its receiver told of nothing new.
LEMMA StaysCalm ==
    ASSUME Typed, [Next]_vars, NEW n \in Node,
           proof[n] # NoProof, proof'[n] # NoProof, proof'[n].calm
    PROVE  proof[n].calm /\ known'[n][Receiver(n)] = known[n][Receiver(n)]
<1> DEFINE r    == Receiver(n)
           goal == proof[n].calm /\ known'[n][r] = known[n][r]
<1>0. /\ KnownTyped /\ known \in [Node -> [Node -> [Node -> Nat \cup {-1}]]]
      /\ ProofTyped /\ DOMAIN proof = Node
  BY DEF Typed, KnownTyped, ProofTyped
<1>1. ASSUME NEW p \in Node, SendProof(p) PROVE goal
  <2>1. p # n
    <3>1. proof'[p] = NoProof
      BY <1>0, <1>1 DEF SendProof
    <3> QED BY <3>1
  <2>2. proof'[n] = proof[n] /\ known'[n] = known[n]
    BY <1>0, <1>1, <2>1 DEF SendProof
  <2> QED BY <2>2
<1>2. ASSUME NEW s \in Node, NEW p \in Node, Apply(s, p) PROVE goal
  <2>0. PICK l : l = Learn(p, s, Head(channel[s][p]).blocks)
    OBVIOUS
  <2>1. known' = [known EXCEPT ![p][s] = l]
    BY <1>2, <2>0 DEF Apply
  <2>2. proof' = IF /\ proof[p] # NoProof /\ Receiver(p) = s
                    /\ known'[p][s] # known[p][s]
                 THEN [proof EXCEPT ![p].calm = FALSE]
                 ELSE proof
    BY <1>2 DEF Apply
  <2>3. CASE proof' = proof
    <3>1. CASE p = n /\ s = r
      BY <2>2, <2>3, <3>1, <1>0 DEF ProofTyped
    <3>2. CASE ~(p = n /\ s = r)
      <4>1. known'[n][r] = known[n][r]
        BY <1>0, <2>1, <3>2
      <4> QED BY <2>3, <4>1
    <3> QED BY <3>1, <3>2
  <2>4. CASE proof' = [proof EXCEPT ![p].calm = FALSE] /\ proof' # proof
    <3>1. p # n
      <4>1. p = n => proof'[n].calm = FALSE
        BY <1>0, <2>4 DEF ProofTyped
      <4> QED BY <4>1
    <3>2. proof'[n] = proof[n] /\ known'[n] = known[n]
      BY <1>0, <2>1, <2>4, <3>1
    <3> QED BY <3>2
  <2> QED BY <2>2, <2>3, <2>4
<1>3. ASSUME UNCHANGED known, proof'[n].calm = proof[n].calm PROVE goal
  BY <1>3
<1>4. ASSUME NEW p \in Node, AddSource(p) \/ StartProof(p) \/ SendFails(p) PROVE goal
  <2>1. UNCHANGED known
    BY <1>4 DEF AddSource, StartProof, SendFails, storeVars
  <2>2. proof'[n].calm = proof[n].calm
    <3>1. CASE p # n
      <4>1. proof'[n] = proof[n]
        BY <1>0, <1>4, <3>1 DEF AddSource, StartProof, SendFails
      <4> QED BY <4>1, Zenon
    <3>2. CASE p = n /\ AddSource(n)
      <4>1. \E blocks, todo : proof'[n] = IF proof'[n] = NoProof THEN NoProof
                ELSE [proof[n] EXCEPT !.blocks = blocks, !.todo = todo]
        BY <1>0, <3>2, Zenon DEF AddSource
      <4>2. PICK blocks, todo : proof'[n] =
                [proof[n] EXCEPT !.blocks = blocks, !.todo = todo]
        BY <4>1, Zenon
      <4> QED BY <1>0, <4>2, ZenonT(30) DEF ProofTyped
    <3>3. CASE p = n /\ StartProof(n)
      BY <3>3 DEF StartProof
    <3>4. CASE p = n /\ SendFails(n)
      <4>1. proof'[n] = NoProof
        BY <1>0, <3>4 DEF SendFails
      <4> QED BY <4>1
    <3> QED BY <1>4, <3>1, <3>2, <3>3, <3>4, Zenon
  <2> QED BY <1>3, <2>1, <2>2
<1>5. ASSUME NEW p \in Node, UpdateCache(p) \/ Pay(p) \/ Stop(p)
      PROVE  UNCHANGED <<known, proof>>
  BY <1>5 DEF UpdateCache, Pay, Stop, sendVars, storeVars
<1>6. ASSUME NEW s \in Node, NEW p \in Node, Verify(s, p) \/ ConnectionBreaks(s, p)
      PROVE  UNCHANGED <<known, proof>>
  BY <1>6 DEF Verify, ConnectionBreaks, sendVars, storeVars
<1>7. ASSUME UNCHANGED vars PROVE UNCHANGED <<known, proof>>
  BY <1>7 DEF vars, sendVars, storeVars
<1>8. goal
  BY <1>1, <1>2, <1>3, <1>4, <1>5, <1>6, <1>7 DEF Next, Work, Fault
<1> QED BY <1>8

\* A proof that begins is about what its receiver lacks.
LEMMA StartIsCalm ==
    ASSUME Typed, SourcesEarlier, NEW n \in Node, StartProof(n)
    PROVE  CalmProof(n, Receiver(n), proof[n])'
<1>1. PICK b \in Nat, r \in Node, own \in Seq(Nat), c \in Nat :
          Started(n, b, r, own, c)
  BY StartIs
<1>2. PICK p : p = proof'[n]
  OBVIOUS
<1>3. /\ chain' = chain /\ known' = known /\ r = chain[n][b].to /\ p.tx = b
      /\ p.blocks[n] = own /\ \A m \in Node : m # n => p.blocks[m] = <<>>
      /\ \A i \in 1 .. Len(own) : own[i] = known[n][r][n] + i
      /\ own # <<>> => known[n][r][n] + Len(own) = c
      /\ own = <<>> => c <= known[n][r][n]
      /\ b <= c
      /\ \A t : (\E i \in 1 .. Len(own) : t \in SourcesOf(n, own[i])) =>
             t[2] = 0 \/ t[1] \in {n, r} \/ t \in Range(p.todo)
  BY <1>1, <1>2 DEF Started
<1>4. Receiver(n)' = r
  BY <1>2, <1>3 DEF Receiver
<1>5. Len(<<>>) = 0 /\ Len(own) \in Nat /\ (own # <<>> <=> Len(own) # 0)
      /\ known[n][r][n] \in Int /\ \A i \in 1 .. Len(own) : own[i] \in Nat
  BY LenProperties, EmptySeq, ElementOfSeq DEF Typed, KnownTyped
<1>6. own # <<>> => own[Len(own)] = c
  <2>1. own # <<>> => Len(own) \in 1 .. Len(own)
    BY <1>5
  <2> QED BY <1>3, <2>1
<1>7. \A m \in Node : \A i \in 1 .. Len(p.blocks[m]) :
          p.blocks[m][i] = known[n][r][m] + i
  <2>1. ASSUME NEW m \in Node, NEW i \in 1 .. Len(p.blocks[m])
        PROVE  p.blocks[m][i] = known[n][r][m] + i
    <3>1. CASE m = n
      BY <1>3, <2>1, <3>1, Zenon
    <3>2. CASE m # n
      <4>1. p.blocks[m] = <<>>
        BY <1>3, <3>2
      <4>2. i \in 1 .. 0
        BY <1>5, <2>1, <4>1
      <4> QED BY <4>2
    <3> QED BY <3>1, <3>2
  <2> QED BY <2>1
<1>8. Covered(n, r, p.blocks, n, b)
  <2>1. CASE own = <<>>
    <3>1. b <= known[n][r][n]
      BY <1>3, <1>5, <2>1
    <3> QED BY <3>1 DEF Covered
  <2>2. CASE own # <<>>
    BY <1>3, <1>6, <2>2 DEF Covered
  <2> QED BY <2>1, <2>2
<1>9. ASSUME NEW t, Included(p.blocks, t), t[2] # 0, t[1] # r
      PROVE  Covered(n, r, p.blocks, t[1], t[2]) \/ t \in Range(p.todo)
  <2>1. PICK i \in 1 .. Len(own) : t \in SourcesOf(n, own[i])
    <3>1. PICK m \in Node : \E i \in 1 .. Len(p.blocks[m]) :
              t \in SourcesOf(m, p.blocks[m][i])
      BY <1>9 DEF Included
    <3>2. m = n
      BY <1>3, <1>5, <3>1
    <3> QED BY <1>3, <3>1, <3>2
  <2>2. CASE t[1] # n
    BY <1>3, <1>9, <2>1, <2>2
  <2>3. CASE t[1] = n
    <3>1. t[2] < own[i] /\ t \in TxId
      <4>1. own[i] \in DOMAIN chain[n]
        BY <2>1 DEF SourcesOf, IsTransaction
      <4>2. t \in TxId
        BY <2>1, SourcesType DEF Typed
      <4> QED BY <2>1, <2>3, <4>1, <4>2 DEF SourcesEarlier
    <3>2. t[2] \in Nat
      BY <3>1 DEF TxId
    <3>3. own[i] <= c /\ own # <<>>
      <4>1. Len(own) # 0
        BY <1>5, <2>1
      <4>2. own # <<>>
        BY <1>5, <4>1
      <4>3. own[i] = known[n][r][n] + i /\ known[n][r][n] + Len(own) = c
        BY <1>3, <2>1, <4>2, Zenon
      <4> QED BY <1>5, <2>1, <4>2, <4>3, SMTT(30)
    <3>4. t[2] <= c
      <4>1. PICK x \in Nat : x = own[i]
        BY <1>5, <2>1
      <4> QED BY <3>1, <3>2, <3>3, <4>1
    <3> QED BY <1>3, <1>6, <2>3, <3>3, <3>4 DEF Covered
  <2> QED BY <2>2, <2>3
<1>10. CalmProof(n, r, p)
  BY <1>3, <1>7, <1>8, <1>9 DEF CalmProof
<1>11. CalmProof(n, r, p)'
  BY <1>3, <1>10, ZenonT(30) DEF CalmProof, Covered, Included, SourcesOf, IsTransaction
<1> QED BY <1>2, <1>4, <1>11

\* A payment that a node has spent was handed to it.
LEMMA SpentWasHanded ==
    ASSUME Typed, PlaceInv, NEW m \in Node, NEW b, NEW t \in SourcesOf(m, b), t[1] # m
    PROVE  t[2] <= sent[t[1]] /\ Handed(t[1], t[2])
<1>1. b \in DOMAIN chain[m]
  BY DEF SourcesOf, IsTransaction
<1>2. t \in Accepted(m)
  BY <1>1, AcceptedType
<1> QED BY <1>2 DEF PlaceInv, AcceptedWasSent, Handed

\* A source that is added to a proof nothing overtook leaves none of its blocks out.
LEMMA AddIsCalm ==
    ASSUME Typed, ChainInv, PlaceInv, SourcesEarlier, NEW n \in Node, AddSource(n),
           CalmProof(n, Receiver(n), proof[n])
    PROVE  CalmProof(n, Receiver(n), proof[n])'
<1>1. PICK r \in Node, m \in Node, k \in Nat, q \in Seq(Nat), c \in Nat :
          Added(n, r, m, k, q, c)
  BY AddIs
<1>2. PICK p : p = proof[n].blocks
  OBVIOUS
<1>3. PICK more : more = proof'[n].blocks
  OBVIOUS
<1>4. PICK tx : tx = proof[n].tx
  OBVIOUS
<1>5. /\ proof[n] # NoProof /\ chain' = chain /\ known' = known
      /\ r = Receiver(n) /\ m \notin {n, r}
      /\ k <= c /\ proof'[n].tx = tx
      /\ more[m] = p[m] \o q
      /\ \A x \in Node : x # m => more[x] = p[x]
      /\ \A i \in 1 .. Len(q) : q[i] = known[n][r][m] + Len(p[m]) + i
      /\ q # <<>> => known[n][r][m] + Len(p[m]) + Len(q) = c
      /\ q = <<>> => c <= known[n][r][m] + Len(p[m])
      /\ \A t : (\E i \in 1 .. Len(q) : t \in SourcesOf(m, q[i])) =>
             t[2] = 0 \/ t[1] \in {n, r} \/ t \in Range(proof'[n].todo)
      /\ \A t \in Range(proof[n].todo) :
             t = <<m, k>> \/ t \in Range(proof'[n].todo)
  BY <1>1, <1>2, <1>3, <1>4 DEF Added
<1>6. Exist(p) /\ p[m] \in Seq(Nat) /\ Exist(more) /\ more[m] \in Seq(Nat)
  <2>1. Exist(p)
    BY <1>2 DEF Typed, ProofTyped
  <2>2. Exist(more)'
    BY <1>3, AddKeepsBuilt, StepTyped, Zenon DEF Typed, ProofTyped, Next, Work
  <2>3. Exist(more)
    BY <1>5, <2>2 DEF Exist, Blocks
  <2> QED BY <2>1, <2>3 DEF Exist, BlockNumbers
<1>7. PICK K \in Int : K = known[n][r][m]
  BY DEF Typed, KnownTyped
<1>8. PICK P \in Nat : P = Len(p[m])
  BY <1>6, LenProperties
<1>9. PICK Q \in Nat : Q = Len(q) /\ (q = <<>> <=> Q = 0)
  BY LenProperties, EmptySeq
<1>10. /\ \A x \in Node : \A i \in 1 .. Len(p[x]) : p[x][i] = known[n][r][x] + i
       /\ Covered(n, r, p, n, tx)
       /\ \A t : Included(p, t) /\ t[2] # 0 /\ t[1] # r =>
              Covered(n, r, p, t[1], t[2]) \/ t \in Range(proof[n].todo)
  BY <1>2, <1>4, <1>5 DEF CalmProof
<1>11. Len(more[m]) = P + Q
  BY <1>5, <1>6, <1>8, <1>9, ConcatProperties
<1>12. ASSUME NEW i \in 1 .. P + Q
       PROVE  /\ more[m][i] = K + i
              /\ IF i <= P THEN i \in 1 .. P /\ more[m][i] = p[m][i]
                           ELSE i - P \in 1 .. Q /\ more[m][i] = q[i - P]
  <2>1. more[m][i] = IF i <= P THEN p[m][i] ELSE q[i - P]
    BY <1>5, <1>6, <1>8, <1>9, <1>12, ConcatProperties
  <2>2. CASE i <= P
    <3>1. i \in 1 .. P /\ p[m][i] = K + i
      BY <1>7, <1>8, <1>10, <1>12, <2>2
    <3> QED BY <2>1, <2>2, <3>1
  <2>3. CASE ~(i <= P)
    <3>0. i \in Int /\ i <= P + Q /\ i > P
      BY <1>8, <1>9, <1>12, <2>3
    <3>01. i - P \in 1 .. Q
      BY <1>8, <1>9, <3>0
    <3>1. PICK j \in 1 .. Q : j = i - P
      BY <3>01
    <3>2. q[j] = K + P + j
      BY <1>5, <1>7, <1>8, <1>9, <3>1, Zenon
    <3>3. K + P + j = K + i
      BY <1>12, <3>1
    <3> QED BY <2>1, <2>3, <3>1, <3>2, <3>3
  <2> QED BY <2>2, <2>3
<1>13. \A x \in Node : \A i \in 1 .. Len(more[x]) : more[x][i] = known[n][r][x] + i
  <2>1. ASSUME NEW x \in Node, NEW i \in 1 .. Len(more[x])
        PROVE  more[x][i] = known[n][r][x] + i
    <3>1. CASE x = m
      <4>1. i \in 1 .. P + Q
        BY <1>11, <2>1, <3>1
      <4> QED BY <1>7, <1>12, <3>1, <4>1
    <3>2. CASE x # m
      BY <1>5, <1>10, <2>1, <3>2, ZenonT(30)
    <3> QED BY <3>1, <3>2
  <2> QED BY <2>1
<1>14. P + Q # 0 => /\ more[m] # <<>> /\ more[m][Len(more[m])] = K + (P + Q)
                    /\ P # 0 => p[m][P] = K + P
  <2>1. ASSUME P + Q # 0 PROVE more[m] # <<>> /\ P + Q \in 1 .. P + Q
    BY <1>6, <1>11, <2>1, EmptySeq
  <2>2. P # 0 => P \in 1 .. P
    OBVIOUS
  <2> QED BY <1>7, <1>8, <1>10, <1>11, <1>12, <2>1, <2>2, Zenon
<1>15. \A b \in Int : b <= K + (P + Q) => Covered(n, r, more, m, b)
  <2>1. ASSUME NEW b \in Int, b <= K + (P + Q) PROVE Covered(n, r, more, m, b)
    <3>1. CASE P + Q = 0
      <4>1. b <= known[n][r][m]
        BY <1>7, <2>1, <3>1
      <4> QED BY <4>1 DEF Covered
    <3>2. CASE P + Q # 0
      BY <1>14, <2>1, <3>2 DEF Covered
    <3> QED BY <3>1, <3>2
  <2> QED BY <2>1
<1>16. c <= K + (P + Q)
  <2>1. (Q = 0 => c <= K + P) /\ (Q # 0 => K + P + Q = c)
    BY <1>5, <1>7, <1>8, <1>9, Zenon
  <2> QED BY <2>1
<1>17. ASSUME NEW x \in Node, NEW b \in Int, Covered(n, r, p, x, b)
       PROVE  Covered(n, r, more, x, b)
  <2>1. CASE x # m
    BY <1>5, <1>17, <2>1 DEF Covered
  <2>2. CASE x = m
    <3>1. b <= K + (P + Q)
      <4>1. CASE b <= K
        BY <1>17, <4>1
      <4>2. CASE p[m] # <<>> /\ b <= p[m][P]
        <5>1. P # 0
          BY <1>6, <1>8, <4>2, EmptySeq
        <5>2. p[m][P] = K + P
          BY <1>14, <5>1
        <5>3. b <= K + P
          BY <4>2, <5>2
        <5> QED BY <1>17, <5>3
      <4> QED BY <1>7, <1>8, <1>17, <2>2, <4>1, <4>2 DEF Covered
    <3> QED BY <1>15, <1>17, <2>2, <3>1
  <2> QED BY <2>1, <2>2
<1>18. Covered(n, r, more, n, tx)
  BY <1>5, <1>10 DEF Covered
<1>19. ASSUME NEW t, t \in TxId, t[2] # 0, t[1] # r,
              Covered(n, r, p, t[1], t[2]) \/ t \in Range(proof[n].todo)
       PROVE  Covered(n, r, more, t[1], t[2]) \/ t \in Range(proof'[n].todo)
  <2>1. t[1] \in Node /\ t[2] \in Int
    BY <1>19 DEF TxId
  <2>2. CASE Covered(n, r, p, t[1], t[2])
    BY <1>17, <2>1, <2>2
  <2>3. CASE t = <<m, k>>
    <3>1. k <= K + (P + Q)
      BY <1>5, <1>16
    <3> QED BY <1>15, <2>3, <3>1
  <2> QED BY <1>5, <1>19, <2>2, <2>3
<1>20. ASSUME NEW t, Included(more, t), t[2] # 0, t[1] # r
       PROVE  Covered(n, r, more, t[1], t[2]) \/ t \in Range(proof'[n].todo)
  <2>1. PICK x \in Node : \E i \in 1 .. Len(more[x]) : t \in SourcesOf(x, more[x][i])
    BY <1>20 DEF Included
  <2>2. PICK i \in 1 .. Len(more[x]) : t \in SourcesOf(x, more[x][i])
    BY <2>1
  <2>3. t \in TxId
    BY <2>2, SourcesType DEF Typed
  <2>4. CASE Included(p, t)
    BY <1>10, <1>19, <1>20, <2>3, <2>4
  <2>5. CASE x # m
    BY <1>5, <2>2, <2>4, <2>5, Zenon DEF Included
  <2>6. CASE x = m /\ i <= P
    <3>1. i \in 1 .. P + Q
      BY <1>11, <2>2, <2>6
    <3>2. i \in 1 .. Len(p[m]) /\ more[m][i] = p[m][i]
      BY <1>8, <1>12, <2>6, <3>1
    <3> QED BY <2>2, <2>4, <2>6, <3>2, Zenon DEF Included
  <2>7. CASE x = m /\ ~(i <= P)
    <3>1. i \in 1 .. P + Q
      BY <1>11, <2>2, <2>7
    <3>2. i - P \in 1 .. Len(q) /\ more[m][i] = q[i - P] /\ more[m][i] = K + i
      BY <1>9, <1>12, <2>7, <3>1
    <3>3. CASE t[1] \notin {n, m}
      BY <1>5, <1>20, <2>2, <2>7, <3>2, <3>3, Zenon
    <3>4. CASE t[1] = m
      <4>1. more[m][i] \in DOMAIN chain[m]
        BY <2>2, <2>7 DEF SourcesOf, IsTransaction
      <4>2. t[2] < more[m][i]
        BY <2>2, <2>7, <3>4, <4>1 DEF SourcesEarlier
      <4>3. t[2] \in Int /\ t[2] < K + i
        BY <2>3, <3>2, <4>2 DEF TxId
      <4>4. t[2] <= K + (P + Q)
        BY <3>1, <4>3
      <4> QED BY <1>15, <3>4, <4>3, <4>4
    <3>5. CASE t[1] = n
      <4>1. t[2] <= sent[n]
        BY <1>5, <2>2, <2>7, <3>5, SpentWasHanded
      <4>2. sent[n] = tx /\ tx \in Nat
        BY <1>4, <1>5 DEF PlaceInv, ProofIsSent, Typed, ProofTyped
      <4>3. t[2] \in Nat /\ t[2] <= tx
        BY <2>3, <4>1, <4>2 DEF TxId
      <4>4. CASE tx <= known[n][r][n]
        <5>1. known[n][r][n] \in Int
          BY DEF Typed, KnownTyped
        <5>2. t[2] <= known[n][r][n]
          BY <4>2, <4>3, <4>4, <5>1
        <5> QED BY <3>5, <5>2 DEF Covered
      <4>5. CASE more[n] # <<>> /\ tx <= more[n][Len(more[n])]
        <5>1. more[n] \in Seq(Nat)
          BY <1>6 DEF Exist, BlockNumbers
        <5>2. Len(more[n]) \in 1 .. Len(more[n])
          BY <4>5, <5>1, LenProperties, EmptySeq
        <5>3. more[n][Len(more[n])] \in Nat
          BY <5>1, <5>2, ElementOfSeq
        <5>4. t[2] <= more[n][Len(more[n])]
          BY <4>2, <4>3, <4>5, <5>3
        <5> QED BY <3>5, <4>5, <5>4 DEF Covered
      <4> QED BY <1>18, <4>4, <4>5 DEF Covered
    <3> QED BY <3>3, <3>4, <3>5
  <2> QED BY <2>5, <2>6, <2>7
<1>21. Receiver(n)' = r
  BY <1>4, <1>5, Zenon DEF Receiver
<1>22. proof'[n].blocks = more /\ proof'[n].tx = tx
  BY <1>3, <1>5
<1>23. CalmProof(n, r, proof'[n])
  BY <1>13, <1>18, <1>20, <1>22 DEF CalmProof
<1>24. PICK v : v = proof'[n]
  OBVIOUS
<1>25. CalmProof(n, r, v)'
  BY <1>5, <1>23, <1>24, ZenonT(30) DEF CalmProof, Covered, Included, SourcesOf, IsTransaction
<1> QED BY <1>21, <1>24, <1>25

\* So every step keeps the proofs that nothing overtook.
LEMMA StepCalmProofs ==
    ASSUME Typed, ChainInv, PlaceInv, SourcesEarlier, CalmProofs, [Next]_vars
    PROVE  CalmProofs'
<1>0. ChainTyped /\ Grown
  BY StepLasts DEF Lasting, Typed
<1>1. ASSUME NEW n \in Node, proof'[n] # NoProof, proof'[n].calm
      PROVE  CalmProof(n, Receiver(n), proof[n])'
  <2>1. CASE /\ proof[n] # NoProof
             /\ proof'[n].tx = proof[n].tx
             /\ proof'[n].blocks = proof[n].blocks
             /\ proof'[n].todo = proof[n].todo
    <3>1. proof[n].calm /\ known'[n][Receiver(n)] = known[n][Receiver(n)]
      BY <1>1, <2>1, StaysCalm
    <3>2. PICK r : r = Receiver(n)
      OBVIOUS
    <3>3. Receiver(n)' = r
      <4>1. IsTransaction(n, proof[n].tx)
        BY <2>1 DEF Typed, ProofTyped
      <4>2. proof[n].tx \in DOMAIN chain[n]
        BY <4>1 DEF IsTransaction
      <4> QED BY <1>0, <2>1, <3>2, <4>2 DEF Receiver, Grown
    <3>4. PICK p : p = proof[n].blocks
      OBVIOUS
    <3>5. Exist(p)
      BY <3>4 DEF Typed, ProofTyped
    <3>6. \A t : Included(p, t)' <=> Included(p, t)
      BY <1>0, <3>5, IncludedStays
    <3>7. CalmProof(n, r, proof[n])
      BY <2>1, <3>1, <3>2 DEF CalmProofs
    <3>8. \A m, b : Covered(n, r, p, m, b)' <=> Covered(n, r, p, m, b)
      BY <3>1, <3>2 DEF Covered
    <3>9. CalmProof(n, r, proof[n])'
      BY <2>1, <3>1, <3>2, <3>4, <3>6, <3>7, <3>8 DEF CalmProof
    <3> QED BY <3>3, <3>9
  <2>2. CASE StartProof(n)
    BY <2>2, StartIsCalm
  <2>3. CASE AddSource(n)
    <3>1. proof[n] # NoProof
      BY <2>3, AddKeepsBuilt
    <3>2. proof[n].calm
      BY <1>1, <3>1, StaysCalm
    <3>3. CalmProof(n, Receiver(n), proof[n])
      BY <3>1, <3>2 DEF CalmProofs
    <3> QED BY <2>3, <3>3, AddIsCalm
  <2> QED BY <1>1, <2>1, <2>2, <2>3, StepProof
<1> QED BY <1>1 DEF CalmProofs

-----------------------------------------------------------------------------
(* And so has its message.                                                 *)

\* The blocks of message i have no gaps, and what is needed of the transaction
\* and of the sources of the blocks is underway.
CalmMessage(s, r, i, msg) ==
    /\ \A m \in Node : \A j \in 1 .. Len(msg.blocks[m]) :
           msg.blocks[m][j] = msg.blocks[m][1] + j - 1
    /\ Reached(s, r, s, i, msg.tx)
    /\ \A t : Included(msg.blocks, t) /\ t[2] # 0 /\ t[1] # r =>
           Reached(s, r, t[1], i, t[2])

CalmMessages ==
    \A s, r \in Node : \A i \in DOMAIN channel[s][r] :
        channel[s][r][i].calm => CalmMessage(s, r, i, channel[s][r][i])

\* What a proof includes are transactions.
LEMMA IncludedType ==
    ASSUME ChainTyped, NEW blocks, NEW t, Included(blocks, t)
    PROVE  t \in TxId /\ t[1] \in Node /\ t[2] \in Nat
<1>1. PICK m \in Node : \E i \in 1 .. Len(blocks[m]) : t \in SourcesOf(m, blocks[m][i])
  BY DEF Included
<1>2. t \in TxId
  BY <1>1, SourcesType
<1> QED BY <1>2 DEF TxId

\* What a proof covers is underway with its message.
LEMMA CoveredIsReached ==
    ASSUME Typed, ChainInv, MessagesJoined, KnownReached, [Next]_vars,
           NEW s \in Node, NEW r \in Node, SendProof(s), r = Receiver(s),
           NEW d \in {0, 1}, Shifted(s, r, d),
           NEW l \in Nat, l = Len(channel[s][r]),
           NEW m \in Node, NEW b \in Int, Covered(s, r, proof[s].blocks, m, b)
    PROVE  Reached(s, r, m, l + 1, b)'
<1>1. channel'[s][r][l + 1] = Sending(s)
  BY SMTT(30) DEF Shifted
<1>3. CASE b <= known[s][r][m]
  <2>1. PICK c \in Int : c = known[s][r][m]
    BY DEF Typed, KnownTyped
  <2>2. Reached(s, r, m, l, c) /\ l \in 0 .. Len(channel[s][r])
    BY <2>1 DEF KnownReached
  <2>3. Reached(s, r, m, l, b)
    BY <1>3, <2>1, <2>2, ReachedBelow, Zenon
  <2>4. Reached(s, r, m, l - d, b)'
    BY <2>2, <2>3, ReachedStays
  <2>5. \A j \in 1 .. l - d : j \in 1 .. l + 1
    OBVIOUS
  <2> QED BY <2>4, <2>5 DEF Reached
<1>4. CASE proof[s].blocks[m] # <<>>
           /\ b <= proof[s].blocks[m][Len(proof[s].blocks[m])]
  <2>1. channel'[s][r][l + 1].blocks[m] = proof[s].blocks[m] /\ l + 1 \in 1 .. l + 1
    BY <1>1 DEF Sending
  <2> QED BY <1>4, <2>1, Zenon DEF Reached
<1> QED BY <1>3, <1>4 DEF Covered

\* What such a proof leaves out will be known when its message is taken.
LEMMA StepCalmMessages ==
    ASSUME Typed, ChainInv, MessagesJoined, KnownReached, CalmProofs, CalmMessages,
           [Next]_vars, failure' = "none"
    PROVE  CalmMessages'
<1>0. ChainTyped /\ Grown
  BY StepLasts DEF Lasting, Typed
<1>1. ASSUME NEW s \in Node, NEW r \in Node, NEW i \in DOMAIN channel'[s][r],
             channel'[s][r][i].calm
      PROVE  CalmMessage(s, r, i, channel[s][r][i])'
  <2>0. PICK d \in {0, 1} : Shifted(s, r, d)
    BY <1>1, QuietStep
  <2>1. PICK msg : msg = channel'[s][r][i]
    OBVIOUS
  <2>2. PICK l \in Nat : l = Len(channel[s][r]) /\ DOMAIN channel[s][r] = 1 .. l
    <3>1. channel[s][r] \in Seq(Message)
      BY Zenon DEF Typed, ChannelTyped, Message
    <3> QED BY <3>1, LenProperties
  <2>3. MessageTyped(s, r, msg)'
    BY <1>1, <2>1, StepTyped, Zenon DEF Typed, ChannelTyped
  <2>4. msg.tx \in Nat
    <3>1. msg.tx \in DOMAIN chain'[s] /\ chain'[s] \in Seq(Block)
      BY <1>0, <2>3 DEF MessageTyped, Grown
    <3> QED BY <3>1, LenProperties
  <2>5. CASE i + d \in DOMAIN channel[s][r] /\ channel'[s][r][i] = channel[s][r][i + d]
    <3>1. MessageTyped(s, r, msg) /\ Exist(msg.blocks)
      BY <2>1, <2>5 DEF Typed, ChannelTyped, MessageTyped
    <3>2. CalmMessage(s, r, i + d, msg)
      BY <1>1, <2>1, <2>5 DEF CalmMessages
    <3>3. i \in Nat
      <4>1. channel'[s][r] \in Seq(Message)
        <5>1. channel' \in [Node -> [Node -> Seq(Message)]]
          BY StepTyped, Zenon DEF Typed, ChannelTyped, Message
        <5> QED BY <5>1
      <4> QED BY <4>1, LenProperties
    <3>4. i + d \in 0 .. Len(channel[s][r]) /\ (i + d) - d = i
      BY <2>2, <2>5, <3>3
    <3>5. ASSUME NEW m \in Node, NEW b \in Int, Reached(s, r, m, i + d, b)
          PROVE  Reached(s, r, m, i, b)'
      <4>1. Reached(s, r, m, (i + d) - d, b)'
        BY <2>0, <3>4, <3>5, ReachedStays
      <4> QED BY <3>4, <4>1
    <3>6. \A t : Included(msg.blocks, t)' <=> Included(msg.blocks, t)
      BY <1>0, <3>1, IncludedStays
    <3>7. Reached(s, r, s, i, msg.tx)'
      BY <2>4, <3>2, <3>5 DEF CalmMessage
    <3>8. ASSUME NEW t, Included(msg.blocks, t), t[2] # 0, t[1] # r
          PROVE  Reached(s, r, t[1], i, t[2])'
      <4>1. t[1] \in Node /\ t[2] \in Int
        BY <1>0, <3>8, IncludedType
      <4>2. Reached(s, r, t[1], i + d, t[2])
        BY <3>2, <3>8 DEF CalmMessage
      <4>3. PICK m \in Node, b \in Int : m = t[1] /\ b = t[2]
        BY <4>1
      <4>4. Reached(s, r, m, i, b)'
        BY <3>5, <4>2, <4>3
      <4> QED BY <4>3, <4>4
    <3>9. CalmMessage(s, r, i, msg)'
      BY <3>2, <3>6, <3>7, <3>8 DEF CalmMessage
    <3> QED BY <2>1, <3>9
  <2>6. CASE /\ SendProof(s) /\ r = Receiver(s)
             /\ i = Len(channel[s][r]) + 1 /\ channel'[s][r][i] = Sending(s)
    <3>1. proof[s] # NoProof /\ Exist(proof[s].blocks)
      BY <2>6, SendAppends
    <3>2. PICK p : p = proof[s].blocks
      OBVIOUS
    <3>3. msg.blocks = p /\ msg.tx = proof[s].tx /\ proof[s].calm /\ i = l + 1
      BY <1>1, <2>1, <2>2, <2>6, <3>2 DEF Sending
    <3>4. CalmProof(s, r, proof[s])
      BY <2>6, <3>1, <3>3 DEF CalmProofs
    <3>5. proof[s].todo = <<>>
      BY <2>6 DEF SendProof
    <3>6. ASSUME NEW m \in Node, NEW b \in Int, Covered(s, r, p, m, b)
          PROVE  Reached(s, r, m, i, b)'
      <4>1. Reached(s, r, m, l + 1, b)'
        BY <2>0, <2>2, <2>6, <3>2, <3>6, CoveredIsReached
      <4> QED BY <3>3, <4>1
    <3>7. Reached(s, r, s, i, msg.tx)'
      BY <2>4, <3>2, <3>3, <3>4, <3>6 DEF CalmProof
    <3>8. ASSUME NEW t, Included(p, t), t[2] # 0, t[1] # r
          PROVE  Reached(s, r, t[1], i, t[2])'
      <4>1. t[1] \in Node /\ t[2] \in Int
        BY <1>0, <3>8, IncludedType
      <4>2. Covered(s, r, p, t[1], t[2])
        <5>1. Covered(s, r, p, t[1], t[2]) \/ t \in Range(proof[s].todo)
          BY <3>2, <3>4, <3>8 DEF CalmProof
        <5>2. t \notin Range(<<>>)
          BY DEF Range
        <5> QED BY <3>5, <5>1, <5>2
      <4>3. PICK m \in Node, b \in Int : m = t[1] /\ b = t[2]
        BY <4>1
      <4>4. Reached(s, r, m, i, b)'
        BY <3>6, <4>2, <4>3
      <4> QED BY <4>3, <4>4
    <3>9. \A t : Included(p, t)' <=> Included(p, t)
      BY <1>0, <3>1, <3>2, IncludedStays
    <3>10. ASSUME NEW m \in Node, NEW j \in 1 .. Len(p[m])
           PROVE  p[m][j] = p[m][1] + j - 1
      <4>1. PICK K \in Int : K = known[s][r][m]
        BY DEF Typed, KnownTyped
      <4>2. p[m] \in Seq(Nat)
        BY <3>1, <3>2 DEF Exist, BlockNumbers
      <4>3. PICK x \in Nat : x = Len(p[m])
        BY <4>2, LenProperties
      <4>4. j \in Nat /\ 1 \in 1 .. Len(p[m])
        BY <3>10, <4>3
      <4>5. p[m][j] = K + j /\ p[m][1] = K + 1
        BY <3>2, <3>4, <3>10, <4>1, <4>4 DEF CalmProof
      <4> QED BY <4>4, <4>5
    <3>11. CalmMessage(s, r, i, msg)'
      BY <3>3, <3>7, <3>8, <3>9, <3>10 DEF CalmMessage
    <3> QED BY <2>1, <3>11
  <2> QED BY <2>0, <2>5, <2>6 DEF Shifted
<1> QED BY <1>1 DEF CalmMessages

-----------------------------------------------------------------------------
(* The message that is due, if its proof was not overtaken.                *)

\* What is underway with the first message can be found in it.
LEMMA UnderwayIsFound ==
    ASSUME Typed, NEW s \in Node, NEW r \in Node, NEW msg,
           channel[s][r] # <<>>, msg = Head(channel[s][r]),
           CalmMessage(s, r, 1, msg), NEW m \in Node, Attaches(r, msg, m),
           NEW b \in Nat, Reached(s, r, m, 1, b)
    PROVE  Finds(r, msg, m, b)
<1>1. PICK v \in Int : v = View(r, m)
  BY ViewType
<1>2. CASE b <= v
  BY <1>1, <1>2 DEF Finds
<1>3. CASE b > v
  <2>1. 1 \in DOMAIN channel[s][r] /\ msg = channel[s][r][1] /\ Exist(msg.blocks)
    BY HeadType DEF MessageTyped
  <2>2. PICK q \in Seq(Nat) : q = msg.blocks[m]
    BY <2>1, Zenon DEF Exist, BlockNumbers
  <2>3. q # <<>> /\ b <= q[Len(q)]
    <3>1. PICK j \in 1 .. 1 : LET u == channel[s][r][j].blocks[m]
                              IN  u # <<>> /\ b <= u[Len(u)]
      BY <1>1, <1>3 DEF Reached
    <3>2. j = 1
      OBVIOUS
    <3> QED BY <2>1, <2>2, <3>1, <3>2
  <2>4. PICK l \in Nat : l = Len(q) /\ l # 0 /\ DOMAIN q = 1 .. l
    BY <2>2, <2>3, LenProperties, EmptySeq
  <2>5. PICK h \in Nat : h = q[1] /\ h = Head(q)
    <3>1. 1 \in 1 .. l
      BY <2>4
    <3>2. q[1] \in Nat
      BY <2>4, <3>1, ElementOfSeq
    <3>3. Head(q) = q[1]
      BY <2>2, SMTT(30)
    <3> QED BY <3>2, <3>3
  <2>6. \A j \in 1 .. l : q[j] = h + j - 1
    BY <2>2, <2>4, <2>5 DEF CalmMessage
  <2>7. h <= v + 1
    BY <1>1, <2>2, <2>3, <2>5 DEF Attaches
  <2>8. b <= h + l - 1
    <3>1. l \in 1 .. l
      BY <2>4
    <3> QED BY <2>3, <2>4, <2>6, <3>1
  <2>9. b - h + 1 \in 1 .. l
    BY <1>1, <1>3, <2>4, <2>7, <2>8
  <2>10. q[b - h + 1] = b
    <3>1. PICK j \in 1 .. l : j = b - h + 1
      BY <2>9
    <3>2. q[j] = h + j - 1
      BY <2>6
    <3> QED BY <3>1, <3>2
  <2> QED BY <2>2, <2>4, <2>5, <2>9, <2>10, Zenon DEF Finds
<1> QED BY <1>1, <1>2, <1>3

\* A source of genesis is found wherever the chain it is on begins.
LEMMA GenesisIsFound ==
    ASSUME Typed, NEW r \in Node, NEW msg, Exist(msg.blocks), NEW m \in Node,
           Attaches(r, msg, m), View(r, m) >= 0 \/ msg.blocks[m] # <<>>
    PROVE  Finds(r, msg, m, 0)
<1>1. PICK v \in Int : v = View(r, m) /\ v >= -1
  BY ViewType
<1>2. CASE v >= 0
  BY <1>1, <1>2 DEF Finds
<1>3. CASE v = -1
  <2>1. PICK q \in Seq(Nat) : q = msg.blocks[m]
    BY DEF Exist, BlockNumbers
  <2>2. q # <<>>
    BY <1>1, <1>3, <2>1
  <2>3. 1 \in DOMAIN q /\ q[1] \in Nat /\ Head(q) = q[1]
    BY <2>1, <2>2
  <2>4. Head(q) <= v + 1
    BY <1>1, <2>1, <2>2 DEF Attaches
  <2>5. q[1] = 0 /\ Head(q) = 0
    BY <1>3, <2>3, <2>4
  <2>6. 1 = 0 - Head(q) + 1
    BY <2>5
  <2> QED BY <2>1, <2>3, <2>5, <2>6 DEF Finds
<1> QED BY <1>1, <1>2, <1>3

\* What the first message of s to r has to be, when no payment was lost.
Due(s, r, msg) ==
    /\ channel[s][r] # <<>> /\ msg = Head(channel[s][r])
    /\ MessageTyped(s, r, msg) /\ Exist(msg.blocks) /\ Shape(msg.blocks)
    /\ msg.tx \in Nat /\ msg.blocks[r] = <<>>
    /\ \A m \in Node : Attaches(r, msg, m)
    /\ CalmMessage(s, r, 1, msg)

\* At the head of its channel, such a message brings or finds all that it needs.
LEMMA FirstIsDue ==
    ASSUME Typed, ChainInv, MessagesAttach, CalmMessages,
           NEW s \in Node, NEW r \in Node, channel[s][r] # <<>>,
           Head(channel[s][r]).calm
    PROVE  Due(s, r, Head(channel[s][r]))
<1>1. PICK msg : msg = Head(channel[s][r])
  OBVIOUS
<1>2. 1 \in DOMAIN channel[s][r] /\ msg = channel[s][r][1] /\ MessageTyped(s, r, msg)
  BY <1>1, HeadType
<1>3. /\ Exist(msg.blocks) /\ Shape(msg.blocks) /\ msg.blocks[r] = <<>>
      /\ CalmMessage(s, r, 1, msg)
  BY <1>1, <1>2 DEF MessageTyped, ChainInv, AllShaped, CalmMessages
<1>4. msg.tx \in Nat
  <2>1. msg.tx \in DOMAIN chain[s] /\ chain[s] \in Seq(Block)
    BY <1>2 DEF MessageTyped, Typed, ChainTyped
  <2> QED BY <2>1, LenProperties
<1>5. ASSUME NEW m \in Node PROVE Attaches(r, msg, m)
  <2>1. PICK q \in Seq(Nat) : q = msg.blocks[m]
    BY <1>3 DEF Exist, BlockNumbers
  <2>2. CASE q # <<>>
    <3>1. Reached(s, r, m, 1 - 1, q[1] - 1)
      BY <1>2, <2>1, <2>2 DEF MessagesAttach
    <3>2. q[1] - 1 <= View(r, m)
      <4>1. \A j \in 1 .. 1 - 1 : FALSE
        OBVIOUS
      <4> QED BY <3>1, <4>1 DEF Reached
    <3>3. q[1] \in Nat /\ Head(q) = q[1]
      BY <2>1, <2>2
    <3>4. Head(q) <= View(r, m) + 1
      BY <3>2, <3>3, ViewType, SMTT(30)
    <3> QED BY <2>1, <3>4 DEF Attaches
  <2>3. CASE q = <<>>
    BY <2>1, <2>3 DEF Attaches
  <2> QED BY <2>2, <2>3
<1>6. Due(s, r, msg)
  BY <1>1, <1>2, <1>3, <1>4, <1>5 DEF Due
<1> QED BY <1>1, <1>6

\* The updates are without a gap.
LEMMA DueChains ==
    ASSUME Typed, NEW s \in Node, NEW r \in Node, NEW msg, Due(s, r, msg),
           NEW m \in Node
    PROVE  ChainValid(r, msg, m)
<1>1. PICK q \in Seq(Nat) : q = msg.blocks[m]
  BY DEF Due, Exist, BlockNumbers
<1>2. DOMAIN q = 1 .. Len(q)
  BY LenProperties
<1>3. ASSUME NEW i \in DOMAIN q PROVE q[i] = Head(q) + i - 1
  <2>1. q[i] = q[1] + i - 1
    BY <1>1, <1>2, <1>3, Zenon DEF Due, CalmMessage
  <2>2. q # <<>>
    BY <1>3
  <2>3. Head(q) = q[1]
    BY <2>2
  <2> QED BY <2>1, <2>3
<1>4. q # <<>> => Head(q) <= View(r, m) + 1
  BY <1>1 DEF Due, Attaches
<1> QED BY <1>1, <1>3, <1>4 DEF ChainValid

\* The sources of the blocks are found.
LEMMA DueSources ==
    ASSUME Typed, MoneyInv, NEW s \in Node, NEW r \in Node, NEW msg, Due(s, r, msg),
           NEW m \in Node, NEW i \in 1 .. Len(msg.blocks[m]),
           NEW t \in SourcesOf(m, msg.blocks[m][i])
    PROVE  Finds(r, msg, t[1], t[2])
<1>0. ChainTyped /\ Exist(msg.blocks)
  BY DEF Typed, Due
<1>1. t \in TxId /\ t[1] \in Node /\ t[2] \in Nat
  <2>1. t \in TxId
    BY <1>0, SourcesType
  <2> QED BY <2>1 DEF TxId
<1>2. Included(msg.blocks, t)
  BY DEF Included
<1>3. Given(m, t)
  <2>1. msg.blocks[m][i] \in DOMAIN chain[m]
    BY DEF SourcesOf, IsTransaction
  <2> QED BY <2>1 DEF MoneyInv, SpentWasGiven
<1>4. \A x \in Node : Attaches(r, msg, x)
  BY DEF Due
<1>5. CASE t = <<m, 0>>
  <2>1. msg.blocks[m] # <<>>
    <3>1. msg.blocks[m] \in Seq(Nat)
      BY <1>0 DEF Exist, BlockNumbers
    <3> QED BY <3>1
  <2> QED BY <1>0, <1>4, <1>5, <2>1, GenesisIsFound
<1>6. CASE t # <<m, 0>>
  <2>1. IsTransaction(t[1], t[2])
    BY <1>3, <1>6 DEF Given
  <2>2. t[2] # 0 /\ t[2] \in Blocks(t[1])
    BY <1>0, <1>1, <2>1, ReceiverType
  <2>3. CASE t[1] = r
    <3>1. t[2] <= View(r, r)
      BY <2>2, <2>3 DEF View, Blocks
    <3> QED BY <2>3, <3>1 DEF Finds
  <2>4. CASE t[1] # r
    <3>1. Reached(s, r, t[1], 1, t[2])
      BY <1>2, <2>2, <2>4 DEF Due, CalmMessage
    <3> QED BY <1>1, <1>4, <3>1, UnderwayIsFound DEF Due
  <2> QED BY <2>3, <2>4
<1> QED BY <1>5, <1>6

\* Such a message is decoded: each source of its blocks is found.
LEMMA DueIsDecoded ==
    ASSUME Typed, MoneyInv, NEW s \in Node, NEW r \in Node, NEW msg, Due(s, r, msg)
    PROVE  Decodes(r, s, msg) /\ Finds(r, msg, s, msg.tx)
<1>1. ASSUME NEW m \in Node, NEW i \in DOMAIN msg.blocks[m],
             NEW t \in SourcesOf(m, msg.blocks[m][i])
      PROVE  Finds(r, msg, t[1], t[2])
  <2>1. i \in 1 .. Len(msg.blocks[m])
    <3>1. msg.blocks[m] \in Seq(Nat)
      BY DEF Due, Exist, BlockNumbers
    <3> QED BY <3>1, LenProperties
  <2> QED BY <1>1, <2>1, DueSources
<1>2. Finds(r, msg, s, msg.tx)
  BY UnderwayIsFound, Zenon DEF Due, CalmMessage
<1>3. ChainValid(r, msg, s) /\ \A m \in Node : Attaches(r, msg, m)
  BY DueChains DEF Due
<1> QED BY <1>1, <1>2, <1>3 DEF Decodes

-----------------------------------------------------------------------------
(* What a transaction rests on.                                            *)

\* There are finitely many transactions.
LEMMA FinitelyMany ==
    ASSUME ChainTyped
    PROVE  Cardinality(Transactions) \in Nat
<1> DEFINE own(n) == {n} \X DOMAIN chain[n]
           all    == {own(n) : n \in Node}
<1>1. ASSUME NEW n \in Node PROVE IsFiniteSet(own(n))
  <2>1. DOMAIN chain[n] = 1 .. Len(chain[n]) /\ Len(chain[n]) \in Nat
    <3>1. chain[n] \in Seq(Block)
      BY DEF ChainTyped
    <3> QED BY <3>1, LenProperties
  <2>2. IsFiniteSet(DOMAIN chain[n]) /\ IsFiniteSet({n})
    <3>1. PICK l \in Int : l = Len(chain[n])
      BY <2>1
    <3>2. 1 \in Int /\ IsFiniteSet(1 .. l)
      BY FS_Interval
    <3> QED BY <2>1, <3>1, <3>2, FS_Singleton, Zenon
  <2> QED BY <2>2, FS_Product
<1>2. IsFiniteSet(all)
  <2> DEFINE f == [n \in Node |-> own(n)]
  <2>1. f \in Surjection(Node, all)
    <3>1. f \in [Node -> all]
      OBVIOUS
    <3>2. \A x \in all : \E n \in Node : f[n] = x
      OBVIOUS
    <3> HIDE DEF f, all
    <3> QED BY <3>1, <3>2 DEF Surjection
  <2>2. IsFiniteSet(Node)
    BY ExchangeAssumption
  <2> HIDE DEF f, all
  <2> QED BY <2>1, <2>2, FS_Surjection
<1>3. \A x \in all : IsFiniteSet(x)
  BY <1>1
<1>4. IsFiniteSet(UNION all)
  <2> HIDE DEF all
  <2> QED BY <1>2, <1>3, FS_UNION
<1>5. Transactions \subseteq UNION all
  BY DEF Transactions
<1>6. IsFiniteSet(Transactions)
  <2> HIDE DEF all
  <2> QED BY <1>4, <1>5, FS_Subset
<1> QED BY <1>6, FS_CardinalityType

\* Transaction u is t or a source of it.
Links(t, u) == u = t \/ u \in SourcesOf(t[1], t[2])

\* What is reached from T in i steps.
StepsFrom(T, i) ==
    {t \in TxId : \E q \in [0 .. i -> TxId] :
        /\ q[0] \in T /\ q[i] = t
        /\ \A j \in 0 .. i - 1 : Links(q[j], q[j + 1])}

\* The sources of the sources, one step further.
LEMMA StepsGoOn ==
    ASSUME ChainTyped, NEW T \in SUBSET TxId, NEW i \in Nat
    PROVE  StepsFrom(T, i) =
               IF i = 0 THEN T
               ELSE StepsFrom(T, i - 1) \cup
                    UNION {SourcesOf(t[1], t[2]) : t \in StepsFrom(T, i - 1)}
<1>1. CASE i = 0
  <2>1. ASSUME NEW t \in StepsFrom(T, 0) PROVE t \in T
    BY <2>1 DEF StepsFrom
  <2>2. ASSUME NEW t \in T PROVE t \in StepsFrom(T, 0)
    <3> DEFINE q == [j \in 0 .. 0 |-> t]
    <3>1. /\ q \in [0 .. 0 -> TxId] /\ q[0] = t
          /\ \A j \in 0 .. 0 - 1 : Links(q[j], q[j + 1])
      OBVIOUS
    <3> HIDE DEF q
    <3> QED BY <3>1 DEF StepsFrom
  <2> QED BY <1>1, <2>1, <2>2
<1>2. CASE i # 0
  <2>1. PICK k \in Nat : i = k + 1 /\ i - 1 = k
    <3>1. i - 1 \in Nat /\ i = (i - 1) + 1
      BY <1>2
    <3> QED BY <3>1
  <2>2. ASSUME NEW t \in StepsFrom(T, k + 1)
        PROVE  \E u \in StepsFrom(T, k) : Links(u, t)
    <3>1. PICK q \in [0 .. k + 1 -> TxId] :
              /\ q[0] \in T /\ q[k + 1] = t
              /\ \A j \in 0 .. (k + 1) - 1 : Links(q[j], q[j + 1])
      BY <2>2 DEF StepsFrom
    <3> DEFINE g == [j \in 0 .. k |-> q[j]]
    <3>2. /\ g \in [0 .. k -> TxId] /\ g[0] \in T
          /\ \A j \in 0 .. k : g[j] = q[j]
      BY <3>1
    <3>3. ASSUME NEW j \in 0 .. k - 1 PROVE Links(g[j], g[j + 1])
      <4>1. j \in 0 .. k /\ j + 1 \in 0 .. k /\ j \in 0 .. (k + 1) - 1
        OBVIOUS
      <4> QED BY <3>1, <3>2, <4>1
    <3> HIDE DEF g
    <3>4. g[k] \in StepsFrom(T, k)
      BY <3>2, <3>3 DEF StepsFrom
    <3>5. Links(g[k], t)
      <4>1. k \in 0 .. k /\ k \in 0 .. (k + 1) - 1
        OBVIOUS
      <4> QED BY <3>1, <3>2, <4>1
    <3> QED BY <3>4, <3>5
  <2>3. ASSUME NEW u \in StepsFrom(T, k), NEW t, Links(u, t)
        PROVE  t \in StepsFrom(T, k + 1)
    <3>1. PICK g \in [0 .. k -> TxId] :
              /\ g[0] \in T /\ g[k] = u
              /\ \A j \in 0 .. k - 1 : Links(g[j], g[j + 1])
      BY <2>3 DEF StepsFrom
    <3>2. t \in TxId
      <4>1. u \in TxId
        BY DEF StepsFrom
      <4>2. u[1] \in Node
        BY <4>1 DEF TxId
      <4> QED BY <2>3, <4>1, <4>2, SourcesType DEF Links
    <3> DEFINE q == [j \in 0 .. k + 1 |-> IF j = k + 1 THEN t ELSE g[j]]
    <3>3. /\ q \in [0 .. k + 1 -> TxId] /\ q[k + 1] = t
          /\ \A j \in 0 .. k : q[j] = g[j]
      <4>1. ASSUME NEW j \in 0 .. k + 1, j # k + 1 PROVE j \in 0 .. k
        BY <4>1
      <4>2. k + 1 \in 0 .. k + 1 /\ \A j \in 0 .. k : j \in 0 .. k + 1 /\ j # k + 1
        OBVIOUS
      <4> QED BY <3>1, <3>2, <4>1, <4>2
    <3> HIDE DEF q
    <3>4. q[0] \in T
      BY <3>1, <3>3
    <3>5. ASSUME NEW j \in 0 .. (k + 1) - 1 PROVE Links(q[j], q[j + 1])
      <4>1. CASE j = k
        <5>1. q[j] = u /\ q[j + 1] = t
          BY <3>1, <3>3, <4>1
        <5> QED BY <2>3, <5>1
      <4>2. CASE j # k
        <5>1. j \in 0 .. k - 1 /\ j \in 0 .. k /\ j + 1 \in 0 .. k
          BY <4>2
        <5> QED BY <3>1, <3>3, <5>1
      <4> QED BY <4>1, <4>2
    <3> QED BY <3>2, <3>3, <3>4, <3>5 DEF StepsFrom
  <2>4. StepsFrom(T, k + 1) = StepsFrom(T, k) \cup
            (UNION {SourcesOf(t[1], t[2]) : t \in StepsFrom(T, k)})
    BY <2>2, <2>3 DEF Links
  <2> QED BY <1>2, <2>1, <2>4
<1> QED BY <1>1, <1>2

\* A set that has the sources of its elements has what they rest on.
LEMMA HistoryIsIn ==
    ASSUME ChainTyped, NEW T \in SUBSET TxId, NEW S, T \subseteq S,
           \A t \in S : SourcesOf(t[1], t[2]) \subseteq S
    PROVE  \A t \in History(T) : t \in S /\ t[2] # 0
<1> DEFINE Reach == CHOOSE f : f = [i \in Nat |->
                        IF i = 0 THEN T
                        ELSE f[i - 1] \cup
                             UNION {SourcesOf(t[1], t[2]) : t \in f[i - 1]}]
           g == [i \in Nat |-> StepsFrom(T, i)]
<1>1. History(T) = {t \in Reach[Cardinality(Transactions)] : t[2] # 0}
  BY Zenon DEF History
<1>2. g = [i \in Nat |-> IF i = 0 THEN T
                         ELSE g[i - 1] \cup
                              UNION {SourcesOf(t[1], t[2]) : t \in g[i - 1]}]
  <2>1. ASSUME NEW i \in Nat
        PROVE  g[i] = IF i = 0 THEN T
                      ELSE g[i - 1] \cup UNION {SourcesOf(t[1], t[2]) : t \in g[i - 1]}
    <3>1. i # 0 => i - 1 \in Nat
      OBVIOUS
    <3> QED BY <3>1, StepsGoOn, Zenon
  <2> QED BY <2>1
<1> HIDE DEF g
<1>3. Reach = [i \in Nat |-> IF i = 0 THEN T
                             ELSE Reach[i - 1] \cup
                                  UNION {SourcesOf(t[1], t[2]) : t \in Reach[i - 1]}]
  BY <1>2, Zenon
<1> HIDE DEF Reach
<1> DEFINE K == {i \in Nat : Reach[i] \subseteq S}
<1>4. 0 \in K
  BY <1>3
<1>5. ASSUME NEW i \in Nat, i \in K PROVE i + 1 \in K
  <2>1. Reach[i + 1] = Reach[i] \cup
            (UNION {SourcesOf(t[1], t[2]) : t \in Reach[i]})
    BY <1>3
  <2> QED BY <1>5, <2>1
<1>6. Nat \subseteq K
  <2> HIDE DEF K
  <2> QED BY <1>4, <1>5, NatSetInduction
<1> QED BY <1>1, <1>6, FinitelyMany

\* A transaction the receiver of a message can verify: it was sent, and it is
\* in the copies or in the updates.
Sound(r, msg, t) ==
    /\ t \in TxId /\ Finds(r, msg, t[1], t[2])
    /\ t[2] # 0 => IsTransaction(t[1], t[2]) /\ t[2] <= sent[t[1]]

\* The sources of what will pass verification will pass as well.
LEMMA SoundSources ==
    ASSUME Typed, MoneyInv, ChainInv, PlaceInv, SourcesEarlier,
           NEW s \in Node, NEW r \in Node, NEW msg, Due(s, r, msg),
           NEW t, Sound(r, msg, t), NEW u \in SourcesOf(t[1], t[2])
    PROVE  Sound(r, msg, u)
<1>0. ChainTyped /\ Exist(msg.blocks)
  BY DEF Typed, Due
<1>1. PICK m \in Node, b \in Nat : t = <<m, b>>
  BY DEF Sound, TxId
<1>2. IsTransaction(m, b) /\ b # 0 /\ b \in DOMAIN chain[m] /\ b <= sent[m]
  <2>1. IsTransaction(m, b)
    BY <1>1 DEF SourcesOf
  <2>2. b # 0 /\ b \in DOMAIN chain[m]
    BY <1>0, <2>1, ReceiverType
  <2> QED BY <1>1, <2>1, <2>2 DEF Sound
<1>3. u \in SourcesOf(m, b)
  BY <1>1
<1>4. u \in TxId /\ u[1] \in Node /\ u[2] \in Nat
  <2>1. u \in TxId
    BY <1>0, <1>3, SourcesType
  <2> QED BY <2>1 DEF TxId
<1>5. Finds(r, msg, u[1], u[2])
  <2>1. CASE b <= View(r, m)
    <3>1. b \in 1 .. View(r, m)
      BY <1>2, <2>1, ViewType
    <3>2. u[2] <= View(r, u[1])
      BY <1>3, <3>1 DEF ChainInv, SourcesAtHand
    <3> QED BY <3>2 DEF Finds
  <2>2. ASSUME NEW i \in DOMAIN msg.blocks[m], msg.blocks[m][i] = b
        PROVE  Finds(r, msg, u[1], u[2])
    <3>1. i \in 1 .. Len(msg.blocks[m])
      <4>1. msg.blocks[m] \in Seq(Nat)
        BY <1>0 DEF Exist, BlockNumbers
      <4> QED BY <2>2, <4>1, LenProperties
    <3> QED BY <1>3, <2>2, <3>1, DueSources
  <2>3. Finds(r, msg, m, b)
    BY <1>1 DEF Sound
  <2> QED BY <2>1, <2>2, <2>3 DEF Finds
<1>6. Given(m, u)
  BY <1>2, <1>3 DEF MoneyInv, SpentWasGiven
<1>7. ASSUME u[2] # 0 PROVE IsTransaction(u[1], u[2]) /\ u[2] <= sent[u[1]]
  <2>1. IsTransaction(u[1], u[2])
    BY <1>6, <1>7 DEF Given
  <2>2. CASE u[1] = m
    <3>1. u[2] < b
      BY <1>2, <1>3, <2>2 DEF SourcesEarlier
    <3>2. sent[m] \in Nat
      BY DEF Typed, ProofTyped
    <3>3. u[2] <= sent[m]
      BY <1>2, <1>4, <3>1, <3>2
    <3> QED BY <2>1, <2>2, <3>3
  <2>3. CASE u[1] # m
    BY <1>3, <2>1, <2>3, SpentWasHanded
  <2> QED BY <2>1, <2>2, <2>3
<1> QED BY <1>4, <1>5, <1>7 DEF Sound

\* A block at or after it is committed, and the receiver can tell.
LEMMA SoundVerifies ==
    ASSUME Typed, ChainInv, FullCaches, CommitsExist, SentConfirmed,
           NEW s \in Node, NEW r \in Node, NEW msg, Due(s, r, msg),
           NEW t, Sound(r, msg, t), t[2] # 0
    PROVE  Verifies(r, msg, t)
<1>1. PICK m \in Node, b \in Nat : t = <<m, b>>
  BY DEF Sound, TxId
<1>2. PICK v \in Int : v = View(r, m)
  BY ViewType
<1>3. PICK q \in Seq(Nat) : q = msg.blocks[m]
  BY DEF Due, Exist, BlockNumbers
<1>4. Finds(r, msg, m, b) /\ b <= sent[m] /\ ChainValid(r, msg, m)
  BY <1>1, DueChains DEF Sound
<1>5. b <= v \/ b \in {x \in ToSet(q) : x >= b}
  <2>1. ASSUME NEW i \in DOMAIN q, q[i] = b PROVE b \in ToSet(q)
    BY <1>3, <2>1 DEF ToSet
  <2> QED BY <1>2, <1>3, <1>4, <2>1 DEF Finds
<1>6. \/ \E x \in b .. v : NextCommitted(r, m, x) # NoBlock
      \/ \E x \in (b .. v) \cup {y \in ToSet(q) : y >= b} : InCache(r, m, x)
  <2>1. CASE b <= v /\ m # r
    <3>1. b \in 0 .. v /\ b \in b .. v
      BY <2>1
    <3>2. NextCommitted(r, m, b) \in b .. v
      BY <1>2, <2>1, <3>1 DEF ChainInv, AllSegments, Segments
    <3>3. NextCommitted(r, m, b) # NoBlock
      BY <3>2 DEF NoBlock
    <3> QED BY <3>1, <3>3
  <2>2. CASE b <= v /\ m = r
    <3>1. PICK c \in Nat : c >= sent[r] /\ IsCommitted(r, c)
      BY DEF SentConfirmed
    <3>2. c \in b .. v
      <4>1. c \in Blocks(r)
        BY <3>1 DEF CommitsExist
      <4>2. sent[r] \in Nat
        BY DEF Typed, ProofTyped
      <4>3. v = Len(chain[r])
        BY <1>2, <2>2 DEF View
      <4> QED BY <1>4, <2>2, <3>1, <4>1, <4>2, <4>3 DEF Blocks
    <3>3. InCache(r, m, c)
      BY <2>2, <3>1, FullCacheTells DEF Typed
    <3> QED BY <3>2, <3>3
  <2>3. CASE ~(b <= v)
    <3>1. PICK i \in DOMAIN q : q[i] = b
      BY <1>2, <1>3, <1>4, <2>3 DEF Finds
    <3>2. PICK l \in Nat : l = Len(q) /\ DOMAIN q = 1 .. l
      BY LenProperties
    <3>3. i \in 1 .. l /\ l \in 1 .. l
      BY <3>1, <3>2
    <3>4. q # <<>>
      BY <3>2, <3>3, EmptySeq
    <3>5. IsCommitted(m, q[l]) /\ Ascends(q)
      BY <1>3, <3>2, <3>4 DEF Due, Shape, EndCommitted
    <3>6. q[l] \in ToSet(q) /\ q[l] \in Nat
      BY <3>2, <3>3, ElementOfSeq, ToSetType
    <3>7. b <= q[l]
      <4>1. i < l => q[i] < q[l]
        BY <3>2, <3>3, <3>5 DEF Ascends
      <4>2. i = l => q[i] = q[l]
        OBVIOUS
      <4> QED BY <3>1, <3>3, <3>6, <4>1, <4>2
    <3>8. InCache(r, m, q[l])
      BY <3>5, FullCacheTells DEF Typed
    <3>9. q[l] \in {y \in ToSet(q) : y >= b}
      BY <3>6, <3>7
    <3> QED BY <3>8, <3>9, Zenon
  <2> QED BY <2>1, <2>2, <2>3
<1> QED BY <1>1, <1>2, <1>3, <1>4, <1>5, <1>6 DEF Verifies

\* Its sources belong to the sender and are spent once.
LEMMA SoundSpends ==
    ASSUME Typed, MoneyInv, NEW r, NEW msg, NEW t, Sound(r, msg, t), t[2] # 0
    PROVE  SpendsOwnMoney(t) /\ SpendsOnce(t)
<1>1. PICK m \in Node, b \in Nat : t = <<m, b>>
  BY DEF Sound, TxId
<1>2. IsTransaction(m, b) /\ b \in DOMAIN chain[m]
  BY <1>1 DEF Sound, IsTransaction
<1>3. Tx(t).src = SourcesOf(m, b)
  BY <1>1, <1>2 DEF Tx, SourcesOf
<1>4. ASSUME NEW u \in Tx(t).src
      PROVE  IF u[2] = 0 THEN u[1] = t[1] ELSE Tx(u).to = t[1] \/ u[1] = t[1]
  <2>1. Given(m, u)
    BY <1>2, <1>3, <1>4 DEF MoneyInv, SpentWasGiven
  <2>2. CASE u = <<m, 0>>
    BY <1>1, <2>2
  <2>3. CASE u # <<m, 0>>
    <3>1. IsTransaction(u[1], u[2]) /\ (u[1] = m \/ Tx(u).to = m)
      BY <2>1, <2>3 DEF Given
    <3>2. u[1] \in Node
      BY <1>3, <1>4, SourcesType DEF Typed, TxId
    <3>3. u[2] # 0
      BY <3>1, <3>2, ReceiverType DEF Typed
    <3> QED BY <1>1, <3>1, <3>3
  <2> QED BY <2>2, <2>3
<1>5. ASSUME NEW c \in 1 .. b - 1 PROVE SourcesOf(m, c) \cap SourcesOf(m, b) = {}
  <2>1. CASE c \in DOMAIN chain[m]
    <3>1. c # b
      OBVIOUS
    <3> QED BY <1>2, <2>1, <3>1 DEF MoneyInv, SpentWasGiven
  <2>2. CASE c \notin DOMAIN chain[m]
    BY <2>2 DEF SourcesOf, IsTransaction
  <2> QED BY <2>1, <2>2
<1>6. SpendsOwnMoney(t)
  BY <1>4 DEF SpendsOwnMoney
<1>7. SpendsOnce(t)
  BY <1>1, <1>3, <1>5 DEF SpendsOnce
<1> QED BY <1>6, <1>7

\* Such a message passes verification.
LEMMA DueIsValid ==
    ASSUME Typed, MoneyInv, ChainInv, PlaceInv, FullCaches, CommitsExist,
           SourcesEarlier, SentConfirmed,
           NEW s \in Node, NEW r \in Node, NEW msg, Due(s, r, msg)
    PROVE  IsValid(r, s, msg)
<1>1. 1 \in DOMAIN channel[s][r] /\ msg = channel[s][r][1]
  BY HeadType DEF Due
<1>2. <<s, msg.tx>> \notin Accepted(r) /\ Handed(s, msg.tx)
  BY <1>1 DEF PlaceInv, MessagesWereSent
<1> DEFINE T == {<<s, msg.tx>>}
           S == {t \in TxId : Sound(r, msg, t)}
<1>3. Sound(r, msg, <<s, msg.tx>>)
  <2>1. <<s, msg.tx>> \in TxId
    BY DEF Due, TxId
  <2>2. IsTransaction(s, msg.tx)
    <3>1. chain[s][msg.tx].to = r /\ msg.tx \in DOMAIN chain[s] /\ r # NoNode
      BY ExchangeAssumption DEF Due, MessageTyped, NoNode
    <3> QED BY <3>1 DEF IsTransaction
  <2>3. Finds(r, msg, s, msg.tx)
    BY DueIsDecoded
  <2> QED BY <1>2, <2>1, <2>2, <2>3 DEF Sound, Handed
<1>4. T \in SUBSET TxId /\ T \subseteq S
  BY <1>3 DEF Sound
<1>5. \A t \in S : SourcesOf(t[1], t[2]) \subseteq S
  <2>1. ASSUME NEW t \in S, NEW u \in SourcesOf(t[1], t[2]) PROVE u \in S
    <3>1. Sound(r, msg, u)
      BY <2>1, SoundSources
    <3> QED BY <3>1 DEF Sound
  <2> QED BY <2>1
<1>6. \A t \in History(T) : t \in S /\ t[2] # 0
  <2> HIDE DEF T, S
  <2> QED BY <1>4, <1>5, HistoryIsIn, Zenon DEF Typed
<1>7. ASSUME NEW t \in History(T)
      PROVE  Verifies(r, msg, t) /\ SpendsOwnMoney(t) /\ SpendsOnce(t)
  BY <1>6, SoundVerifies, SoundSpends
<1> QED BY <1>2, <1>7 DEF IsValid

-----------------------------------------------------------------------------
(* An honest proof is accepted.                                            *)

\* No payment was lost so far, and the proofs that were not overtaken pass.
QuietInv == KnownReached /\ MessagesAttach /\ CalmMessages

HonestInv ==
    /\ FullCaches
    /\ CommitsExist
    /\ SourcesEarlier
    /\ SentConfirmed
    /\ AllDirect
    /\ ProofsJoined
    /\ MessagesJoined
    /\ SendersHave
    /\ CalmProofs
    /\ failure = "none" => QuietInv

\* A proof that was not overtaken is valid for a receiver that has cached the
\* main chain: a first failure is not for want of the sender's honesty.
LEMMA StepHonest ==
    ASSUME Typed, MoneyInv, ChainInv, PlaceInv, HonestInv, HonestProofsPass,
           [Next]_vars
    PROVE  HonestProofsPass'
<1>1. ASSUME NEW s \in Node, NEW r \in Node, Verify(s, r) PROVE HonestProofsPass'
  <2>1. PICK msg : msg = Head(channel[s][r]) /\ channel[s][r] # <<>>
    BY <1>1, Zenon DEF Verify
  <2>2. CASE failure # "none"
    <3>1. failure' = failure
      BY <1>1, <2>2 DEF Verify, Fail
    <3> QED BY <3>1 DEF HonestProofsPass
  <2>3. CASE failure = "none" /\ msg.calm
    <3>1. Due(s, r, msg)
      BY <2>1, <2>3, FirstIsDue DEF HonestInv, QuietInv
    <3>2. Decodes(r, s, msg)
      BY <3>1, DueIsDecoded
    <3>3. IsValid(r, s, msg)
      BY <3>1, DueIsValid DEF HonestInv
    <3>4. failure' = failure
      BY <1>1, <2>1, <3>2, <3>3 DEF Verify
    <3> QED BY <3>4 DEF HonestProofsPass
  <2>4. CASE failure = "none" /\ ~msg.calm
    <3>1. Refusal(r, msg) # "honest"
      BY <2>4 DEF Refusal
    <3>2. failure' = failure \/ failure' = Refusal(r, msg)
      BY <1>1, <2>1, <2>4 DEF Verify, Fail
    <3> QED BY <3>1, <3>2 DEF HonestProofsPass
  <2> QED BY <2>2, <2>3, <2>4
<1>2. ASSUME NEW n \in Node,
             UpdateCache(n) \/ SendProof(n) \/ AddSource(n) \/ StartProof(n)
                 \/ Pay(n) \/ Stop(n) \/ SendFails(n)
      PROVE  failure' = failure \/ failure' = "network"
  BY <1>2 DEF UpdateCache, SendProof, AddSource, StartProof, Pay, Stop, SendFails,
              Fail, netVars
<1>3. ASSUME NEW s \in Node, NEW r \in Node, Apply(s, r) \/ ConnectionBreaks(s, r)
      PROVE  failure' = failure \/ failure' = "network"
  BY <1>3, Zenon DEF Apply, ConnectionBreaks, Fail
<1>4. CASE UNCHANGED vars
  BY <1>4 DEF vars, netVars, HonestProofsPass
<1> QED BY <1>1, <1>2, <1>3, <1>4 DEF Next, Work, Fault, HonestProofsPass

\* Before the first failure, every step keeps what the messages rest on.
LEMMA StepQuiet ==
    ASSUME Typed, ChainInv, HonestInv, [Next]_vars, failure' = "none"
    PROVE  QuietInv'
<1>1. CASE Node = {}
  BY <1>1 DEF QuietInv, KnownReached, MessagesAttach, CalmMessages
<1>2. CASE Node # {}
  <2>1. PICK n \in Node : TRUE
    BY <1>2
  <2>2. failure = "none"
    BY <2>1, NothingLost
  <2>3. QuietInv
    BY <2>2 DEF HonestInv
  <2>4. KnownReached'
    BY <2>3, StepKnownReached DEF HonestInv, QuietInv
  <2>5. MessagesAttach'
    BY <2>3, StepMessagesAttach DEF HonestInv, QuietInv
  <2>6. CalmMessages'
    BY <2>3, StepCalmMessages DEF HonestInv, QuietInv
  <2> QED BY <2>4, <2>5, <2>6 DEF QuietInv
<1> QED BY <1>1, <1>2

\* Every step keeps the invariant of the accepted proofs.
LEMMA StepHonestInv ==
    ASSUME ~CacheLags, Typed, MoneyInv, ChainInv, PlaceInv, HonestInv, [Next]_vars
    PROVE  HonestInv'
<1>1. /\ FullCaches /\ CommitsExist /\ SourcesEarlier /\ SentConfirmed /\ AllDirect
      /\ ProofsJoined /\ MessagesJoined /\ SendersHave /\ CalmProofs
  BY DEF HonestInv
<1>2. FullCaches' /\ CommitsExist' /\ SourcesEarlier' /\ SentConfirmed'
  BY <1>1, StepCaches, StepCommitsExist, StepSourcesEarlier, StepSentConfirmed
<1>3. AllDirect' /\ ProofsJoined' /\ MessagesJoined' /\ SendersHave'
  BY <1>1, StepDirect, StepProofsJoined, StepMessagesJoined, StepSendersHave
<1>4. CalmProofs'
  BY <1>1, StepCalmProofs
<1>5. failure' = "none" => QuietInv'
  BY StepQuiet
<1> QED BY <1>2, <1>3, <1>4, <1>5 DEF HonestInv

\* It holds when the simulation begins.
LEMMA InitHonest ==
    ASSUME Init
    PROVE  HonestInv /\ HonestProofsPass
<1> USE DEF Init
<1>1. DOMAIN <<>> = {} /\ Len(<<>>) = 0
  OBVIOUS
<1>2. \A m, b : IsCommitted(m, b) <=> b = 0
  BY <1>1 DEF IsCommitted
<1>3. FullCaches /\ CommitsExist /\ SourcesEarlier /\ SentConfirmed
  <2>1. FullCaches
    BY DEF FullCaches
  <2>2. CommitsExist
    BY <1>1, <1>2 DEF CommitsExist, Blocks
  <2>3. SourcesEarlier
    BY <1>1 DEF SourcesEarlier
  <2>4. SentConfirmed
    BY <1>2 DEF SentConfirmed
  <2> QED BY <2>1, <2>2, <2>3, <2>4
<1>4. \A n, m \in Node : View(n, m) \in Int /\ View(n, m) >= -1
                        /\ (n # m => View(n, m) = -1)
  BY <1>1 DEF View
<1>5. AllDirect
  <2>1. \A n, m \in Node : n # m => 0 .. View(n, m) = {}
    BY <1>4
  <2> QED BY <2>1, Zenon DEF AllDirect, Direct
<1>6. ProofsJoined
  <2>1. ASSUME NEW n \in Node, NEW m \in Node PROVE Joined(proof[n].blocks, m)
    <3>1. proof[n].blocks[m] = <<>>
      BY DEF NoProof
    <3> QED BY <1>1, <3>1 DEF Joined
  <2> QED BY <2>1 DEF ProofsJoined
<1>7. \A s, r \in Node : DOMAIN channel[s][r] = {}
  BY <1>1
<1>8. MessagesJoined /\ SendersHave
  BY <1>7 DEF MessagesJoined, SendersHave
<1>9. CalmProofs
  BY DEF CalmProofs
<1>10. KnownReached
  <2>1. ASSUME NEW s \in Node, NEW r \in Node, NEW m \in Node
        PROVE  known[s][r][m] <= View(r, m)
    <3>1. known[s][r][m] = -1
      OBVIOUS
    <3> QED BY <1>4, <3>1
  <2> QED BY <2>1 DEF KnownReached, Reached
<1>11. MessagesAttach /\ CalmMessages
  BY <1>7 DEF MessagesAttach, CalmMessages
<1>12. HonestProofsPass
  BY DEF HonestProofsPass
<1> QED BY <1>3, <1>5, <1>6, <1>8, <1>9, <1>10, <1>11, <1>12 DEF HonestInv, QuietInv

\* Where caches do not lag, the first payment that is refused was not refused
\* with a proof that nothing overtook: what a sender takes its peer to know, it
\* knows or will know when it gets to the message, so that the blocks that
\* MetaKnowledge leaves out of a proof are never missed in its verification.
THEOREM HonestProofsAreAccepted ==
    ASSUME ~CacheLags
    PROVE  Spec => []HonestProofsPass
<1>1. Init => HonestInv /\ HonestProofsPass
  BY InitHonest
<1>2. /\ Typed /\ MoneyInv /\ ChainInv /\ PlaceInv
      /\ HonestInv /\ HonestProofsPass /\ [Next]_vars
      => HonestInv' /\ HonestProofsPass'
  BY StepHonestInv, StepHonest
<1> QED BY <1>1, <1>2, AlwaysTyped, MoneyAlways, ChainsAlways, PlacedAlways, PTL
        DEF Spec

=============================================================================
