--------------------------- MODULE MempoolProofs ---------------------------
(***************************************************************************)
(* Theorems about Mempool, for every set of transactions and outpoints,    *)
(* every depth of recentlyDeleted and any number of blocks.                *)
(* First that what it holds is right, in every execution; then that it     *)
(* misses nothing, in executions that no exception or clear protection has *)
(* disturbed: the spend map has every input of the mempool, and the        *)
(* replacement cache is told of every replacement.                         *)
(*                                                                         *)
(* Then theorems about RbfMempool: the mempool and the RBF cache keep,     *)
(* side by side, what each of them promises alone, and together they       *)
(* excuse what a block double-spends.                                      *)
(***************************************************************************)
EXTENDS RbfMempool, TLAPS

(***************************************************************************)
(* Type correctness                                                        *)
(***************************************************************************)

\* Remember puts the deletions of this update in front of those of earlier
\* ones and keeps Depth of them.
LEMMA RememberFacts ==
  ASSUME TypeOK, NEW deleted \in SUBSET Txid
  PROVE  /\ Remember(deleted) \in Seq(SUBSET Txid)
         /\ Len(Remember(deleted)) <= Depth
         /\ Remember(deleted)[1] = deleted
         /\ \A i \in DOMAIN Remember(deleted) :
               \/ Remember(deleted)[i] = deleted
               \/ \E j \in DOMAIN recentlyDeleted :
                     Remember(deleted)[i] = recentlyDeleted[j]
<1> DEFINE all == <<deleted>> \o recentlyDeleted
<1>1. /\ all \in Seq(SUBSET Txid)
      /\ Len(all) = 1 + Len(recentlyDeleted)
      /\ all[1] = deleted
      /\ \A i \in 1..Len(all) : i # 1 => all[i] = recentlyDeleted[i - 1]
  BY DEF TypeOK
<1>2. Len(recentlyDeleted) \in Nat /\ Depth \in Nat /\ Depth >= 1
  BY MempoolAssumption DEF TypeOK
<1>3. \A i \in 1..Len(all) : i # 1 => i - 1 \in DOMAIN recentlyDeleted
  BY <1>1, <1>2 DEF TypeOK
<1> HIDE DEF all
<1>4. CASE Len(all) <= Depth
  <2>1. Remember(deleted) = all
    BY <1>4 DEF Remember, all
  <2> QED BY <2>1, <1>1, <1>3, <1>4
<1>5. CASE ~(Len(all) <= Depth)
  <2>1. Remember(deleted) = SubSeq(all, 1, Depth)
    BY <1>5 DEF Remember, all
  <2>2. /\ SubSeq(all, 1, Depth) \in Seq(SUBSET Txid)
        /\ Len(SubSeq(all, 1, Depth)) = Depth
        /\ \A i \in 1..Depth : SubSeq(all, 1, Depth)[i] = all[i]
    BY <1>1, <1>2, <1>5
  <2> QED BY <2>1, <2>2, <1>1, <1>2, <1>3, <1>5
<1> QED BY <1>4, <1>5

\* Every variable keeps its type (mempool.ts:17-45), recentlyDeleted its
\* length.
THEOREM TypeCorrect == Spec => []TypeOK
<1>1. Init => TypeOK
  <2> SUFFICES ASSUME Init
               PROVE  TypeOK
    OBVIOUS
  <2>1. recentlyDeleted \in Seq(SUBSET Txid) /\ Len(recentlyDeleted) <= Depth
    BY MempoolAssumption DEF Init
  <2>2. /\ blockOf \in [Txid -> Nat]
        /\ spendMap \in [Outpoint -> Txid \cup {None}]
    BY DEF Init
  <2>3. await \in Await
    BY DEF Init, Await
  <2>4. /\ {pool, dropped, mempoolCache} \subseteq SUBSET Txid
        /\ {transactions, remaining, newTransactions} \subseteq SUBSET Txid
        /\ {nodeHeight, currentBlockHeight, blockHeightTip} \subseteq Nat
        /\ mempoolProtection \in 0..2
        /\ replacements \subseteq Txid \X Txid
        /\ spent \subseteq Outpoint
    BY DEF Init
  <2>5. inSync \in BOOLEAN /\ undisturbed \in BOOLEAN
    BY DEF Init
  <2> QED BY <2>1, <2>2, <2>3, <2>4, <2>5 DEF TypeOK
<1>2. TypeOK /\ [Next]_vars => TypeOK'
  <2> SUFFICES ASSUME TypeOK, [Next]_vars
               PROVE  TypeOK'
    OBVIOUS
  <2> USE MempoolAssumption
      DEF TypeOK, Await, nodeVars, cacheVars, roundVars, EndRound
  <2>1. CASE NodeStep
    <3>1. ASSUME NEW t \in Txid, NodeAccept(t) \/ NodeDrop(t)
          PROVE  TypeOK'
      BY <3>1 DEF NodeAccept, NodeDrop
    <3>2. ASSUME NEW block \in SUBSET Txid, NodeBlock(block)
          PROVE  TypeOK'
      BY <3>2 DEF NodeBlock
    <3> QED BY <2>1, <3>1, <3>2 DEF NodeStep
  <2>2. CASE ListMempool \/ ReadTip \/ Throw
    <3>1. CASE ListMempool \/ ReadTip
      BY <3>1 DEF ListMempool, ReadTip
    <3>2. CASE Throw
      <4>1. inSync' \in BOOLEAN /\ undisturbed' \in BOOLEAN
        BY <3>2 DEF Throw
      <4> QED BY <3>2, <4>1 DEF Throw
    <3> QED BY <2>2, <3>1, <3>2
  <2>3. CASE StartBlock
    <3>1. \A t \in Block : Spends[t] \subseteq Outpoint
      BY DEF Block
    <3>2. spent' \subseteq Outpoint
      BY <2>3, <3>1 DEF StartBlock
    <3> QED BY <2>3, <3>2 DEF StartBlock
  <2>4. ASSUME NEW o \in Outpoint, LookUpInput(o)
        PROVE  TypeOK'
    BY <2>4 DEF LookUpInput, Block
  <2>5. CASE AuditBlock \/ ConfirmBlock \/ PushBlock
    BY <2>5 DEF AuditBlock, ConfirmBlock, PushBlock, Without
  <2>6. CASE Slices
    BY <2>6 DEF Slices, AddSlice
  <2>7. CASE DeleteTransactions
    <3>1. Deleted \subseteq Txid
      BY DEF Deleted
    <3>2. /\ Remember(Deleted) \in Seq(SUBSET Txid)
          /\ Len(Remember(Deleted)) <= Depth
      BY <3>1, RememberFacts
    <3>3. /\ mempoolProtection' \in 0..2
          /\ mempoolCache' \subseteq Txid
          /\ recentlyDeleted' = Remember(Deleted)
          /\ UNCHANGED <<pool, blockOf, nodeHeight, dropped, spendMap,
                         currentBlockHeight, replacements>>
      BY <2>7 DEF DeleteTransactions
    <3>4. inSync' \in BOOLEAN /\ undisturbed' \in BOOLEAN
      BY <2>7 DEF DeleteTransactions
    <3>5. /\ await' \in {"poll", "templates"}
          /\ transactions' \subseteq Txid
          /\ blockHeightTip' \in Nat
          /\ spent' \subseteq Outpoint
          /\ remaining' \subseteq Txid
          /\ newTransactions' \subseteq Txid
      <4>1. \/ /\ await' = "templates"
               /\ UNCHANGED <<transactions, blockHeightTip, spent, remaining,
                              newTransactions>>
            \/ EndRound
        BY <2>7, Zenon DEF DeleteTransactions
      <4> QED BY <4>1
    <3> QED BY <3>2, <3>3, <3>4, <3>5
  <2>8. CASE MempoolChanged
    <3>1. Matches \subseteq Txid \X Txid
      BY DEF Matches, NaiveMatches, ScalableMatches, RecentlyDeleted
    <3>2. spendMap' \in [Outpoint -> Txid \cup {None}]
      BY <2>8 DEF MempoolChanged, With, Without
    <3> QED BY <2>8, <3>1, <3>2 DEF MempoolChanged
  <2>9. CASE ProtectionEnds
    BY <2>9 DEF ProtectionEnds
  <2>10. CASE UNCHANGED vars
    BY <2>10 DEF vars
  <2> QED
    BY <2>1, <2>2, <2>3, <2>4, <2>5, <2>6, <2>7, <2>8, <2>9, <2>10 DEF Next
<1> QED BY <1>1, <1>2, PTL DEF Spec

(***************************************************************************)
(* The inductive invariant                                                 *)
(***************************************************************************)

\* What the node has or had: its mempool, what it dropped, what is in blocks.
Known == pool \cup dropped \cup Confirmed

NodeConsistent ==
    /\ \A t \in pool : blockOf[t] = 0
    /\ \A t \in Txid : blockOf[t] <= nodeHeight
    /\ currentBlockHeight <= nodeHeight

\* No block that was handled holds t.
Unhandled(t) == blockOf[t] = 0 \/ blockOf[t] > currentBlockHeight

\* What a round knows of the node: a listed transaction is in no block that
\* was handled, and, once the tip shows no new block, whatever is missing in
\* the list was dropped.
RoundConsistent ==
    /\ mempoolCache \cup transactions \subseteq Known
    /\ await # "slice" => remaining = {}
    /\ await \notin {"slice", "templates"} => newTransactions = {}
    /\ remaining \subseteq transactions
    /\ newTransactions \subseteq transactions \cap mempoolCache
    /\ await \in {"tip", "slice", "templates"} =>
          \A t \in transactions : Unhandled(t)
    /\ await = "tip" => mempoolCache \ transactions \subseteq dropped \cup Confirmed
    /\ await = "slice" => mempoolCache \ transactions \subseteq dropped

\* A block that is being handled is one the node has; its transactions leave
\* the spend map first, then the mempool.
BlockConsistent ==
    await \in {"block", "inputs", "audit", "rest"} =>
       /\ currentBlockHeight < blockHeightTip /\ blockHeightTip <= nodeHeight
       /\ await = "audit" => \A o \in Outpoint : spendMap[o] \notin Block
       /\ await = "rest" => mempoolCache \cap Block = {}

Following ==
    /\ NodeConsistent
    /\ RoundConsistent
    /\ BlockConsistent
    /\ ConfirmedLeave
    /\ SpendMapSound
    /\ RemovedWereDropped

\* The node only moves transactions from its mempool to the dropped ones or
\* to a block above all that were handled.
LEMMA NodeStepKeepsFollowing ==
  ASSUME TypeOK, Following, NodeStep
  PROVE  Following'
<1> USE DEF nodeVars, cacheVars, roundVars
<1>1. UNCHANGED <<cacheVars, roundVars>>
  BY DEF NodeStep, NodeAccept, NodeDrop, NodeBlock
<1> DEFINE Grows ==
      /\ dropped \subseteq dropped'
      /\ pool \subseteq pool' \cup dropped' \cup Confirmed'
      /\ nodeHeight' \in Nat /\ nodeHeight <= nodeHeight'
      /\ \A t \in Txid : blockOf[t] # 0 => blockOf'[t] = blockOf[t]
      /\ \A t \in Txid : blockOf'[t] = blockOf[t] \/ blockOf'[t] = nodeHeight + 1
      /\ \A t \in Txid : blockOf'[t] <= nodeHeight'
      /\ \A t \in pool' : blockOf'[t] = 0
<1>2. Grows
  <2> USE DEF Following, NodeConsistent, TypeOK, Confirmed
  <2>1. ASSUME NEW t \in Txid, NodeAccept(t)
        PROVE  Grows
    BY <2>1 DEF NodeAccept
  <2>2. ASSUME NEW t \in Txid, NodeDrop(t)
        PROVE  Grows
    BY <2>2 DEF NodeDrop
  <2>3. ASSUME NEW block \in SUBSET Txid, NodeBlock(block)
        PROVE  Grows
    <3>1. /\ nodeHeight' = nodeHeight + 1
          /\ \A t \in Txid : blockOf'[t] = IF t \in block THEN nodeHeight + 1
                                                        ELSE blockOf[t]
          /\ block \cap Confirmed = {}
      BY <2>3 DEF NodeBlock
    <3>2. dropped \subseteq dropped'
      BY <2>3 DEF NodeBlock
    <3>3. pool \subseteq pool' \cup dropped' \cup block
      BY <2>3 DEF NodeBlock
    <3>4. pool' \subseteq pool \ block
      BY <2>3 DEF NodeBlock
    <3> QED BY <3>1, <3>2, <3>3, <3>4
  <2> QED BY <2>1, <2>2, <2>3 DEF NodeStep
<1> HIDE DEF Grows
<1>3. Confirmed \subseteq Confirmed' /\ Known \subseteq Known'
  BY <1>2 DEF Grows, Confirmed, Known, TypeOK
<1>4. NodeConsistent'
  BY <1>1, <1>2 DEF Grows, Following, NodeConsistent, TypeOK
<1>5. \A t \in Txid : Unhandled(t) => Unhandled(t)'
  BY <1>1, <1>2 DEF Grows, Unhandled, Following, NodeConsistent, TypeOK
<1>6. RoundConsistent'
  <2>1. \A t \in transactions : t \in Txid
    BY DEF TypeOK
  <2> QED BY <1>1, <1>2, <1>3, <1>5, <2>1
          DEF Grows, Following, RoundConsistent
<1>7. BlockConsistent'
  <2> SUFFICES ASSUME await \in {"block", "inputs", "audit", "rest"}
               PROVE  BlockConsistent'
    BY <1>1 DEF BlockConsistent
  <2>1. currentBlockHeight < blockHeightTip /\ blockHeightTip <= nodeHeight
    BY DEF Following, BlockConsistent
  <2>2. Block' = Block
    BY <1>1, <1>2, <2>1 DEF Grows, Block, TypeOK
  <2>3. blockHeightTip <= nodeHeight'
    BY <1>2, <2>1 DEF Grows, TypeOK
  <2> QED BY <1>1, <2>1, <2>2, <2>3 DEF Following, BlockConsistent
<1>8. ConfirmedLeave'
  BY <1>1, <1>5 DEF ConfirmedLeave, Unhandled, Following, TypeOK
<1>9. SpendMapSound'
  BY <1>1 DEF SpendMapSound, Following
<1>10. RemovedWereDropped'
  BY <1>1, <1>2 DEF Grows, RemovedWereDropped, RecentlyDeleted, Following
<1> QED
  BY <1>4, <1>6, <1>7, <1>8, <1>9, <1>10 DEF Following

\* What the steps of the main loop leave alone keeps these parts.
LEMMA NodeUnchanged ==
  ASSUME TypeOK, Following,
         UNCHANGED <<pool, blockOf, nodeHeight, dropped, currentBlockHeight>>
  PROVE  /\ NodeConsistent'
         /\ Known' = Known
         /\ Confirmed' = Confirmed
         /\ Block' = Block
         /\ \A t \in Txid : Unhandled(t)' = Unhandled(t)
BY DEF Following, NodeConsistent, Known, Confirmed, Block, Unhandled

\* The list of txids is the node's mempool; what it lacks of the cached one
\* was dropped or is in a block.
LEMMA ListMempoolKeepsFollowing ==
  ASSUME TypeOK, Following, ListMempool
  PROVE  Following'
<1> USE DEF ListMempool, nodeVars, cacheVars
<1>1. /\ NodeConsistent'
      /\ Known' = Known
      /\ Confirmed' = Confirmed
      /\ \A t \in Txid : Unhandled(t)' = Unhandled(t)
  BY NodeUnchanged
<1>2. \A t \in pool : t \in Txid /\ Unhandled(t)
  BY DEF Following, NodeConsistent, Unhandled, TypeOK
<1>3. RoundConsistent'
  BY <1>1, <1>2 DEF Following, RoundConsistent, Known
<1>4. BlockConsistent' /\ ConfirmedLeave' /\ SpendMapSound' /\ RemovedWereDropped'
  BY DEF BlockConsistent, ConfirmedLeave, SpendMapSound, RemovedWereDropped,
         RecentlyDeleted, Following
<1> QED
  BY <1>1, <1>3, <1>4 DEF Following

\* If the tip shows no new block, no cached transaction is in a block, so what
\* the list lacks was dropped.
LEMMA ReadTipKeepsFollowing ==
  ASSUME TypeOK, Following, ReadTip
  PROVE  Following'
<1> USE DEF nodeVars, cacheVars
<1>0. /\ UNCHANGED <<nodeVars, cacheVars, transactions, spent, newTransactions>>
      /\ await = "tip"
      /\ blockHeightTip' = nodeHeight
  BY DEF ReadTip
<1>1. /\ NodeConsistent'
      /\ Known' = Known
      /\ \A t \in Txid : Unhandled(t)' = Unhandled(t)
  BY <1>0, NodeUnchanged
<1>2. CASE currentBlockHeight < nodeHeight
  <2>1. await' = "block" /\ remaining' = remaining
    BY <1>2 DEF ReadTip
  <2>2. RoundConsistent' /\ BlockConsistent'
    BY <1>0, <1>1, <1>2, <2>1
       DEF Following, RoundConsistent, BlockConsistent, TypeOK
  <2>3. ConfirmedLeave' /\ SpendMapSound' /\ RemovedWereDropped'
    BY <1>0, <2>1 DEF ConfirmedLeave, SpendMapSound, RemovedWereDropped,
                      RecentlyDeleted, Following
  <2> QED BY <1>1, <2>2, <2>3 DEF Following
<1>3. CASE ~(currentBlockHeight < nodeHeight)
  <2>1. await' = "slice" /\ remaining' = transactions \ mempoolCache
    BY <1>3 DEF ReadTip
  <2>2. \A t \in mempoolCache : t \notin Confirmed
    BY <1>3 DEF Following, ConfirmedLeave, NodeConsistent, Confirmed, TypeOK
  <2>3. mempoolCache \ transactions \subseteq dropped
    BY <1>0, <2>2 DEF Following, RoundConsistent
  <2>4. \A t \in transactions : Unhandled(t)'
    BY <1>0, <1>1 DEF Following, RoundConsistent, TypeOK
  <2>5. RoundConsistent'
    BY <1>0, <1>1, <2>1, <2>3, <2>4 DEF Following, RoundConsistent
  <2>6. BlockConsistent' /\ ConfirmedLeave' /\ SpendMapSound' /\ RemovedWereDropped'
    BY <1>0, <2>1 DEF BlockConsistent, ConfirmedLeave, SpendMapSound,
                      RemovedWereDropped, RecentlyDeleted, Following
  <2> QED BY <1>1, <2>5, <2>6 DEF Following
<1> QED BY <1>2, <1>3

\* A round that is cut short leaves nothing of its own behind.
LEMMA ThrowKeepsFollowing ==
  ASSUME TypeOK, Following, Throw
  PROVE  Following'
<1> USE DEF nodeVars
<1>0. /\ UNCHANGED <<nodeVars, mempoolCache, spendMap, recentlyDeleted,
                     currentBlockHeight>>
      /\ EndRound
      /\ await # "templates"
  BY DEF Throw
<1>1. NodeConsistent' /\ Known' = Known
  BY <1>0, NodeUnchanged
<1>2. RoundConsistent' /\ BlockConsistent'
  BY <1>0, <1>1 DEF EndRound, Following, RoundConsistent, BlockConsistent
<1>3. ConfirmedLeave' /\ SpendMapSound' /\ RemovedWereDropped'
  BY <1>0 DEF EndRound, ConfirmedLeave, SpendMapSound, RemovedWereDropped,
              RecentlyDeleted, Following
<1> QED BY <1>1, <1>2, <1>3 DEF Following

\* Handling a block: its transactions are taken out of the spend map, with
\* whatever spends the same, then out of the mempool, then it is pushed.
LEMMA BlockStepKeepsFollowing ==
  ASSUME TypeOK, Following,
         \/ StartBlock
         \/ \E o \in Outpoint : LookUpInput(o)
         \/ AuditBlock \/ ConfirmBlock \/ PushBlock
  PROVE  Following'
<1> USE DEF nodeVars, cacheVars
<1>1. CASE StartBlock
  <2>0. /\ UNCHANGED <<nodeVars, cacheVars, transactions, blockHeightTip,
                       remaining, newTransactions>>
        /\ await = "block" /\ await' = "inputs"
    BY <1>1 DEF StartBlock
  <2>1. NodeConsistent' /\ Known' = Known
    BY <2>0, NodeUnchanged
  <2>2. RoundConsistent' /\ BlockConsistent'
    BY <2>0, <2>1 DEF Following, RoundConsistent, BlockConsistent
  <2>3. ConfirmedLeave' /\ SpendMapSound' /\ RemovedWereDropped'
    BY <2>0 DEF ConfirmedLeave, SpendMapSound, RemovedWereDropped,
                RecentlyDeleted, Following
  <2> QED BY <2>1, <2>2, <2>3 DEF Following
<1>2. ASSUME NEW o \in Outpoint, LookUpInput(o)
      PROVE  Following'
  <2>0. /\ UNCHANGED <<nodeVars, mempoolCache, recentlyDeleted,
                       currentBlockHeight, await, transactions,
                       blockHeightTip, remaining, newTransactions>>
        /\ await = "inputs"
    BY <1>2 DEF LookUpInput
  <2>1. NodeConsistent' /\ Known' = Known
        /\ \A t \in Txid : Unhandled(t)' = Unhandled(t)
    BY <2>0, NodeUnchanged
  <2>2. \A i \in Outpoint : spendMap'[i] = None \/ spendMap'[i] = spendMap[i]
    BY <1>2 DEF LookUpInput
  <2>3. SpendMapSound'
    BY <2>0, <2>2 DEF SpendMapSound, Following
  <2>4. RoundConsistent' /\ BlockConsistent'
    BY <2>0, <2>1 DEF Following, RoundConsistent, BlockConsistent
  <2>5. ConfirmedLeave' /\ RemovedWereDropped'
    BY <2>0 DEF ConfirmedLeave, RemovedWereDropped, RecentlyDeleted, Following
  <2> QED BY <2>1, <2>3, <2>4, <2>5 DEF Following
<1>3. CASE AuditBlock
  <2>0. /\ UNCHANGED <<nodeVars, mempoolCache, recentlyDeleted,
                       currentBlockHeight, transactions, blockHeightTip,
                       remaining, newTransactions>>
        /\ await = "inputs" /\ await' = "audit"
        /\ spendMap' = Without(spendMap, Block)
    BY <1>3 DEF AuditBlock
  <2>1. NodeConsistent' /\ Known' = Known /\ Block' = Block
    BY <2>0, NodeUnchanged
  <2>2. \A i \in Outpoint : /\ spendMap'[i] \notin Block
                            /\ spendMap'[i] \in {None, spendMap[i]}
    BY <2>0, MempoolAssumption DEF Without, Block
  <2>3. SpendMapSound'
    BY <2>0, <2>2 DEF SpendMapSound, Following
  <2>4. RoundConsistent' /\ BlockConsistent'
    BY <2>0, <2>1, <2>2 DEF Following, RoundConsistent, BlockConsistent
  <2>5. ConfirmedLeave' /\ RemovedWereDropped'
    BY <2>0 DEF ConfirmedLeave, RemovedWereDropped, RecentlyDeleted, Following
  <2> QED BY <2>1, <2>3, <2>4, <2>5 DEF Following
<1>4. CASE ConfirmBlock
  <2>0. /\ UNCHANGED <<nodeVars, spendMap, recentlyDeleted,
                       currentBlockHeight, transactions, blockHeightTip,
                       remaining, newTransactions>>
        /\ await = "audit" /\ await' = "rest"
        /\ mempoolCache' = mempoolCache \ Block
    BY <1>4 DEF ConfirmBlock
  <2>1. NodeConsistent' /\ Known' = Known /\ Block' = Block
    BY <2>0, NodeUnchanged
  <2>2. \A o \in Outpoint : spendMap[o] \notin Block
    BY <2>0 DEF Following, BlockConsistent
  <2>3. SpendMapSound'
    BY <2>0, <2>2 DEF SpendMapSound, Following
  <2>4. RoundConsistent' /\ BlockConsistent'
    BY <2>0, <2>1 DEF Following, RoundConsistent, BlockConsistent
  <2>5. ConfirmedLeave' /\ RemovedWereDropped'
    BY <2>0 DEF ConfirmedLeave, RemovedWereDropped, RecentlyDeleted, Following
  <2> QED BY <2>1, <2>3, <2>4, <2>5 DEF Following
<1>5. CASE PushBlock
  <2>0. /\ UNCHANGED <<nodeVars, mempoolCache, spendMap, recentlyDeleted>>
        /\ await = "rest" /\ await' \in {"block", "poll"}
        /\ currentBlockHeight' = currentBlockHeight + 1
    BY <1>5 DEF PushBlock, EndRound
  <2>1. /\ currentBlockHeight + 1 <= nodeHeight
        /\ mempoolCache \cap Block = {}
    BY <2>0 DEF Following, BlockConsistent, TypeOK
  <2>2. NodeConsistent'
    BY <2>0, <2>1 DEF Following, NodeConsistent
  <2>3. ConfirmedLeave'
    BY <2>0, <2>1 DEF Following, ConfirmedLeave, Block, TypeOK
  <2>4. Known' = Known
    BY <2>0 DEF Known, Confirmed
  <2>5. RoundConsistent' /\ BlockConsistent'
    <3>1. CASE /\ currentBlockHeight + 1 < blockHeightTip
               /\ await' = "block"
               /\ UNCHANGED <<transactions, blockHeightTip, spent, remaining,
                              newTransactions>>
      <4>1. RoundConsistent'
        BY <2>0, <2>4, <3>1 DEF Following, RoundConsistent
      <4>2. BlockConsistent'
        BY <2>0, <3>1 DEF Following, BlockConsistent
      <4> QED BY <4>1, <4>2
    <3>2. CASE EndRound
      BY <2>0, <2>4, <3>2
         DEF EndRound, Following, RoundConsistent, BlockConsistent
    <3> QED BY <1>5, <3>1, <3>2, Zenon DEF PushBlock
  <2>6. SpendMapSound' /\ RemovedWereDropped'
    BY <2>0 DEF SpendMapSound, RemovedWereDropped, RecentlyDeleted, Following
  <2> QED BY <2>2, <2>3, <2>5, <2>6 DEF Following
<1> QED BY <1>1, <1>2, <1>3, <1>4, <1>5

\* A slice adds listed transactions only.
LEMMA AddSliceKeepsFollowing ==
  ASSUME TypeOK, Following, Slices
  PROVE  Following'
<1> USE DEF nodeVars
<1>0. PICK slice \in SUBSET remaining :
         \E found \in SUBSET slice : \E late \in BOOLEAN :
            AddSlice(slice, found, late)
  BY DEF Slices
<1>1. PICK found \in SUBSET slice : \E late \in BOOLEAN :
         AddSlice(slice, found, late)
  BY <1>0
<1>2. /\ UNCHANGED <<nodeVars, spendMap, recentlyDeleted, currentBlockHeight,
                     await, transactions, blockHeightTip>>
      /\ await = "slice"
      /\ mempoolCache' = mempoolCache \cup found
      /\ newTransactions' = newTransactions \cup found
      /\ remaining' \subseteq remaining
  BY <1>1 DEF AddSlice
<1>3. NodeConsistent' /\ Known' = Known
      /\ \A t \in Txid : Unhandled(t)' = Unhandled(t)
  BY <1>2, NodeUnchanged
<1>4. found \subseteq transactions /\ \A t \in found : Unhandled(t)
  BY <1>2 DEF Following, RoundConsistent
<1>5. \A t \in transactions : t \in Txid
  BY DEF TypeOK
<1>6. RoundConsistent'
  BY <1>2, <1>3, <1>4, <1>5 DEF Following, RoundConsistent
<1>7. ConfirmedLeave'
  BY <1>2, <1>4 DEF Following, ConfirmedLeave, Unhandled
<1>8. BlockConsistent' /\ SpendMapSound' /\ RemovedWereDropped'
  BY <1>2 DEF BlockConsistent, SpendMapSound, RemovedWereDropped,
              RecentlyDeleted, Following
<1> QED BY <1>3, <1>6, <1>7, <1>8 DEF Following

\* What is deleted is not in the list, hence dropped; a stale entry of the
\* spend map names one of the transactions just deleted.
LEMMA DeleteKeepsFollowing ==
  ASSUME TypeOK, Following, DeleteTransactions
  PROVE  Following'
<1> USE DEF nodeVars
<1>1. /\ UNCHANGED <<nodeVars, spendMap, currentBlockHeight>>
      /\ await = "slice" /\ remaining = {}
      /\ mempoolCache' = mempoolCache \ Deleted
      /\ recentlyDeleted' = Remember(Deleted)
  BY DEF DeleteTransactions
<1>2. \/ /\ await' = "templates"
         /\ UNCHANGED <<transactions, remaining, newTransactions>>
      \/ EndRound /\ Deleted = {}
  BY DEF DeleteTransactions
<1>3. NodeConsistent' /\ Known' = Known
      /\ \A t \in Txid : Unhandled(t)' = Unhandled(t)
  BY <1>1, NodeUnchanged
<1>4. Deleted \subseteq mempoolCache \ transactions
  BY DEF Deleted
<1>5. Deleted \subseteq Txid /\ Deleted \subseteq dropped
  BY <1>1, <1>4 DEF Following, RoundConsistent, TypeOK
<1>6. recentlyDeleted'[1] = Deleted
  BY <1>1, <1>5, RememberFacts
<1>7. SpendMapSound'
  <2> SUFFICES ASSUME NEW o \in Outpoint, spendMap[o] # None
               PROVE  /\ o \in Spends[spendMap[o]]
                      /\ \/ spendMap[o] \in mempoolCache'
                         \/ await' = "templates" /\ spendMap[o] \in recentlyDeleted'[1]
    BY <1>1 DEF SpendMapSound
  <2>1. o \in Spends[spendMap[o]] /\ spendMap[o] \in mempoolCache
    BY <1>1 DEF Following, SpendMapSound
  <2> QED BY <1>1, <1>2, <1>6, <2>1
<1>8. RemovedWereDropped'
  <2>1. \A i \in DOMAIN recentlyDeleted : recentlyDeleted[i] \subseteq dropped
    BY DEF Following, RemovedWereDropped, RecentlyDeleted
  <2>2. \A i \in DOMAIN recentlyDeleted' : recentlyDeleted'[i] \subseteq dropped
    BY <1>1, <1>5, <2>1, RememberFacts
  <2> QED BY <1>1, <2>2 DEF RemovedWereDropped, RecentlyDeleted
<1>9. RoundConsistent'
  <2>1. newTransactions \subseteq mempoolCache'
    BY <1>1, <1>4 DEF Following, RoundConsistent
  <2>2. \A t \in transactions : t \in Txid
    BY DEF TypeOK
  <2>3. CASE /\ await' = "templates"
             /\ UNCHANGED <<transactions, remaining, newTransactions>>
    BY <1>1, <1>3, <2>1, <2>2, <2>3 DEF Following, RoundConsistent
  <2>4. CASE EndRound
    BY <1>1, <1>3, <2>4 DEF Following, RoundConsistent, EndRound
  <2> QED BY <1>2, <2>3, <2>4
<1>10. BlockConsistent' /\ ConfirmedLeave'
  BY <1>1, <1>2 DEF BlockConsistent, ConfirmedLeave, Following, EndRound
<1> QED BY <1>3, <1>7, <1>8, <1>9, <1>10 DEF Following

\* The callback takes the deleted transactions out of the spend map before it
\* enters the new ones, which are all cached.
LEMMA MempoolChangedKeepsFollowing ==
  ASSUME TypeOK, Following, MempoolChanged
  PROVE  Following'
<1> USE DEF nodeVars
<1>1. /\ UNCHANGED <<nodeVars, mempoolCache, recentlyDeleted,
                     currentBlockHeight>>
      /\ await = "templates"
      /\ EndRound
      /\ spendMap' \in With(Without(spendMap, recentlyDeleted[1]),
                            newTransactions)
  BY DEF MempoolChanged
<1>2. NodeConsistent' /\ Known' = Known
  BY <1>1, NodeUnchanged
<1>3. RoundConsistent' /\ BlockConsistent'
  BY <1>1, <1>2 DEF EndRound, Following, RoundConsistent, BlockConsistent
<1>4. SpendMapSound'
  <2> SUFFICES ASSUME NEW o \in Outpoint, spendMap'[o] # None
               PROVE  /\ o \in Spends[spendMap'[o]]
                      /\ spendMap'[o] \in mempoolCache
    BY <1>1 DEF SpendMapSound
  <2>1. CASE o \in SpentBy(newTransactions)
    <3>1. spendMap'[o] \in newTransactions /\ o \in Spends[spendMap'[o]]
      BY <1>1, <2>1 DEF With
    <3> QED BY <3>1 DEF Following, RoundConsistent
  <2>2. CASE o \notin SpentBy(newTransactions)
    <3>1. spendMap'[o] = Without(spendMap, recentlyDeleted[1])[o]
      BY <1>1, <2>2 DEF With
    <3>2. spendMap'[o] = spendMap[o] /\ spendMap[o] \notin recentlyDeleted[1]
      BY <3>1 DEF Without
    <3> QED BY <3>2 DEF Following, SpendMapSound
  <2> QED BY <2>1, <2>2
<1>5. ConfirmedLeave' /\ RemovedWereDropped'
  BY <1>1 DEF ConfirmedLeave, RemovedWereDropped, RecentlyDeleted, Following
<1> QED BY <1>2, <1>3, <1>4, <1>5 DEF Following

(***************************************************************************)
(* The theorems                                                            *)
(***************************************************************************)

\* The inductive invariant: what the backend knows of the node fits what the
\* node did, at every await of every round, failed ones included.
THEOREM AlwaysFollowing == Spec => []Following
<1>1. Init => Following
  <2> SUFFICES ASSUME Init
               PROVE  Following
    OBVIOUS
  <2>1. NodeConsistent /\ RoundConsistent /\ BlockConsistent
    BY DEF Init, NodeConsistent, RoundConsistent, BlockConsistent
  <2>2. ConfirmedLeave /\ SpendMapSound
    BY DEF Init, ConfirmedLeave, SpendMapSound
  <2>3. RemovedWereDropped
    BY DEF Init, RemovedWereDropped, RecentlyDeleted
  <2> QED BY <2>1, <2>2, <2>3 DEF Following
<1>2. TypeOK /\ Following /\ [Next]_vars => Following'
  <2> SUFFICES ASSUME TypeOK, Following, [Next]_vars
               PROVE  Following'
    OBVIOUS
  <2>1. CASE ProtectionEnds
    <3>1. UNCHANGED <<nodeVars, mempoolCache, spendMap, recentlyDeleted,
                      currentBlockHeight, roundVars>>
      BY <2>1 DEF ProtectionEnds
    <3> QED
      BY <3>1 DEF nodeVars, roundVars, Following, NodeConsistent, Unhandled,
                  RoundConsistent, BlockConsistent, Known, Confirmed, Block,
                  ConfirmedLeave, SpendMapSound, RemovedWereDropped,
                  RecentlyDeleted
  <2>2. CASE UNCHANGED vars
    BY <2>2 DEF vars, nodeVars, cacheVars, roundVars, Following, NodeConsistent,
                Unhandled, RoundConsistent, BlockConsistent, Known, Confirmed,
                Block, ConfirmedLeave, SpendMapSound, RemovedWereDropped,
                RecentlyDeleted
  <2> QED
    BY <2>1, <2>2, NodeStepKeepsFollowing, ListMempoolKeepsFollowing,
       ReadTipKeepsFollowing, ThrowKeepsFollowing, BlockStepKeepsFollowing,
       AddSliceKeepsFollowing, DeleteKeepsFollowing,
       MempoolChangedKeepsFollowing DEF Next
<1> QED BY <1>1, <1>2, TypeCorrect, PTL DEF Spec

\* No entry of the spend map is ever stale (mempool.ts:538-555).
THEOREM SpendMapAlwaysSound == Spec => []SpendMapSound
<1>1. Following => SpendMapSound
  BY DEF Following
<1> QED BY <1>1, AlwaysFollowing, PTL

\* A transaction of a handled block never comes back to the mempool
\* (index.ts:245).
THEOREM ConfirmedAlwaysLeave == Spec => []ConfirmedLeave
<1>1. Following => ConfirmedLeave
  BY DEF Following
<1> QED BY <1>1, AlwaysFollowing, PTL

\* Only what the node dropped or replaced is reported as removed
\* (index.ts:239-245).
THEOREM OnlyDroppedRemoved == Spec => []RemovedWereDropped
<1>1. Following => RemovedWereDropped
  BY DEF Following
<1> QED BY <1>1, AlwaysFollowing, PTL

-----------------------------------------------------------------------------
(***************************************************************************)
(* The inductive invariant                                                 *)
(***************************************************************************)

\* The cached transactions that were added by an earlier update.
Seen == mempoolCache \ newTransactions

\* No two of them spend the same outpoint.
Apart(group) == \A t, u \in group : t # u => Spends[t] \cap Spends[u] = {}

\* The node's mempool has no conflicts, so its list has none, and what the
\* backend keeps of it neither.
ConflictFree ==
    /\ Apart(pool)
    /\ Apart(transactions)
    /\ undisturbed => Apart(Seen)
    /\ undisturbed /\ await = "templates" => mempoolCache \subseteq transactions

\* The inputs that are looked up are those of the block.
InputsOfBlock == await = "inputs" => spent \subseteq SpentBy(Block)

\* No block double-spends t.
Settled(t) == Conflicts(t) \cap Confirmed = {}

\* The spend map has the inputs of what was seen, except of what the block that
\* is being handled confirms or replaces.
SeenInMap ==
    undisturbed => \A t \in Seen :
       /\ Settled(t)
       /\ await \in {"inputs", "audit"} => t \notin Block
       => \A o \in Spends[t] : spendMap[o] = t

\* The replacement cache was told of all that was seen.
SeenReported ==
    undisturbed => \A t \in Seen : \A d \in RecentlyDeleted \ mempoolCache :
       Outbids(t, d) => <<d, t>> \in replacements

\* What this update deleted is out of the mempool when the callbacks run.
DeletedFirst == await = "templates" => recentlyDeleted[1] \cap mempoolCache = {}

NothingMissed == ConflictFree /\ InputsOfBlock /\ DeletedFirst /\ SeenInMap

\* Deletions are few enough for the search without a table.
FewDeleted == NumDeleted < NaiveBelow

(***************************************************************************)
(* Steps                                                                   *)
(***************************************************************************)

LEMMA ApartSubset ==
  ASSUME NEW S, Apart(S), NEW T, T \subseteq S
  PROVE  Apart(T)
BY DEF Apart

LEMMA NotOutbid ==
  ASSUME NEW S \in SUBSET Txid, Apart(S), NEW t \in S, NEW d \in S
  PROVE  ~Outbids(t, d)
<1>1. Fee[t] > Fee[d] => t # d
  BY MempoolAssumption
<1> QED BY <1>1 DEF Apart, Outbids

\* The node's steps change neither the backend nor the block it handles.
LEMMA NodeStepMissesNothing ==
  ASSUME TypeOK, Following, NothingMissed, NodeStep
  PROVE  NothingMissed' /\ (SeenReported => SeenReported')
<1>1. UNCHANGED <<cacheVars, roundVars>>
  BY DEF NodeStep, NodeAccept, NodeDrop, NodeBlock
<1>2. Apart(pool')
  <2>1. ASSUME NEW t \in Txid, NodeAccept(t)
        PROVE  Apart(pool')
    <3>1. pool' = (pool \ Conflicts(t)) \cup {t}
      BY <2>1 DEF NodeAccept
    <3>2. \A u \in pool \ Conflicts(t) : u # t =>
             Spends[u] \cap Spends[t] = {} /\ Spends[t] \cap Spends[u] = {}
      BY DEF Conflicts, TypeOK
    <3> QED BY <3>1, <3>2 DEF Apart, NothingMissed, ConflictFree
  <2>2. CASE \A t \in Txid : ~NodeAccept(t)
    <3>1. pool' \subseteq pool
      BY <2>2 DEF NodeStep, NodeDrop, NodeBlock
    <3> QED BY <3>1, ApartSubset DEF NothingMissed, ConflictFree
  <2> QED BY <2>1, <2>2
<1>3. \A t \in Txid : blockOf[t] # 0 => blockOf'[t] = blockOf[t]
  <2>1. ASSUME NEW block \in SUBSET Txid, NodeBlock(block), NEW t \in Txid,
               blockOf[t] # 0
        PROVE  blockOf'[t] = blockOf[t]
    BY <2>1 DEF NodeBlock, Confirmed, TypeOK
  <2> QED BY <2>1 DEF NodeStep, NodeAccept, NodeDrop
<1>4. Confirmed \subseteq Confirmed'
  BY <1>3 DEF Confirmed
<1>5. ASSUME await \in {"inputs", "audit"}
      PROVE  Block' = Block
  <2>1. /\ currentBlockHeight < nodeHeight
        /\ currentBlockHeight \in Nat /\ nodeHeight \in Nat
    BY <1>5 DEF Following, BlockConsistent, TypeOK
  <2>2. \A t \in Txid : \/ blockOf'[t] = blockOf[t]
                        \/ blockOf[t] = 0 /\ blockOf'[t] = nodeHeight + 1
    <3>1. ASSUME NEW block \in SUBSET Txid, NodeBlock(block), NEW t \in Txid
          PROVE  \/ blockOf'[t] = blockOf[t]
                 \/ blockOf[t] = 0 /\ blockOf'[t] = nodeHeight + 1
      BY <3>1 DEF NodeBlock, Confirmed, TypeOK
    <3> QED BY <3>1 DEF NodeStep, NodeAccept, NodeDrop
  <2>3. currentBlockHeight' = currentBlockHeight
    BY <1>1 DEF cacheVars
  <2>4. nodeHeight + 1 # currentBlockHeight + 1 /\ 0 # currentBlockHeight + 1
    BY <2>1
  <2> QED BY <2>2, <2>3, <2>4 DEF Block
<1>6. /\ Seen' = Seen /\ RecentlyDeleted' = RecentlyDeleted
      /\ UNCHANGED <<mempoolCache, undisturbed, await, transactions, spendMap,
                     spent, replacements>>
  BY <1>1 DEF cacheVars, roundVars, Seen, RecentlyDeleted
<1>7. ConflictFree'
  BY <1>2, <1>6 DEF NothingMissed, ConflictFree, Apart
<1>8. InputsOfBlock'
  BY <1>5, <1>6 DEF NothingMissed, InputsOfBlock, SpentBy
<1>9. SeenInMap'
  BY <1>4, <1>5, <1>6 DEF NothingMissed, SeenInMap, Settled, Conflicts
<1>10. DeletedFirst'
  BY <1>1 DEF cacheVars, roundVars, NothingMissed, DeletedFirst
<1>11. SeenReported => SeenReported'
  BY <1>6 DEF SeenReported, Outbids
<1> QED BY <1>7, <1>8, <1>9, <1>10, <1>11 DEF NothingMissed

\* The rest of the main loop keeps the node as it is.
LEMMA RoundStepMissesNothing ==
  ASSUME TypeOK, Following, NothingMissed,
         ListMempool \/ ReadTip \/ Throw \/ PushBlock \/ ProtectionEnds
  PROVE  NothingMissed' /\ (SeenReported => SeenReported')
<1>1. /\ UNCHANGED <<nodeVars, mempoolCache, spendMap, recentlyDeleted, replacements>>
      /\ await' \notin {"inputs", "audit", "templates"} \/ UNCHANGED roundVars
      /\ undisturbed' => undisturbed
  <2>1. CASE ListMempool \/ ReadTip
    BY <2>1 DEF ListMempool, ReadTip, cacheVars
  <2>2. CASE Throw
    BY <2>2 DEF Throw, EndRound
  <2>3. CASE PushBlock
    BY <2>3 DEF PushBlock, EndRound
  <2>4. CASE ProtectionEnds
    BY <2>4 DEF ProtectionEnds, roundVars
  <2> QED BY <2>1, <2>2, <2>3, <2>4
<1>2. undisturbed' => Seen' = Seen
  <2>1. CASE ListMempool \/ ReadTip \/ ProtectionEnds
    BY <2>1 DEF ListMempool, ReadTip, ProtectionEnds, roundVars, cacheVars, Seen
  <2>2. CASE Throw
    <3>1. undisturbed' => newTransactions = {} /\ newTransactions' = {}
      BY <2>2 DEF Throw, EndRound
    <3> QED BY <1>1, <3>1 DEF Seen
  <2>3. CASE PushBlock
    <3>1. newTransactions = {} /\ newTransactions' = {}
      BY <2>3 DEF PushBlock, EndRound, Following, RoundConsistent
    <3> QED BY <1>1, <3>1 DEF Seen
  <2> QED BY <2>1, <2>2, <2>3
<1>3. transactions' \in {transactions, pool, {}}
  BY DEF ListMempool, ReadTip, Throw, PushBlock, ProtectionEnds, EndRound, roundVars
<1>4. ConflictFree'
  <2>1. Apart({})
    BY DEF Apart
  <2>2. Apart(pool') /\ Apart(transactions')
    BY <1>1, <1>3, <2>1 DEF nodeVars, NothingMissed, ConflictFree
  <2>3. undisturbed' => Apart(Seen')
    BY <1>1, <1>2 DEF NothingMissed, ConflictFree
  <2>4. undisturbed' /\ await' = "templates" => mempoolCache' \subseteq transactions'
    BY <1>1 DEF roundVars, NothingMissed, ConflictFree
  <2> QED BY <2>2, <2>3, <2>4 DEF ConflictFree
<1>5. UNCHANGED roundVars => currentBlockHeight' = currentBlockHeight
  <2>1. CASE PushBlock
    BY <2>1 DEF PushBlock, EndRound, roundVars
  <2> QED BY <2>1 DEF ListMempool, ReadTip, Throw, ProtectionEnds, cacheVars
<1>6. UNCHANGED roundVars => Block' = Block
  BY <1>1, <1>5 DEF Block, nodeVars
<1>7. InputsOfBlock'
  BY <1>1, <1>6 DEF roundVars, InputsOfBlock, NothingMissed, SpentBy
<1>8. SeenInMap'
  <2>1. Confirmed' = Confirmed
    BY <1>1 DEF nodeVars, Confirmed
  <2>2. ~(await \in {"inputs", "audit"}) \/ UNCHANGED roundVars
    BY DEF ListMempool, ReadTip, Throw, PushBlock, ProtectionEnds
  <2> QED BY <1>1, <1>2, <1>6, <2>1, <2>2
          DEF NothingMissed, SeenInMap, Settled, roundVars
<1>9. DeletedFirst'
  BY <1>1 DEF roundVars, NothingMissed, DeletedFirst
<1>10. SeenReported => SeenReported'
  BY <1>1, <1>2 DEF SeenReported, RecentlyDeleted
<1> QED BY <1>4, <1>7, <1>8, <1>9, <1>10 DEF NothingMissed

\* The transactions of a block leave the spend map with what they replace; its
\* inputs belong to no other transaction that is settled.
LEMMA BlockStepMissesNothing ==
  ASSUME TypeOK, Following, NothingMissed,
         StartBlock \/ (\E o \in Outpoint : LookUpInput(o)) \/ AuditBlock \/ ConfirmBlock
  PROVE  NothingMissed' /\ (SeenReported => SeenReported')
<1>1. /\ UNCHANGED <<nodeVars, recentlyDeleted, currentBlockHeight, transactions,
                     newTransactions, undisturbed>>
      /\ await' # "templates"
      /\ mempoolCache' \subseteq mempoolCache
      /\ replacements \subseteq replacements'
      /\ newTransactions = {}
  <2>1. CASE StartBlock
    BY <2>1 DEF StartBlock, cacheVars, Following, RoundConsistent
  <2>2. CASE \E o \in Outpoint : LookUpInput(o)
    BY <2>2 DEF LookUpInput, Following, RoundConsistent
  <2>3. CASE AuditBlock \/ ConfirmBlock
    BY <2>3 DEF AuditBlock, ConfirmBlock, Following, RoundConsistent
  <2> QED BY <2>1, <2>2, <2>3
<1>2. /\ Block' = Block /\ Confirmed' = Confirmed
      /\ Seen = mempoolCache /\ Seen' = mempoolCache' /\ Seen' \subseteq Seen
  BY <1>1 DEF nodeVars, Block, Confirmed, Seen
<1>3. ConflictFree'
  <2>1. undisturbed' => Apart(Seen')
    BY <1>1, <1>2, ApartSubset DEF NothingMissed, ConflictFree
  <2> QED BY <1>1, <2>1 DEF NothingMissed, ConflictFree, nodeVars
<1>4. InputsOfBlock'
  BY <1>2 DEF StartBlock, LookUpInput, AuditBlock, ConfirmBlock, NothingMissed,
              InputsOfBlock, SpentBy
<1>5. SeenInMap'
  <2> SUFFICES ASSUME undisturbed, NEW t \in mempoolCache', Settled(t),
                      await' \in {"inputs", "audit"} => t \notin Block,
                      NEW i \in Spends[t]
               PROVE  spendMap'[i] = t
    BY <1>1, <1>2 DEF SeenInMap, Settled
  <2>1. t \in Seen /\ t \in Txid /\ i \in Outpoint
    BY <1>1, <1>2, MempoolAssumption DEF TypeOK
  <2>2. t \notin Block => spendMap[i] = t
    BY <2>1 DEF NothingMissed, SeenInMap
  <2>3. CASE StartBlock
    BY <2>2, <2>3 DEF StartBlock, cacheVars
  <2>4. ASSUME NEW o \in Outpoint, LookUpInput(o)
        PROVE  spendMap'[i] = t
    <3>1. t \notin Block /\ await = "inputs" /\ o \in spent
      BY <2>4 DEF LookUpInput
    <3>2. PICK b \in Block : o \in Spends[b]
      BY <3>1 DEF NothingMissed, InputsOfBlock, SpentBy
    <3>3. b \in Txid /\ b \in Confirmed /\ b # t
      BY <3>1 DEF Block, Confirmed, TypeOK
    <3>4. o \notin Spends[t]
      BY <2>1, <3>2, <3>3 DEF Settled, Conflicts
    <3>5. ASSUME NEW r \in {spendMap[o]} \ (Block \cup {None})
          PROVE  i \notin Spends[r]
      <4>1. r \in Seen /\ o \in Spends[r]
        BY <1>2, <3>1 DEF Following, SpendMapSound
      <4>2. r # t
        BY <3>4, <4>1
      <4> QED BY <2>1, <4>1, <4>2 DEF NothingMissed, ConflictFree, Apart
    <3>6. spendMap'[i] = spendMap[i]
      BY <2>1, <2>4, <3>4, <3>5 DEF LookUpInput
    <3> QED BY <2>2, <3>1, <3>6
  <2>5. CASE AuditBlock
    <3>1. t \notin Block /\ spendMap' = Without(spendMap, Block)
      BY <2>5 DEF AuditBlock
    <3> QED BY <2>1, <2>2, <3>1 DEF Without
  <2>6. CASE ConfirmBlock
    <3>1. t \notin Block /\ spendMap' = spendMap
      BY <2>6 DEF ConfirmBlock
    <3> QED BY <2>2, <3>1
  <2> QED BY <2>3, <2>4, <2>5, <2>6
<1>6. SeenReported => SeenReported'
  <2> SUFFICES ASSUME SeenReported, undisturbed, NEW t \in mempoolCache',
                      NEW d \in RecentlyDeleted \ mempoolCache', Outbids(t, d)
               PROVE  <<d, t>> \in replacements'
    BY <1>1, <1>2 DEF SeenReported, RecentlyDeleted, Outbids
  <2>1. d \notin mempoolCache
    <3>1. Apart(mempoolCache) /\ t \in mempoolCache /\ mempoolCache \in SUBSET Txid
      BY <1>1, <1>2 DEF NothingMissed, ConflictFree, TypeOK
    <3> QED BY <3>1, NotOutbid
  <2> QED BY <1>1, <1>2, <2>1 DEF SeenReported
<1>7. DeletedFirst'
  BY <1>1 DEF DeletedFirst
<1> QED BY <1>3, <1>4, <1>5, <1>6, <1>7 DEF NothingMissed

\* What a slice adds is not seen before the callback.
LEMMA SlicesMissNothing ==
  ASSUME TypeOK, Following, NothingMissed, Slices
  PROVE  NothingMissed' /\ (SeenReported => SeenReported')
<1>1. PICK slice \in SUBSET remaining : \E found \in SUBSET slice :
         \E late \in BOOLEAN : AddSlice(slice, found, late)
  BY DEF Slices
<1>2. PICK found \in SUBSET slice : \E late \in BOOLEAN : AddSlice(slice, found, late)
  BY <1>1
<1>3. /\ UNCHANGED <<nodeVars, spendMap, recentlyDeleted, currentBlockHeight,
                     replacements, await, transactions, spent, undisturbed>>
      /\ await = "slice"
      /\ mempoolCache' = mempoolCache \cup found
      /\ newTransactions' = newTransactions \cup found
  BY <1>2 DEF AddSlice
<1>4. Seen' \subseteq Seen
  BY <1>3 DEF Seen
<1>5. ConflictFree'
  <2>1. undisturbed' => Apart(Seen')
    BY <1>3, <1>4, ApartSubset DEF NothingMissed, ConflictFree
  <2> QED BY <1>3, <2>1 DEF nodeVars, NothingMissed, ConflictFree
<1>6. InputsOfBlock'
  BY <1>3 DEF InputsOfBlock
<1>7. SeenInMap'
  BY <1>3, <1>4 DEF nodeVars, NothingMissed, SeenInMap, Settled, Confirmed
<1>8. DeletedFirst'
  BY <1>3 DEF DeletedFirst
<1>9. SeenReported => SeenReported'
  BY <1>3, <1>4 DEF SeenReported, RecentlyDeleted
<1> QED BY <1>5, <1>6, <1>7, <1>8, <1>9 DEF NothingMissed

\* Without clear protection, what stays is in the list; what was kept cannot
\* outbid what is deleted now, since both were in the mempool.
LEMMA DeleteMissesNothing ==
  ASSUME TypeOK, Following, NothingMissed, DeleteTransactions
  PROVE  NothingMissed' /\ (SeenReported => SeenReported')
<1>1. /\ UNCHANGED <<nodeVars, spendMap, currentBlockHeight, replacements>>
      /\ await = "slice"
      /\ mempoolCache' = mempoolCache \ Deleted
      /\ recentlyDeleted' = Remember(Deleted)
      /\ undisturbed' => undisturbed /\ ~Protected
  BY DEF DeleteTransactions
<1>2. \/ /\ await' = "templates"
         /\ UNCHANGED <<transactions, newTransactions>>
      \/ /\ EndRound
         /\ newTransactions = {} /\ Deleted = {}
  BY DEF DeleteTransactions
<1>3. /\ newTransactions \subseteq transactions \cap mempoolCache
      /\ Deleted \subseteq mempoolCache \ transactions
      /\ Deleted \in SUBSET Txid
  BY DEF Following, RoundConsistent, Deleted, TypeOK
<1>4. undisturbed' => Deleted = mempoolCache \ transactions
  BY <1>1 DEF Deleted
<1>5. Deleted \subseteq Seen /\ Seen' \subseteq Seen \ Deleted
  BY <1>1, <1>2, <1>3 DEF Seen, EndRound
<1>6. ConflictFree'
  <2>1. Apart({}) /\ transactions' \in {transactions, {}}
    BY <1>2 DEF Apart, EndRound
  <2>2. undisturbed' => Apart(Seen')
    BY <1>1, <1>5, ApartSubset DEF NothingMissed, ConflictFree
  <2>3. undisturbed' /\ await' = "templates" => mempoolCache' \subseteq transactions'
    BY <1>1, <1>2, <1>4 DEF EndRound
  <2> QED BY <1>1, <2>1, <2>2, <2>3 DEF nodeVars, NothingMissed, ConflictFree
<1>7. InputsOfBlock'
  BY <1>2 DEF InputsOfBlock, EndRound
<1>8. SeenInMap'
  BY <1>1, <1>5 DEF nodeVars, NothingMissed, SeenInMap, Settled, Confirmed
<1>9. SeenReported => SeenReported'
  <2> SUFFICES ASSUME SeenReported, undisturbed', NEW t \in Seen',
                      NEW d \in RecentlyDeleted' \ mempoolCache', Outbids(t, d)
               PROVE  <<d, t>> \in replacements
    BY <1>1 DEF SeenReported, Outbids
  <2>1. t \in Seen /\ undisturbed
    BY <1>1, <1>5
  <2>2. d \in Deleted \/ d \in RecentlyDeleted
    BY <1>1, <1>3, RememberFacts DEF RecentlyDeleted
  <2>3. d \notin Seen
    BY <2>1, NotOutbid DEF NothingMissed, ConflictFree, Seen, TypeOK
  <2>4. d \notin Deleted
    BY <1>5, <2>3
  <2>5. d \notin mempoolCache
    BY <1>1, <2>4
  <2> QED BY <2>1, <2>2, <2>4, <2>5 DEF SeenReported
<1>10. DeletedFirst'
  BY <1>1, <1>3, RememberFacts DEF DeletedFirst
<1> QED BY <1>6, <1>7, <1>8, <1>9, <1>10 DEF NothingMissed

\* The callback enters all inputs of the new transactions, which no other
\* listed transaction spends, and matches them with all recent deletions.
LEMMA MempoolChangedMissesNothing ==
  ASSUME TypeOK, Following, NothingMissed, MempoolChanged
  PROVE  NothingMissed' /\ (FewDeleted /\ SeenReported => SeenReported')
<1>1. /\ UNCHANGED <<nodeVars, mempoolCache, recentlyDeleted, currentBlockHeight,
                     undisturbed>>
      /\ await = "templates"
      /\ replacements' = replacements \cup Matches
      /\ spendMap' \in With(Without(spendMap, recentlyDeleted[1]), newTransactions)
      /\ EndRound
  BY DEF MempoolChanged
<1>2. await' = "poll" /\ transactions' = {} /\ newTransactions' = {}
  BY <1>1 DEF EndRound
<1>3. Seen' = mempoolCache /\ mempoolCache = Seen \cup newTransactions
  BY <1>1, <1>2 DEF Seen, Following, RoundConsistent
<1>4. undisturbed => Apart(mempoolCache)
  BY <1>1, ApartSubset DEF NothingMissed, ConflictFree
<1>5. ConflictFree'
  <2>1. Apart({})
    BY DEF Apart
  <2> QED BY <1>1, <1>2, <1>3, <1>4, <2>1 DEF nodeVars, NothingMissed, ConflictFree
<1>6. InputsOfBlock' /\ DeletedFirst'
  BY <1>2 DEF InputsOfBlock, DeletedFirst
<1>7. SeenInMap'
  <2> SUFFICES ASSUME undisturbed, NEW t \in mempoolCache, Settled(t), NEW o \in Spends[t]
               PROVE  spendMap'[o] = t
    BY <1>1, <1>2, <1>3 DEF nodeVars, SeenInMap, Settled, Confirmed
  <2>1. o \in Outpoint
    BY MempoolAssumption DEF TypeOK
  <2>2. CASE o \in SpentBy(newTransactions)
    <3>1. spendMap'[o] \in newTransactions /\ o \in Spends[spendMap'[o]]
      BY <1>1, <2>1, <2>2 DEF With
    <3> QED BY <1>3, <1>4, <3>1 DEF Apart
  <2>3. CASE o \notin SpentBy(newTransactions)
    <3>1. spendMap'[o] = Without(spendMap, recentlyDeleted[1])[o]
      BY <1>1, <2>1, <2>3 DEF With
    <3>2. t \in Seen /\ t \notin recentlyDeleted[1]
      BY <1>1, <1>3, <2>3 DEF SpentBy, NothingMissed, DeletedFirst
    <3>3. spendMap[o] = t
      BY <1>1, <3>2 DEF NothingMissed, SeenInMap
    <3> QED BY <2>1, <3>1, <3>2, <3>3 DEF Without
  <2> QED BY <2>2, <2>3
<1>8. FewDeleted /\ SeenReported => SeenReported'
  <2> SUFFICES ASSUME FewDeleted, SeenReported, undisturbed, NEW t \in mempoolCache,
                      NEW d \in RecentlyDeleted \ mempoolCache, Outbids(t, d)
               PROVE  <<d, t>> \in replacements'
    BY <1>1, <1>3 DEF SeenReported, RecentlyDeleted
  <2>1. CASE t \in Seen
    BY <1>1, <2>1 DEF SeenReported
  <2>2. CASE t \in newTransactions
    <3>1. <<d, t>> \in Matches
      BY <2>2 DEF FewDeleted, Matches, NaiveMatches
    <3> QED BY <1>1, <3>1
  <2> QED BY <1>3, <2>1, <2>2
<1> QED BY <1>5, <1>6, <1>7, <1>8 DEF NothingMissed

\* A whole step.
LEMMA StepMissesNothing ==
  ASSUME TypeOK, Following, NothingMissed, [Next]_vars
  PROVE  NothingMissed' /\ (FewDeleted /\ SeenReported => SeenReported')
<1>1. CASE UNCHANGED vars
  <2>1. Seen' = Seen /\ Block' = Block /\ RecentlyDeleted' = RecentlyDeleted
        /\ Confirmed' = Confirmed
    BY <1>1 DEF vars, nodeVars, cacheVars, roundVars, Seen, Block, RecentlyDeleted,
                Confirmed
  <2>2. ConflictFree' /\ InputsOfBlock' /\ DeletedFirst'
    BY <1>1, <2>1 DEF vars, nodeVars, cacheVars, roundVars, NothingMissed, ConflictFree,
                      InputsOfBlock, DeletedFirst
  <2>3. SeenInMap' /\ (SeenReported => SeenReported')
    BY <1>1, <2>1 DEF vars, cacheVars, roundVars, NothingMissed, SeenInMap, Settled,
                      SeenReported
  <2> QED BY <2>2, <2>3 DEF NothingMissed
<1>2. CASE Next
  BY <1>2, NodeStepMissesNothing, RoundStepMissesNothing, BlockStepMissesNothing,
     SlicesMissNothing, DeleteMissesNothing, MempoolChangedMissesNothing DEF Next
<1> QED BY <1>1, <1>2

(***************************************************************************)
(* The theorems                                                            *)
(***************************************************************************)

\* It starts with nothing to miss.
LEMMA InitMissesNothing ==
  ASSUME Init
  PROVE  NothingMissed /\ SeenReported
BY DEF Init, NothingMissed, ConflictFree, Apart, InputsOfBlock, DeletedFirst, Seen,
       SeenInMap, SeenReported

\* In an undisturbed execution what is cached is a set without conflicts that
\* the spend map covers, at every await of every round.
THEOREM NothingEverMissed == Spec => []NothingMissed
<1>1. Init => NothingMissed
  BY InitMissesNothing
<1>2. TypeOK /\ Following /\ NothingMissed /\ [Next]_vars => NothingMissed'
  BY StepMissesNothing
<1> QED BY <1>1, <1>2, TypeCorrect, AlwaysFollowing, PTL DEF Spec

\* Between rounds the spend map has every input of the mempool, whatever blocks,
\* late slices and replacements came in between (common.ts:136-160).
THEOREM SpendMapAlwaysComplete == Spec => []SpendMapComplete
<1>1. Following /\ NothingMissed => SpendMapComplete
  BY DEF Following, RoundConsistent, NothingMissed, SeenInMap, Seen, Settled,
         SpendMapComplete
<1> QED BY <1>1, AlwaysFollowing, NothingEverMissed, PTL

\* As long as deletions are few enough for the search without a table, the
\* replacement cache is told of every replacement, in whatever slice of whatever
\* update it arrives (websocket-handler.ts:620-623, common.ts:89-106).
THEOREM ReplacementsAlwaysReported ==
  Spec /\ []FewDeleted => []ReplacementsReported
<1>1. Init => SeenReported
  BY InitMissesNothing
<1>2. /\ TypeOK /\ Following /\ NothingMissed /\ FewDeleted /\ SeenReported
      /\ [Next]_vars
      => SeenReported'
  BY StepMissesNothing
<1>3. Following /\ SeenReported => ReplacementsReported
  BY DEF Following, RoundConsistent, SeenReported, Seen, ReplacementsReported
<1> QED
  BY <1>1, <1>2, <1>3, TypeCorrect, AlwaysFollowing, NothingEverMissed, PTL DEF Spec

-----------------------------------------------------------------------------
(***************************************************************************)
(* RbfMempool: the mempool with the RBF cache                              *)
(***************************************************************************)

Cache == INSTANCE RbfCacheProofs

(***************************************************************************)
(* Each part does what its own specification allows                        *)
(***************************************************************************)

LEMMA CacheConstants == Cache!ConstantsAssumption
BY CombinedAssumption, MempoolAssumption
   DEF Cache!ConstantsAssumption, Rbf!RbfTree, Cache!RbfTree

\* The two names of the cache mean the same.
LEMMA SameAdd ==
  ASSUME NEW replaced, NEW newTx
  PROVE  /\ Rbf!Add(replaced, newTx) <=> Cache!Add(replaced, newTx)
         /\ Rbf!FirstReplaced(replaced) = Cache!FirstReplaced(replaced)
BY DEF Rbf!Add, Rbf!FirstReplaced, Rbf!OldTreeIds, Rbf!NewTree, Rbf!Children,
       Rbf!OldRoots, Rbf!NewLeaves, Rbf!DropUnheld,
       Cache!Add, Cache!FirstReplaced, Cache!OldTreeIds, Cache!NewTree,
       Cache!Children, Cache!OldRoots, Cache!NewLeaves, Cache!DropUnheld

LEMMA SameMarks ==
  ASSUME NEW t
  PROVE  /\ Rbf!Mined(t) <=> Cache!Mined(t)
         /\ Rbf!Evict(t) <=> Cache!Evict(t)
         /\ Rbf!TreeOf(t) = Cache!TreeOf(t)
BY DEF Rbf!Mined, Rbf!TreeOf, Rbf!MinedTree, Rbf!Evict,
       Cache!Mined, Cache!TreeOf, Cache!MinedTree, Cache!Evict

LEMMA SameCleanup ==
  ASSUME NEW due
  PROVE  Rbf!Cleanup(due) <=> Cache!Cleanup(due)
BY DEF Rbf!Cleanup, Rbf!Doomed, Rbf!OverdueRoots, Rbf!Versions,
       Rbf!ClosedUnderReplaces, Rbf!DropUnheld,
       Cache!Cleanup, Cache!Doomed, Cache!OverdueRoots, Cache!Versions,
       Cache!ClosedUnderReplaces, Cache!DropUnheld

LEMMA SameChanges == Rbf!GetRbfChanges <=> Cache!GetRbfChanges
BY DEF Rbf!GetRbfChanges, Cache!GetRbfChanges

LEMMA SameInit == Rbf!Init <=> Cache!Init
BY DEF Rbf!Init, Rbf!Empty, Cache!Init, Cache!Empty

\* The calls of the callbacks leave the mempool alone.
LEMMA MempoolGoesOn ==
  ASSUME CombinedNext
  PROVE  [Next]_vars
<1>1. CASE Elsewhere
  BY <1>1 DEF Elsewhere, Next
<1>2. CASE UpdateSeen \/ ChangesSent \/ BlockStarted \/ BlockAudited \/ BlockConfirmed
  BY <1>2 DEF UpdateSeen, ChangesSent, BlockStarted, BlockAudited, BlockConfirmed, Next
<1>3. ASSUME NEW o \in Outpoint, InputLookedUp(o)
      PROVE  Next
  BY <1>3 DEF InputLookedUp, Next
<1>4. ASSUME NEW t \in Txid, AddReplacement(t) \/ EvictDeleted(t) \/ MarkMined(t)
      PROVE  UNCHANGED vars
  BY <1>4 DEF AddReplacement, EvictDeleted, MarkMined
<1>5. ASSUME NEW due \in SUBSET expiring, Cleaned(due)
      PROVE  UNCHANGED vars
  BY <1>5 DEF Cleaned
<1> QED BY <1>1, <1>2, <1>3, <1>4, <1>5 DEF CombinedNext

\* Beside the RBF cache the main loop does what Mempool allows
\* (websocket-handler.ts:555-800).
THEOREM FollowsMempool == CombinedSpec => Spec
<1>1. CombinedInit => Init
  BY DEF CombinedInit
<1>2. [CombinedNext]_allVars => [Next]_vars
  <2>1. UNCHANGED allVars => UNCHANGED vars
    BY DEF allVars
  <2> QED BY <2>1, MempoolGoesOn
<1> QED BY <1>1, <1>2, PTL DEF CombinedSpec, Spec

\* No transaction replaces itself.
MatchesTyped == matches \subseteq {p \in Txid \X Txid : p[1] # p[2]}

LEMMA MatchesAreTyped ==
  ASSUME TypeOK, MatchesTyped, [CombinedNext]_allVars
  PROVE  MatchesTyped'
<1>1. CASE UpdateSeen
  <2>1. \A p \in Matches : p \in Txid \X Txid /\ Fee[p[2]] > Fee[p[1]]
    BY DEF Matches, NaiveMatches, ScalableMatches, Outbids, RecentlyDeleted, TypeOK
  <2>2. \A p \in Matches : p[1] # p[2]
    <3> SUFFICES ASSUME NEW p \in Matches, p[1] = p[2]
                 PROVE  FALSE
      OBVIOUS
    <3>1. p[1] \in Txid /\ Fee[p[1]] > Fee[p[1]]
      BY <2>1
    <3> QED BY <3>1, MempoolAssumption
  <2> QED BY <1>1, <2>1, <2>2 DEF UpdateSeen, MatchesTyped
<1>2. ASSUME NEW o \in Outpoint, InputLookedUp(o)
      PROVE  MatchesTyped'
  <2>1. \A p \in ({spendMap[o]} \ (Block \cup {None})) \X Block :
           p \in Txid \X Txid /\ p[1] # p[2]
    BY DEF Block, TypeOK
  <2> QED BY <1>2, <2>1 DEF InputLookedUp, MatchesTyped
<1>3. ASSUME NEW t \in Txid, AddReplacement(t)
      PROVE  MatchesTyped'
  BY <1>3 DEF AddReplacement, MatchesTyped
<1>4. CASE UNCHANGED matches
  BY <1>4 DEF MatchesTyped
<1> QED BY <1>1, <1>2, <1>3, <1>4
        DEF CombinedNext, allVars, callVars, Elsewhere, ChangesSent, BlockStarted,
            BlockAudited, BlockConfirmed, EvictDeleted, MarkMined, Cleaned

LEMMA MatchesAlwaysTyped == CombinedSpec => []MatchesTyped
<1>1. CombinedInit => MatchesTyped
  BY DEF CombinedInit, MatchesTyped
<1>2. TypeOK /\ MatchesTyped /\ [CombinedNext]_allVars => MatchesTyped'
  BY MatchesAreTyped
<1> QED BY <1>1, <1>2, FollowsMempool, TypeCorrect, PTL DEF CombinedSpec

\* A call of a callback is a step of the cache, or returns early.
LEMMA CacheGoesOn ==
  ASSUME MatchesTyped, CombinedNext
  PROVE  [Cache!Next]_rbfVars
<1>1. ASSUME NEW t \in Txid, AddReplacement(t)
      PROVE  [Cache!Next]_rbfVars
  <2>1. Replaced(t) \in SUBSET (Txid \ {t})
    BY DEF Replaced, MatchesTyped
  <2>2. Cache!Add(Replaced(t), t) \/ UNCHANGED rbfVars
    BY <1>1, SameAdd DEF AddReplacement
  <2> QED BY <2>1, <2>2 DEF Cache!Next
<1>2. ASSUME NEW t \in Txid, EvictDeleted(t) \/ MarkMined(t)
      PROVE  [Cache!Next]_rbfVars
  <2>1. Cache!Evict(t) \/ Cache!Mined(t) \/ UNCHANGED rbfVars
    BY <1>2, SameMarks DEF EvictDeleted, MarkMined
  <2> QED BY <2>1 DEF Cache!Next
<1>3. CASE ChangesSent
  <2>1. Cache!GetRbfChanges \/ UNCHANGED rbfVars
    BY <1>3, SameChanges DEF ChangesSent
  <2> QED BY <2>1 DEF Cache!Next
<1>4. ASSUME NEW due \in SUBSET expiring, Cleaned(due)
      PROVE  [Cache!Next]_rbfVars
  <2>1. Cache!Cleanup(due)
    BY <1>4, SameCleanup DEF Cleaned
  <2> QED BY <2>1 DEF Cache!Next
<1>5. CASE UNCHANGED rbfVars
  BY <1>5
<1> QED BY <1>1, <1>2, <1>3, <1>4, <1>5
        DEF CombinedNext, Elsewhere, UpdateSeen, BlockStarted, InputLookedUp,
            BlockAudited, BlockConfirmed

\* The callbacks call the RBF cache as its own specification allows: no
\* transaction is added as the replacement of itself, and only what is cached is
\* marked (websocket-handler.ts:617-668, 833-1001).
THEOREM CallsRbfCache == CombinedSpec => Cache!Spec
<1>1. CombinedInit => Cache!Init
  BY SameInit DEF CombinedInit
<1>2. MatchesTyped /\ [CombinedNext]_allVars => [Cache!Next]_(Cache!vars)
  <2>1. UNCHANGED allVars => UNCHANGED rbfVars
    BY DEF allVars
  <2>2. rbfVars = Cache!vars
    BY DEF rbfVars, Cache!vars
  <2> QED BY <2>1, <2>2, CacheGoesOn DEF rbfVars, Cache!vars
<1> QED BY <1>1, <1>2, MatchesAlwaysTyped, PTL DEF CombinedSpec, Cache!Spec

(***************************************************************************)
(* What the blocks leave in the spend map                                  *)
(***************************************************************************)

\* Beside what Mempool guarantees, an input stays in the spend map up to the
\* first block that double-spends its transaction.
Untouched(t) == \A u \in Conflicts(t) : blockOf[u] # 0 =>
    /\ blockOf[u] > currentBlockHeight
    /\ blockOf[u] > audited
    /\ await \in {"inputs", "audit"} => blockOf[u] # currentBlockHeight + 1

EntriesKept ==
    undisturbed => \A t \in Seen :
       /\ Untouched(t)
       /\ await \in {"inputs", "audit"} => t \notin Block
       => \A o \in Spends[t] : spendMap[o] = t

MempoolInv ==
    /\ TypeOK /\ Following /\ NothingMissed
    /\ audited \in 0..currentBlockHeight + 1

\* Nothing that leaves the spend map and the cached transactions alone, or takes
\* some of them away, brings an input in danger.
LEMMA EntriesStay ==
  ASSUME MempoolInv, EntriesKept,
         undisturbed' => undisturbed /\ Seen' \subseteq Seen,
         UNCHANGED spendMap,
         \A t \in Txid : Untouched(t)' => Untouched(t),
         await \in {"inputs", "audit"} => await' = await /\ Block' = Block
  PROVE  EntriesKept'
<1> SUFFICES ASSUME undisturbed', NEW t \in Seen', Untouched(t)',
                    await' \in {"inputs", "audit"} => t \notin Block',
                    NEW o \in Spends[t]
             PROVE  spendMap[o] = t
  BY DEF EntriesKept
<1>1. t \in Seen /\ t \in Txid /\ undisturbed
  BY DEF Seen, MempoolInv, TypeOK
<1>2. Untouched(t) /\ (await \in {"inputs", "audit"} => t \notin Block)
  BY <1>1
<1> QED BY <1>1, <1>2 DEF EntriesKept

LEMMA NodeKeepsEntries ==
  ASSUME MempoolInv, EntriesKept, NodeStep, UNCHANGED audited
  PROVE  EntriesKept' /\ (await \in {"inputs", "audit"} => Block' = Block)
         /\ \A u \in Txid : \/ blockOf'[u] = blockOf[u]
                            \/ blockOf[u] = 0 /\ blockOf'[u] > nodeHeight
<1>1. UNCHANGED <<cacheVars, roundVars>>
  BY DEF NodeStep, NodeAccept, NodeDrop, NodeBlock
<1>2. \A t \in Txid : \/ blockOf'[t] = blockOf[t]
                      \/ blockOf[t] = 0 /\ blockOf'[t] = nodeHeight + 1
  <2>1. ASSUME NEW block \in SUBSET Txid, NodeBlock(block), NEW t \in Txid
        PROVE  \/ blockOf'[t] = blockOf[t]
               \/ blockOf[t] = 0 /\ blockOf'[t] = nodeHeight + 1
    BY <2>1 DEF NodeBlock, Confirmed, MempoolInv, TypeOK
  <2> QED BY <2>1 DEF NodeStep, NodeAccept, NodeDrop
<1>3. ASSUME await \in {"inputs", "audit"}
      PROVE  Block' = Block
  <2>1. /\ currentBlockHeight < nodeHeight
        /\ currentBlockHeight \in Nat /\ nodeHeight \in Nat
    BY <1>3 DEF MempoolInv, Following, BlockConsistent, TypeOK
  <2>2. currentBlockHeight' = currentBlockHeight
    BY <1>1 DEF cacheVars
  <2>3. nodeHeight + 1 # currentBlockHeight + 1 /\ 0 # currentBlockHeight + 1
    BY <2>1
  <2> QED BY <1>2, <2>2, <2>3 DEF Block
<1>4. ASSUME NEW t \in Txid, Untouched(t)'
      PROVE  Untouched(t)
  <2>1. \A u \in Conflicts(t) : blockOf[u] # 0 => blockOf'[u] = blockOf[u]
    BY <1>2 DEF Conflicts
  <2>2. UNCHANGED <<currentBlockHeight, await, audited>>
    BY <1>1 DEF cacheVars, roundVars
  <2> QED BY <1>4, <2>1, <2>2 DEF Untouched, Conflicts
<1>5. EntriesKept'
  BY <1>1, <1>3, <1>4, EntriesStay DEF cacheVars, roundVars, Seen
<1>6. nodeHeight \in Nat
  BY DEF MempoolInv, TypeOK
<1> QED BY <1>2, <1>3, <1>5, <1>6

LEMMA RoundKeepsEntries ==
  ASSUME MempoolInv, EntriesKept, UNCHANGED audited,
         ListMempool \/ ReadTip \/ Throw \/ PushBlock \/ ProtectionEnds
  PROVE  EntriesKept'
<1>1. /\ UNCHANGED <<nodeVars, mempoolCache, spendMap>>
      /\ undisturbed' => undisturbed
      /\ currentBlockHeight' \in {currentBlockHeight, currentBlockHeight + 1}
      /\ await' \notin {"inputs", "audit"} \/ await' = await
      /\ await \in {"inputs", "audit"} =>
            await' = await /\ currentBlockHeight' = currentBlockHeight
  <2>1. CASE ListMempool \/ ReadTip
    BY <2>1 DEF ListMempool, ReadTip, cacheVars
  <2>2. CASE Throw
    BY <2>2 DEF Throw, EndRound
  <2>3. CASE PushBlock
    BY <2>3 DEF PushBlock, EndRound
  <2>4. CASE ProtectionEnds
    BY <2>4 DEF ProtectionEnds, roundVars
  <2> QED BY <2>1, <2>2, <2>3, <2>4
<1>2. undisturbed' => Seen' = Seen
  <2>1. CASE ListMempool \/ ReadTip \/ ProtectionEnds
    BY <2>1 DEF ListMempool, ReadTip, ProtectionEnds, roundVars, cacheVars, Seen
  <2>2. CASE Throw
    <3>1. undisturbed' => newTransactions = {} /\ newTransactions' = {}
      BY <2>2 DEF Throw, EndRound
    <3> QED BY <1>1, <3>1 DEF Seen
  <2>3. CASE PushBlock
    <3>1. newTransactions = {} /\ newTransactions' = {}
      BY <2>3 DEF PushBlock, EndRound, MempoolInv, Following, RoundConsistent
    <3> QED BY <1>1, <3>1 DEF Seen
  <2> QED BY <2>1, <2>2, <2>3
<1>3. ASSUME NEW t \in Txid, Untouched(t)'
      PROVE  Untouched(t)
  <2>1. blockOf' = blockOf
    BY <1>1 DEF nodeVars
  <2>2. \A u \in Conflicts(t) : blockOf[u] \in Nat
    BY DEF Conflicts, MempoolInv, TypeOK
  <2>3. currentBlockHeight \in Nat
    BY DEF MempoolInv, TypeOK
  <2>4. \A u \in Conflicts(t) : blockOf[u] # 0 =>
           blockOf[u] > currentBlockHeight' /\ blockOf[u] > audited
    BY <1>3, <2>1 DEF Untouched, Conflicts
  <2>5. \A u \in Conflicts(t) : blockOf[u] # 0 => blockOf[u] > currentBlockHeight
    BY <1>1, <2>2, <2>3, <2>4
  <2>6. await \in {"inputs", "audit"} =>
           \A u \in Conflicts(t) : blockOf[u] # 0 => blockOf[u] # currentBlockHeight + 1
    BY <1>1, <1>3, <2>1 DEF Untouched, Conflicts
  <2> QED BY <2>4, <2>5, <2>6 DEF Untouched
<1>4. await \in {"inputs", "audit"} => await' = await /\ Block' = Block
  BY <1>1 DEF Block, nodeVars
<1> QED BY <1>1, <1>2, <1>3, <1>4, EntriesStay

\* The block takes its inputs out of the spend map, and with them those of what
\* it replaces; no other seen transaction spends any of these.
LEMMA BlockKeepsEntries ==
  ASSUME MempoolInv, EntriesKept,
         \/ /\ StartBlock \/ (\E o \in Outpoint : LookUpInput(o)) \/ AuditBlock
            /\ UNCHANGED audited
         \/ ConfirmBlock /\ audited' = currentBlockHeight + 1
  PROVE  EntriesKept'
<1>1. /\ UNCHANGED <<nodeVars, currentBlockHeight, newTransactions, undisturbed>>
      /\ mempoolCache' \subseteq mempoolCache
      /\ newTransactions = {}
  <2>1. CASE StartBlock
    BY <2>1 DEF StartBlock, cacheVars, MempoolInv, Following, RoundConsistent
  <2>2. CASE \E o \in Outpoint : LookUpInput(o)
    BY <2>2 DEF LookUpInput, MempoolInv, Following, RoundConsistent
  <2>3. CASE AuditBlock \/ ConfirmBlock
    BY <2>3 DEF AuditBlock, ConfirmBlock, MempoolInv, Following, RoundConsistent
  <2> QED BY <2>1, <2>2, <2>3
<1>2. /\ Block' = Block /\ blockOf' = blockOf
      /\ Seen = mempoolCache /\ Seen' = mempoolCache' /\ Seen' \subseteq Seen
  BY <1>1 DEF nodeVars, Block, Seen
<1> SUFFICES ASSUME undisturbed, NEW t \in mempoolCache', Untouched(t)',
                    await' \in {"inputs", "audit"} => t \notin Block,
                    NEW i \in Spends[t]
             PROVE  spendMap'[i] = t
  BY <1>1, <1>2 DEF EntriesKept
<1>3. t \in Seen /\ t \in mempoolCache /\ t \in Txid /\ i \in Outpoint
  BY <1>1, <1>2, MempoolAssumption DEF MempoolInv, TypeOK
<1>4. \A u \in Conflicts(t) : u \in Txid /\ blockOf[u] \in Nat
  BY DEF Conflicts, MempoolInv, TypeOK
<1>5. currentBlockHeight \in Nat
  BY DEF MempoolInv, TypeOK
<1>6. CASE StartBlock
  <2>1. await' = "inputs" /\ await = "block" /\ spendMap' = spendMap /\ audited' = audited
    BY <1>6 DEF StartBlock, cacheVars, ConfirmBlock
  <2>2. Untouched(t)
    BY <1>1, <1>2, <2>1 DEF Untouched, Conflicts
  <2> QED BY <1>3, <2>1, <2>2 DEF EntriesKept
<1>7. ASSUME NEW o \in Outpoint, LookUpInput(o)
      PROVE  spendMap'[i] = t
  <2>1. await' = await /\ await = "inputs" /\ o \in spent /\ t \notin Block
        /\ audited' = audited
    BY <1>7 DEF LookUpInput, ConfirmBlock
  <2>2. Untouched(t)
    BY <1>1, <1>2, <2>1 DEF Untouched, Conflicts
  <2>3. spendMap[i] = t
    BY <1>3, <2>1, <2>2 DEF EntriesKept
  <2>4. PICK b \in Block : o \in Spends[b]
    BY <2>1 DEF MempoolInv, NothingMissed, InputsOfBlock, SpentBy
  <2>5. b \in Txid /\ blockOf[b] = currentBlockHeight + 1 /\ b # t
    BY <2>1 DEF Block
  <2>6. o \notin Spends[t]
    <3>1. b \notin Conflicts(t)
      BY <1>5, <2>1, <2>2, <2>5 DEF Untouched
    <3> QED BY <2>4, <2>5, <3>1 DEF Conflicts
  <2>7. ASSUME NEW r \in {spendMap[o]} \ (Block \cup {None})
        PROVE  i \notin Spends[r]
    <3>1. r \in Seen /\ o \in Spends[r]
      BY <1>2, <2>1 DEF MempoolInv, Following, SpendMapSound
    <3>2. r # t
      BY <2>6, <3>1
    <3> QED BY <1>3, <3>1, <3>2 DEF MempoolInv, NothingMissed, ConflictFree, Apart
  <2>8. spendMap'[i] = spendMap[i]
    BY <1>3, <1>7, <2>6, <2>7 DEF LookUpInput
  <2> QED BY <2>3, <2>8
<1>8. CASE AuditBlock
  <2>1. t \notin Block /\ spendMap' = Without(spendMap, Block) /\ await = "inputs"
        /\ await' = "audit" /\ audited' = audited
    BY <1>8 DEF AuditBlock, ConfirmBlock
  <2>2. Untouched(t)
    BY <1>1, <1>2, <2>1 DEF Untouched, Conflicts
  <2>3. spendMap[i] = t
    BY <1>3, <2>1, <2>2 DEF EntriesKept
  <2> QED BY <1>3, <2>1, <2>3 DEF Without
<1>9. CASE ConfirmBlock
  <2>1. /\ t \notin Block /\ spendMap' = spendMap /\ await = "audit"
        /\ audited' = currentBlockHeight + 1 /\ audited \in 0..currentBlockHeight + 1
    BY <1>9 DEF ConfirmBlock, StartBlock, LookUpInput, AuditBlock, MempoolInv
  <2>2. \A u \in Conflicts(t) : blockOf[u] # 0 => blockOf[u] > currentBlockHeight + 1
    BY <1>2, <2>1 DEF Untouched, Conflicts
  <2>3. Untouched(t)
    BY <1>4, <1>5, <2>1, <2>2 DEF Untouched
  <2> QED BY <1>3, <2>1, <2>3 DEF EntriesKept
<1> QED BY <1>6, <1>7, <1>8, <1>9

LEMMA UpdateKeepsEntries ==
  ASSUME MempoolInv, EntriesKept, UNCHANGED audited,
         Slices \/ DeleteTransactions \/ MempoolChanged
  PROVE  EntriesKept'
<1>1. /\ UNCHANGED <<nodeVars, currentBlockHeight>>
      /\ await \in {"slice", "templates"}
      /\ await' \in {"poll", "slice", "templates"}
  <2>1. CASE Slices
    BY <2>1 DEF Slices, AddSlice
  <2>2. CASE DeleteTransactions
    BY <2>2 DEF DeleteTransactions, EndRound
  <2>3. CASE MempoolChanged
    BY <2>3 DEF MempoolChanged, EndRound
  <2> QED BY <2>1, <2>2, <2>3
<1>2. \A t \in Txid : Untouched(t)' => Untouched(t)
  BY <1>1 DEF nodeVars, Untouched, Conflicts
<1>3. CASE Slices
  <2>1. /\ UNCHANGED <<spendMap, undisturbed>>
        /\ \E found \in SUBSET Txid : /\ mempoolCache' = mempoolCache \cup found
                                      /\ newTransactions' = newTransactions \cup found
    BY <1>3 DEF Slices, AddSlice, MempoolInv, TypeOK
  <2>2. Seen' \subseteq Seen
    BY <2>1 DEF Seen
  <2> QED BY <1>1, <1>2, <2>1, <2>2, EntriesStay
<1>4. CASE DeleteTransactions
  <2>1. /\ UNCHANGED spendMap /\ (undisturbed' => undisturbed)
        /\ mempoolCache' = mempoolCache \ Deleted
        /\ newTransactions' = newTransactions \/ newTransactions = {}
    BY <1>4 DEF DeleteTransactions, EndRound
  <2>2. Seen' \subseteq Seen
    BY <2>1 DEF Seen
  <2> QED BY <1>1, <1>2, <2>1, <2>2, EntriesStay
<1>5. CASE MempoolChanged
  <2>1. /\ UNCHANGED <<mempoolCache, recentlyDeleted, undisturbed>>
        /\ await = "templates" /\ await' = "poll" /\ newTransactions' = {}
        /\ spendMap' \in With(Without(spendMap, recentlyDeleted[1]), newTransactions)
    BY <1>5 DEF MempoolChanged, EndRound
  <2>2. Seen' = mempoolCache /\ mempoolCache = Seen \cup newTransactions
    BY <2>1 DEF Seen, MempoolInv, Following, RoundConsistent
  <2>3. undisturbed => Apart(mempoolCache)
    BY <2>1, ApartSubset DEF MempoolInv, NothingMissed, ConflictFree
  <2> SUFFICES ASSUME undisturbed, NEW t \in mempoolCache, Untouched(t)',
                      NEW o \in Spends[t]
               PROVE  spendMap'[o] = t
    BY <2>1, <2>2 DEF EntriesKept
  <2>4. o \in Outpoint /\ t \in Txid
    BY MempoolAssumption DEF MempoolInv, TypeOK
  <2>5. CASE o \in SpentBy(newTransactions)
    <3>1. spendMap'[o] \in newTransactions /\ o \in Spends[spendMap'[o]]
      BY <2>1, <2>4, <2>5 DEF With
    <3> QED BY <2>2, <2>3, <3>1 DEF Apart
  <2>6. CASE o \notin SpentBy(newTransactions)
    <3>1. spendMap'[o] = Without(spendMap, recentlyDeleted[1])[o]
      BY <2>1, <2>4, <2>6 DEF With
    <3>2. t \in Seen /\ t \notin recentlyDeleted[1]
      BY <2>1, <2>2, <2>6 DEF SpentBy, MempoolInv, NothingMissed, DeletedFirst
    <3>3. spendMap[o] = t
      BY <1>2, <2>1, <2>4, <3>2 DEF EntriesKept
    <3> QED BY <2>4, <3>1, <3>2, <3>3 DEF Without
  <2> QED BY <2>5, <2>6
<1> QED BY <1>3, <1>4, <1>5

LEMMA HeightBound ==
  ASSUME NEW a \in Nat, NEW h \in Nat, NEW k \in Nat, a <= h + 1, h <= k
  PROVE  a \in 0..k + 1
OBVIOUS

LEMMA NextKeepsEntries ==
  ASSUME MempoolInv, EntriesKept, [CombinedNext]_allVars
  PROVE  EntriesKept' /\ audited' \in 0..currentBlockHeight' + 1
<1>0. audited \in 0..currentBlockHeight + 1 /\ currentBlockHeight \in Nat
  BY DEF MempoolInv, TypeOK
<1>1. CASE Elsewhere
  <2>1. UNCHANGED audited
    BY <1>1 DEF Elsewhere, blockVars
  <2>2. currentBlockHeight' \in {currentBlockHeight, currentBlockHeight + 1}
    BY <1>1 DEF Elsewhere, NodeStep, NodeAccept, NodeDrop, NodeBlock, ListMempool, ReadTip,
                Throw, PushBlock, Slices, AddSlice, DeleteTransactions, ProtectionEnds,
                cacheVars
  <2>3. audited' \in 0..currentBlockHeight' + 1
    <3>1. audited' = audited /\ audited \in Nat /\ audited <= currentBlockHeight + 1
      BY <2>1, <1>0
    <3>2. currentBlockHeight' \in Nat /\ currentBlockHeight <= currentBlockHeight'
      BY <2>2, <1>0
    <3> QED BY <1>0, <3>1, <3>2, HeightBound
  <2>4. ASSUME NodeStep PROVE EntriesKept'
    BY <2>1, <2>4, NodeKeepsEntries
  <2>5. ASSUME ListMempool \/ ReadTip \/ Throw \/ PushBlock \/ ProtectionEnds
        PROVE  EntriesKept'
    BY <2>1, <2>5, RoundKeepsEntries
  <2>6. ASSUME Slices \/ DeleteTransactions PROVE EntriesKept'
    BY <2>1, <2>6, UpdateKeepsEntries
  <2>7. EntriesKept'
    BY <1>1, <2>4, <2>5, <2>6 DEF Elsewhere
  <2> QED BY <2>3, <2>7
<1>2. CASE UpdateSeen
  <2>1. UNCHANGED <<audited, currentBlockHeight>> /\ MempoolChanged
    BY <1>2 DEF UpdateSeen, blockVars, MempoolChanged
  <2> QED BY <2>1, <1>0, UpdateKeepsEntries
<1>3. CASE BlockStarted \/ (\E o \in Outpoint : InputLookedUp(o)) \/ BlockAudited
  <2>1. /\ UNCHANGED <<audited, currentBlockHeight>>
        /\ StartBlock \/ (\E o \in Outpoint : LookUpInput(o)) \/ AuditBlock
    BY <1>3 DEF BlockStarted, InputLookedUp, BlockAudited, blockVars, cacheVars,
                StartBlock, LookUpInput, AuditBlock
  <2> QED BY <2>1, <1>0, BlockKeepsEntries
<1>4. CASE BlockConfirmed
  <2>1. ConfirmBlock /\ audited' = currentBlockHeight + 1 /\ UNCHANGED currentBlockHeight
    BY <1>4 DEF BlockConfirmed, ConfirmBlock
  <2>2. audited' \in 0..currentBlockHeight' + 1
    BY <2>1, <1>0
  <2> QED BY <2>1, <2>2, BlockKeepsEntries
<1>5. CASE UNCHANGED <<vars, audited>>
  <2>1. UNCHANGED <<spendMap, undisturbed, await, currentBlockHeight>> /\ Seen' = Seen
        /\ Block' = Block
    BY <1>5 DEF vars, nodeVars, cacheVars, roundVars, Seen, Block
  <2>2. \A t \in Txid : Untouched(t)' => Untouched(t)
    BY <1>5 DEF vars, nodeVars, cacheVars, roundVars, Untouched, Conflicts
  <2> QED BY <1>0, <1>5, <2>1, <2>2, EntriesStay
<1> QED BY <1>1, <1>2, <1>3, <1>4, <1>5
        DEF CombinedNext, allVars, blockVars, ChangesSent, AddReplacement, EvictDeleted,
            MarkMined, Cleaned

\* The spend map keeps the inputs of every seen transaction up to the first block
\* that double-spends it (common.ts:136-160).
LEMMA EntriesAlwaysKept == CombinedSpec => [](MempoolInv /\ EntriesKept)
<1>1. CombinedInit => audited \in 0..currentBlockHeight + 1 /\ EntriesKept
  BY DEF CombinedInit, Init, EntriesKept, Seen
<1>2. /\ TypeOK /\ Following /\ NothingMissed
      /\ audited \in 0..currentBlockHeight + 1 /\ EntriesKept
      /\ [CombinedNext]_allVars
      => audited' \in 0..currentBlockHeight' + 1 /\ EntriesKept'
  BY NextKeepsEntries DEF MempoolInv
<1> DEFINE Part == audited \in 0..currentBlockHeight + 1 /\ EntriesKept
<1>3. CombinedInit => Part
  BY <1>1
<1>4. TypeOK /\ Following /\ NothingMissed /\ Part /\ [CombinedNext]_allVars => Part'
  BY <1>2
<1>5. TypeOK /\ Following /\ NothingMissed /\ Part => MempoolInv /\ EntriesKept
  BY DEF MempoolInv
<1> HIDE DEF Part
<1> QED BY <1>3, <1>4, <1>5, FollowsMempool, TypeCorrect, AlwaysFollowing,
           NothingEverMissed, PTL DEF CombinedSpec

(***************************************************************************)
(* What the calls do in the cache                                          *)
(***************************************************************************)

CacheInv == Cache!TypeOK /\ Cache!Consistent

LEMMA CacheAlwaysConsistent == CombinedSpec => []CacheInv
BY CallsRbfCache, CacheConstants, Cache!TypeCorrect, Cache!AlwaysConsistent, PTL DEF CacheInv

\* add() puts what it does not skip in the tree of its replacement, with the
\* trees that held it.
LEMMA AddJoins ==
  ASSUME CacheInv, NEW u \in Txid, NEW replaced \in SUBSET (Txid \ {u}),
         Rbf!Add(replaced, u), NEW R, R = Rbf!FirstReplaced(replaced)
  PROVE  /\ u \notin txs /\ u \notin expiring /\ expiring' = expiring
         /\ R # {}
         /\ txs' = txs \cup {u} \cup R
         /\ \A t \in Txid : treeMap'[t] = IF t = u \/ t \in R \/ treeMap[t] \in R
                                          THEN u ELSE treeMap[t]
         /\ \A t \in Txid : replacedBy'[t] = IF t \in R THEN u ELSE replacedBy[t]
<1>1. Cache!Add(replaced, u) /\ R = Cache!FirstReplaced(replaced)
  BY SameAdd
<1>2. u \notin txs /\ expiring' = expiring /\ R # {}
  BY <1>1 DEF Cache!Add
<1>3. u \notin expiring
  BY <1>2 DEF CacheInv, Cache!Consistent, Cache!NothingLeaks
<1>4. /\ txs' = txs \cup {u} \cup R
      /\ \A t \in Txid : treeMap'[t] = IF t = u \/ t \in R \/ treeMap[t] \in R
                                       THEN u ELSE treeMap[t]
      /\ \A t \in Txid : replacedBy'[t] = IF t \in R THEN u ELSE replacedBy[t]
  BY <1>1, CacheConstants, Cache!AddEffect DEF CacheInv
<1> QED BY <1>2, <1>3, <1>4

\* cleanup() takes no tree whose root has not expired.
LEMMA CleanupSpares ==
  ASSUME CacheInv, NEW due \in SUBSET expiring, Rbf!Cleanup(due),
         NEW t \in Txid, treeMap[t] \notin expiring
  PROVE  treeMap'[t] = treeMap[t] /\ expiring' \subseteq expiring
<1>1. Cache!Cleanup(due)
  BY SameCleanup
<1>2. Cache!Doomed(due) = {x \in Txid : treeMap[x] \in Cache!OverdueRoots(due)}
  BY CacheConstants, Cache!DoomedAreTrees DEF CacheInv
<1>3. t \notin Cache!Doomed(due)
  BY <1>2 DEF Cache!OverdueRoots
<1> QED BY <1>1, <1>3 DEF Cache!Cleanup

(***************************************************************************)
(* The block and the cache                                                 *)
(***************************************************************************)

Joined(t) == treeMap[t] \in Block /\ treeMap[t] \notin expiring

Against(t) == Conflicts(t) \cap Block

\* The transactions that the block double-spends first and that add() will take.
Exposed ==
    {t \in mempoolCache \ Block :
        /\ undisturbed /\ audited <= currentBlockHeight
        /\ FirstDoubleSpend(t)
        /\ known \cap ({t} \cup Against(t)) = {}}

\* No input of t has been looked up, or t has been matched.
InMap(t) == \A o \in Spends[t] :
    spendMap[o] = t /\ (o \in SpentBy(Block) => o \in spent)
Pending(t) == \E u \in Block : <<t, u>> \in matches

\* A block is handled when nothing is left of earlier callbacks.
CallOrder ==
    /\ await \in {"inputs", "audit"} => ~sending /\ gone = {} /\ confirmed = {}
    /\ await = "audit" => matches = {}

\* While the inputs are looked up nothing is added; then the cache gets the
\* transactions of the block one by one, and those that wait are not in it.
BlockMatches == await = "inputs" =>
    /\ \A p \in matches : /\ p[1] \notin Block /\ p[2] \in Block
                          /\ p[2] \in Conflicts(p[1])
                          /\ p[2] \in txs => p[2] \in known
    /\ spent # {} => Block \cap txs \subseteq known

AboutToJoin == await = "inputs" => \A t \in Exposed :
    Joined(t) \/ (replacedBy[t] = None /\ (InMap(t) \/ Pending(t)))

AllJoined == await = "audit" => \A t \in Exposed : Against(t) # {} => Joined(t)

CallInv == MatchesTyped /\ CallOrder /\ BlockMatches /\ AboutToJoin /\ AllJoined

LEMMA JoinedExcused ==
  ASSUME CacheInv, NEW t \in Txid, Joined(t)
  PROVE  Excused(t)
<1> DEFINE id == treeMap[t]
<1>1. id \in Txid /\ id \in Block /\ id # None
  BY MempoolAssumption DEF Joined, Block
<1>2. rbfTrees[id] # None /\ treeMap[id] = id
  BY <1>1 DEF CacheInv, Cache!Consistent, Cache!Existence, Cache!UniqueId
<1>3. id \in rbfTrees[id].txs
  BY <1>1, <1>2 DEF CacheInv, Cache!Consistent, Cache!TreesMatchMaps, Cache!Members
<1>4. id \in Rbf!TreeOf(t)
  BY <1>1, <1>2 DEF Rbf!TreeOf
<1> QED BY <1>1, <1>3, <1>4 DEF Excused

\* A block begins with the spend map complete for what it may double-spend.
LEMMA StartKeepsCalls ==
  ASSUME MempoolInv, EntriesKept, CacheInv, CallInv, BlockStarted
  PROVE  CallInv'
<1>1. /\ StartBlock /\ await = "block" /\ await' = "inputs"
      /\ matches = {} /\ ~sending /\ gone = {} /\ confirmed = {}
      /\ UNCHANGED <<matches, sending, gone, confirmed, audited>>
      /\ UNCHANGED rbfVars
      /\ known' = {t \in txs : t \in Block \/ replacedBy[t] # None}
      /\ spent' = SpentBy(Block)
      /\ UNCHANGED <<nodeVars, mempoolCache, spendMap, currentBlockHeight, undisturbed>>
  BY DEF BlockStarted, AtAwait, StartBlock, cacheVars, callVars, SpentBy
<1>2. Block' = Block /\ blockOf' = blockOf
  BY <1>1 DEF nodeVars, Block
<1>3. CallOrder'
  BY <1>1 DEF CallOrder
<1>4. BlockMatches'
  BY <1>1, <1>2 DEF BlockMatches, rbfVars
<1>5. ASSUME NEW t \in Exposed'
      PROVE  replacedBy'[t] = None /\ InMap(t)'
  <2>1. /\ t \in mempoolCache /\ t \notin Block /\ t \in Txid
        /\ undisturbed /\ audited <= currentBlockHeight /\ t \notin known'
        /\ \A u \in Conflicts(t) : blockOf[u] \notin 1..currentBlockHeight
    BY <1>1, <1>2, <1>5 DEF Exposed, FirstDoubleSpend, Conflicts, MempoolInv, TypeOK
  <2>2. t \in Seen
    BY <1>1, <2>1 DEF Seen, MempoolInv, Following, RoundConsistent
  <2>3. Untouched(t)
    <3>1. currentBlockHeight \in Nat /\ audited \in Nat
          /\ \A u \in Conflicts(t) : blockOf[u] \in Nat
      BY DEF MempoolInv, TypeOK, Conflicts
    <3> QED BY <1>1, <2>1, <3>1 DEF Untouched
  <2>4. \A o \in Spends[t] : spendMap[o] = t
    BY <1>1, <2>1, <2>2, <2>3 DEF EntriesKept
  <2>5. InMap(t)'
    BY <1>1, <1>2, <2>4 DEF InMap, SpentBy
  <2>6. replacedBy[t] # None => t \in txs
    BY <2>1 DEF CacheInv, Cache!Consistent, Cache!Completeness, Cache!NothingLeaks
  <2>7. replacedBy[t] = None
    BY <1>1, <2>1, <2>6
  <2> QED BY <1>1, <2>5, <2>7 DEF rbfVars
<1>6. AboutToJoin'
  BY <1>5 DEF AboutToJoin
<1> QED BY <1>1, <1>3, <1>4, <1>6 DEF CallInv, MatchesTyped, AllJoined

\* An input that is looked up is matched, with all that its transaction spends.
LEMMA LookUpKeepsCalls ==
  ASSUME MempoolInv, CacheInv, CallInv, MatchesTyped', NEW o \in Outpoint, InputLookedUp(o)
  PROVE  CallInv'
<1> DEFINE new == {p \in ({spendMap[o]} \ (Block \cup {None})) \X Block : o \in Spends[p[2]]}
<1>1. /\ LookUpInput(o) /\ await = "inputs" /\ await' = "inputs" /\ o \in spent
      /\ matches' = matches \cup new
      /\ spent' = spent \ {o}
      /\ UNCHANGED <<sending, gone, confirmed, audited, known>> /\ UNCHANGED rbfVars
      /\ UNCHANGED <<nodeVars, mempoolCache, currentBlockHeight, undisturbed>>
  BY DEF InputLookedUp, LookUpInput, blockVars
<1>2. Block' = Block /\ blockOf' = blockOf
  BY <1>1 DEF nodeVars, Block
<1>3. CallOrder'
  BY <1>1 DEF CallOrder, CallInv
<1>4. BlockMatches'
  <2>1. Block \cap txs \subseteq known
    BY <1>1 DEF CallInv, BlockMatches
  <2>2. ASSUME NEW p \in new
        PROVE  /\ p[1] \notin Block /\ p[2] \in Block /\ p[2] \in Conflicts(p[1])
               /\ p[2] \in txs => p[2] \in known
    <3>1. p[1] = spendMap[o] /\ p[1] \notin Block /\ p[1] # None /\ p[2] \in Block
          /\ o \in Spends[p[2]]
      OBVIOUS
    <3>2. o \in Spends[p[1]]
      BY <3>1 DEF MempoolInv, Following, SpendMapSound
    <3>3. p[2] \in Txid /\ p[2] # p[1]
      BY <3>1 DEF Block
    <3> QED BY <2>1, <3>1, <3>2, <3>3 DEF Conflicts
  <2>3. \A p \in matches : /\ p[1] \notin Block /\ p[2] \in Block
                           /\ p[2] \in Conflicts(p[1])
                           /\ p[2] \in txs => p[2] \in known
    BY <1>1 DEF CallInv, BlockMatches
  <2> HIDE DEF new
  <2> QED BY <1>1, <1>2, <2>1, <2>2, <2>3 DEF BlockMatches, rbfVars, Conflicts
<1>5. ASSUME NEW t \in Exposed'
      PROVE  Joined(t)' \/ (replacedBy'[t] = None /\ (InMap(t)' \/ Pending(t)'))
  <2>1. t \in Exposed /\ t \in mempoolCache /\ t \notin Block /\ undisturbed /\ t \in Txid
    BY <1>1, <1>2, <1>5
       DEF Exposed, FirstDoubleSpend, Conflicts, Against, MempoolInv, TypeOK
  <2>2. Joined(t) \/ (replacedBy[t] = None /\ (InMap(t) \/ Pending(t)))
    BY <1>1, <2>1 DEF CallInv, AboutToJoin
  <2>3. CASE Joined(t)
    BY <1>1, <1>2, <2>3 DEF Joined, rbfVars
  <2>4. CASE replacedBy[t] = None /\ Pending(t)
    BY <1>1, <1>2, <2>4 DEF Pending, rbfVars
  <2>5. CASE replacedBy[t] = None /\ InMap(t) /\ spendMap[o] = t
    <3>1. PICK b \in Block : o \in Spends[b]
      BY <1>1 DEF MempoolInv, NothingMissed, InputsOfBlock, SpentBy
    <3>2. t # None
      BY <2>1, MempoolAssumption
    <3>3. <<t, b>> \in new
      BY <2>1, <2>5, <3>1, <3>2
    <3> QED BY <1>1, <1>2, <2>5, <3>3 DEF Pending, rbfVars
  <2>6. CASE replacedBy[t] = None /\ InMap(t) /\ spendMap[o] # t
    <3>1. o \notin Spends[t]
      BY <2>6 DEF InMap
    <3>2. ASSUME NEW i \in Spends[t]
          PROVE  spendMap'[i] = t /\ (i \in SpentBy(Block) => i \in spent')
      <4>1. spendMap[i] = t /\ (i \in SpentBy(Block) => i \in spent) /\ i # o
        BY <2>6, <3>1, <3>2 DEF InMap
      <4>2. i \in Outpoint
        BY <2>1, MempoolAssumption
      <4>3. ASSUME NEW r \in {spendMap[o]} \ (Block \cup {None})
            PROVE  i \notin Spends[r]
        <5>1. r \in mempoolCache /\ o \in Spends[r]
          BY <1>1 DEF MempoolInv, Following, SpendMapSound
        <5>2. r # t
          BY <3>1, <5>1
        <5>3. Apart(mempoolCache)
          BY <1>1, <2>1 DEF MempoolInv, Following, RoundConsistent, NothingMissed,
                            ConflictFree, Seen, Apart
        <5> QED BY <2>1, <5>1, <5>2, <5>3 DEF Apart
      <4>4. spendMap'[i] = spendMap[i]
        BY <1>1, <4>1, <4>2, <4>3 DEF LookUpInput
      <4> QED BY <1>1, <4>1, <4>4
    <3> QED BY <1>1, <1>2, <2>6, <3>2 DEF InMap, SpentBy, rbfVars
  <2> QED BY <2>2, <2>3, <2>4, <2>5, <2>6
<1>6. AboutToJoin'
  BY <1>5 DEF AboutToJoin
<1> QED BY <1>1, <1>3, <1>4, <1>6 DEF CallInv, AllJoined

\* The replacement of what is matched is not in the cache, so add() takes it.
LEMMA AddKeepsCalls ==
  ASSUME MempoolInv, CacheInv, CallInv, MatchesTyped', await = "inputs",
         NEW u \in Txid, AddReplacement(u)
  PROVE  CallInv'
<1> DEFINE R == {d \in Replaced(u) : replacedBy[d] = None}
<1>0. R = {d \in Replaced(u) : replacedBy[d] = None} /\ R = Rbf!FirstReplaced(Replaced(u))
  BY DEF Rbf!FirstReplaced
<1> HIDE DEF R
<1>1. /\ spent = {} /\ Replaced(u) # {}
      /\ matches' = {p \in matches : p[2] # u}
      /\ UNCHANGED <<vars, sending, gone, confirmed, audited, known>>
  BY DEF AddReplacement, blockVars
<1>2. UNCHANGED <<await, spent, mempoolCache, currentBlockHeight, undisturbed, spendMap,
                  blockOf>> /\ Block' = Block
  BY <1>1 DEF vars, nodeVars, cacheVars, roundVars, Block
<1>3. Replaced(u) \in SUBSET (Txid \ {u}) /\ \A d \in Replaced(u) : <<d, u>> \in matches
  BY DEF Replaced, CallInv, MatchesTyped
<1>4. /\ u \in Block /\ (u \in txs => u \in known)
      /\ \A d \in Replaced(u) : d \notin Block /\ u \in Conflicts(d)
  <2>1. \A p \in matches : /\ p[1] \notin Block /\ p[2] \in Block
                           /\ p[2] \in Conflicts(p[1])
                           /\ p[2] \in txs => p[2] \in known
    BY DEF CallInv, BlockMatches
  <2>2. PICK d \in Replaced(u) : TRUE
    BY <1>1
  <2> QED BY <1>3, <2>1, <2>2
<1>5. \/ /\ u \notin txs /\ u \notin expiring /\ expiring' = expiring
         /\ txs' = txs \cup {u} \cup R
         /\ \A t \in Txid : treeMap'[t] = IF t = u \/ t \in R \/ treeMap[t] \in R
                                          THEN u ELSE treeMap[t]
         /\ \A t \in Txid : replacedBy'[t] = IF t \in R THEN u ELSE replacedBy[t]
      \/ (u \in txs \/ R = {}) /\ UNCHANGED rbfVars
  <2>1. CASE Rbf!Add(Replaced(u), u)
    <3>1. Replaced(u) \in SUBSET (Txid \ {u})
      BY <1>3
    <3> QED BY <1>0, <2>1, <3>1, AddJoins
  <2>2. CASE (u \in txs \/ Rbf!FirstReplaced(Replaced(u)) = {}) /\ UNCHANGED rbfVars
    BY <1>0, <2>2
  <2> QED BY <2>1, <2>2 DEF AddReplacement
<1>6. R \subseteq Replaced(u)
  BY <1>0
<1>7. CallOrder'
  BY <1>1, <1>2 DEF CallOrder, CallInv
<1>8. BlockMatches'
  <2>1. \A p \in matches : /\ p[1] \notin Block /\ p[2] \in Block
                           /\ p[2] \in Conflicts(p[1])
                           /\ p[2] \in txs => p[2] \in known
    BY DEF CallInv, BlockMatches
  <2>2. ASSUME NEW p \in matches, p[2] # u, p[2] \in txs'
        PROVE  p[2] \in txs
    <3>1. p[2] \notin R
      BY <1>4, <1>6, <2>1
    <3> QED BY <1>5, <2>2, <3>1 DEF rbfVars
  <2> QED BY <1>1, <1>2, <2>1, <2>2 DEF BlockMatches, Conflicts
<1>9. ASSUME NEW t \in Exposed'
      PROVE  Joined(t)' \/ (replacedBy'[t] = None /\ (InMap(t)' \/ Pending(t)'))
  <2>1. /\ t \in Exposed /\ t \notin Block /\ t \in Txid
        /\ known \cap ({t} \cup Against(t)) = {}
    BY <1>1, <1>2, <1>9
       DEF Exposed, FirstDoubleSpend, Conflicts, Against, MempoolInv, TypeOK
  <2>2. Joined(t) \/ (replacedBy[t] = None /\ (InMap(t) \/ Pending(t)))
    BY <2>1 DEF CallInv, AboutToJoin
  <2>3. CASE Joined(t)
    <3>1. treeMap'[t] \in {u, treeMap[t]} /\ (treeMap'[t] = u => u \notin expiring')
      BY <1>5, <2>1, <2>3 DEF rbfVars, Joined
    <3>2. expiring' = expiring
      BY <1>5 DEF rbfVars
    <3> QED BY <1>2, <1>4, <2>3, <3>1, <3>2 DEF Joined
  <2>4. CASE replacedBy[t] = None /\ t \in Replaced(u)
    <3>1. t \in R
      BY <1>0, <2>4
    <3>2. u \in Against(t)
      BY <1>4, <2>4 DEF Against
    <3>3. u \notin txs
      BY <1>4, <2>1, <3>2
    <3>4. treeMap'[t] = u /\ u \notin expiring'
      BY <1>5, <2>1, <3>1, <3>3
    <3> QED BY <1>2, <1>4, <3>4 DEF Joined
  <2>5. CASE replacedBy[t] = None /\ t \notin Replaced(u) /\ (InMap(t) \/ Pending(t))
    <3>1. replacedBy'[t] = None
      BY <1>5, <1>6, <2>1, <2>5 DEF rbfVars
    <3>2. InMap(t) => InMap(t)'
      BY <1>2 DEF InMap, SpentBy
    <3>3. Pending(t) => Pending(t)'
      <4> SUFFICES ASSUME NEW v \in Block, <<t, v>> \in matches
                   PROVE  <<t, v>> \in matches'
        BY <1>2 DEF Pending
      <4>1. v # u
        BY <2>1, <2>5 DEF Replaced
      <4> QED BY <1>1, <4>1
    <3> QED BY <2>5, <3>1, <3>2, <3>3
  <2> QED BY <2>2, <2>3, <2>4, <2>5
<1>10. AboutToJoin'
  BY <1>9 DEF AboutToJoin
<1> QED BY <1>1, <1>2, <1>7, <1>8, <1>10 DEF CallInv, AllJoined

\* Outside the handling of a block nothing is claimed.
LEMMA NoBlockHandled ==
  ASSUME MatchesTyped', await' \notin {"inputs", "audit"}
  PROVE  CallInv'
BY DEF CallInv, CallOrder, BlockMatches, AboutToJoin, AllJoined

\* The node's new blocks are not the one that is audited.
LEMMA ElsewhereKeepsCalls ==
  ASSUME MempoolInv, EntriesKept, CallInv, MatchesTyped', Elsewhere
  PROVE  CallInv'
<1>1. /\ await # "inputs"
      /\ UNCHANGED <<rbfVars, matches, sending, gone, confirmed, audited, known>>
  BY DEF Elsewhere, AtAwait, callVars, blockVars
<1>2. ASSUME await' = "audit"
      PROVE  NodeStep \/ ProtectionEnds
  BY <1>2 DEF Elsewhere, ListMempool, ReadTip, Throw, PushBlock, EndRound, Slices, AddSlice,
              DeleteTransactions, AtAwait
<1>3. await' # "inputs"
  BY <1>1 DEF Elsewhere, ListMempool, ReadTip, Throw, PushBlock, EndRound, Slices, AddSlice,
              DeleteTransactions, ProtectionEnds, NodeStep, NodeAccept, NodeDrop, NodeBlock,
              roundVars
<1>4. CASE await' = "audit"
  <2>1. UNCHANGED <<await, mempoolCache, undisturbed, currentBlockHeight>>
    BY <1>2, <1>4 DEF NodeStep, NodeAccept, NodeDrop, NodeBlock, ProtectionEnds, roundVars,
                      cacheVars
  <2>2. /\ Block' = Block
        /\ \A u \in Txid : blockOf[u] # 0 => blockOf'[u] = blockOf[u]
    <3>1. CASE NodeStep
      BY <1>1, <1>4, <2>1, <3>1, NodeKeepsEntries
    <3>2. CASE ProtectionEnds
      BY <3>2 DEF ProtectionEnds, nodeVars, Block
    <3> QED BY <1>2, <1>4, <3>1, <3>2
  <2>3. ASSUME NEW t \in Exposed'
        PROVE  t \in Exposed
    <3>1. /\ t \in mempoolCache \ Block /\ undisturbed /\ audited <= currentBlockHeight
          /\ known \cap ({t} \cup Against(t)) = {}
          /\ \A u \in Conflicts(t) : blockOf'[u] \notin 1..currentBlockHeight
      BY <1>1, <2>1, <2>2, <2>3 DEF Exposed, FirstDoubleSpend, Against, Conflicts
    <3>2. ASSUME NEW u \in Conflicts(t), blockOf[u] \in 1..currentBlockHeight
          PROVE  FALSE
      <4>1. blockOf[u] # 0 /\ u \in Txid
        BY <3>2 DEF Conflicts
      <4> QED BY <2>2, <3>1, <3>2, <4>1
    <3> QED BY <3>1, <3>2 DEF Exposed, FirstDoubleSpend
  <2>4. AllJoined'
    <3>1. AllJoined
      BY DEF CallInv
    <3> QED BY <1>1, <1>4, <2>1, <2>2, <2>3, <3>1
            DEF AllJoined, Joined, Against, Conflicts, rbfVars
  <2>5. CallOrder'
    BY <1>1, <1>4, <2>1 DEF CallInv, CallOrder
  <2> QED BY <1>4, <2>4, <2>5 DEF CallInv, BlockMatches, AboutToJoin
<1> QED BY <1>3, <1>4, NoBlockHandled

\* When the block is audited every input has been looked up and every match has
\* been added.
LEMMA AuditKeepsCalls ==
  ASSUME CallInv, MatchesTyped', BlockAudited
  PROVE  CallInv'
<1>1. /\ await = "inputs" /\ await' = "audit" /\ spent = {} /\ matches = {}
      /\ UNCHANGED <<rbfVars, matches, sending, gone, confirmed, audited, known>>
      /\ UNCHANGED <<blockOf, mempoolCache, undisturbed, currentBlockHeight>>
  BY DEF BlockAudited, AuditBlock, callVars, blockVars, nodeVars
<1>2. Block' = Block
  BY <1>1 DEF Block
<1>3. CallOrder'
  BY <1>1 DEF CallInv, CallOrder
<1>4. ASSUME NEW t \in Exposed', Against(t)' # {}
      PROVE  Joined(t)'
  <2>1. t \in Exposed /\ Against(t) # {}
    BY <1>1, <1>2, <1>4 DEF Exposed, FirstDoubleSpend, Against, Conflicts
  <2>2. Joined(t) \/ InMap(t) \/ Pending(t)
    BY <1>1, <2>1 DEF CallInv, AboutToJoin
  <2>3. ~Pending(t)
    BY <1>1 DEF Pending
  <2>4. ~InMap(t)
    <3>1. PICK u \in Block : Spends[u] \cap Spends[t] # {}
      BY <2>1 DEF Against, Conflicts
    <3>2. PICK o \in Spends[t] : o \in Spends[u]
      BY <3>1
    <3>3. o \in SpentBy(Block)
      BY <3>2 DEF SpentBy
    <3> QED BY <1>1, <3>2, <3>3 DEF InMap
  <2> QED BY <1>1, <1>2, <2>2, <2>3, <2>4 DEF Joined, rbfVars
<1>5. AllJoined'
  BY <1>4 DEF AllJoined
<1> QED BY <1>1, <1>3, <1>5 DEF CallInv, BlockMatches, AboutToJoin

\* The timer may fire during the audit.
LEMMA CleanedKeepsCalls ==
  ASSUME MempoolInv, CacheInv, CallInv, MatchesTyped', NEW due \in SUBSET expiring,
         Cleaned(due)
  PROVE  CallInv'
<1>1. /\ await # "inputs" /\ Rbf!Cleanup(due)
      /\ UNCHANGED <<vars, matches, sending, gone, confirmed, audited, known>>
  BY DEF Cleaned, AtAwait, callVars, blockVars
<1>2. UNCHANGED <<await, blockOf, mempoolCache, undisturbed, currentBlockHeight>>
      /\ Block' = Block
  BY <1>1 DEF vars, nodeVars, cacheVars, roundVars, Block
<1>3. CASE await = "audit"
  <2>1. ASSUME NEW t \in Exposed', Against(t)' # {}
        PROVE  Joined(t)'
    <3>1. t \in Exposed /\ Against(t) # {} /\ t \in Txid
      BY <1>1, <1>2, <2>1 DEF Exposed, FirstDoubleSpend, Against, Conflicts, MempoolInv, TypeOK
    <3>2. Joined(t)
      BY <1>3, <3>1 DEF CallInv, AllJoined
    <3>3. treeMap[t] \notin expiring
      BY <3>2 DEF Joined
    <3>4. treeMap'[t] = treeMap[t] /\ expiring' \subseteq expiring
      BY <1>1, <3>1, <3>3, CleanupSpares
    <3> QED BY <1>2, <3>2, <3>4 DEF Joined
  <2>2. AllJoined'
    BY <2>1 DEF AllJoined
  <2>3. CallOrder'
    BY <1>1, <1>2 DEF CallInv, CallOrder
  <2> QED BY <1>1, <1>2, <2>2, <2>3 DEF CallInv, BlockMatches, AboutToJoin
<1> QED BY <1>1, <1>2, <1>3, NoBlockHandled

LEMMA NextKeepsCalls ==
  ASSUME MempoolInv, EntriesKept, CacheInv, CallInv, MatchesTyped', [CombinedNext]_allVars
  PROVE  CallInv'
<1>1. CASE Elsewhere
  BY <1>1, ElsewhereKeepsCalls
<1>2. CASE BlockStarted
  BY <1>2, StartKeepsCalls
<1>3. ASSUME NEW o \in Outpoint, InputLookedUp(o)
      PROVE  CallInv'
  BY <1>3, LookUpKeepsCalls
<1>4. CASE BlockAudited
  BY <1>4, AuditKeepsCalls
<1>5. CASE UpdateSeen \/ BlockConfirmed
  <2>1. await' \notin {"inputs", "audit"}
    BY <1>5 DEF UpdateSeen, MempoolChanged, EndRound, BlockConfirmed, ConfirmBlock
  <2> QED BY <2>1, NoBlockHandled
<1>6. ASSUME NEW due \in SUBSET expiring, Cleaned(due)
      PROVE  CallInv'
  BY <1>6, CleanedKeepsCalls
<1>7. ASSUME ChangesSent \/ (\E t \in Txid : EvictDeleted(t) \/ MarkMined(t))
      PROVE  CallInv'
  <2>1. (sending \/ gone # {} \/ confirmed # {}) /\ UNCHANGED vars
    BY <1>7 DEF ChangesSent, EvictDeleted, MarkMined
  <2>2. await' = await /\ await \notin {"inputs", "audit"}
    BY <2>1 DEF vars, roundVars, CallInv, CallOrder
  <2> QED BY <2>2, NoBlockHandled
<1>8. ASSUME NEW u \in Txid, AddReplacement(u)
      PROVE  CallInv'
  <2>1. await' = await
    BY <1>8 DEF AddReplacement, vars, roundVars
  <2>2. await # "audit"
    BY <1>8 DEF AddReplacement, Replaced, CallInv, CallOrder
  <2>3. CASE await = "inputs"
    BY <1>8, <2>3, AddKeepsCalls
  <2> QED BY <2>1, <2>2, <2>3, NoBlockHandled
<1>9. CASE UNCHANGED allVars
  <2>1. UNCHANGED <<matches, sending, gone, confirmed, audited, known, rbfVars, blockOf,
                    await, spent, spendMap, mempoolCache, undisturbed, currentBlockHeight>>
    BY <1>9 DEF allVars, vars, nodeVars, cacheVars, roundVars, callVars, blockVars
  <2>2. Block' = Block /\ Exposed' = Exposed
    BY <2>1 DEF Block, Exposed, FirstDoubleSpend, Against, Conflicts
  <2>3. CallOrder' /\ BlockMatches'
    BY <2>1, <2>2 DEF CallInv, CallOrder, BlockMatches, Conflicts, rbfVars
  <2>4. AboutToJoin'
    BY <2>1, <2>2 DEF CallInv, AboutToJoin, Joined, InMap, Pending, SpentBy, rbfVars
  <2>5. AllJoined'
    BY <2>1, <2>2 DEF CallInv, AllJoined, Joined, Against, Conflicts, rbfVars
  <2> QED BY <2>3, <2>4, <2>5 DEF CallInv
<1> QED BY <1>1, <1>2, <1>3, <1>4, <1>5, <1>6, <1>7, <1>8, <1>9 DEF CombinedNext

LEMMA CallsAlwaysOrdered == CombinedSpec => []CallInv
<1>1. CombinedInit => CallInv
  BY DEF CombinedInit, Init, CallInv, MatchesTyped, CallOrder, BlockMatches, AboutToJoin,
         AllJoined
<1>2. /\ MempoolInv /\ EntriesKept /\ CacheInv /\ CallInv /\ MatchesTyped'
      /\ [CombinedNext]_allVars
      => CallInv'
  BY NextKeepsCalls
<1> QED BY <1>1, <1>2, EntriesAlwaysKept, CacheAlwaysConsistent, MatchesAlwaysTyped, PTL
        DEF CombinedSpec

\* A block that double-spends projected transactions does not make them look
\* censored (audit.ts:49, websocket-handler.ts:833-910): the spend map still has
\* what the first block to double-spend them looks up, add() joins the two, and
\* the cleanup timer leaves their tree alone.
THEOREM ConflictsAlwaysExcused == CombinedSpec => []ConflictsExcused
<1>1. MempoolInv /\ CacheInv /\ CallInv => ConflictsExcused
  <2> SUFFICES ASSUME MempoolInv, CacheInv, CallInv,
                      undisturbed, await = "audit", audited <= currentBlockHeight,
                      NEW t \in mempoolCache \ Block,
                      Against(t) # {}, FirstDoubleSpend(t),
                      known \cap ({t} \cup Against(t)) = {}
               PROVE  Excused(t)
    BY DEF ConflictsExcused, Against
  <2>1. t \in Txid
    BY DEF MempoolInv, TypeOK
  <2>2. t \in Exposed
    BY DEF Exposed
  <2>3. Joined(t)
    BY <2>2 DEF CallInv, AllJoined
  <2> QED BY <2>1, <2>3, JoinedExcused
<1> QED BY <1>1, EntriesAlwaysKept, CacheAlwaysConsistent, CallsAlwaysOrdered, PTL

=============================================================================
