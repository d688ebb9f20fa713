------------------------------ MODULE Mempool ------------------------------
(***************************************************************************)
(* How the backend follows the node's mempool: the main loop               *)
(* (src/backend/src/index.ts), $updateMempool and the spend map            *)
(* (api/mempool.ts), $updateBlocks (api/blocks.ts) and the two callbacks   *)
(* of api/websocket-handler.ts, $handleMempoolChange and handleNewBlock.   *)
(*                                                                         *)
(* The backend learns of the node only by its answers: a list of txids,    *)
(* the height of the tip, blocks, and transactions by slices of txids.     *)
(* The node goes on between two answers, and a request may fail, which     *)
(* ends the round of the main loop where it is; the next round starts      *)
(* over.  An action is the code from one await to the next.                *)
(*                                                                         *)
(* The blocks form one chain (no reorganisation); what a transaction       *)
(* spends is confirmed; fee stands for the fee and for the fee rate.  The  *)
(* mempool starts empty and is not loaded in bulk ($reloadMempool).        *)
(***************************************************************************)
EXTENDS Naturals, Sequences, FiniteSets

CONSTANTS
    Txid,
    Outpoint,
    Spends,         \* txid -> the outpoints it spends
    Fee,            \* txid -> its fee
    None,           \* "undefined"
    Esplora,        \* the backend is esplora: a request for a slice can throw
    ProtectAbove,   \* the mempool size above which clear protection acts
    NaiveBelow,     \* findRbfTransactions is naive below so many deletions
                    \* (or a thousand additions, left out)
    Depth,          \* how many updates recentlyDeleted remembers
    MaxBlocks       \* bound of the model: the blocks the node ever finds

ASSUME MempoolAssumption ==
    /\ Spends \in [Txid -> SUBSET Outpoint]
    /\ Fee \in [Txid -> Nat]
    /\ None \notin Txid
    /\ Esplora \in BOOLEAN
    /\ {ProtectAbove, NaiveBelow, MaxBlocks} \subseteq Nat
    /\ Depth \in Nat \ {0}
    /\ IsFiniteSet(Txid)

VARIABLES
    \* the node
    pool,               \* its mempool
    blockOf,            \* txid -> the height of its block, 0 if unconfirmed
    nodeHeight,         \* the height of its tip
    dropped,            \* txids that ever left its mempool unconfirmed
    \* the backend
    mempoolCache,
    spendMap,           \* outpoint -> the cached txid that spends it, or None
    recentlyDeleted,    \* the deletions of recent updates, latest first
    inSync,
    mempoolProtection,  \* 1 while deletions are suspended, 2 when time is up
    currentBlockHeight, \* the last block in the list of blocks
    replacements,       \* pairs <<replaced, by>> given to the RBF cache
    \* the round of the main loop that is in progress
    await,              \* the await where it is
    transactions,       \* the txids of the node's mempool, as listed
    blockHeightTip,
    spent,              \* outpoints of the block not looked up yet
    remaining,          \* listed txids not asked for yet
    newTransactions,    \* the transactions added in this update
    undisturbed         \* no update so far was cut short by an exception or
                        \* kept transactions that the node had dropped

nodeVars == <<pool, blockOf, nodeHeight, dropped>>
cacheVars == <<mempoolCache, spendMap, recentlyDeleted, inSync,
               mempoolProtection, currentBlockHeight, replacements>>
roundVars == <<await, transactions, blockHeightTip, spent, remaining,
               newTransactions, undisturbed>>
vars == <<nodeVars, cacheVars, roundVars>>

Await == {"poll", "tip", "block", "inputs", "audit", "rest", "slice",
          "templates"}

TypeOK ==
    /\ pool \subseteq Txid
    /\ blockOf \in [Txid -> Nat]
    /\ nodeHeight \in Nat
    /\ dropped \subseteq Txid
    /\ mempoolCache \subseteq Txid
    /\ spendMap \in [Outpoint -> Txid \cup {None}]
    /\ recentlyDeleted \in Seq(SUBSET Txid)
    /\ Len(recentlyDeleted) <= Depth
    /\ inSync \in BOOLEAN
    /\ mempoolProtection \in 0..2
    /\ currentBlockHeight \in Nat
    /\ replacements \subseteq Txid \X Txid
    /\ await \in Await
    /\ transactions \subseteq Txid
    /\ blockHeightTip \in Nat
    /\ spent \subseteq Outpoint
    /\ remaining \subseteq Txid
    /\ newTransactions \subseteq Txid
    /\ undisturbed \in BOOLEAN

Init ==
    /\ pool = {}
    /\ blockOf = [t \in Txid |-> 0]
    /\ nodeHeight = 0
    /\ dropped = {}
    /\ mempoolCache = {}
    /\ spendMap = [o \in Outpoint |-> None]
    /\ recentlyDeleted = <<>>
    /\ inSync = FALSE
    /\ mempoolProtection = 0
    /\ currentBlockHeight = 0
    /\ replacements = {}
    /\ await = "poll"
    /\ transactions = {}
    /\ blockHeightTip = 0
    /\ spent = {}
    /\ remaining = {}
    /\ newTransactions = {}
    /\ undisturbed = TRUE

(***************************************************************************)
(* The node                                                                *)
(***************************************************************************)

Conflicts(t) == {u \in Txid \ {t} : Spends[u] \cap Spends[t] # {}}
Confirmed == {t \in Txid : blockOf[t] # 0}

\* The node accepts t, which replaces what it outbids.
NodeAccept(t) ==
    /\ t \notin pool \cup Confirmed
    /\ Conflicts(t) \cap Confirmed = {}
    /\ \A u \in Conflicts(t) \cap pool : Fee[t] > Fee[u]
    /\ pool' = (pool \ Conflicts(t)) \cup {t}
    /\ dropped' = dropped \cup (Conflicts(t) \cap pool)
    /\ UNCHANGED <<blockOf, nodeHeight, cacheVars, roundVars>>

\* t expires, or its fee is below the minimum.
NodeDrop(t) ==
    /\ t \in pool
    /\ pool' = pool \ {t}
    /\ dropped' = dropped \cup {t}
    /\ UNCHANGED <<blockOf, nodeHeight, cacheVars, roundVars>>

\* A block confirms the transactions in block, which the node may not know.
NodeBlock(block) ==
    /\ nodeHeight < MaxBlocks
    /\ block \cap Confirmed = {}
    /\ \A t \in block : Conflicts(t) \cap (block \cup Confirmed) = {}
    /\ nodeHeight' = nodeHeight + 1
    /\ blockOf' = [t \in Txid |-> IF t \in block THEN nodeHeight + 1
                                                 ELSE blockOf[t]]
    /\ LET doublespent == pool \cap UNION {Conflicts(t) : t \in block} IN
       /\ pool' = pool \ (block \cup doublespent)
       /\ dropped' = dropped \cup doublespent
    /\ UNCHANGED <<cacheVars, roundVars>>

(***************************************************************************)
(* The main loop                                                           *)
(***************************************************************************)

\* The round is over; nothing of it is kept for the next one.
EndRound ==
    /\ await' = "poll"
    /\ transactions' = {}
    /\ blockHeightTip' = 0
    /\ spent' = {}
    /\ remaining' = {}
    /\ newTransactions' = {}

\* $getRawMempool answers.
ListMempool ==
    /\ await = "poll"
    /\ transactions' = pool
    /\ await' = "tip"
    /\ UNCHANGED <<nodeVars, cacheVars, blockHeightTip, spent, remaining,
                   newTransactions, undisturbed>>

\* $getBlockHeightTip answers. $updateBlocks turns to the next block;
\* without one, $updateMempool starts.
ReadTip ==
    /\ await = "tip"
    /\ blockHeightTip' = nodeHeight
    /\ IF currentBlockHeight < nodeHeight
       THEN /\ await' = "block"
            /\ UNCHANGED remaining
       ELSE /\ await' = "slice"
            /\ remaining' = transactions \ mempoolCache
    /\ UNCHANGED <<nodeVars, cacheVars, transactions, spent, newTransactions,
                   undisturbed>>

\* An exception ends the round; after five in a row the mempool is out of
\* sync. Transactions already added are not known to anyone else.
Throw ==
    /\ \/ await \in {"tip", "block", "rest"}
       \/ await = "slice" /\ remaining # {} /\ Esplora
    /\ EndRound
    /\ inSync' \in {inSync, FALSE}
    /\ undisturbed' = (undisturbed /\ newTransactions = {})
    /\ UNCHANGED <<nodeVars, mempoolCache, spendMap, recentlyDeleted,
                   mempoolProtection, currentBlockHeight, replacements>>

(***************************************************************************)
(* A new block                                                             *)
(***************************************************************************)

\* The transactions of the block that is being handled.
Block == {t \in Txid : blockOf[t] = currentBlockHeight + 1}

\* The data of the block and the awaits that open handleNewBlock.
StartBlock ==
    /\ await = "block"
    /\ spent' = UNION {Spends[t] : t \in Block}
    /\ await' = "inputs"
    /\ UNCHANGED <<nodeVars, cacheVars, transactions, blockHeightTip,
                   remaining, newTransactions, undisturbed>>

\* findMinedRbfTransactions looks up an input of the block: what else spends
\* it in the mempool is replaced, and leaves the spend map with all its
\* inputs.
LookUpInput(o) ==
    /\ await = "inputs"
    /\ o \in spent
    /\ LET replaced == {spendMap[o]} \ (Block \cup {None}) IN
       /\ replacements' = replacements \cup
             {p \in replaced \X Block : o \in Spends[p[2]]}
       /\ spendMap' = [i \in Outpoint |->
             IF i = o \/ \E t \in replaced : i \in Spends[t]
             THEN None ELSE spendMap[i]]
    /\ spent' = spent \ {o}
    /\ UNCHANGED <<nodeVars, mempoolCache, recentlyDeleted, inSync,
                   mempoolProtection, currentBlockHeight, await, transactions,
                   blockHeightTip, remaining, newTransactions, undisturbed>>

\* removeFromSpendMap and addToSpendMap.
Without(map, gone) ==
    [o \in Outpoint |-> IF map[o] \in gone THEN None ELSE map[o]]

SpentBy(txs) == UNION {Spends[t] : t \in txs}

With(map, txs) ==
    {m \in [Outpoint -> txs \cup {map[o] : o \in Outpoint}] :
        \A o \in Outpoint :
           IF o \in SpentBy(txs) THEN m[o] \in txs /\ o \in Spends[m[o]]
                                 ELSE m[o] = map[o]}

\* The RBF cache and the spend map are done with; the audit's templates are
\* awaited.
AuditBlock ==
    /\ await = "inputs"
    /\ spent = {}
    /\ spendMap' = Without(spendMap, Block)
    /\ await' = "audit"
    /\ UNCHANGED <<nodeVars, mempoolCache, recentlyDeleted, inSync,
                   mempoolProtection, currentBlockHeight, replacements,
                   transactions, blockHeightTip, spent, remaining,
                   newTransactions, undisturbed>>

\* The transactions of the block leave the mempool; the new templates, and
\* what $updateBlocks does meanwhile, are awaited.
ConfirmBlock ==
    /\ await = "audit"
    /\ mempoolCache' = mempoolCache \ Block
    /\ await' = "rest"
    /\ UNCHANGED <<nodeVars, spendMap, recentlyDeleted, inSync,
                   mempoolProtection, currentBlockHeight, replacements,
                   transactions, blockHeightTip, spent, remaining,
                   newTransactions, undisturbed>>

\* Mutant: a round that handled blocks goes on to update the mempool.
PushBlockThenUpdate ==
    /\ await = "rest"
    /\ currentBlockHeight' = currentBlockHeight + 1
    /\ IF currentBlockHeight + 1 < blockHeightTip
       THEN await' = "block" /\ UNCHANGED remaining
       ELSE await' = "slice" /\ remaining' = transactions \ mempoolCache
    /\ UNCHANGED <<nodeVars, mempoolCache, spendMap, recentlyDeleted, inSync,
                   mempoolProtection, replacements, transactions,
                   blockHeightTip, spent, newTransactions, undisturbed>>

\* The block joins the list of blocks. A round that handled blocks leaves the
\* mempool to the next one.
PushBlock ==
    /\ await = "rest"
    /\ currentBlockHeight' = currentBlockHeight + 1
    /\ \/ /\ currentBlockHeight + 1 < blockHeightTip
          /\ await' = "block"
          /\ UNCHANGED <<transactions, blockHeightTip, spent, remaining,
                         newTransactions>>
       \/ /\ currentBlockHeight + 1 >= blockHeightTip
          /\ EndRound
    /\ UNCHANGED <<nodeVars, mempoolCache, spendMap, recentlyDeleted, inSync,
                   mempoolProtection, replacements, undisturbed>>

(***************************************************************************)
(* An update of the mempool                                                *)
(***************************************************************************)

\* A slice of the listed txids is answered, some not found. When the mempool
\* is in sync and the update took long, the rest waits for the next round.
AddSlice(slice, found, late) ==
    /\ await = "slice"
    /\ slice # {}
    /\ mempoolCache' = mempoolCache \cup found
    /\ newTransactions' = newTransactions \cup found
    /\ remaining' = IF late /\ inSync THEN {} ELSE remaining \ slice
    /\ UNCHANGED <<nodeVars, spendMap, recentlyDeleted, inSync,
                   mempoolProtection, currentBlockHeight, replacements, await,
                   transactions, blockHeightTip, spent, undisturbed>>

\* The mempool shrank by a fifth or more since this update began.
Shrunk ==
    LET size == Cardinality(mempoolCache \ newTransactions) IN
    size > ProtectAbove /\ 10 * Cardinality(transactions) <= 8 * size

\* Clear protection suspends deletions, until its timer goes off.
Protected ==
    \/ mempoolProtection = 1
    \/ mempoolProtection = 0 /\ Shrunk

\* Mutant: the list of the mempool is read again before the deletions.
DeletedLate == IF Protected THEN {} ELSE mempoolCache \ pool

Deleted == IF Protected THEN {} ELSE mempoolCache \ transactions

\* Mutant: recentlyDeleted is never truncated.
RememberAll(deleted) == <<deleted>> \o recentlyDeleted

Remember(deleted) ==
    LET all == <<deleted>> \o recentlyDeleted IN
    IF Len(all) <= Depth THEN all ELSE SubSeq(all, 1, Depth)

Complete == Cardinality(transactions) = Cardinality(mempoolCache)

\* All slices are in: deletions, then the callbacks, if anything changed.
DeleteTransactions ==
    /\ await = "slice"
    /\ remaining = {}
    /\ mempoolProtection' = IF Protected THEN 1 ELSE 0
    /\ mempoolCache' = mempoolCache \ Deleted
    /\ recentlyDeleted' = Remember(Deleted)
    /\ undisturbed' = (undisturbed /\ ~Protected)
    /\ \/ /\ newTransactions \cup Deleted # {}
          /\ await' = "templates"
          /\ inSync' = (inSync /\ ~(Protected /\ mempoolProtection = 0))
          /\ UNCHANGED <<transactions, blockHeightTip, spent, remaining,
                         newTransactions>>
       \/ /\ newTransactions \cup Deleted = {}
          /\ EndRound
          /\ inSync' = \/ inSync /\ ~(Protected /\ mempoolProtection = 0)
                       \/ Complete
    /\ UNCHANGED <<nodeVars, spendMap, currentBlockHeight, replacements>>

RecentlyDeleted == UNION {recentlyDeleted[i] : i \in DOMAIN recentlyDeleted}

\* recentlyDeletedTransactions.flat().length
NumDeleted == Cardinality({p \in (DOMAIN recentlyDeleted) \X Txid :
                              p[2] \in recentlyDeleted[p[1]]})

Outbids(t, d) == Fee[t] > Fee[d] /\ Spends[t] \cap Spends[d] # {}

\* Mutant: only the deletions of this very update are looked at.
NaiveMatchesNow == {p \in recentlyDeleted[1] \X newTransactions :
                       Outbids(p[2], p[1])}

\* findRbfTransactions, "a naive nested loop".
NaiveMatches == {p \in RecentlyDeleted \X newTransactions :
                    Outbids(p[2], p[1])}

\* findRbfTransactions with its lookup table: the table has one deleted
\* transaction per outpoint, the last one that was entered, which belongs to
\* the oldest of the updates remembered.
Entered(i, d, o) == d \in recentlyDeleted[i] /\ o \in Spends[d]
LookedUp(d, o) ==
    \E i \in DOMAIN recentlyDeleted :
        /\ Entered(i, d, o)
        /\ \A j \in DOMAIN recentlyDeleted : j > i =>
              \A e \in Txid : ~Entered(j, e, o)

ScalableMatches ==
    {p \in RecentlyDeleted \X newTransactions :
        Fee[p[2]] > Fee[p[1]] /\ \E o \in Spends[p[2]] : LookedUp(p[1], o)}

Matches == IF NumDeleted < NaiveBelow THEN NaiveMatches ELSE ScalableMatches

\* Mutant: the deleted transactions stay in the spend map.
MempoolChangedKeepsDeleted ==
    /\ await = "templates"
    /\ replacements' = replacements \cup Matches
    /\ spendMap' \in With(spendMap, newTransactions)
    /\ inSync' = (inSync \/ Complete)
    /\ EndRound
    /\ UNCHANGED <<nodeVars, mempoolCache, recentlyDeleted, mempoolProtection,
                   currentBlockHeight, undisturbed>>

\* Mutant: the spend map gets the new transactions, then loses every input of
\* the deleted ones, whoever spends it now.
MempoolChangedRemovesLast ==
    /\ await = "templates"
    /\ replacements' = replacements \cup Matches
    /\ \E map \in With(spendMap, newTransactions) :
          spendMap' = [o \in Outpoint |-> IF o \in SpentBy(recentlyDeleted[1])
                                         THEN None ELSE map[o]]
    /\ inSync' = (inSync \/ Complete)
    /\ EndRound
    /\ UNCHANGED <<nodeVars, mempoolCache, recentlyDeleted, mempoolProtection,
                   currentBlockHeight, undisturbed>>

\* $handleMempoolChange after its templates, and the end of $updateMempool.
MempoolChanged ==
    /\ await = "templates"
    /\ replacements' = replacements \cup Matches
    /\ spendMap' \in With(Without(spendMap, recentlyDeleted[1]),
                          newTransactions)
    /\ inSync' = (inSync \/ Complete)
    /\ EndRound
    /\ UNCHANGED <<nodeVars, mempoolCache, recentlyDeleted, mempoolProtection,
                   currentBlockHeight, undisturbed>>

\* Mutant: the timer resets the protection, which acts again at once.
ProtectionEndsTooSoon ==
    /\ mempoolProtection = 1
    /\ mempoolProtection' = 0
    /\ UNCHANGED <<nodeVars, mempoolCache, spendMap, recentlyDeleted, inSync,
                   currentBlockHeight, replacements, roundVars>>

\* The timer of clear protection goes off.
ProtectionEnds ==
    /\ mempoolProtection = 1
    /\ mempoolProtection' = 2
    /\ UNCHANGED <<nodeVars, mempoolCache, spendMap, recentlyDeleted, inSync,
                   currentBlockHeight, replacements, roundVars>>

(***************************************************************************)
(* Specification                                                           *)
(***************************************************************************)

NodeStep ==
    \/ \E t \in Txid : NodeAccept(t) \/ NodeDrop(t)
    \/ \E block \in SUBSET Txid : NodeBlock(block)

Slices == \E slice \in SUBSET remaining : \E found \in SUBSET slice :
             \E late \in BOOLEAN : AddSlice(slice, found, late)

Next ==
    \/ NodeStep
    \/ ListMempool
    \/ ReadTip
    \/ Throw
    \/ StartBlock
    \/ \E o \in Outpoint : LookUpInput(o)
    \/ AuditBlock
    \/ ConfirmBlock
    \/ PushBlock
    \/ Slices
    \/ DeleteTransactions
    \/ MempoolChanged
    \/ ProtectionEnds

Spec == Init /\ [][Next]_vars

(***************************************************************************)
(* Properties                                                              *)
(***************************************************************************)

\* No entry of the spend map is stale: it names a transaction that spends
\* the outpoint and is in the mempool (between a deletion and the callback it
\* may be one of those just deleted), whatever rounds fail, deletions are
\* suspended or blocks are handled twice (mempool.ts:538-555,
\* common.ts:136-160).
SpendMapSound == \A o \in Outpoint : spendMap[o] # None =>
    /\ o \in Spends[spendMap[o]]
    /\ \/ spendMap[o] \in mempoolCache
       \/ await = "templates" /\ spendMap[o] \in recentlyDeleted[1]

\* Between rounds the spend map has every input of the mempool: what it lacks
\* findMinedRbfTransactions cannot see replaced (common.ts:136-160). Not when
\* an exception or clear protection came in between.
SpendMapComplete ==
    undisturbed /\ await \in {"poll", "tip"} =>
       \A t \in mempoolCache : Conflicts(t) \cap Confirmed = {}
          => \A o \in Spends[t] : spendMap[o] = t

\* Once a block is handled its transactions are out of the mempool for good:
\* no list of txids that was fetched before brings one back, since a round
\* that handled a block does not use its list (index.ts:245).
ConfirmedLeave == \A t \in mempoolCache :
    blockOf[t] = 0 \/ blockOf[t] > currentBlockHeight

\* Clients are told that a transaction was removed only if the node dropped
\* or replaced it, never because a block confirmed it: the list of txids is
\* older than the tip that shows no new block (index.ts:239-245).
RemovedWereDropped == RecentlyDeleted \subseteq dropped

\* A replacement is not missed: when a cached transaction outbids one that
\* was deleted in the last updates, however late its slice was answered, the
\* RBF cache was told (websocket-handler.ts:620-623), "buffer of transactions
\* deleted in recent mempool updates" (mempool.ts:23); both methods of
\* findRbfTransactions "should detect RBF transactions" (common.ts test).
\* Not when an exception or clear protection came in between.
ReplacementsReported ==
    undisturbed /\ await = "poll" =>
       \A t \in mempoolCache : \A d \in RecentlyDeleted \ mempoolCache :
          Outbids(t, d) => <<d, t>> \in replacements

=============================================================================
