------------------------------ MODULE Templates ------------------------------
(***************************************************************************)
(* Who is in the projected blocks: src/backend/src/api/mempool-blocks.ts   *)
(* with the generator of rust/gbt/src/lib.rs.                              *)
(*                                                                         *)
(* The generator keeps its own copy of the mempool, by short ids, which    *)
(* the backend assigns.  It is given the whole mempool once (make) and     *)
(* changes after that (update).  What the changes are depends on rounds    *)
(* of the main loop that may end before they tell; the backend notices     *)
(* only by the number of transactions that come back, and starts anew.     *)
(*                                                                         *)
(* How blocks are built from the copy is Gbt.  Here a result is the set of *)
(* its transactions, unmineable ones included.                             *)
(***************************************************************************)
EXTENDS Naturals, FiniteSets

CONSTANTS
    Transaction,    \* numbered, which stands for the order in the mempool
    Parents,        \* [Transaction -> SUBSET Transaction]
    SparseAbove     \* 262144 in the code

\* The mempool is finite, and a transaction has inputs of the mempool or others.
ASSUME TemplatesAssumption ==
    /\ Transaction \subseteq Nat /\ IsFiniteSet(Transaction)
    /\ Parents \in [Transaction -> SUBSET Transaction]
    /\ SparseAbove \in Nat

VARIABLES
    \* the mempool, as the callbacks are given it
    cached,             \* mempoolCache
    newTransactions,    \* those that no callback was told of, in this round
    \* MempoolBlocks
    uid,                \* the uid field of the cached transactions; 0 for none
    uidMap, txidMap, nextUid,
    rustInitialized,
    mempoolBlocks,      \* the transactions of the last result
    \* the generator: uids, each with the uids of its inputs
    generator,
    \* the call that is awaited, and what is going to follow
    called,
    block,
    \* history
    current,            \* no change of the mempool since the last result
    parted              \* a parent was added after its child

templateVars == <<cached, newTransactions, uid, uidMap, txidMap, nextUid,
                  rustInitialized, mempoolBlocks, generator, called, block,
                  current, parted>>
mapVars == <<uid, uidMap, txidMap, nextUid>>

Nothing == [x \in {} |-> 0]
NoCall == [type |-> "none", inserted |-> Nothing, removed |-> {}]
NoBlock == [stage |-> "none", txs |-> {}]
Ids(f) == {f[x] : x \in DOMAIN f}

\* A cache read from disk may be there before the first call.
TemplatesInit ==
    /\ cached \in SUBSET Transaction
    /\ newTransactions = {}
    /\ uid = [t \in Transaction |-> 0]
    /\ uidMap = Nothing /\ txidMap = Nothing /\ nextUid = 1
    /\ rustInitialized = FALSE
    /\ mempoolBlocks = {}
    /\ generator = Nothing
    /\ called = NoCall
    /\ block = NoBlock
    /\ current = FALSE
    /\ parted = FALSE

-----------------------------------------------------------------------------
\* setUid for each of txs, from first on.
Numbered(txs, first) ==
    [t \in txs |-> first + Cardinality({s \in txs : s < t})]

\* The parts of f and then of g.
Over(f, g) == [x \in DOMAIN f \cup DOMAIN g |->
                  IF x \in DOMAIN g THEN g[x] ELSE f[x]]
Reversed(f) == [u \in Ids(f) |-> CHOOSE t \in DOMAIN f : f[t] = u]
Less(f, S) == [x \in DOMAIN f \ S |-> f[x]]

\* The uids of the parents that are in the mempool and have one.
InputsOf(t, mempool_, ids) ==
    {ids[p] : p \in Parents[t] \cap mempool_ \cap DOMAIN ids}

Sent(txs, mempool_, ids) ==
    [u \in {ids[t] : t \in txs} |->
        InputsOf(CHOOSE t \in txs : ids[t] = u, mempool_, ids)]

\* $rustMakeBlockTemplates: all uids are given anew.
Make(txs) ==
    LET ids == Numbered(txs, 1) IN
    /\ txidMap' = ids
    /\ uidMap' = Reversed(ids)
    /\ uid' = [t \in Transaction |-> IF t \in txs THEN ids[t] ELSE 0]
    /\ nextUid' = 1 + Cardinality(txs)
    /\ called' = [type |-> "make", inserted |-> Sent(txs, txs, ids),
                   removed |-> {}]
    /\ parted' = FALSE

\* The rest of $rustUpdateBlockTemplates: added transactions get a uid, and
\* so do accelerated ones that have none.
Update(txs, added, removed, accelerated) ==
    LET ids == Over(txidMap, Numbered(added, nextUid))
        more == Numbered(accelerated \ DOMAIN ids, nextUid + Cardinality(added))
        given == Over(Numbered(added, nextUid), more)
    IN
    /\ txidMap' = Over(ids, more)
    /\ uidMap' = Over(uidMap, Reversed(given))
    /\ uid' = [t \in Transaction |->
          IF t \in DOMAIN given THEN given[t]
          ELSE IF t \in accelerated THEN ids[t] ELSE uid[t]]
    /\ nextUid' = nextUid + Cardinality(DOMAIN given)
    /\ called' = [type |-> "update", inserted |-> Sent(added, txs, ids),
                   removed |-> {t \in removed : uid'[t] # 0}]
    /\ UNCHANGED parted

TooSparse(txs, added) ==
    LET limit == {SparseAbove, 2 * Cardinality(txs)} IN
    \A n \in limit : nextUid + Cardinality(added) >= n

\* $rustUpdateBlockTemplates up to its await.
UpdateBlockTemplates(txs, added, removed) ==
    IF TooSparse(txs, added) \/ ~rustInitialized
    THEN /\ Make(txs)
         /\ rustInitialized' = FALSE
         /\ generator' = IF TooSparse(txs, added) THEN Nothing ELSE generator
    ELSE /\ \E accelerated \in SUBSET txs :
               Update(txs, added, removed, accelerated)
         /\ UNCHANGED <<rustInitialized, generator>>

-----------------------------------------------------------------------------
\* What GbtGenerator.make or update leaves in its copy.
Changed == Less(Over(generator, called.inserted),
                {uid[t] : t \in called.removed})

\* Mutant: whatever comes back is taken, if its uids are known.
ComesBackAny == DOMAIN Changed \subseteq DOMAIN uidMap

\* The result has no unknown uid (convertNapiResultTxids) and, after an
\* update, as many transactions as the mempool.
ComesBack ==
    /\ DOMAIN Changed \subseteq DOMAIN uidMap
    /\ called.type = "update" =>
          Cardinality(DOMAIN Changed) = Cardinality(cached)

AfterCall ==
    /\ called' = NoCall
    /\ block' = IF block.stage = "audit" THEN [block EXCEPT !.stage = "confirm"]
                ELSE NoBlock
    /\ UNCHANGED <<cached, newTransactions>>

Answer ==
    /\ called.type # "none"
    /\ ComesBack
    /\ generator' = Changed
    /\ rustInitialized' = TRUE
    /\ mempoolBlocks' = {uidMap[u] : u \in DOMAIN Changed}
    /\ LET removed == called.removed \cap DOMAIN txidMap IN
       /\ uidMap' = Less(uidMap, {txidMap[t] : t \in removed})
       /\ txidMap' = Less(txidMap, removed)
    /\ uid' = [t \in Transaction |->
          IF t \in called.removed THEN 0 ELSE uid[t]]
    /\ current' = TRUE
    /\ AfterCall
    /\ UNCHANGED <<nextUid, parted>>

\* The thread panics, or the result is refused: resetRustGbt.
Refuse ==
    /\ called.type # "none"
    /\ generator' = Nothing
    /\ rustInitialized' = FALSE
    /\ AfterCall
    /\ UNCHANGED <<mapVars, mempoolBlocks, current, parted>>

-----------------------------------------------------------------------------
\* The main loop is not in a callback.
Between == called.type = "none" /\ block.stage = "none"

\* A slice brings t, a new object.
AddSlice(t) ==
    /\ Between
    /\ t \notin cached
    /\ cached' = cached \cup {t}
    /\ newTransactions' = newTransactions \cup {t}
    /\ uid' = [uid EXCEPT ![t] = 0]
    /\ current' = FALSE
    /\ parted' = (parted \/
          \E c \in cached \ newTransactions : t \in Parents[c])
    /\ UNCHANGED <<uidMap, txidMap, nextUid, rustInitialized, mempoolBlocks,
                   generator, called, block>>

\* An exception ends the round: no callback is told of what was added.
LoseAdditions ==
    /\ Between
    /\ newTransactions # {}
    /\ newTransactions' = {}
    /\ UNCHANGED <<cached, mapVars, rustInitialized, mempoolBlocks, generator,
                   called, block, current, parted>>

\* The end of $updateMempool and $handleMempoolChange.
MempoolChange(deleted) ==
    /\ Between
    /\ newTransactions \cup deleted # {}
    /\ cached' = cached \ deleted
    /\ UpdateBlockTemplates(cached', newTransactions, deleted)
    /\ newTransactions' = {}
    /\ current' = FALSE
    /\ UNCHANGED <<mempoolBlocks, block>>

\* handleNewBlock up to the templates for the audit, which are those of the
\* unchanged mempool; txs are the cached transactions of the block...
NewBlock(txs) ==
    /\ Between
    /\ newTransactions = {}
    /\ UpdateBlockTemplates(cached, {}, {})
    /\ block' = [stage |-> "audit", txs |-> txs]
    /\ UNCHANGED <<cached, newTransactions, mempoolBlocks, current>>

\* ... and the same without an audit.
NewBlockNotAudited(txs) ==
    /\ Between
    /\ newTransactions = {}
    /\ block' = [stage |-> "confirm", txs |-> txs]
    /\ UNCHANGED <<cached, newTransactions, mapVars, rustInitialized,
                   mempoolBlocks, generator, called, current, parted>>

\* Then its transactions leave; the objects were the cached ones, with a uid.
ConfirmBlock ==
    /\ block.stage = "confirm"
    /\ cached' = cached \ block.txs
    /\ UpdateBlockTemplates(cached', {}, block.txs)
    /\ block' = [block EXCEPT !.stage = "templates"]
    /\ current' = FALSE
    /\ UNCHANGED <<newTransactions, mempoolBlocks>>

-----------------------------------------------------------------------------
TemplatesNext ==
    \/ \E t \in Transaction : AddSlice(t)
    \/ LoseAdditions
    \/ \E deleted \in SUBSET cached : MempoolChange(deleted)
    \/ \E txs \in SUBSET cached : NewBlock(txs) \/ NewBlockNotAudited(txs)
    \/ ConfirmBlock
    \/ Answer
    \/ Refuse

TemplatesSpec == TemplatesInit /\ [][TemplatesNext]_templateVars

-----------------------------------------------------------------------------
\* Types. All uids in use are below nextUid, the capacity that gbt() is given.
TemplatesTypeOK ==
    /\ cached \subseteq Transaction /\ newTransactions \subseteq cached
    /\ nextUid \in Nat \ {0}
    /\ DOMAIN uidMap \subseteq 1 .. nextUid - 1
    /\ txidMap \in [DOMAIN txidMap -> DOMAIN uidMap]
    /\ DOMAIN txidMap \subseteq Transaction /\ Ids(uidMap) \subseteq Transaction
    /\ generator \in [DOMAIN generator -> SUBSET (1 .. nextUid - 1)]
    /\ mempoolBlocks \subseteq Transaction
    /\ rustInitialized \in BOOLEAN /\ current \in BOOLEAN /\ parted \in BOOLEAN

\* A result that is taken is of the mempool as it is, whatever rounds failed
\* and whatever the generator was told: comparing the numbers is enough
\* (mempool-blocks.ts:344). Its parents are those of the mempool, unless one
\* was added after its child, whose inputs an update does not look up again
\* (317).
TemplatesCurrent ==
    current =>
        /\ mempoolBlocks = cached
        /\ rustInitialized /\ called.type = "none" /\ ~parted =>
              \A t \in cached : generator[txidMap[t]] \cap DOMAIN generator =
                                    InputsOf(t, cached, txidMap)

=============================================================================
