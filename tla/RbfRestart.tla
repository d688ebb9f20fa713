----------------------------- MODULE RbfRestart -----------------------------
(***************************************************************************)
(* The RBF cache across a restart: dump() and exportTree write it out,     *)
(* load(), importTree and checkTrees of src/backend/src/api/rbf-cache.ts   *)
(* read it back, from the disk cache or from Redis.                        *)
(*                                                                         *)
(* A crash loses the memory and leaves the last saved copy.  As nothing    *)
(* else survives, the crash is taken at the moment of the save: Restart    *)
(* stores the present cache and clears it.  The disk file is one copy;     *)
(* Redis holds one entry per tx, tree and expiry, written by $setRbfEntry  *)
(* and $removeRbfEntry (redis-cache.ts:215-246), which log a failed        *)
(* command and forget it: an entry of a tx, a tree or an expiry may be     *)
(* missing and the tree that a newer one absorbed may still be there.  (An *)
(* older version of a present entry and what is left of forgotten trees    *)
(* and of past expiries are not among the inputs.)  A cache restored from  *)
(* complete entries only, as the disk file's are, is `intact`.             *)
(*                                                                         *)
(* load() runs without interruption up to the requests of checkTrees; from *)
(* then on the cleanup timer may run between two answers.  The main loop   *)
(* and the websocket handlers start when load() has returned.              *)
(***************************************************************************)
EXTENDS RbfCache, FiniteSets

CONSTANT
    Conflict    \* pairs of transactions that spend a common output

ASSUME RestartAssumption == Conflict \subseteq Txid \X Txid

VARIABLES
    phase,      \* "run", or the part of load() that is executing
    stored,     \* what the restart reads back; None when it is done
    toImport,   \* ids of the stored trees not imported yet
    mempool,    \* the restored mempool
    conflicts,  \* mempool txid -> cached roots it is about to replace
    unchecked,  \* checkTrees: txids not answered yet
    notFound,   \* checkTrees: txids the node did not return
    intact      \* no restart so far missed an entry or met a stale one

loadVars == <<phase, stored, toImport, mempool, conflicts, unchecked, notFound,
              intact>>
allVars == <<vars, loadVars>>

NoConflicts == [t \in Txid |-> {}]

\* A mempool holds no two transactions that spend the same output.
Mempools == {M \in SUBSET Txid : \A t, u \in M : <<t, u>> \notin Conflict}

RestartInit ==
    /\ Init
    /\ phase = "run"
    /\ stored = None
    /\ toImport = {}
    /\ mempool = {}
    /\ conflicts = NoConflicts
    /\ unchecked = {}
    /\ notFound = {}
    /\ intact = TRUE

-----------------------------------------------------------------------------
\* Normal operation.
Running == phase = "run" /\ Next /\ UNCHANGED loadVars

\* The transactions reached from id along the children of tree, entering
\* only those that `enter` allows.
ReachedIn(tree, id, enter) ==
    {t \in Txid : \A S \in SUBSET Txid :
        (/\ id \in S
         /\ \A u \in S : tree.replaces[u] \cap enter \subseteq S) => t \in S}

\* The part of a tree below id: what the tree of id was before a newer
\* transaction absorbed it.
SubtreeAt(tree, id) ==
    LET nodes == ReachedIn(tree, id, Txid) IN
    [txs      |-> nodes,
     replaces |-> [t \in Txid |-> IF t \in nodes THEN tree.replaces[t] ELSE {}],
     txMined  |-> tree.txMined \cap nodes,
     mined    |-> FALSE,
     fullRbf  |-> ~(nodes \ {id} \subseteq Signals)]

\* The trees that are read back: the present ones and, in Redis, those of
\* replaced transactions whose removal failed.
StoredTrees(stale) ==
    [id \in Txid |-> IF id \in stale
                     THEN SubtreeAt(rbfTrees[treeMap[id]], id)
                     ELSE rbfTrees[id]]

TreeIds == {id \in Txid : rbfTrees[id] # None}

\* The process stops and starts again, without the entries of some txs, trees
\* and expiries, and with some absorbed trees. The fields replacedBy, replaces
\* and treeMap are not in the file: they remember what the cache knew.
Restart(lost, lostTrees, lostExpiries, stale) ==
    /\ phase = "run"
    /\ lost \subseteq txs
    /\ lostTrees \subseteq TreeIds
    /\ lostExpiries \subseteq expiring
    /\ stale \subseteq {t \in txs : treeMap[t] \notin {t, None}}
    /\ intact' = (intact /\ lost \cup lostTrees \cup lostExpiries \cup stale = {})
    /\ stored' = [trees |-> StoredTrees(stale), expiring |-> expiring \ lostExpiries,
                  txs |-> txs \ lost, replacedBy |-> replacedBy,
                  replaces |-> replaces, treeMap |-> treeMap]
    /\ toImport' = stale \cup (TreeIds \ lostTrees)
    /\ mempool' \in Mempools
    /\ phase' = "import"
    /\ txs' = txs \ lost
    /\ replacedBy' = Empty
    /\ replaces' = [t \in Txid |-> {}]
    /\ rbfTrees' = Empty
    /\ dirtyTrees' = {}
    /\ treeMap' = Empty
    /\ expiring' = {}
    /\ published' = Empty
    /\ UNCHANGED <<conflicts, unchecked, notFound>>

-----------------------------------------------------------------------------
\* importTree visits every stored node not in the cache yet, present or not.
Visited(tree, id) == ReachedIn(tree, id, {t \in Txid : treeMap[t] = None})

\* It returns a subtree for the visited nodes whose transaction is known.
Returned(tree, id) == Visited(tree, id) \cap txs

\* Mutant: the children of a node are not entered in replacedBy.
LinkedNone(tree, id) == {}

\* The returned nodes below the root are linked to their parent.
Linked(tree, id) == Returned(tree, id) \ {id}

ParentIn(tree, t) == CHOOSE u \in Txid : t \in tree.replaces[u]

\* The stored mined flag is not read back: importTree derives it from the
\* subtrees, which start from FALSE, so it is never set.
ImportedTree(tree, id) ==
    LET nodes == ReachedIn(tree, id, Returned(tree, id)) IN
    [txs      |-> nodes,
     replaces |-> [t \in Txid |-> IF t \in nodes
                                  THEN tree.replaces[t] \cap Returned(tree, id)
                                  ELSE {}],
     txMined  |-> tree.txMined \cap nodes,
     mined    |-> FALSE,
     fullRbf  |-> tree.fullRbf]

\* A tree whose root is unknown, or already in a tree, is dropped.
SkipTree(id) ==
    /\ id \notin txs \/ treeMap[id] # None
    /\ UNCHANGED <<replacedBy, replaces, rbfTrees, dirtyTrees, treeMap>>

\* Mutant: a tree whose root another tree already holds is added as well.
AddImportedAgain(id) ==
    LET tree == stored.trees[id]
        imported == ImportedTree(tree, id) IN
    /\ id \in txs
    /\ replaces' = [t \in Txid |->
                      IF t \in Visited(tree, id)
                      THEN tree.replaces[t] \cap Returned(tree, id)
                      ELSE replaces[t]]
    /\ replacedBy' = [t \in Txid |-> IF t \in Linked(tree, id)
                                     THEN ParentIn(tree, t) ELSE replacedBy[t]]
    /\ rbfTrees' = [rbfTrees EXCEPT ![id] = imported]
    /\ dirtyTrees' = dirtyTrees \cup {id}
    /\ treeMap' = [t \in Txid |-> IF t \in imported.txs THEN id ELSE treeMap[t]]

AddImported(id) ==
    LET tree == stored.trees[id]
        imported == ImportedTree(tree, id) IN
    /\ id \in txs /\ treeMap[id] = None
    /\ replaces' = [t \in Txid |->
                      IF t \in Visited(tree, id)
                      THEN tree.replaces[t] \cap Returned(tree, id)
                      ELSE replaces[t]]
    /\ replacedBy' = [t \in Txid |-> IF t \in Linked(tree, id)
                                     THEN ParentIn(tree, t) ELSE replacedBy[t]]
    /\ rbfTrees' = [rbfTrees EXCEPT ![id] = imported]
    /\ dirtyTrees' = dirtyTrees \cup {id}
    /\ treeMap' = [t \in Txid |-> IF t \in imported.txs THEN id ELSE treeMap[t]]

\* The trees are imported by decreasing size.
ImportTree(id) ==
    /\ phase = "import"
    /\ id \in toImport
    /\ \A other \in toImport : Cardinality(stored.trees[other].txs)
                                 <= Cardinality(stored.trees[id].txs)
    /\ SkipTree(id) \/ AddImported(id)
    /\ toImport' = toImport \ {id}
    /\ UNCHANGED <<txs, expiring, published, phase, stored, mempool, conflicts,
                   unchecked, notFound, intact>>

\* The expiry times are restored, then the cached roots that a transaction of
\* the restored mempool double-spends are collected.
RestoreExpiring ==
    /\ phase = "import"
    /\ toImport = {}
    /\ expiring' = stored.expiring \cap txs
    /\ conflicts' = [t \in Txid |->
                       {id \in txs : /\ t \in mempool
                                     /\ <<id, t>> \in Conflict
                                     /\ rbfTrees[id] # None
                                     /\ ~rbfTrees[id].mined}]
    /\ phase' = "connect"
    /\ stored' = None
    /\ mempool' = {}
    /\ UNCHANGED <<replacedBy, replaces, rbfTrees, dirtyTrees, treeMap, txs,
                   published, toImport, unchecked, notFound, intact>>

\* Mutant: a conflict is connected even if the cache knows the replacement.
ConnectAnyway(t) ==
    /\ phase = "connect"
    /\ conflicts[t] # {}
    /\ replacedBy' = [u \in Txid |-> IF u \in FirstReplaced(conflicts[t])
                                     THEN t ELSE replacedBy[u]]
    /\ conflicts' = [conflicts EXCEPT ![t] = {}]
    /\ UNCHANGED <<replaces, rbfTrees, dirtyTrees, treeMap, txs, expiring,
                   published, phase, stored, toImport, mempool, unchecked,
                   notFound, intact>>

\* add() is called for each of them, and may return early.
Connect(t) ==
    /\ phase = "connect"
    /\ conflicts[t] # {}
    /\ \/ Add(conflicts[t], t)
       \/ /\ t \in txs \/ FirstReplaced(conflicts[t]) = {}
          /\ UNCHANGED vars
    /\ conflicts' = [conflicts EXCEPT ![t] = {}]
    /\ UNCHANGED <<phase, stored, toImport, mempool, unchecked, notFound, intact>>

InMinedTree(t) == \E id \in TreeOf(t) : rbfTrees[id].mined

\* checkTrees asks the node for every transaction that is not settled.
StartCheck ==
    /\ phase = "connect"
    /\ conflicts = NoConflicts
    /\ unchecked' = {t \in txs \ expiring : ~InMinedTree(t)}
    /\ notFound' = {}
    /\ phase' = "check"
    /\ UNCHANGED <<vars, stored, toImport, mempool, conflicts, intact>>

\* The node knows the transaction and has it in a block...
CheckConfirmed(t) ==
    /\ phase = "check" /\ t \in unchecked
    /\ rbfTrees' = [id \in Txid |-> IF id \in TreeOf(t)
                                    THEN MinedTree(rbfTrees[id], t)
                                    ELSE rbfTrees[id]]
    /\ expiring' = IF TreeOf(t) = {} THEN expiring
                   ELSE expiring \cup ({t} \cap txs)
    /\ unchecked' = unchecked \ {t}
    /\ UNCHANGED <<replacedBy, replaces, dirtyTrees, treeMap, txs, published,
                   phase, stored, toImport, mempool, conflicts, notFound,
                   intact>>

\* ... or in its mempool...
CheckUnconfirmed(t) ==
    /\ phase = "check" /\ t \in unchecked
    /\ unchecked' = unchecked \ {t}
    /\ UNCHANGED <<vars, phase, stored, toImport, mempool, conflicts, notFound,
                   intact>>

\* ... or does not know it, or the request for its slice failed.
CheckMissing(t) ==
    /\ phase = "check" /\ t \in unchecked
    /\ unchecked' = unchecked \ {t}
    /\ notFound' = notFound \cup {t}
    /\ UNCHANGED <<vars, phase, stored, toImport, mempool, conflicts, intact>>

\* The ten-minute timer goes off while checkTrees waits for an answer.
CleanupDuringCheck(due) ==
    /\ phase = "check"
    /\ Cleanup(due)
    /\ UNCHANGED loadVars

\* What was not found is evicted; the cleanup at the end of load() is the
\* timer's, which may run next.
FinishCheck ==
    /\ phase = "check"
    /\ unchecked = {}
    /\ expiring' = expiring \cup (notFound \cap txs)
    /\ phase' = "run"
    /\ notFound' = {}
    /\ UNCHANGED <<replacedBy, replaces, rbfTrees, dirtyTrees, treeMap, txs,
                   published, stored, toImport, mempool, conflicts,
                   unchecked, intact>>

-----------------------------------------------------------------------------
RestartNext ==
    \/ Running
    \/ \E lost, stale \in SUBSET txs, lostTrees \in SUBSET TreeIds,
         lostExpiries \in SUBSET expiring :
            Restart(lost, lostTrees, lostExpiries, stale)
    \/ \E id \in Txid : ImportTree(id)
    \/ RestoreExpiring
    \/ \E t \in Txid : Connect(t)
    \/ StartCheck
    \/ \E t \in Txid :
          CheckConfirmed(t) \/ CheckUnconfirmed(t) \/ CheckMissing(t)
    \/ \E due \in SUBSET expiring : CleanupDuringCheck(due)
    \/ FinishCheck

RestartSpec == RestartInit /\ [][RestartNext]_allVars

-----------------------------------------------------------------------------
\* The documented invariants hold again once the trees are imported, the tree
\* objects agree with the maps that were rebuilt from them, and neither the
\* conflicts with the mempool nor a timer that fires between two answers of
\* checkTrees breaks either.
InvariantsAfterRestart == intact /\ phase # "import" =>
    DocumentedInvariants /\ ViewsAgree

\* load() rebuilds from the trees alone the maps that dump() did not write:
\* a restart loses no replacement and no expiry.
RestartKeepsHistory ==
    [][intact /\ phase = "import" /\ phase' = "connect" =>
         /\ replacedBy' = stored.replacedBy
         /\ replaces' = stored.replaces
         /\ treeMap' = stored.treeMap
         /\ txs' = stored.txs
         /\ expiring' = stored.expiring]_allVars

\* "The following invariants must be upheld" (rbf-cache.ts:55-60), also by a
\* cache that was restored from what Redis has.
InvariantsUpheld == phase # "import" => DocumentedInvariants

\* Whatever tx, tree and expiry entries Redis lost, and whichever absorbed trees
\* it kept too long, the trees that the cache serves after the import (getRbfTree,
\* rbf-cache.ts:248-250) are disjoint: every id of treeMap is the id of a tree, and
\* a tree holds the transactions that treeMap puts in it and no other.
ServedTreesDisjoint == phase # "import" =>
    /\ UniqueId
    /\ Existence
    /\ \A id \in Txid : rbfTrees[id] # None => rbfTrees[id].txs = Members(id)

=============================================================================
