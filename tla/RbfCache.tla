------------------------------ MODULE RbfCache ------------------------------
(***************************************************************************)
(* The in-memory cache of replacement (RBF) histories,                     *)
(* src/backend/src/api/rbf-cache.ts.                                       *)
(*                                                                         *)
(* A replacement history is a tree: its root is the newest version of a    *)
(* transaction, the children of a node are the transactions the node       *)
(* replaced.  The code keeps three views of the same forest: the maps      *)
(* replacedBy and replaces, the map treeMap from a transaction to the id   *)
(* (the root) of its tree, and the nested RbfTree objects in rbfTrees.     *)
(* Every public method is one action: Node runs each without interruption. *)
(*                                                                         *)
(* A nested RbfTree is kept in the flat form in which exportTree writes it *)
(* out: the txids it holds and the children of each.  Fees, sizes and      *)
(* times are left out; an expiry time is abstracted to its being set, and  *)
(* cleanup finds any non-empty part of the set overdue, which covers both  *)
(* the order of the evictions and the arbitrary times a restart restores.  *)
(***************************************************************************)
EXTENDS Naturals

CONSTANTS
    Txid,       \* the transactions
    Signals,    \* those that signal replaceability (rbf = true)
    None        \* "undefined", the result of Map.get on a missing key

VARIABLES
    replacedBy, \* txid -> the txid that replaced it
    replaces,   \* txid -> the txids it replaced; {} for a missing key
    rbfTrees,   \* root txid -> its RbfTree
    dirtyTrees, \* tree ids changed since the last getRbfChanges
    treeMap,    \* txid -> the id of its tree
    txs,        \* txids of the cached transactions
    expiring,   \* txids with an expiry time
    published   \* tree id -> the tree getRbfChanges last handed out, kept
                \* while the cache holds a tree of that id

vars == <<replacedBy, replaces, rbfTrees, dirtyTrees, treeMap, txs, expiring,
          published>>

RbfTree == [txs      : SUBSET Txid,            \* every tx of the tree
            replaces : [Txid -> SUBSET Txid],  \* children, {} outside txs
            txMined  : SUBSET Txid,            \* txs with tx.mined set
            mined    : BOOLEAN,
            fullRbf  : BOOLEAN]

\* undefined is neither a txid nor a tree.
ASSUME ConstantsAssumption ==
    /\ Signals \subseteq Txid
    /\ None \notin Txid \cup RbfTree

Map == [Txid -> Txid \cup {None}]

TypeOK ==
    /\ replacedBy \in Map
    /\ replaces \in [Txid -> SUBSET Txid]
    /\ rbfTrees \in [Txid -> RbfTree \cup {None}]
    /\ dirtyTrees \subseteq Txid
    /\ treeMap \in Map
    /\ txs \subseteq Txid
    /\ expiring \subseteq Txid
    /\ published \in [Txid -> RbfTree \cup {None}]

Empty == [t \in Txid |-> None]

Init ==
    /\ replacedBy = Empty
    /\ replaces = [t \in Txid |-> {}]
    /\ rbfTrees = Empty
    /\ dirtyTrees = {}
    /\ treeMap = Empty
    /\ txs = {}
    /\ expiring = {}
    /\ published = Empty

(***************************************************************************)
(* add(replaced, newTx)                                                    *)
(***************************************************************************)

\* A client's copy of a tree that is gone tells nothing.
DropUnheld == published' = [t \in Txid |-> IF rbfTrees'[t] = None
                                          THEN None ELSE published[t]]

\* Mutant: add() without the "should never happen" skip at line 147.
FirstReplacedNoSkip(replaced) == replaced

\* The replaced transactions that add does not skip.
FirstReplaced(replaced) == {t \in replaced : replacedBy[t] = None}

\* The trees that become children: the trees of cached transactions...
OldTreeIds(replaced) == {treeMap[t] : t \in FirstReplaced(replaced)} \ {None}
OldRoots(replaced) == {id \in OldTreeIds(replaced) : rbfTrees[id] # None}

\* ... and a new leaf for each transaction the cache does not know.
NewLeaves(replaced) == {t \in FirstReplaced(replaced) : treeMap[t] = None}

Children(replaced) == OldRoots(replaced) \cup NewLeaves(replaced)

\* Mutant: the new tree keeps the replaced roots but not their own children.
NewTreeShallow(replaced, newTx) ==
    LET old == OldRoots(replaced) IN
    [txs      |-> {newTx} \cup NewLeaves(replaced)
                          \cup UNION {rbfTrees[id].txs : id \in old},
     replaces |-> [t \in Txid |-> IF t = newTx THEN Children(replaced) ELSE {}],
     txMined  |-> UNION {rbfTrees[id].txMined : id \in old},
     mined    |-> FALSE,
     fullRbf  |-> \/ \E id \in old : rbfTrees[id].fullRbf
                  \/ ~(Children(replaced) \subseteq Signals)]

\* Mutant: the full-RBF mark of the replaced trees is not inherited.
NewTreeForgetsFullRbf(replaced, newTx) ==
    LET old == OldRoots(replaced) IN
    [txs      |-> {newTx} \cup NewLeaves(replaced)
                          \cup UNION {rbfTrees[id].txs : id \in old},
     replaces |-> [t \in Txid |->
                     IF t = newTx
                     THEN Children(replaced)
                     ELSE UNION {rbfTrees[id].replaces[t] : id \in old}],
     txMined  |-> UNION {rbfTrees[id].txMined : id \in old},
     mined    |-> FALSE,
     fullRbf  |-> ~(Children(replaced) \subseteq Signals)]

NewTree(replaced, newTx) ==
    LET old == OldRoots(replaced) IN
    [txs      |-> {newTx} \cup NewLeaves(replaced)
                          \cup UNION {rbfTrees[id].txs : id \in old},
     replaces |-> [t \in Txid |->
                     IF t = newTx
                     THEN Children(replaced)
                     ELSE UNION {rbfTrees[id].replaces[t] : id \in old}],
     txMined  |-> UNION {rbfTrees[id].txMined : id \in old},
     mined    |-> FALSE,
     fullRbf  |-> \/ \E id \in old : rbfTrees[id].fullRbf
                  \/ ~(Children(replaced) \subseteq Signals)]

Add(replaced, newTx) ==
    /\ newTx \notin txs
    /\ FirstReplaced(replaced) # {}
    /\ LET tree == NewTree(replaced, newTx) IN
       /\ rbfTrees' = [t \in Txid |->
                         IF t = newTx THEN tree
                         ELSE IF t \in OldTreeIds(replaced) THEN None
                         ELSE rbfTrees[t]]
       /\ treeMap' = [t \in Txid |->
                        IF t \in tree.txs THEN newTx ELSE treeMap[t]]
    /\ replacedBy' = [t \in Txid |-> IF t \in FirstReplaced(replaced)
                                     THEN newTx ELSE replacedBy[t]]
    /\ replaces' = [replaces EXCEPT ![newTx] = Children(replaced)]
    /\ txs' = txs \cup {newTx} \cup NewLeaves(replaced)
    /\ dirtyTrees' = dirtyTrees \cup {newTx}
    /\ DropUnheld
    /\ UNCHANGED expiring

(***************************************************************************)
(* mined(txid), evict(txid) and getRbfChanges()                            *)
(***************************************************************************)

\* Mutant: the replacement is marked, undefined for a newest version.
EvictReplacement(txid) ==
    /\ txid \in txs \ expiring
    /\ expiring' = expiring \cup {replacedBy[txid]}
    /\ UNCHANGED <<replacedBy, replaces, rbfTrees, dirtyTrees, treeMap, txs,
                   published>>

Evict(txid) ==
    /\ txid \in txs \ expiring
    /\ expiring' = expiring \cup {txid}
    /\ UNCHANGED <<replacedBy, replaces, rbfTrees, dirtyTrees, treeMap, txs,
                   published>>

\* setTreeMined marks the node of txid, wherever it is in the tree.
MinedTree(tree, txid) ==
    [tree EXCEPT !.txMined = @ \cup ({txid} \cap tree.txs), !.mined = TRUE]

\* The tree that getRbfTree finds, if any.
TreeOf(txid) == {id \in Txid : treeMap[txid] = id /\ rbfTrees[id] # None}

\* Mutant: mined() does not mark the tree dirty.
MinedNotDirty(txid) ==
    /\ txid \in txs
    /\ rbfTrees' = [id \in Txid |-> IF id \in TreeOf(txid)
                                    THEN MinedTree(rbfTrees[id], txid)
                                    ELSE rbfTrees[id]]
    /\ expiring' = expiring \cup {txid}
    /\ UNCHANGED <<replacedBy, replaces, dirtyTrees, treeMap, txs, published>>

Mined(txid) ==
    /\ txid \in txs
    /\ rbfTrees' = [id \in Txid |-> IF id \in TreeOf(txid)
                                    THEN MinedTree(rbfTrees[id], txid)
                                    ELSE rbfTrees[id]]
    /\ dirtyTrees' = dirtyTrees \cup TreeOf(txid)
    /\ expiring' = expiring \cup {txid}
    /\ UNCHANGED <<replacedBy, replaces, treeMap, txs, published>>

GetRbfChanges ==
    /\ dirtyTrees # {}
    /\ published' = [t \in Txid |->
                       IF t \in dirtyTrees /\ rbfTrees[t] # None
                       THEN rbfTrees[t] ELSE published[t]]
    /\ dirtyTrees' = {}
    /\ UNCHANGED <<replacedBy, replaces, rbfTrees, treeMap, txs, expiring>>

(***************************************************************************)
(* cleanup(), the ten-minute timer                                         *)
(***************************************************************************)

ClosedUnderReplaces(S) == \A t \in S : replaces[t] \subseteq S

\* What remove(txid) visits: txid and, recursively, its prior versions.
Versions(txid) ==
    {t \in Txid : \A S \in SUBSET Txid :
                     txid \in S /\ ClosedUnderReplaces(S) => t \in S}

\* Mutant: cleanup removes an overdue transaction that was replaced.
OverdueAny(due) == due

\* Mutant: remove() consults replaces instead of replacedBy.
OverdueLeaves(due) == {t \in due : replaces[t] = {}}

\* remove does nothing for a transaction that a newer one replaced.
OverdueRoots(due) == {t \in due : replacedBy[t] = None}
Doomed(due) == UNION {Versions(txid) : txid \in OverdueRoots(due)}

Cleanup(due) ==
    /\ due # {}
    /\ LET gone == Doomed(due) IN
       /\ replacedBy' = [t \in Txid |->
                           IF t \in gone THEN None ELSE replacedBy[t]]
       /\ replaces' = [t \in Txid |-> IF t \in gone THEN {} ELSE replaces[t]]
       /\ treeMap' = [t \in Txid |-> IF t \in gone THEN None ELSE treeMap[t]]
       /\ rbfTrees' = [t \in Txid |-> IF t \in gone /\ treeMap[t] = t
                                      THEN None ELSE rbfTrees[t]]
       /\ txs' = txs \ gone
       /\ expiring' = expiring \ (due \cup gone)
    /\ DropUnheld
    /\ UNCHANGED dirtyTrees

(***************************************************************************)
(* Specification                                                           *)
(***************************************************************************)

Next ==
    \/ \E newTx \in Txid : \E replaced \in SUBSET (Txid \ {newTx}) :
          Add(replaced, newTx)
    \/ \E txid \in Txid : Mined(txid) \/ Evict(txid)
    \/ GetRbfChanges
    \/ \E due \in SUBSET expiring : Cleanup(due)

Spec == Init /\ [][Next]_vars

(***************************************************************************)
(* Properties                                                              *)
(***************************************************************************)

\* The transactions that treeMap puts in the tree called id.
Members(id) == {t \in Txid : treeMap[t] = id}

\* replacedBy(A) = B <=> A in replaces(B) (rbf-cache.ts:56).
Symmetry == \A a, b \in Txid : replacedBy[a] = b <=> a \in replaces[b]

\* treeMap(treeMap(X)) = treeMap(X) (rbf-cache.ts:57).
UniqueId == \A t \in Txid : treeMap[t] # None => treeMap[treeMap[t]] = treeMap[t]

\* A in replaces(B) => treeMap(A) = treeMap(B) (rbf-cache.ts:58).
UniqueTree == \A b \in Txid : \A a \in replaces[b] : treeMap[a] = treeMap[b]

\* X in treeMap => treeMap(X) in rbfTrees (rbf-cache.ts:59).
Existence == \A t \in Txid : treeMap[t] # None => rbfTrees[treeMap[t]] # None

\* X in replacedBy => X in treeMap, Y in replaces => Y in treeMap
\* (rbf-cache.ts:60).
Completeness == \A t \in Txid :
    replacedBy[t] # None \/ replaces[t] # {} => treeMap[t] # None

\* The five invariants that "must be upheld" (rbf-cache.ts:55-60): the maps
\* are inverse to each other, a transaction and its replacement are in one
\* tree with one id, and every entry has its tree, through any sequence of
\* replacements, confirmations, evictions and expiries.
DocumentedInvariants ==
    /\ Symmetry
    /\ UniqueId
    /\ UniqueTree
    /\ Existence
    /\ Completeness

\* The nested RbfTree objects and the flat maps describe the same forest: a
\* tree holds exactly the transactions whose treeMap entry names it, with the
\* children that `replaces` gives, and no tree is left that nothing points to.
TreesMatchMaps == \A id \in Txid : rbfTrees[id] # None =>
    /\ treeMap[id] = id
    /\ rbfTrees[id].txs = Members(id)
    /\ \A t \in Txid : rbfTrees[id].replaces[t] =
                          IF t \in Members(id) THEN replaces[t] ELSE {}

\* Every cached transaction is reached from the root of its tree through
\* `replaces`, the only path remove() follows (rbf-cache.ts:332-344): what it
\* did not reach would stay in the maps for ever.
ReachedFromRoot == \A t \in Txid :
    treeMap[t] # None => t \in Versions(treeMap[t])

\* The newest versions are exactly the tree ids: a cached transaction is a
\* root if and only if nothing replaced it, so add() only ever re-parents
\* whole trees and remove() only ever starts at a root.
RootsAreNewest == \A t \in txs : replacedBy[t] = None <=> treeMap[t] = t

\* No transaction, entry or expiry outlives its tree: the keys of treeMap, of
\* txs and of expiring go together (rbf-cache.ts:330-344 deletes from all).
NothingLeaks ==
    /\ txs = {t \in Txid : treeMap[t] # None}
    /\ expiring \subseteq txs

\* The tree objects, the maps and the key sets describe one forest, and
\* add() and remove() find in each view what the other views say: add
\* re-parents whole trees, remove reaches every version of an expired root.
ViewsAgree ==
    /\ TreesMatchMaps
    /\ ReachedFromRoot
    /\ RootsAreNewest
    /\ NothingLeaks

\* A tree is marked full-RBF if and only if it replaced some transaction that
\* did not signal (rbf-cache.ts:139-172); the block audit relies on it.
FullRbfExact == \A id \in Txid : rbfTrees[id] # None =>
    (rbfTrees[id].fullRbf <=> ~(rbfTrees[id].txs \ {id} \subseteq Signals))

\* A tree that differs from what clients were last sent is marked dirty, so
\* the next getRbfChanges delivers it (rbf-cache.ts:279-296).
ChangesAreDirty == \A id \in Txid :
    rbfTrees[id] # None /\ id \notin dirtyTrees => published[id] = rbfTrees[id]

\* History is forgotten one whole tree at a time, and only after the newest
\* version of the tree has expired: "don't remove a transaction if a newer
\* version remains" (rbf-cache.ts:329).
ForgetsWholeExpiredTrees ==
    [][\A t \in txs \ txs' :
         /\ treeMap[t] \in expiring
         /\ \A u \in Txid : treeMap[u] = treeMap[t] => u \notin txs']_vars

\* The cache keeps the promise of RbfVersions: the tree id is the newest
\* version, replacedBy the direct replacement.
History == INSTANCE RbfVersions WITH newest <- treeMap, successor <- replacedBy
ImplementsVersions == History!Spec

=============================================================================
