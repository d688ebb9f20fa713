-------------------------- MODULE RbfRestartProofs --------------------------
(***************************************************************************)
(* Theorems about RbfRestart, for every set of transactions and any number *)
(* of restarts: from a complete copy the cache comes back as it was.       *)
(***************************************************************************)
EXTENDS RbfRestart, RbfCacheProofs

(***************************************************************************)
(* The inductive invariant                                                 *)
(***************************************************************************)

Copy == [trees      : [Txid -> RbfTree \cup {None}],
         expiring   : SUBSET Txid,
         txs        : SUBSET Txid,
         replacedBy : Map,
         replaces   : [Txid -> SUBSET Txid],
         treeMap    : Map]

\* The transactions that the copy puts in the tree called id.
StoredMembers(id) == {t \in Txid : stored.treeMap[t] = id}

\* What the copy of a consistent cache satisfies.
StoredForest ==
    /\ \A t, u \in Txid : stored.replacedBy[t] = u <=> t \in stored.replaces[u]
    /\ \A u \in Txid : \A t \in stored.replaces[u] :
          stored.treeMap[t] = stored.treeMap[u]
    /\ \A t \in Txid : stored.treeMap[t] # None =>
          /\ stored.treeMap[stored.treeMap[t]] = stored.treeMap[t]
          /\ stored.trees[stored.treeMap[t]] # None
    /\ \A t \in Txid : stored.replacedBy[t] # None \/ stored.replaces[t] # {}
          => stored.treeMap[t] # None
    /\ \A id \in Txid : stored.trees[id] # None =>
          /\ stored.treeMap[id] = id
          /\ stored.trees[id].txs = StoredMembers(id)
          /\ \A t \in Txid : stored.trees[id].replaces[t] =
                IF t \in StoredMembers(id) THEN stored.replaces[t] ELSE {}
    /\ \A t \in stored.txs : stored.replacedBy[t] = None <=> stored.treeMap[t] = t
    /\ stored.txs = {t \in Txid : stored.treeMap[t] # None}
    /\ stored.expiring \subseteq stored.txs

\* remove() on a stored root would have reached every version.
StoredReached ==
    \A t \in Txid : \A S \in SUBSET Txid :
       /\ stored.treeMap[t] # None
       /\ stored.treeMap[t] \in S
       /\ \A u \in S : stored.replaces[u] \subseteq S
       => t \in S

\* Its tree has been read back.
Imported(t) == stored.treeMap[t] # None /\ stored.treeMap[t] \notin toImport

\* The maps hold what the copy has of the trees that have been read back, and
\* nothing of the others.
HalfImported ==
    /\ stored \in Copy
    /\ StoredForest
    /\ StoredReached
    /\ toImport \subseteq {id \in Txid : stored.trees[id] # None}
    /\ txs = stored.txs
    /\ expiring = {}
    /\ \A t \in Txid :
          /\ treeMap[t] = IF Imported(t) THEN stored.treeMap[t] ELSE None
          /\ replacedBy[t] = IF Imported(t) THEN stored.replacedBy[t] ELSE None
          /\ replaces[t] = IF Imported(t) THEN stored.replaces[t] ELSE {}
    /\ \A id \in Txid :
          IF stored.trees[id] # None /\ id \notin toImport
          THEN /\ rbfTrees[id] # None
               /\ rbfTrees[id].txs = stored.trees[id].txs
               /\ rbfTrees[id].replaces = stored.trees[id].replaces
          ELSE rbfTrees[id] = None

LoadTypeOK ==
    /\ phase \in {"run", "import", "connect", "check"}
    /\ mempool \subseteq Txid
    /\ conflicts \in [Txid -> SUBSET Txid]
    /\ unchecked \subseteq Txid
    /\ notFound \subseteq Txid

\* As long as every restart found a complete copy.
Intact ==
    intact =>
       /\ TypeOK
       /\ LoadTypeOK
       /\ phase = "import" => HalfImported
       /\ phase # "import" => Consistent
       /\ phase = "connect" => \A t \in Txid : conflicts[t] \subseteq txs

(***************************************************************************)
(* The import of one tree                                                  *)
(***************************************************************************)

\* The fields of the copy.
LEMMA CopyFields ==
  ASSUME stored \in Copy
  PROVE  /\ stored.trees \in [Txid -> RbfTree \cup {None}]
         /\ stored.expiring \subseteq Txid
         /\ stored.txs \subseteq Txid
         /\ stored.replacedBy \in [Txid -> Txid \cup {None}]
         /\ stored.replaces \in [Txid -> SUBSET Txid]
         /\ stored.treeMap \in [Txid -> Txid \cup {None}]
BY DEF Copy, Map

\* A stored tree has the versions of its members and no others.
LEMMA MembersTogether ==
  ASSUME HalfImported, NEW id \in toImport
  PROVE  \A u \in Txid : \A t \in stored.replaces[u] :
            /\ t \in Txid
            /\ t \in StoredMembers(id) <=> u \in StoredMembers(id)
<1>1. stored.replaces \in [Txid -> SUBSET Txid]
  BY CopyFields DEF HalfImported
<1>2. \A u \in Txid : \A t \in stored.replaces[u] :
         stored.treeMap[t] = stored.treeMap[u]
  BY DEF HalfImported, StoredForest
<1> QED BY <1>1, <1>2 DEF StoredMembers

\* From the root of a stored tree every member is reached, as long as none of
\* them has been entered elsewhere.
LEMMA ReachedAreMembers ==
  ASSUME HalfImported, NEW id \in toImport, NEW enter \in SUBSET Txid,
         StoredMembers(id) \subseteq enter
  PROVE  ReachedIn(stored.trees[id], id, enter) = StoredMembers(id)
<1> DEFINE M == StoredMembers(id)
           tree == stored.trees[id]
<1>1. /\ id \in Txid /\ stored.treeMap[id] = id
      /\ \A t \in Txid : tree.replaces[t] = IF t \in M THEN stored.replaces[t] ELSE {}
  BY DEF HalfImported, StoredForest
<1>2. \A u \in Txid : \A t \in stored.replaces[u] : t \in Txid /\ (t \in M <=> u \in M)
  BY MembersTogether
<1>3. M \subseteq Txid /\ id \in M
  BY <1>1 DEF StoredMembers
<1>4. ReachedIn(tree, id, enter) \subseteq M
  <2>1. \A u \in M : tree.replaces[u] \cap enter \subseteq M
    BY <1>1, <1>2, <1>3
  <2> QED BY <1>3, <2>1 DEF ReachedIn
<1>5. ASSUME NEW t \in M, NEW S \in SUBSET Txid, id \in S,
             \A u \in S : tree.replaces[u] \cap enter \subseteq S
      PROVE  t \in S
  <2> DEFINE S2 == (S \cap M) \cup (Txid \ M)
  <2>1. \A u \in S2 : stored.replaces[u] \subseteq S2
    BY <1>1, <1>2, <1>3, <1>5
  <2>2. S2 \in SUBSET Txid /\ id \in S2
    BY <1>3, <1>5
  <2>3. t \in Txid /\ stored.treeMap[t] = id /\ id # None
    BY <1>1, ConstantsAssumption DEF StoredMembers
  <2>4. t \in S2
    BY <2>1, <2>2, <2>3 DEF HalfImported, StoredReached
  <2> QED BY <2>4
<1> QED BY <1>3, <1>4, <1>5 DEF ReachedIn

\* What importTree enters for a stored tree: its members, their links, the tree.
LEMMA ImportEffect ==
  ASSUME TypeOK, HalfImported, NEW id \in toImport
  PROVE  /\ id \in txs /\ treeMap[id] = None
         /\ Visited(stored.trees[id], id) = StoredMembers(id)
         /\ Returned(stored.trees[id], id) = StoredMembers(id)
         /\ Linked(stored.trees[id], id) = StoredMembers(id) \ {id}
         /\ \A t \in StoredMembers(id) \ {id} :
               ParentIn(stored.trees[id], t) = stored.replacedBy[t]
         /\ ImportedTree(stored.trees[id], id).txs = StoredMembers(id)
         /\ ImportedTree(stored.trees[id], id).replaces
               = stored.trees[id].replaces
         /\ ImportedTree(stored.trees[id], id) \in RbfTree
<1> DEFINE M == StoredMembers(id)
           tree == stored.trees[id]
<1>1. /\ id \in Txid /\ stored.treeMap[id] = id /\ tree # None
      /\ tree.txs = M
      /\ \A t \in Txid : tree.replaces[t] = IF t \in M THEN stored.replaces[t] ELSE {}
  BY DEF HalfImported, StoredForest
<1>2. tree \in RbfTree
  BY <1>1, CopyFields DEF HalfImported
<1>3. \A t \in M : t \in Txid /\ stored.treeMap[t] = id /\ treeMap[t] = None /\ t \in txs
  <2>1. ASSUME NEW t \in M
        PROVE  t \in Txid /\ stored.treeMap[t] = id
    BY DEF StoredMembers
  <2>2. id # None /\ id \in toImport
    BY <1>1, ConstantsAssumption
  <2>3. \A t \in M : ~Imported(t)
    BY <2>1, <2>2 DEF Imported
  <2>4. \A t \in M : treeMap[t] = None
    BY <2>1, <2>3 DEF HalfImported
  <2>5. txs = {t \in Txid : stored.treeMap[t] # None}
    BY DEF HalfImported, StoredForest
  <2> QED BY <2>1, <2>2, <2>4, <2>5
<1>4. id \in M
  BY <1>1 DEF StoredMembers
<1>5. Visited(tree, id) = M
  BY <1>3, ReachedAreMembers DEF Visited
<1>6. Returned(tree, id) = M /\ Linked(tree, id) = M \ {id}
  BY <1>3, <1>5 DEF Returned, Linked
<1>7. ASSUME NEW t \in M \ {id}
      PROVE  ParentIn(tree, t) = stored.replacedBy[t]
  <2>0. t \in stored.txs /\ t \in Txid /\ stored.treeMap[t] # t
    BY <1>3 DEF HalfImported
  <2>1. stored.replacedBy[t] # None
    BY <2>0 DEF HalfImported, StoredForest
  <2>2. stored.replacedBy[t] \in Txid
    BY <2>0, <2>1, CopyFields DEF HalfImported
  <2>3. \A u \in Txid : t \in stored.replaces[u] <=> u = stored.replacedBy[t]
    <3>1. \A u, v \in Txid : stored.replacedBy[u] = v <=> u \in stored.replaces[v]
      BY DEF HalfImported, StoredForest
    <3> QED BY <2>0, <3>1
  <2>4. stored.replacedBy[t] \in M
    BY <2>2, <2>3, MembersTogether
  <2>5. \A u \in Txid : t \in tree.replaces[u] <=> u = stored.replacedBy[t]
    BY <1>1, <2>3, <2>4
  <2> QED BY <2>2, <2>5 DEF ParentIn
<1>8. \A t \in M : tree.replaces[t] \subseteq M
  BY <1>1, <1>3, MembersTogether
<1>9. /\ ImportedTree(tree, id).txs = M
      /\ ImportedTree(tree, id).replaces
            = [t \in Txid |-> IF t \in M THEN tree.replaces[t] \cap M ELSE {}]
      /\ ImportedTree(tree, id).txMined = tree.txMined \cap M
      /\ ImportedTree(tree, id).mined = FALSE
      /\ ImportedTree(tree, id).fullRbf = tree.fullRbf
  <2>1. ReachedIn(tree, id, M) = M
    BY <1>3, ReachedAreMembers
  <2> HIDE DEF M, tree
  <2> QED BY <1>6, <2>1 DEF ImportedTree
<1>10. ImportedTree(tree, id).replaces = tree.replaces
  <2>1. tree.replaces \in [Txid -> SUBSET Txid]
    BY <1>2 DEF RbfTree
  <2>2. \A t \in Txid : tree.replaces[t] = IF t \in M THEN tree.replaces[t] \cap M ELSE {}
    BY <1>1, <1>8
  <2> HIDE DEF M, tree
  <2> QED BY <1>9, <2>1, <2>2
<1>11. ImportedTree(tree, id) \in RbfTree
  <2> DEFINE new == ImportedTree(tree, id)
  <2>1. new = [txs |-> new.txs, replaces |-> new.replaces, txMined |-> new.txMined,
               mined |-> new.mined, fullRbf |-> new.fullRbf]
    BY DEF ImportedTree
  <2>2. /\ new.txs \in SUBSET Txid /\ new.replaces \in [Txid -> SUBSET Txid]
        /\ new.txMined \in SUBSET Txid /\ new.mined \in BOOLEAN /\ new.fullRbf \in BOOLEAN
    BY <1>2, <1>3, <1>9, <1>10 DEF RbfTree
  <2> HIDE DEF new
  <2>3. new \in RbfTree
    BY <2>1, <2>2 DEF RbfTree
  <2> QED BY <2>3 DEF new
<1> QED BY <1>1, <1>3, <1>4, <1>5, <1>6, <1>7, <1>9, <1>10, <1>11

\* Importing a tree enters its members and changes nothing else.
LEMMA ImportTreeKeepsIntact ==
  ASSUME TypeOK, LoadTypeOK, HalfImported, NEW id \in Txid, ImportTree(id)
  PROVE  TypeOK' /\ LoadTypeOK' /\ HalfImported'
<1> DEFINE M == StoredMembers(id)
           tree == stored.trees[id]
           imported == ImportedTree(tree, id)
<1>1. /\ id \in toImport /\ toImport' = toImport \ {id}
      /\ UNCHANGED <<txs, expiring, published, phase, stored, mempool, conflicts,
                     unchecked, notFound, intact>>
  BY DEF ImportTree
<1>2. /\ Visited(tree, id) = M /\ Returned(tree, id) = M
      /\ Linked(tree, id) = M \ {id}
      /\ \A t \in M \ {id} : ParentIn(tree, t) = stored.replacedBy[t]
      /\ imported.txs = M /\ imported.replaces = tree.replaces
      /\ imported \in RbfTree
      /\ id \in txs /\ treeMap[id] = None
  BY <1>1, ImportEffect
<1>3. AddImported(id)
  BY <1>2 DEF ImportTree, SkipTree
<1>4. /\ stored.treeMap[id] = id /\ tree # None /\ tree.txs = M /\ id \in M
      /\ \A t \in Txid : tree.replaces[t] = IF t \in M THEN stored.replaces[t] ELSE {}
  BY <1>1 DEF HalfImported, StoredForest, StoredMembers
<1>5. \A t \in M : tree.replaces[t] \subseteq M
  BY <1>1, <1>4, MembersTogether DEF StoredMembers
<1>6. stored.replacedBy[id] = None
  <2>1. id \in stored.txs
    BY <1>2 DEF HalfImported
  <2> QED BY <1>4, <2>1 DEF HalfImported, StoredForest
<1>7. M \subseteq Txid
  BY DEF StoredMembers
<1>8. /\ \A t \in Txid : treeMap'[t] = IF t \in M THEN id ELSE treeMap[t]
      /\ \A t \in Txid : replaces'[t] = IF t \in M THEN stored.replaces[t] ELSE replaces[t]
      /\ rbfTrees' = [rbfTrees EXCEPT ![id] = imported]
      /\ dirtyTrees' = dirtyTrees \cup {id}
  <2> HIDE DEF imported
  <2>1. /\ treeMap' = [t \in Txid |-> IF t \in imported.txs THEN id ELSE treeMap[t]]
        /\ rbfTrees' = [rbfTrees EXCEPT ![id] = imported]
        /\ dirtyTrees' = dirtyTrees \cup {id}
    BY <1>3 DEF AddImported, imported
  <2>2. replaces' = [t \in Txid |-> IF t \in Visited(tree, id)
                                   THEN tree.replaces[t] \cap Returned(tree, id)
                                   ELSE replaces[t]]
    BY <1>3 DEF AddImported
  <2>3. \A t \in M : tree.replaces[t] \cap M = stored.replaces[t]
    BY <1>4, <1>5, <1>7
  <2> HIDE DEF M, tree
  <2> QED BY <1>2, <2>1, <2>2, <2>3
<1>9. \A t \in Txid : replacedBy'[t] = IF t \in M THEN stored.replacedBy[t] ELSE replacedBy[t]
  <2>1. \A t \in Txid : replacedBy'[t] = IF t \in Linked(tree, id)
                                         THEN ParentIn(tree, t) ELSE replacedBy[t]
    BY <1>3 DEF AddImported
  <2>2. replacedBy[id] = None
    BY <1>2, <1>4, <1>6, ConstantsAssumption DEF HalfImported, Imported
  <2> HIDE DEF M, tree
  <2> QED BY <1>2, <1>6, <2>1, <2>2
<1>10. TypeOK'
  <2>1. stored.replacedBy \in [Txid -> Txid \cup {None}]
        /\ stored.replaces \in [Txid -> SUBSET Txid]
    BY CopyFields DEF HalfImported
  <2>2. replacedBy' \in Map /\ treeMap' \in Map /\ replaces' \in [Txid -> SUBSET Txid]
    <3>1. /\ replacedBy' = [t \in Txid |-> replacedBy'[t]]
          /\ treeMap' = [t \in Txid |-> treeMap'[t]]
          /\ replaces' = [t \in Txid |-> replaces'[t]]
      BY <1>3 DEF AddImported
    <3>2. \A t \in Txid : /\ replacedBy'[t] \in Txid \cup {None}
                         /\ treeMap'[t] \in Txid \cup {None}
                         /\ replaces'[t] \in SUBSET Txid
      BY <1>8, <1>9, <2>1 DEF TypeOK, Map
    <3> QED BY <3>1, <3>2 DEF Map
  <2>3. rbfTrees' \in [Txid -> RbfTree \cup {None}]
    <3> HIDE DEF imported
    <3> QED BY <1>2, <1>8 DEF TypeOK
  <2> QED BY <1>1, <1>8, <2>2, <2>3 DEF TypeOK
<1>11. LoadTypeOK'
  BY <1>1 DEF LoadTypeOK
<1>12. \A t \in Txid : Imported(t)' <=> t \in M \/ Imported(t)
  <2>1. \A t \in M : stored.treeMap[t] = id /\ id # None
    BY <1>4, ConstantsAssumption DEF StoredMembers
  <2> QED BY <1>1, <2>1 DEF Imported, StoredMembers
<1>13. \A t \in M : stored.treeMap[t] = id /\ ~Imported(t)
  BY <1>1 DEF Imported, StoredMembers
<1>14. \A t \in Txid :
         /\ treeMap'[t] = IF Imported(t)' THEN stored.treeMap[t] ELSE None
         /\ replacedBy'[t] = IF Imported(t)' THEN stored.replacedBy[t] ELSE None
         /\ replaces'[t] = IF Imported(t)' THEN stored.replaces[t] ELSE {}
  <2> HIDE DEF M
  <2> QED BY <1>8, <1>9, <1>12, <1>13 DEF HalfImported
<1>15. \A u \in Txid :
         IF stored.trees[u] # None /\ u \notin toImport'
         THEN /\ rbfTrees'[u] # None
              /\ rbfTrees'[u].txs = stored.trees[u].txs
              /\ rbfTrees'[u].replaces = stored.trees[u].replaces
         ELSE rbfTrees'[u] = None
  <2>1. rbfTrees'[id] = imported /\ \A u \in Txid \ {id} : rbfTrees'[u] = rbfTrees[u]
    BY <1>8 DEF TypeOK
  <2>2. imported # None
    BY <1>2, ConstantsAssumption
  <2> HIDE DEF imported
  <2> QED BY <1>1, <1>2, <1>4, <2>1, <2>2 DEF HalfImported
<1>16. StoredForest' /\ StoredReached'
  BY <1>1 DEF HalfImported, StoredForest, StoredReached, StoredMembers
<1>17. HalfImported'
  BY <1>1, <1>14, <1>15, <1>16 DEF HalfImported
<1> QED BY <1>10, <1>11, <1>17

(***************************************************************************)
(* The other steps                                                         *)
(***************************************************************************)

\* A complete copy of a consistent cache is a forest, of which nothing has been
\* read back yet.
LEMMA RestartKeepsIntact ==
  ASSUME TypeOK, LoadTypeOK, Consistent, phase = "run", Restart({}, {}, {}, {})
  PROVE  TypeOK' /\ LoadTypeOK' /\ HalfImported'
<1>1. /\ stored' = [trees |-> StoredTrees({}), expiring |-> expiring \ {},
                    txs |-> txs \ {}, replacedBy |-> replacedBy,
                    replaces |-> replaces, treeMap |-> treeMap]
      /\ toImport' = {} \cup ({id \in Txid : rbfTrees[id] # None} \ {})
      /\ mempool' \in Mempools /\ phase' = "import"
      /\ txs' = txs \ {} /\ replacedBy' = Empty /\ replaces' = [t \in Txid |-> {}]
      /\ rbfTrees' = Empty /\ dirtyTrees' = {} /\ treeMap' = Empty
      /\ expiring' = {} /\ published' = Empty
      /\ UNCHANGED <<conflicts, unchecked, notFound>>
  BY DEF Restart, TreeIds
<1>2. StoredTrees({}) = rbfTrees
  BY DEF StoredTrees, TypeOK
<1>3. /\ stored'.trees = rbfTrees /\ stored'.expiring = expiring
      /\ stored'.txs = txs /\ stored'.replacedBy = replacedBy
      /\ stored'.replaces = replaces /\ stored'.treeMap = treeMap
  BY <1>1, <1>2
<1>4. stored' \in Copy
  BY <1>1, <1>2 DEF Copy, TypeOK
<1>5. TypeOK' /\ LoadTypeOK'
  <2>1. TypeOK'
    BY <1>1 DEF TypeOK, Empty, Map
  <2>2. LoadTypeOK'
    BY <1>1 DEF LoadTypeOK, Mempools
  <2> QED BY <2>1, <2>2
<1>6. StoredForest'
  <2>1. \A id \in Txid : StoredMembers(id)' = Members(id)
    BY <1>3 DEF StoredMembers, Members
  <2>2. \A id \in Txid : stored'.trees[id] # None =>
           /\ stored'.treeMap[id] = id
           /\ stored'.trees[id].txs = StoredMembers(id)'
           /\ \A t \in Txid : stored'.trees[id].replaces[t] =
                 IF t \in StoredMembers(id)' THEN stored'.replaces[t] ELSE {}
    BY <1>3, <2>1 DEF Consistent, TreesMatchMaps
  <2>3. /\ \A t, u \in Txid : stored'.replacedBy[t] = u <=> t \in stored'.replaces[u]
        /\ \A u \in Txid : \A t \in stored'.replaces[u] :
              stored'.treeMap[t] = stored'.treeMap[u]
        /\ \A t \in Txid : stored'.treeMap[t] # None =>
              /\ stored'.treeMap[stored'.treeMap[t]] = stored'.treeMap[t]
              /\ stored'.trees[stored'.treeMap[t]] # None
        /\ \A t \in Txid : stored'.replacedBy[t] # None \/ stored'.replaces[t] # {}
              => stored'.treeMap[t] # None
    BY <1>3 DEF Consistent, Symmetry, UniqueTree, UniqueId, Existence, Completeness
  <2>4. /\ \A t \in stored'.txs : stored'.replacedBy[t] = None <=> stored'.treeMap[t] = t
        /\ stored'.txs = {t \in Txid : stored'.treeMap[t] # None}
        /\ stored'.expiring \subseteq stored'.txs
    BY <1>3 DEF Consistent, RootsAreNewest, NothingLeaks
  <2> QED BY <2>2, <2>3, <2>4 DEF StoredForest
<1>7. StoredReached'
  BY <1>3 DEF StoredReached, Consistent, ReachedFromRoot, Versions, ClosedUnderReplaces
<1>8. \A t \in Txid : ~Imported(t)'
  <2>1. \A t \in Txid : treeMap[t] # None => treeMap[t] \in toImport'
    BY <1>1, IdsAreRoots DEF Consistent, Existence, TypeOK
  <2> QED BY <1>3, <2>1 DEF Imported
<1>9. HalfImported'
  <2>1. toImport' = {id \in Txid : stored'.trees[id] # None}
    BY <1>1, <1>3
  <2>2. \A t \in Txid : treeMap'[t] = None /\ replacedBy'[t] = None /\ replaces'[t] = {}
                       /\ rbfTrees'[t] = None
    BY <1>1 DEF Empty
  <2> QED BY <1>1, <1>3, <1>4, <1>6, <1>7, <1>8, <2>1, <2>2 DEF HalfImported
<1> QED BY <1>5, <1>9

\* When all trees are read back the cache is what was stored.
LEMMA AllImported ==
  ASSUME TypeOK, HalfImported, toImport = {}
  PROVE  /\ replacedBy = stored.replacedBy
         /\ replaces = stored.replaces
         /\ treeMap = stored.treeMap
<1>1. /\ stored.replacedBy \in [Txid -> Txid \cup {None}]
      /\ stored.replaces \in [Txid -> SUBSET Txid]
      /\ stored.treeMap \in [Txid -> Txid \cup {None}]
  BY CopyFields DEF HalfImported
<1>2. \A t \in Txid : Imported(t) <=> stored.treeMap[t] # None
  BY DEF Imported
<1>3. \A t \in Txid : stored.treeMap[t] = None =>
         stored.replacedBy[t] = None /\ stored.replaces[t] = {}
  BY DEF HalfImported, StoredForest
<1>4. \A t \in Txid : /\ treeMap[t] = stored.treeMap[t]
                      /\ replacedBy[t] = stored.replacedBy[t]
                      /\ replaces[t] = stored.replaces[t]
  BY <1>2, <1>3 DEF HalfImported
<1> QED BY <1>1, <1>4 DEF TypeOK, Map

LEMMA RestoreExpiringKeepsIntact ==
  ASSUME TypeOK, LoadTypeOK, HalfImported, RestoreExpiring
  PROVE  /\ TypeOK' /\ LoadTypeOK' /\ Consistent'
         /\ \A t \in Txid : conflicts'[t] \subseteq txs'
<1>1. /\ toImport = {}
      /\ expiring' = stored.expiring \cap txs
      /\ UNCHANGED <<replacedBy, replaces, rbfTrees, dirtyTrees, treeMap, txs,
                     published, unchecked, notFound>>
      /\ phase' = "connect" /\ mempool' = {}
      /\ conflicts' = [t \in Txid |->
                         {id \in txs : /\ t \in mempool
                                       /\ <<id, t>> \in Conflict
                                       /\ rbfTrees[id] # None
                                       /\ ~rbfTrees[id].mined}]
  BY DEF RestoreExpiring
<1>2. TypeOK' /\ LoadTypeOK' /\ \A t \in Txid : conflicts'[t] \subseteq txs'
  BY <1>1 DEF TypeOK, LoadTypeOK
<1>3. /\ replacedBy = stored.replacedBy /\ replaces = stored.replaces
      /\ treeMap = stored.treeMap /\ txs = stored.txs
  BY <1>1, AllImported DEF HalfImported
<1>4. \A id \in Txid : Members(id) = StoredMembers(id)
  BY <1>3 DEF Members, StoredMembers
<1>5. Symmetry /\ UniqueId /\ UniqueTree /\ Completeness /\ RootsAreNewest
      /\ txs = {t \in Txid : treeMap[t] # None}
  BY <1>3 DEF HalfImported, StoredForest, Symmetry, UniqueId, UniqueTree,
              Completeness, RootsAreNewest
<1>6. \A id \in Txid :
         /\ rbfTrees[id] # None <=> stored.trees[id] # None
         /\ rbfTrees[id] # None =>
               /\ rbfTrees[id].txs = stored.trees[id].txs
               /\ rbfTrees[id].replaces = stored.trees[id].replaces
  BY <1>1 DEF HalfImported
<1>7. Existence
  <2>1. \A t \in Txid : treeMap[t] # None =>
           treeMap[t] \in Txid /\ stored.trees[treeMap[t]] # None
    BY <1>3 DEF HalfImported, StoredForest, TypeOK, Map
  <2> QED BY <1>6, <2>1 DEF Existence
<1>8. TreesMatchMaps
  <2>1. \A id \in Txid : stored.trees[id] # None =>
           /\ treeMap[id] = id
           /\ stored.trees[id].txs = Members(id)
           /\ \A t \in Txid : stored.trees[id].replaces[t] =
                 IF t \in Members(id) THEN replaces[t] ELSE {}
    BY <1>3, <1>4 DEF HalfImported, StoredForest
  <2> QED BY <1>6, <2>1 DEF TreesMatchMaps
<1>9. ReachedFromRoot
  BY <1>3 DEF HalfImported, StoredReached, ReachedFromRoot, Versions,
              ClosedUnderReplaces
<1>10. Consistent'
  <2>1. ReachedFromRoot' /\ TreesMatchMaps'
    BY <1>1, <1>8, <1>9 DEF ReachedFromRoot, Versions, ClosedUnderReplaces,
                            TreesMatchMaps, Members
  <2>2. Symmetry' /\ UniqueId' /\ UniqueTree' /\ Completeness' /\ RootsAreNewest'
        /\ Existence'
    BY <1>1, <1>5, <1>7 DEF Symmetry, UniqueId, UniqueTree, Completeness,
                            RootsAreNewest, Existence
  <2>3. NothingLeaks'
    BY <1>1, <1>5 DEF NothingLeaks
  <2> QED BY <2>1, <2>2, <2>3 DEF Consistent
<1> QED BY <1>2, <1>10

\* What a step of the loaded cache does is a step of the running one, or marks
\* a tree, or sets expiry times.
LEMMA LoadedStepKeepsIntact ==
  ASSUME TypeOK, LoadTypeOK, Consistent,
         phase = "connect" => \A t \in Txid : conflicts[t] \subseteq txs,
         \/ Running \/ StartCheck \/ FinishCheck
         \/ \E t \in Txid : \/ Connect(t) \/ CheckConfirmed(t)
                            \/ CheckUnconfirmed(t) \/ CheckMissing(t)
         \/ \E due \in SUBSET expiring : CleanupDuringCheck(due)
  PROVE  /\ TypeOK' /\ LoadTypeOK' /\ Consistent' /\ phase' # "import"
         /\ phase' = "connect" => \A t \in Txid : conflicts'[t] \subseteq txs'
<1>1. CASE Running
  <2>1. Next /\ UNCHANGED loadVars /\ phase = "run"
    BY <1>1 DEF Running
  <2>2. TypeOK' /\ Consistent'
    BY <2>1, NextKeepsType, NextKeepsConsistent
  <2> QED BY <2>1, <2>2 DEF loadVars, LoadTypeOK
<1>2. CASE StartCheck
  <2>1. UNCHANGED <<vars, mempool, conflicts>> /\ phase' = "check" /\ notFound' = {}
        /\ unchecked' \subseteq txs
    BY <1>2 DEF StartCheck
  <2>2. TypeOK' /\ Consistent'
    BY <2>1, NextKeepsType, NextKeepsConsistent
  <2> QED BY <2>1, <2>2 DEF LoadTypeOK, TypeOK
<1>3. CASE FinishCheck
  <2>1. /\ expiring' = expiring \cup (notFound \cap txs)
        /\ phase' = "run" /\ notFound' = {}
        /\ UNCHANGED <<replacedBy, replaces, rbfTrees, dirtyTrees, treeMap, txs,
                       published, mempool, conflicts, unchecked>>
    BY <1>3 DEF FinishCheck
  <2>2. expiring' \subseteq txs
    BY <2>1 DEF Consistent, NothingLeaks
  <2>3. Consistent'
    BY <2>1, <2>2, SameForestStaysConsistent
  <2> QED BY <2>1, <2>2, <2>3 DEF TypeOK, LoadTypeOK
<1>4. ASSUME NEW t \in Txid, Connect(t)
      PROVE  /\ TypeOK' /\ LoadTypeOK' /\ Consistent' /\ phase' # "import"
             /\ phase' = "connect" => \A u \in Txid : conflicts'[u] \subseteq txs'
  <2>1. /\ phase = "connect" /\ phase' = phase
        /\ conflicts' = [conflicts EXCEPT ![t] = {}]
        /\ UNCHANGED <<mempool, unchecked, notFound>>
        /\ Add(conflicts[t], t) \/ UNCHANGED vars
    BY <1>4 DEF Connect
  <2>2. \A u \in Txid : conflicts[u] \subseteq txs /\ conflicts[u] \subseteq Txid
    BY <2>1 DEF LoadTypeOK
  <2>3. TypeOK' /\ Consistent' /\ txs \subseteq txs'
    <3>1. CASE Add(conflicts[t], t)
      <4>1. t \notin conflicts[t] /\ txs \subseteq txs'
        BY <2>2, <3>1 DEF Add
      <4>2. conflicts[t] \in SUBSET (Txid \ {t})
        BY <2>2, <4>1
      <4>3. Next
        BY <3>1, <4>2 DEF Next
      <4> QED BY <4>1, <4>3, NextKeepsType, NextKeepsConsistent
    <3>2. CASE UNCHANGED vars
      <4>1. txs' = txs
        BY <3>2 DEF vars
      <4> QED BY <3>2, <4>1, NextKeepsType, NextKeepsConsistent
    <3> QED BY <2>1, <3>1, <3>2
  <2> QED BY <2>1, <2>2, <2>3 DEF LoadTypeOK
<1>5. ASSUME NEW t \in Txid, CheckConfirmed(t)
      PROVE  TypeOK' /\ LoadTypeOK' /\ Consistent' /\ phase' = "check"
  <2>1. /\ phase = "check"
        /\ rbfTrees' = [id \in Txid |-> IF id \in TreeOf(t)
                                        THEN MinedTree(rbfTrees[id], t)
                                        ELSE rbfTrees[id]]
        /\ expiring' \subseteq expiring \cup ({t} \cap txs)
        /\ unchecked' = unchecked \ {t}
        /\ UNCHANGED <<replacedBy, replaces, dirtyTrees, treeMap, txs, published,
                       phase, mempool, conflicts, notFound>>
    BY <1>5 DEF CheckConfirmed
  <2>2. expiring' \subseteq txs
    BY <2>1 DEF Consistent, NothingLeaks
  <2>3. Consistent'
    BY <2>1, <2>2, MarkingKeepsConsistent
  <2>4. \A id \in TreeOf(t) : MinedTree(rbfTrees[id], t) \in RbfTree
    BY MinedTreeType DEF TreeOf, TypeOK
  <2>5. TypeOK'
    BY <2>1, <2>2, <2>4 DEF TypeOK
  <2> QED BY <2>1, <2>3, <2>5 DEF LoadTypeOK
<1>6. ASSUME NEW t \in Txid, CheckUnconfirmed(t) \/ CheckMissing(t)
      PROVE  TypeOK' /\ LoadTypeOK' /\ Consistent' /\ phase' = "check"
  <2>1. /\ UNCHANGED <<vars, phase, mempool, conflicts>> /\ phase = "check"
        /\ unchecked' \subseteq unchecked /\ notFound' \subseteq notFound \cup {t}
    BY <1>6 DEF CheckUnconfirmed, CheckMissing
  <2>2. TypeOK' /\ Consistent'
    BY <2>1, NextKeepsType, NextKeepsConsistent
  <2> QED BY <2>1, <2>2 DEF LoadTypeOK
<1>7. ASSUME NEW due \in SUBSET expiring, CleanupDuringCheck(due)
      PROVE  TypeOK' /\ LoadTypeOK' /\ Consistent' /\ phase' = "check"
  <2>1. Next /\ UNCHANGED loadVars /\ phase = "check"
    BY <1>7 DEF CleanupDuringCheck, Next
  <2>2. TypeOK' /\ Consistent'
    BY <2>1, NextKeepsType, NextKeepsConsistent
  <2> QED BY <2>1, <2>2 DEF loadVars, LoadTypeOK
<1> QED BY <1>1, <1>2, <1>3, <1>4, <1>5, <1>6, <1>7

(***************************************************************************)
(* The theorems                                                            *)
(***************************************************************************)

\* Restarts from complete copies, with whatever happens between the answers of
\* checkTrees, leave a consistent cache once the trees are read back.
THEOREM AlwaysIntact == RestartSpec => []Intact
<1>1. RestartInit => Intact
  <2> SUFFICES ASSUME RestartInit
               PROVE  TypeOK /\ LoadTypeOK /\ Consistent /\ phase = "run"
    BY DEF Intact
  <2>1. Init /\ phase = "run" /\ LoadTypeOK
    BY DEF RestartInit, LoadTypeOK, NoConflicts
  <2>2. TypeOK
    BY <2>1 DEF Init, TypeOK, Empty, Map
  <2>3. Consistent
    BY <2>1, ConstantsAssumption
       DEF Init, Empty, Consistent, Symmetry, UniqueId, UniqueTree, Existence,
           Completeness, TreesMatchMaps, Members, ReachedFromRoot,
           RootsAreNewest, NothingLeaks
  <2> QED BY <2>1, <2>2, <2>3
<1>2. Intact /\ [RestartNext]_allVars => Intact'
  <2> SUFFICES ASSUME Intact, [RestartNext]_allVars, intact'
               PROVE  Intact'
    BY DEF Intact
  <2>1. CASE UNCHANGED allVars
    <3>1. UNCHANGED vars /\ UNCHANGED loadVars
      BY <2>1 DEF allVars
    <3> QED BY <3>1 DEF vars, loadVars, Intact, TypeOK, LoadTypeOK, HalfImported,
                 StoredForest, StoredReached, StoredMembers, Imported, Copy,
                 Consistent, Symmetry, UniqueId, UniqueTree, Existence, Completeness,
                 TreesMatchMaps, Members, ReachedFromRoot, Versions,
                 ClosedUnderReplaces, RootsAreNewest, NothingLeaks
  <2>2. ASSUME NEW lost \in SUBSET txs, NEW stale \in SUBSET txs,
               NEW lostTrees \in SUBSET TreeIds, NEW lostExpiries \in SUBSET expiring,
               Restart(lost, lostTrees, lostExpiries, stale)
        PROVE  Intact'
    <3>1. /\ intact /\ phase = "run" /\ phase' = "import"
          /\ lost = {} /\ lostTrees = {} /\ lostExpiries = {} /\ stale = {}
      BY <2>2 DEF Restart
    <3>2. TypeOK' /\ LoadTypeOK' /\ HalfImported'
      BY <2>2, <3>1, RestartKeepsIntact DEF Intact
    <3> QED BY <3>1, <3>2 DEF Intact
  <2>3. ASSUME NEW id \in Txid, ImportTree(id)
        PROVE  Intact'
    <3>1. intact /\ phase = "import" /\ phase' = "import"
      BY <2>3 DEF ImportTree
    <3>2. TypeOK' /\ LoadTypeOK' /\ HalfImported'
      BY <2>3, <3>1, ImportTreeKeepsIntact DEF Intact
    <3> QED BY <3>1, <3>2 DEF Intact
  <2>4. CASE RestoreExpiring
    <3>1. intact /\ phase = "import" /\ phase' = "connect"
      BY <2>4 DEF RestoreExpiring
    <3> QED BY <2>4, <3>1, RestoreExpiringKeepsIntact DEF Intact
  <2>5. CASE \/ Running \/ StartCheck \/ FinishCheck
             \/ \E t \in Txid : \/ Connect(t) \/ CheckConfirmed(t)
                                \/ CheckUnconfirmed(t) \/ CheckMissing(t)
             \/ \E due \in SUBSET expiring : CleanupDuringCheck(due)
    <3>1. intact /\ phase # "import"
      BY <2>5 DEF Running, StartCheck, FinishCheck, Connect, CheckConfirmed,
                  CheckUnconfirmed, CheckMissing, CleanupDuringCheck, loadVars
    <3> QED BY <2>5, <3>1, LoadedStepKeepsIntact DEF Intact
  <2> QED BY <2>1, <2>2, <2>3, <2>4, <2>5 DEF RestartNext
<1> QED BY <1>1, <1>2, PTL DEF RestartSpec

\* The documented invariants survive a restart, and so does the agreement of
\* the trees with the maps made from them (rbf-cache.ts:400-448).
THEOREM RestartUpholdsInvariants == RestartSpec => []InvariantsAfterRestart
<1>1. Intact => InvariantsAfterRestart
  BY DEF Intact, InvariantsAfterRestart, Consistent, DocumentedInvariants, ViewsAgree
<1> QED BY <1>1, AlwaysIntact, PTL

\* The maps that dump does not write come back as they were.
THEOREM HistorySurvives == RestartSpec => RestartKeepsHistory
<1>1. Intact /\ [RestartNext]_allVars =>
        [intact /\ phase = "import" /\ phase' = "connect" =>
           /\ replacedBy' = stored.replacedBy
           /\ replaces' = stored.replaces
           /\ treeMap' = stored.treeMap
           /\ txs' = stored.txs
           /\ expiring' = stored.expiring]_allVars
  <2> SUFFICES ASSUME Intact, RestartNext, intact, phase = "import", phase' = "connect"
               PROVE  /\ replacedBy' = stored.replacedBy
                      /\ replaces' = stored.replaces
                      /\ treeMap' = stored.treeMap
                      /\ txs' = stored.txs
                      /\ expiring' = stored.expiring
    OBVIOUS
  <2>1. RestoreExpiring
    BY DEF RestartNext, Running, Restart, ImportTree, Connect, StartCheck,
           CheckConfirmed, CheckUnconfirmed, CheckMissing, CleanupDuringCheck,
           FinishCheck
  <2>2. /\ toImport = {} /\ expiring' = stored.expiring \cap txs
        /\ UNCHANGED <<replacedBy, replaces, treeMap, txs>>
    BY <2>1 DEF RestoreExpiring
  <2>3. TypeOK /\ HalfImported
    BY DEF Intact
  <2>4. /\ replacedBy = stored.replacedBy
        /\ replaces = stored.replaces
        /\ treeMap = stored.treeMap
    BY <2>2, <2>3, AllImported
  <2>5. txs = stored.txs /\ stored.expiring \subseteq stored.txs
    BY <2>3 DEF HalfImported, StoredForest
  <2> QED BY <2>2, <2>4, <2>5
<1> QED BY <1>1, AlwaysIntact, PTL DEF RestartSpec, RestartKeepsHistory

(***************************************************************************)
(* Restarts from incomplete copies                                         *)
(***************************************************************************)

\* What remains when entries were lost or are stale. A transaction that was not
\* read back may still have links, so that neither the maps are inverse nor the
\* links stay in one tree; but nobody replaces what a served tree has below its
\* root from outside of it, and replacedBy tells of every link.
Served ==
    /\ \A t \in Txid : treeMap[t] # None =>
          /\ treeMap[treeMap[t]] = treeMap[t]
          /\ rbfTrees[treeMap[t]] # None
          /\ t \in txs
          /\ treeMap[t] # t => replacedBy[t] # None
    /\ \A t \in Txid : replacedBy[t] # None => t \in txs
    /\ \A u \in Txid : \A t \in replaces[u] : replacedBy[t] = u
    /\ \A id \in Txid : rbfTrees[id] # None =>
          /\ treeMap[id] = id
          /\ rbfTrees[id].txs = Members(id)
          /\ \A u \in Txid : rbfTrees[id].replaces[u]
                                \subseteq (Members(id) \ {id}) \cap replaces[u]
          /\ \A S \in SUBSET Txid :
                id \in S /\ (\A u \in S : rbfTrees[id].replaces[u] \subseteq S)
                => Members(id) \subseteq S

\* The trees to import are parts of one forest, and so is what was imported.
SalvagedCopy ==
    /\ stored \in Copy
    /\ \A id \in toImport :
          /\ id \in Txid /\ stored.trees[id] # None
          /\ \A u \in Txid : \A t \in stored.trees[id].replaces[u] :
                t # id /\ stored.replacedBy[t] = u
    /\ \A u \in Txid : \A t \in replaces[u] : stored.replacedBy[t] = u

ServedInv ==
    /\ TypeOK /\ LoadTypeOK /\ Served
    /\ phase = "import" => SalvagedCopy
    /\ phase = "connect" => \A t \in Txid : conflicts[t] \subseteq txs

\* Below its root every member of a served tree has one parent, in the tree.
LEMMA TreeParent ==
  ASSUME TypeOK, Served, NEW id \in Txid, rbfTrees[id] # None,
         NEW t \in Members(id), t # id
  PROVE  /\ t \in Txid /\ replacedBy[t] \in Members(id)
         /\ t \in replaces[replacedBy[t]]
<1> DEFINE S == Members(id) \ {t}
<1>1. Members(id) \subseteq Txid /\ id \in S
  BY DEF Members, Served
<1>2. PICK u \in S : ~(rbfTrees[id].replaces[u] \subseteq S)
  <2>1. S \in SUBSET Txid /\ ~(Members(id) \subseteq S)
    BY <1>1
  <2> HIDE DEF S
  <2> QED BY <1>1, <2>1 DEF Served
<1>3. u \in Txid /\ u \in Members(id) /\ t \in rbfTrees[id].replaces[u]
  BY <1>1, <1>2 DEF Served
<1>4. t \in replaces[u]
  BY <1>3 DEF Served
<1> QED BY <1>1, <1>3, <1>4 DEF Served

LEMMA VersionsClosed ==
  ASSUME TypeOK, NEW x \in Txid
  PROVE  /\ x \in Versions(x) /\ Versions(x) \subseteq Txid
         /\ \A u \in Versions(x) : replaces[u] \subseteq Versions(x)
         /\ \A S \in SUBSET Txid : x \in S /\ (\A u \in S : replaces[u] \subseteq S)
               => Versions(x) \subseteq S
BY DEF Versions, ClosedUnderReplaces, TypeOK

\* What remove visits from a newest version is whole trees, and is not replaced by
\* anything else.
LEMMA VersionsWhole ==
  ASSUME TypeOK, Served, NEW x \in Txid, replacedBy[x] = None
  PROVE  /\ \A t \in Versions(x) : treeMap[t] # None =>
               Members(treeMap[t]) \subseteq Versions(x)
         /\ \A u \in Txid : \A t \in replaces[u] : t \in Versions(x) => u \in Versions(x)
<1> DEFINE V == Versions(x)
<1>1. /\ x \in V /\ V \subseteq Txid
      /\ \A u \in V : replaces[u] \subseteq V
      /\ \A S \in SUBSET Txid : x \in S /\ (\A u \in S : replaces[u] \subseteq S)
            => V \subseteq S
  BY VersionsClosed
<1> HIDE DEF V
<1>2. ASSUME NEW u \in Txid, NEW t \in replaces[u], t \in V
      PROVE  u \in V
  <2>1. t # x /\ replacedBy[t] = u
    BY <1>2, ConstantsAssumption DEF Served
  <2> DEFINE S == V \ {t}
  <2>2. S \in SUBSET Txid /\ x \in S /\ ~(V \subseteq S)
    BY <1>1, <1>2, <2>1
  <2>3. PICK v \in S : ~(replaces[v] \subseteq S)
    <3> HIDE DEF S
    <3> QED BY <1>1, <2>2
  <2>4. v \in V /\ v \in Txid /\ t \in replaces[v]
    BY <1>1, <2>3
  <2>5. replacedBy[t] = v
    BY <2>4 DEF Served
  <2> QED BY <2>1, <2>4, <2>5
<1>3. \A t \in V : treeMap[t] # None => treeMap[t] \in V
  <2> DEFINE S == {t \in V : treeMap[t] # None => treeMap[t] \in V}
  <2>1. S \in SUBSET Txid /\ x \in S
    BY <1>1 DEF Served
  <2>2. ASSUME NEW u \in S, NEW t \in replaces[u]
        PROVE  t \in S
    <3>1. u \in V /\ u \in Txid /\ t \in V /\ t \in Txid /\ replacedBy[t] = u
      BY <1>1 DEF Served
    <3>2. ASSUME treeMap[t] # None, treeMap[t] # t
          PROVE  treeMap[t] \in V
      <4>1. treeMap[t] \in Txid /\ rbfTrees[treeMap[t]] # None /\ t \in Members(treeMap[t])
        BY <3>1, <3>2 DEF TypeOK, Map, Served, Members
      <4>2. u \in Members(treeMap[t])
        BY <3>1, <3>2, <4>1, TreeParent
      <4>3. treeMap[u] = treeMap[t]
        BY <4>2 DEF Members
      <4> QED BY <3>2, <4>3
    <3> QED BY <3>1, <3>2
  <2>3. \A u \in S : replaces[u] \subseteq S
    BY <2>2
  <2>4. V \subseteq S
    <3> HIDE DEF S
    <3> QED BY <1>1, <2>1, <2>3
  <2> QED BY <2>4
<1>4. ASSUME NEW t \in V, treeMap[t] # None
      PROVE  Members(treeMap[t]) \subseteq V
  <2> DEFINE r == treeMap[t]
  <2>1. r \in V /\ r \in Txid /\ rbfTrees[r] # None
    BY <1>1, <1>3, <1>4 DEF Served
  <2> HIDE DEF r
  <2>2. \A u \in V : rbfTrees[r].replaces[u] \subseteq V
    BY <1>1, <2>1 DEF Served
  <2>3. Members(r) \subseteq V
    BY <1>1, <2>1, <2>2 DEF Served
  <2> QED BY <2>3 DEF r
<1> QED BY <1>2, <1>4 DEF V

LEMMA CleanupKeepsServed ==
  ASSUME TypeOK, Served, NEW due \in SUBSET Txid, Cleanup(due)
  PROVE  Served'
<1> DEFINE gone == Doomed(due)
<1>1. \A t \in gone : \E x \in Txid : replacedBy[x] = None /\ t \in Versions(x)
                                      /\ Versions(x) \subseteq gone
  BY DEF Doomed, OverdueRoots
<1>2. \A t \in gone : treeMap[t] # None => Members(treeMap[t]) \subseteq gone
  BY <1>1, VersionsWhole
<1>3. \A u \in Txid : \A t \in replaces[u] : t \in gone => u \in gone
  BY <1>1, VersionsWhole
<1>4. /\ \A t \in Txid : replacedBy'[t] = IF t \in gone THEN None ELSE replacedBy[t]
      /\ \A t \in Txid : replaces'[t] = IF t \in gone THEN {} ELSE replaces[t]
      /\ \A t \in Txid : treeMap'[t] = IF t \in gone THEN None ELSE treeMap[t]
      /\ \A t \in Txid : rbfTrees'[t] = IF t \in gone /\ treeMap[t] = t
                                        THEN None ELSE rbfTrees[t]
      /\ txs' = txs \ gone
  BY DEF Cleanup
<1> HIDE DEF gone
<1>5. \A t \in Txid : t \notin gone /\ treeMap[t] # None =>
         treeMap[t] \in Txid /\ treeMap[t] \notin gone
  <2> SUFFICES ASSUME NEW t \in Txid, t \notin gone, treeMap[t] # None
               PROVE  treeMap[t] \in Txid /\ treeMap[t] \notin gone
    OBVIOUS
  <2>1. treeMap[t] \in Txid /\ treeMap[treeMap[t]] = treeMap[t]
    BY DEF TypeOK, Map, Served
  <2>2. t \in Members(treeMap[t])
    BY DEF Members
  <2> QED BY <1>2, <2>1, <2>2
<1>6. \A id \in Txid : rbfTrees'[id] # None =>
         id \notin gone /\ rbfTrees'[id] = rbfTrees[id] /\ Members(id)' = Members(id)
  <2> SUFFICES ASSUME NEW id \in Txid, rbfTrees'[id] # None
               PROVE  id \notin gone /\ rbfTrees'[id] = rbfTrees[id]
                      /\ Members(id)' = Members(id)
    OBVIOUS
  <2>1. rbfTrees'[id] = rbfTrees[id] /\ treeMap[id] = id /\ id \notin gone
    BY <1>4 DEF Served
  <2>2. \A t \in Members(id) : t \notin gone
    BY <1>2, <2>1, ConstantsAssumption DEF Members
  <2> QED BY <1>4, <2>1, <2>2, ConstantsAssumption DEF Members
<1>7. \A t \in Txid : treeMap'[t] # None =>
         /\ treeMap'[treeMap'[t]] = treeMap'[t] /\ rbfTrees'[treeMap'[t]] # None
         /\ t \in txs' /\ (treeMap'[t] # t => replacedBy'[t] # None)
  BY <1>4, <1>5 DEF Served
<1>8. /\ \A t \in Txid : replacedBy'[t] # None => t \in txs'
      /\ \A u \in Txid : \A t \in replaces'[u] : replacedBy'[t] = u
  BY <1>3, <1>4 DEF Served, TypeOK
<1>9. ASSUME NEW id \in Txid, rbfTrees'[id] # None
      PROVE  /\ treeMap'[id] = id /\ rbfTrees'[id].txs = Members(id)'
             /\ \A u \in Txid : rbfTrees'[id].replaces[u]
                                   \subseteq (Members(id)' \ {id}) \cap replaces'[u]
             /\ \A S \in SUBSET Txid :
                   id \in S /\ (\A u \in S : rbfTrees'[id].replaces[u] \subseteq S)
                   => Members(id)' \subseteq S
  <2>1. id \notin gone /\ rbfTrees'[id] = rbfTrees[id] /\ Members(id)' = Members(id)
    BY <1>6, <1>9
  <2>2. rbfTrees[id] # None
    BY <1>9, <2>1
  <2>3. \A u \in Txid : rbfTrees[id].replaces[u] \subseteq replaces'[u]
    <3> SUFFICES ASSUME NEW u \in Txid, NEW t \in rbfTrees[id].replaces[u]
                 PROVE  t \in replaces'[u]
      OBVIOUS
    <3>1. t \in Members(id) /\ t \in replaces[u] /\ t # id
      BY <2>2 DEF Served
    <3>2. u \in Members(id)
      BY <2>2, <3>1, TreeParent DEF Served
    <3>3. u \notin gone
      BY <1>4, <2>1, <3>2, ConstantsAssumption DEF Members
    <3> QED BY <1>4, <3>1, <3>3
  <2> QED BY <1>4, <2>1, <2>2, <2>3 DEF Served
<1> QED BY <1>7, <1>8, <1>9 DEF Served

\* Marks on the trees and expiry times do not matter.
LEMMA SameTreesStayServed ==
  ASSUME TypeOK, Served, UNCHANGED <<replacedBy, replaces, treeMap, txs>>,
         \A id \in Txid :
            /\ rbfTrees'[id] = None <=> rbfTrees[id] = None
            /\ rbfTrees[id] # None =>
                  /\ rbfTrees'[id].txs = rbfTrees[id].txs
                  /\ rbfTrees'[id].replaces = rbfTrees[id].replaces
  PROVE  Served'
<1>1. \A id \in Txid : Members(id)' = Members(id)
  BY DEF Members
<1>2. \A t \in Txid : treeMap[t] # None => treeMap[t] \in Txid
  BY DEF TypeOK, Map
<1> QED BY <1>1, <1>2 DEF Served

LEMMA MarkingKeepsServed ==
  ASSUME TypeOK, Served, NEW txid \in Txid,
         rbfTrees' = [id \in Txid |-> IF id \in TreeOf(txid)
                                     THEN MinedTree(rbfTrees[id], txid)
                                     ELSE rbfTrees[id]],
         UNCHANGED <<replacedBy, replaces, treeMap, txs>>
  PROVE  Served'
<1>1. ASSUME NEW id \in Txid
      PROVE  /\ rbfTrees'[id] = None <=> rbfTrees[id] = None
             /\ rbfTrees[id] # None =>
                  /\ rbfTrees'[id].txs = rbfTrees[id].txs
                  /\ rbfTrees'[id].replaces = rbfTrees[id].replaces
  <2>1. CASE id \in TreeOf(txid)
    <3>1. rbfTrees[id] \in RbfTree /\ rbfTrees[id] # None
      BY <2>1 DEF TreeOf, TypeOK
    <3>2. rbfTrees'[id] = MinedTree(rbfTrees[id], txid)
      BY <2>1
    <3>3. MinedTree(rbfTrees[id], txid) # None
      BY <3>1, MinedTreeType, ConstantsAssumption
    <3>4. /\ MinedTree(rbfTrees[id], txid).txs = rbfTrees[id].txs
          /\ MinedTree(rbfTrees[id], txid).replaces = rbfTrees[id].replaces
      BY <3>1, MinedTreeType, Zenon
    <3> QED BY <3>1, <3>2, <3>3, <3>4
  <2>2. CASE id \notin TreeOf(txid)
    BY <2>2
  <2> QED BY <2>1, <2>2
<1> QED BY <1>1, SameTreesStayServed

LEMMA AddKeepsServed ==
  ASSUME TypeOK, Served, NEW newTx \in Txid, NEW replaced \in SUBSET (Txid \ {newTx}),
         Add(replaced, newTx)
  PROVE  Served'
<1> DEFINE F == FirstReplaced(replaced)
           old == OldRoots(replaced)
           tree == NewTree(replaced, newTx)
           N == {t \in Txid : t = newTx \/ t \in F \/ treeMap[t] \in old}
<1>1. /\ F \subseteq Txid \ {newTx} /\ newTx \notin txs
      /\ \A t \in F : replacedBy[t] = None
  BY DEF FirstReplaced, Add
<1>2. treeMap[newTx] = None /\ \A t \in Txid : treeMap[t] # newTx
  BY <1>1, ConstantsAssumption DEF Served
<1>3. \A t \in F : treeMap[t] \in {t, None}
  BY <1>1 DEF Served
<1>4. /\ OldTreeIds(replaced) = old
      /\ old = {t \in F : treeMap[t] = t}
      /\ NewLeaves(replaced) = {t \in F : treeMap[t] = None}
      /\ \A id \in old : id \in Txid /\ id # newTx /\ rbfTrees[id] # None /\ id \in F
  <2>1. OldTreeIds(replaced) = {t \in F : treeMap[t] = t}
    BY <1>1, <1>3, ConstantsAssumption DEF OldTreeIds
  <2>2. \A t \in F : treeMap[t] = t => rbfTrees[t] # None
    BY <1>1, ConstantsAssumption DEF Served
  <2> QED BY <1>1, <2>1, <2>2 DEF OldRoots, NewLeaves
<1>5. Children(replaced) = F
  BY <1>3, <1>4 DEF Children
<1>6. tree.txs = N
  <2>1. tree.txs = {newTx} \cup NewLeaves(replaced) \cup UNION {rbfTrees[id].txs : id \in old}
    BY DEF NewTree
  <2>2. \A id \in old : rbfTrees[id].txs = Members(id)
    BY <1>4 DEF Served
  <2>3. UNION {rbfTrees[id].txs : id \in old} = {t \in Txid : treeMap[t] \in old}
    BY <2>2 DEF Members
  <2>4. \A t \in F : t \in NewLeaves(replaced) \/ treeMap[t] \in old
    BY <1>3, <1>4
  <2> HIDE DEF tree, old, F
  <2> QED BY <1>1, <1>4, <2>1, <2>3, <2>4
<1>7. \A t \in Txid : tree.replaces[t] = IF t = newTx THEN F
                                         ELSE UNION {rbfTrees[id].replaces[t] : id \in old}
  BY <1>5 DEF NewTree
<1>8. tree # None
  BY NewTreeType, ConstantsAssumption
<1>9. /\ \A t \in Txid : rbfTrees'[t] = IF t = newTx THEN tree
                                        ELSE IF t \in old THEN None ELSE rbfTrees[t]
      /\ \A t \in Txid : treeMap'[t] = IF t \in N THEN newTx ELSE treeMap[t]
      /\ \A t \in Txid : replacedBy'[t] = IF t \in F THEN newTx ELSE replacedBy[t]
      /\ \A t \in Txid : replaces'[t] = IF t = newTx THEN F ELSE replaces[t]
      /\ txs' = txs \cup {newTx} \cup NewLeaves(replaced)
  <2> HIDE DEF F, old, tree, N
  <2>1. /\ rbfTrees' = [t \in Txid |-> IF t = newTx THEN tree
                                     ELSE IF t \in OldTreeIds(replaced) THEN None
                                     ELSE rbfTrees[t]]
        /\ treeMap' = [t \in Txid |-> IF t \in tree.txs THEN newTx ELSE treeMap[t]]
        /\ replacedBy' = [t \in Txid |-> IF t \in F THEN newTx ELSE replacedBy[t]]
        /\ replaces' = [replaces EXCEPT ![newTx] = Children(replaced)]
        /\ txs' = txs \cup {newTx} \cup NewLeaves(replaced)
    BY DEF Add, tree, F
  <2> QED BY <1>4, <1>5, <1>6, <2>1 DEF TypeOK
<1> HIDE DEF F, old, tree
<1>10. \A t \in Txid : treeMap[t] # None /\ t \notin N =>
          treeMap[t] \in Txid /\ treeMap[t] \notin N /\ treeMap[t] \notin old
  BY <1>2, <1>3, <1>4, ConstantsAssumption DEF TypeOK, Map, Served
<1>11. \A t \in N : t \in txs'
  BY <1>3, <1>4, <1>9, ConstantsAssumption DEF Served
<1>12. \A t \in N \ {newTx} : replacedBy'[t] # None
  <2> SUFFICES ASSUME NEW t \in N, t # newTx, t \notin F
               PROVE  replacedBy'[t] # None
    BY <1>9, ConstantsAssumption
  <2>1. treeMap[t] \in old /\ t \notin old
    BY <1>4
  <2>2. treeMap[t] # None /\ treeMap[t] # t
    BY <1>4, <2>1, ConstantsAssumption
  <2> QED BY <1>9, <2>2 DEF Served
<1>13. \A t \in Txid : treeMap'[t] # None =>
          /\ treeMap'[treeMap'[t]] = treeMap'[t] /\ rbfTrees'[treeMap'[t]] # None
          /\ t \in txs' /\ (treeMap'[t] # t => replacedBy'[t] # None)
  <2> SUFFICES ASSUME NEW t \in Txid, treeMap'[t] # None
               PROVE  /\ treeMap'[treeMap'[t]] = treeMap'[t]
                      /\ rbfTrees'[treeMap'[t]] # None
                      /\ t \in txs' /\ (treeMap'[t] # t => replacedBy'[t] # None)
    OBVIOUS
  <2>1. CASE t \in N
    BY <2>1, <1>8, <1>9, <1>11, <1>12
  <2>2. CASE t \notin N
    <3>1. treeMap'[t] = treeMap[t] /\ treeMap[t] # newTx
      BY <2>2, <1>2, <1>9
    <3>2. treeMap[t] \in Txid /\ treeMap[t] \notin N /\ treeMap[t] \notin old
      BY <2>2, <3>1, <1>10
    <3>3. treeMap[treeMap[t]] = treeMap[t] /\ rbfTrees[treeMap[t]] # None /\ t \in txs
          /\ (treeMap[t] # t => replacedBy[t] # None)
      BY <3>1 DEF Served
    <3> HIDE DEF N
    <3> QED BY <3>1, <3>2, <3>3, <1>9, ConstantsAssumption
  <2> QED BY <2>1, <2>2
<1>14. \A t \in Txid : replacedBy'[t] # None => t \in txs'
  <2>1. \A t \in F : t \in N
    BY <1>1
  <2> HIDE DEF N
  <2> QED BY <2>1, <1>9, <1>11 DEF Served
<1>15. \A u \in Txid : \A t \in replaces'[u] : replacedBy'[t] = u
  <2> SUFFICES ASSUME NEW u \in Txid, NEW t \in replaces'[u]
               PROVE  replacedBy'[t] = u
    OBVIOUS
  <2>1. CASE u = newTx
    BY <2>1, <1>1, <1>9
  <2>2. CASE u # newTx
    <3>1. t \in replaces[u] /\ t \in Txid
      BY <2>2, <1>9 DEF TypeOK
    <3>2. replacedBy[t] = u
      BY <3>1 DEF Served
    <3>3. t \notin F
      BY <3>2, <1>1, ConstantsAssumption
    <3> QED BY <3>1, <3>2, <3>3, <1>9
  <2> QED BY <2>1, <2>2
<1>16. Members(newTx)' = N
  BY <1>2, <1>9 DEF Members
<1>17. ASSUME NEW S \in SUBSET Txid, newTx \in S, \A u \in S : tree.replaces[u] \subseteq S
       PROVE  N \subseteq S
  <2>1. F \subseteq S
    BY <1>7, <1>17
  <2>2. ASSUME NEW id \in old
        PROVE  Members(id) \subseteq S
    <3>1. id \in S /\ rbfTrees[id] # None /\ id \in Txid
      BY <2>1, <1>4
    <3> DEFINE T == S \ {newTx}
    <3>2. id \in T /\ T \in SUBSET Txid
      BY <3>1, <1>4
    <3>3. \A u \in T : rbfTrees[id].replaces[u] \subseteq S
      BY <1>7, <1>17
    <3>4. \A u \in Txid : newTx \notin rbfTrees[id].replaces[u]
      <4>1. \A u \in Txid : rbfTrees[id].replaces[u] \subseteq Members(id)
        BY <3>1 DEF Served
      <4>2. newTx \notin Members(id)
        BY <1>2, <3>1, ConstantsAssumption DEF Members
      <4> QED BY <4>1, <4>2
    <3>5. \A u \in T : rbfTrees[id].replaces[u] \subseteq T
      BY <3>3, <3>4
    <3> HIDE DEF T
    <3>6. Members(id) \subseteq T
      BY <3>1, <3>2, <3>5 DEF Served
    <3> QED BY <3>6 DEF T
  <2> QED BY <1>17, <2>1, <2>2 DEF Members
<1>18. \A u \in Txid : tree.replaces[u] \subseteq (N \ {newTx}) \cap replaces'[u]
  <2> SUFFICES ASSUME NEW u \in Txid, NEW t \in tree.replaces[u]
               PROVE  t \in N /\ t # newTx /\ t \in replaces'[u]
    OBVIOUS
  <2>1. CASE u = newTx
    BY <2>1, <1>1, <1>7, <1>9
  <2>2. CASE u # newTx
    <3>0. t \in UNION {rbfTrees[id].replaces[u] : id \in old}
      BY <2>2, <1>7
    <3>1. PICK id \in old : t \in rbfTrees[id].replaces[u]
      BY <3>0
    <3>2. t \in Members(id) /\ t \in replaces[u]
      BY <3>1, <1>4 DEF Served
    <3>3. treeMap[t] \in old /\ t \in Txid
      BY <3>2 DEF Members
    <3>4. t # newTx
      BY <3>3, <1>2, <1>4, ConstantsAssumption
    <3> QED BY <2>2, <3>2, <3>3, <3>4, <1>9
  <2> QED BY <2>1, <2>2
<1>19. ASSUME NEW id \in Txid, rbfTrees'[id] # None
       PROVE  /\ treeMap'[id] = id /\ rbfTrees'[id].txs = Members(id)'
              /\ \A u \in Txid : rbfTrees'[id].replaces[u]
                                    \subseteq (Members(id)' \ {id}) \cap replaces'[u]
              /\ \A S \in SUBSET Txid :
                    id \in S /\ (\A u \in S : rbfTrees'[id].replaces[u] \subseteq S)
                    => Members(id)' \subseteq S
  <2>1. CASE id = newTx
    <3>1. rbfTrees'[id] = tree /\ treeMap'[id] = id
      BY <2>1, <1>9
    <3> HIDE DEF N
    <3> QED BY <2>1, <3>1, <1>6, <1>16, <1>17, <1>18
  <2>2. CASE id # newTx
    <3>1. rbfTrees'[id] = rbfTrees[id] /\ rbfTrees[id] # None /\ id \notin old
      BY <2>2, <1>9, <1>19
    <3>2. treeMap[id] = id /\ id # None
      BY <3>1, ConstantsAssumption DEF Served
    <3>3. id \notin N
      BY <2>2, <3>1, <3>2, <1>4
    <3>4. \A t \in Txid : treeMap[t] = id => t \notin N
      BY <3>1, <3>2, <2>2, <1>2, <1>3, <1>4
    <3>5. Members(id)' = Members(id)
      BY <2>2, <3>4, <1>9 DEF Members
    <3>6. newTx \notin Members(id)
      BY <2>2, <3>2, <1>2 DEF Members
    <3>7. \A u \in Txid : rbfTrees[id].replaces[u] \subseteq replaces'[u]
      <4> SUFFICES ASSUME NEW u \in Txid, NEW t \in rbfTrees[id].replaces[u]
                   PROVE  t \in replaces'[u]
        OBVIOUS
      <4>1. t \in Members(id) /\ t \in replaces[u] /\ t # id
        BY <3>1 DEF Served
      <4>2. u \in Members(id)
        BY <3>1, <4>1, TreeParent DEF Served
      <4> QED BY <4>1, <4>2, <3>6, <1>9
    <3> HIDE DEF N
    <3> QED BY <3>1, <3>2, <3>3, <3>5, <3>7, <1>9 DEF Served
  <2> QED BY <2>1, <2>2
<1> QED BY <1>13, <1>14, <1>15, <1>19 DEF Served

\* Every step of the cache itself keeps what it serves.
LEMMA NextKeepsServed ==
  ASSUME TypeOK, Served, [Next]_vars
  PROVE  Served'
<1>1. ASSUME NEW newTx \in Txid, NEW replaced \in SUBSET (Txid \ {newTx}),
             Add(replaced, newTx)
      PROVE  Served'
  BY <1>1, AddKeepsServed
<1>2. ASSUME NEW txid \in Txid, Mined(txid)
      PROVE  Served'
  BY <1>2, MarkingKeepsServed DEF Mined
<1>3. ASSUME NEW txid \in Txid, Evict(txid)
      PROVE  Served'
  BY <1>3, SameTreesStayServed DEF Evict
<1>4. CASE GetRbfChanges
  BY <1>4, SameTreesStayServed DEF GetRbfChanges
<1>5. ASSUME NEW due \in SUBSET expiring, Cleanup(due)
      PROVE  Served'
  BY <1>5, CleanupKeepsServed DEF TypeOK
<1>6. CASE UNCHANGED vars
  BY <1>6, SameTreesStayServed DEF vars
<1> QED BY <1>1, <1>2, <1>3, <1>4, <1>5, <1>6 DEF Next

(***************************************************************************)
(* The import of incomplete copies                                         *)
(***************************************************************************)

\* What is reached, and how.
LEMMA ReachedFacts ==
  ASSUME NEW tree \in RbfTree, NEW id \in Txid, NEW enter
  PROVE  LET R == ReachedIn(tree, id, enter) IN
         /\ id \in R /\ R \subseteq Txid
         /\ \A u \in R : tree.replaces[u] \cap enter \subseteq R
         /\ \A S \in SUBSET Txid :
               id \in S /\ (\A u \in S : tree.replaces[u] \cap enter \subseteq S)
               => R \subseteq S
         /\ \A t \in R : t # id => t \in enter /\ \E u \in R : t \in tree.replaces[u]
<1> DEFINE R == ReachedIn(tree, id, enter)
<1>0. \A u \in Txid : tree.replaces[u] \subseteq Txid
  BY DEF RbfTree
<1>1. id \in R /\ R \subseteq Txid
  BY DEF ReachedIn
<1>2. \A u \in R : tree.replaces[u] \cap enter \subseteq R
  BY <1>0 DEF ReachedIn
<1>3. \A S \in SUBSET Txid :
         id \in S /\ (\A u \in S : tree.replaces[u] \cap enter \subseteq S) => R \subseteq S
  BY DEF ReachedIn
<1> HIDE DEF R
<1>4. ASSUME NEW t \in R, t # id
      PROVE  t \in enter /\ \E u \in R : t \in tree.replaces[u]
  <2> DEFINE S == R \ {t}
  <2>1. S \in SUBSET Txid /\ id \in S /\ ~(R \subseteq S)
    BY <1>1, <1>4
  <2>2. PICK u \in S : ~(tree.replaces[u] \cap enter \subseteq S)
    <3> HIDE DEF S
    <3> QED BY <1>3, <2>1
  <2> QED BY <1>2, <2>2
<1> QED BY <1>1, <1>2, <1>3, <1>4 DEF R

\* A stale entry is a part of a served tree, in which nothing replaced its root.
LEMMA StaleTrees ==
  ASSUME TypeOK, Served, NEW id \in Txid, treeMap[id] \notin {id, None}
  PROVE  /\ SubtreeAt(rbfTrees[treeMap[id]], id) \in RbfTree
         /\ \A u \in Txid : \A t \in SubtreeAt(rbfTrees[treeMap[id]], id).replaces[u] :
               t # id /\ replacedBy[t] = u
<1> DEFINE r == treeMap[id]
           tree == rbfTrees[r]
           nodes == ReachedIn(tree, id, Txid)
           sub == SubtreeAt(tree, id)
<1>1. r \in Txid /\ tree # None /\ tree \in RbfTree /\ r # id /\ id \in Members(r)
  BY DEF TypeOK, Map, Served, Members
<1>2. \A u \in Txid : tree.replaces[u] \subseteq (Members(r) \ {r}) \cap replaces[u]
  BY <1>1 DEF Served
<1>3. \A S \in SUBSET Txid : r \in S /\ (\A u \in S : tree.replaces[u] \subseteq S)
         => Members(r) \subseteq S
  BY <1>1 DEF Served
<1>4. r \in Members(r) /\ Members(r) \subseteq Txid
  BY <1>1 DEF Served, Members
<1> HIDE DEF r, tree
<1>5. /\ id \in nodes /\ nodes \subseteq Txid
      /\ \A t \in nodes : t # id => \E u \in nodes : t \in tree.replaces[u]
  BY <1>1, ReachedFacts
<1>6. sub = [txs      |-> nodes,
             replaces |-> [t \in Txid |-> IF t \in nodes THEN tree.replaces[t] ELSE {}],
             txMined  |-> tree.txMined \cap nodes,
             mined    |-> FALSE,
             fullRbf  |-> ~(nodes \ {id} \subseteq Signals)]
  BY DEF SubtreeAt
<1> HIDE DEF nodes, sub
<1>7. \A u \in Txid : \A t \in tree.replaces[u] : t \in Txid /\ replacedBy[t] = u
  BY <1>2, <1>4 DEF Served
<1>8. sub \in RbfTree
  <2>1. tree.replaces \in [Txid -> SUBSET Txid] /\ tree.txMined \subseteq Txid
    BY <1>1 DEF RbfTree
  <2>2. sub.fullRbf \in BOOLEAN /\ sub.mined \in BOOLEAN
    BY <1>6
  <2>3. /\ sub.txs \in SUBSET Txid /\ sub.replaces \in [Txid -> SUBSET Txid]
        /\ sub.txMined \in SUBSET Txid
    BY <1>5, <1>6, <2>1
  <2>4. sub = [txs |-> sub.txs, replaces |-> sub.replaces, txMined |-> sub.txMined,
               mined |-> sub.mined, fullRbf |-> sub.fullRbf]
    BY <1>6
  <2> QED BY <2>2, <2>3, <2>4 DEF RbfTree
<1>9. ASSUME NEW u \in nodes, id \in tree.replaces[u]
      PROVE  FALSE
  <2> DEFINE X == Members(r) \ nodes
  <2>1. r \notin nodes
    BY <1>1, <1>2, <1>5
  <2>2. r \in X /\ X \in SUBSET Txid
    BY <1>4, <2>1
  <2>3. ASSUME NEW v \in X, NEW t \in tree.replaces[v]
        PROVE  t \in X
    <3>1. v \in Txid /\ v \notin nodes /\ t \in Members(r) /\ replacedBy[t] = v
      BY <1>2, <1>4, <1>7
    <3>2. t # id
      BY <1>5, <1>7, <1>9, <3>1
    <3>3. t \notin nodes
      BY <1>5, <1>7, <3>1, <3>2
    <3> QED BY <3>1, <3>3
  <2> HIDE DEF X
  <2>4. Members(r) \subseteq X
    BY <1>3, <2>2, <2>3
  <2> QED BY <1>1, <1>5, <2>4 DEF X
<1>10. \A u \in Txid : \A t \in sub.replaces[u] : t # id /\ replacedBy[t] = u
  <2>1. \A u \in Txid : sub.replaces[u] = IF u \in nodes THEN tree.replaces[u] ELSE {}
    BY <1>6
  <2> SUFFICES ASSUME NEW u \in Txid, NEW t \in sub.replaces[u]
               PROVE  t # id /\ replacedBy[t] = u
    OBVIOUS
  <2>2. u \in nodes /\ t \in tree.replaces[u]
    BY <2>1
  <2> QED BY <2>2, <1>7, <1>9
<1> QED BY <1>8, <1>10 DEF sub, tree, r

LEMMA RestartSalvages ==
  ASSUME TypeOK, LoadTypeOK, Served, NEW lost, NEW lostTrees, NEW lostExpiries,
         NEW stale, Restart(lost, lostTrees, lostExpiries, stale)
  PROVE  TypeOK' /\ LoadTypeOK' /\ Served' /\ SalvagedCopy' /\ phase' = "import"
<1>1. /\ stale \subseteq {t \in txs : treeMap[t] \notin {t, None}}
      /\ stored' = [trees |-> StoredTrees(stale), expiring |-> expiring \ lostExpiries,
                    txs |-> txs \ lost, replacedBy |-> replacedBy,
                    replaces |-> replaces, treeMap |-> treeMap]
      /\ toImport' = stale \cup (TreeIds \ lostTrees)
      /\ TreeIds = {id \in Txid : rbfTrees[id] # None}
      /\ mempool' \in Mempools /\ phase' = "import" /\ txs' = txs \ lost
      /\ replacedBy' = Empty /\ replaces' = [t \in Txid |-> {}]
      /\ rbfTrees' = Empty /\ dirtyTrees' = {} /\ treeMap' = Empty
      /\ expiring' = {} /\ published' = Empty
      /\ UNCHANGED <<conflicts, unchecked, notFound>>
  BY DEF Restart, TreeIds
<1>2. \A id \in stale : id \in Txid /\ treeMap[id] \notin {id, None}
  BY <1>1 DEF TypeOK
<1>3. /\ stored'.trees = StoredTrees(stale) /\ stored'.replacedBy = replacedBy
  BY <1>1
<1>4. \A id \in Txid : StoredTrees(stale)[id] =
         IF id \in stale THEN SubtreeAt(rbfTrees[treeMap[id]], id) ELSE rbfTrees[id]
  BY DEF StoredTrees
<1>5. \A id \in Txid : StoredTrees(stale)[id] \in RbfTree \cup {None}
  <2>1. \A id \in Txid : rbfTrees[id] \in RbfTree \cup {None}
    BY DEF TypeOK
  <2>2. ASSUME NEW id \in stale
        PROVE  StoredTrees(stale)[id] \in RbfTree
    <3>1. id \in Txid /\ treeMap[id] \notin {id, None}
      BY <1>2
    <3>2. StoredTrees(stale)[id] = SubtreeAt(rbfTrees[treeMap[id]], id)
      BY <3>1, <1>4
    <3> QED BY <3>1, <3>2, StaleTrees
  <2> QED BY <1>4, <2>1, <2>2
<1>6. stored' \in Copy
  <2>1. StoredTrees(stale) \in [Txid -> RbfTree \cup {None}]
    BY <1>5 DEF StoredTrees
  <2> HIDE DEF StoredTrees
  <2> QED BY <1>1, <2>1 DEF Copy, TypeOK
<1>7. TypeOK' /\ LoadTypeOK'
  <2>1. TypeOK'
    BY <1>1 DEF TypeOK, Empty, Map
  <2>2. LoadTypeOK'
    BY <1>1 DEF LoadTypeOK, Mempools
  <2> QED BY <2>1, <2>2
<1>8. Served'
  BY <1>1 DEF Served, Empty
<1>9. ASSUME NEW id \in toImport'
      PROVE  /\ id \in Txid /\ stored'.trees[id] # None
             /\ \A u \in Txid : \A t \in stored'.trees[id].replaces[u] :
                   t # id /\ stored'.replacedBy[t] = u
  <2>1. CASE id \in stale
    <3>1. StoredTrees(stale)[id] = SubtreeAt(rbfTrees[treeMap[id]], id) /\ id \in Txid
          /\ treeMap[id] \notin {id, None}
      BY <2>1, <1>2, <1>4
    <3>2. /\ SubtreeAt(rbfTrees[treeMap[id]], id) \in RbfTree
          /\ \A u \in Txid : \A t \in SubtreeAt(rbfTrees[treeMap[id]], id).replaces[u] :
                t # id /\ replacedBy[t] = u
      BY <3>1, StaleTrees
    <3> QED BY <1>3, <3>1, <3>2, ConstantsAssumption
  <2>2. CASE id \notin stale
    <3>1. id \in Txid /\ StoredTrees(stale)[id] = rbfTrees[id] /\ rbfTrees[id] # None
      BY <2>2, <1>1, <1>4, <1>9
    <3>2. \A u \in Txid : rbfTrees[id].replaces[u]
                             \subseteq (Members(id) \ {id}) \cap replaces[u]
      BY <3>1 DEF Served
    <3>3. \A u \in Txid : \A t \in rbfTrees[id].replaces[u] : t # id /\ replacedBy[t] = u
      BY <3>2 DEF Served
    <3> QED BY <1>3, <3>1, <3>3
  <2> QED BY <2>1, <2>2
<1>10. SalvagedCopy'
  BY <1>1, <1>6, <1>9 DEF SalvagedCopy
<1> QED BY <1>1, <1>7, <1>8, <1>10

\* importTree enters what it reaches and the cache does not have yet, as a tree
\* of its own.
LEMMA ImportKeepsServed ==
  ASSUME TypeOK, LoadTypeOK, Served, SalvagedCopy, NEW id \in Txid, ImportTree(id)
  PROVE  TypeOK' /\ LoadTypeOK' /\ Served' /\ SalvagedCopy' /\ phase' = "import"
<1> DEFINE tree == stored.trees[id]
           V == Visited(tree, id)
           K == Returned(tree, id)
           imported == ImportedTree(tree, id)
           W == imported.txs
<1>1. /\ phase = "import" /\ id \in toImport /\ toImport' = toImport \ {id}
      /\ SkipTree(id) \/ AddImported(id)
      /\ UNCHANGED <<txs, expiring, published, phase, stored, mempool, conflicts,
                     unchecked, notFound, intact>>
  BY DEF ImportTree
<1>2. LoadTypeOK'
  BY <1>1 DEF LoadTypeOK
<1>3. CASE SkipTree(id)
  <2>1. UNCHANGED <<replacedBy, replaces, rbfTrees, dirtyTrees, treeMap>>
    BY <1>3 DEF SkipTree
  <2>2. TypeOK'
    BY <1>1, <2>1 DEF TypeOK
  <2>3. Served'
    BY <1>1, <2>1, SameTreesStayServed
  <2>4. SalvagedCopy'
    BY <1>1, <2>1 DEF SalvagedCopy
  <2> QED BY <1>1, <1>2, <2>2, <2>3, <2>4
<1>4. CASE AddImported(id)
  <2>1. /\ id \in txs /\ treeMap[id] = None
        /\ replaces' = [t \in Txid |-> IF t \in V THEN tree.replaces[t] \cap K
                                       ELSE replaces[t]]
        /\ replacedBy' = [t \in Txid |-> IF t \in K \ {id} THEN ParentIn(tree, t)
                                         ELSE replacedBy[t]]
        /\ rbfTrees' = [rbfTrees EXCEPT ![id] = imported]
        /\ dirtyTrees' = dirtyTrees \cup {id}
        /\ treeMap' = [t \in Txid |-> IF t \in W THEN id ELSE treeMap[t]]
    BY <1>4 DEF AddImported, Linked
  <2>2. /\ tree # None /\ tree \in RbfTree
        /\ \A u \in Txid : \A t \in tree.replaces[u] : t # id /\ stored.replacedBy[t] = u
    BY <1>1, CopyFields DEF SalvagedCopy
  <2>3. K = V \cap txs
    BY DEF Returned
  <2>4. imported = [txs      |-> ReachedIn(tree, id, K),
                    replaces |-> [t \in Txid |-> IF t \in ReachedIn(tree, id, K)
                                                 THEN tree.replaces[t] \cap K ELSE {}],
                    txMined  |-> tree.txMined \cap ReachedIn(tree, id, K),
                    mined    |-> FALSE,
                    fullRbf  |-> tree.fullRbf]
    BY DEF ImportedTree
  <2>5. W = ReachedIn(tree, id, K)
    BY <2>4
  <2>6. /\ \A t \in Txid : imported.replaces[t] = IF t \in W THEN tree.replaces[t] \cap K
                                                  ELSE {}
        /\ imported.replaces = [t \in Txid |-> IF t \in W THEN tree.replaces[t] \cap K
                                               ELSE {}]
    BY <2>4, <2>5
  <2>7. /\ id \in V /\ V \subseteq Txid
        /\ \A t \in V : treeMap[t] = None
        /\ \A t \in V : t # id => \E u \in V : t \in tree.replaces[u]
    <3> DEFINE unseen == {t \in Txid : treeMap[t] = None}
               R == ReachedIn(tree, id, unseen)
    <3>1. V = R
      BY DEF Visited
    <3>2. \A t \in unseen : treeMap[t] = None
      OBVIOUS
    <3> HIDE DEF unseen, V, tree
    <3>3. /\ id \in R /\ R \subseteq Txid
          /\ \A t \in R : t # id => t \in unseen /\ \E u \in R : t \in tree.replaces[u]
      BY <2>2, ReachedFacts
    <3> HIDE DEF R
    <3> QED BY <3>1, <3>2, <3>3, <2>1
  <2>8. /\ id \in W /\ W \subseteq Txid
        /\ \A u \in W : tree.replaces[u] \cap K \subseteq W
        /\ \A S \in SUBSET Txid :
              id \in S /\ (\A u \in S : tree.replaces[u] \cap K \subseteq S) => W \subseteq S
        /\ \A t \in W : t # id => t \in K
    <3> HIDE DEF tree, K, W
    <3> QED BY <2>2, <2>5, ReachedFacts
  <2> HIDE DEF V, K, W, imported, tree
  <2>9. id \in K /\ W \subseteq K /\ K \subseteq V /\ K \subseteq txs
    BY <2>1, <2>3, <2>7, <2>8
  <2>10. \A t \in K \ {id} : /\ ParentIn(tree, t) = stored.replacedBy[t]
                             /\ ParentIn(tree, t) \in Txid
    <3> SUFFICES ASSUME NEW t \in K, t # id
                 PROVE  /\ ParentIn(tree, t) = stored.replacedBy[t]
                        /\ ParentIn(tree, t) \in Txid
      OBVIOUS
    <3>1. PICK u \in Txid : t \in tree.replaces[u]
      BY <2>7, <2>9
    <3>2. ParentIn(tree, t) \in Txid /\ t \in tree.replaces[ParentIn(tree, t)]
      BY <3>1 DEF ParentIn
    <3> QED BY <3>2, <2>2
  <2>11. imported \in RbfTree /\ imported # None
    <3>1. tree.txMined \subseteq Txid /\ tree.fullRbf \in BOOLEAN
          /\ \A t \in Txid : tree.replaces[t] \subseteq Txid
      BY <2>2 DEF RbfTree
    <3>2. imported.fullRbf \in BOOLEAN /\ imported.mined \in BOOLEAN
      BY <2>4, <3>1
    <3>3. imported.txMined \in SUBSET Txid
      BY <2>4, <2>5, <2>8, <3>1
    <3>4. imported.replaces \in [Txid -> SUBSET Txid]
      BY <2>6, <3>1
    <3>5. W = imported.txs
      BY DEF W
    <3>6. imported = [txs |-> imported.txs, replaces |-> imported.replaces,
                      txMined |-> imported.txMined, mined |-> imported.mined,
                      fullRbf |-> imported.fullRbf]
      BY <2>4
    <3>7. imported \in RbfTree
      BY <2>8, <3>2, <3>3, <3>4, <3>5, <3>6 DEF RbfTree
    <3> QED BY <3>7, ConstantsAssumption
  <2>12. /\ \A t \in Txid : replaces'[t] = IF t \in V THEN tree.replaces[t] \cap K
                                           ELSE replaces[t]
         /\ \A t \in Txid : replacedBy'[t] = IF t \in K \ {id} THEN stored.replacedBy[t]
                                             ELSE replacedBy[t]
         /\ \A t \in Txid : treeMap'[t] = IF t \in W THEN id ELSE treeMap[t]
         /\ \A t \in Txid : rbfTrees'[t] = IF t = id THEN imported ELSE rbfTrees[t]
         /\ txs' = txs
    BY <1>1, <2>1, <2>10 DEF TypeOK
  <2>13. TypeOK'
    <3>1. \A t \in Txid : tree.replaces[t] \cap K \subseteq Txid
      BY <2>7, <2>9
    <3>2. replaces' \in [Txid -> SUBSET Txid]
      BY <2>1, <3>1 DEF TypeOK
    <3>3. replacedBy' \in Map
      BY <2>1, <2>10 DEF TypeOK, Map
    <3>4. treeMap' \in Map
      BY <2>1 DEF TypeOK, Map
    <3>5. rbfTrees' \in [Txid -> RbfTree \cup {None}]
      BY <2>1, <2>11 DEF TypeOK
    <3> QED BY <1>1, <2>1, <3>2, <3>3, <3>4, <3>5 DEF TypeOK
  <2>14. \A u \in Txid : \A t \in replaces'[u] :
            replacedBy'[t] = u /\ stored.replacedBy[t] = u
    <3> SUFFICES ASSUME NEW u \in Txid, NEW t \in replaces'[u]
                 PROVE  replacedBy'[t] = u /\ stored.replacedBy[t] = u
      OBVIOUS
    <3>1. CASE u \in V
      <4>1. t \in tree.replaces[u] /\ t \in K
        BY <3>1, <2>12
      <4> QED BY <4>1, <2>2, <2>7, <2>9, <2>12
    <3>2. CASE u \notin V
      <4>1. t \in replaces[u] /\ t \in Txid
        BY <3>2, <2>12 DEF TypeOK
      <4> QED BY <4>1, <2>12 DEF Served, SalvagedCopy
    <3> QED BY <3>1, <3>2
  <2>15. SalvagedCopy'
    BY <1>1, <2>14 DEF SalvagedCopy
  <2>16. \A t \in Txid : replacedBy'[t] # None => t \in txs'
    BY <2>9, <2>12 DEF Served
  <2>17. \A t \in W \ {id} : replacedBy'[t] # None
    BY <2>8, <2>10, <2>12, ConstantsAssumption
  <2>18. \A t \in Txid : treeMap[t] # id
    BY <2>1, ConstantsAssumption DEF Served
  <2>19. ASSUME NEW t \in Txid, treeMap'[t] # None
         PROVE  /\ treeMap'[treeMap'[t]] = treeMap'[t] /\ rbfTrees'[treeMap'[t]] # None
                /\ t \in txs' /\ (treeMap'[t] # t => replacedBy'[t] # None)
    <3>1. CASE t \in W
      BY <3>1, <2>8, <2>9, <2>11, <2>12, <2>17
    <3>2. CASE t \notin W
      <4>1. treeMap'[t] = treeMap[t] /\ treeMap[t] # None /\ treeMap[t] # id
        BY <3>2, <2>12, <2>18, <2>19
      <4>2. treeMap[t] \in Txid /\ treeMap[treeMap[t]] = treeMap[t]
            /\ rbfTrees[treeMap[t]] # None /\ t \in txs
            /\ (treeMap[t] # t => replacedBy[t] # None)
        BY <4>1 DEF Served, TypeOK, Map
      <4>3. t \notin V /\ treeMap[t] \notin V
        BY <4>1, <4>2, <2>7
      <4>4. t \notin K /\ treeMap[t] \notin W
        BY <4>3, <2>9
      <4> QED BY <4>1, <4>2, <4>4, <2>12
    <3> QED BY <3>1, <3>2
  <2>20. Members(id)' = W
    BY <2>8, <2>12, <2>18 DEF Members
  <2>21. ASSUME NEW x \in Txid, rbfTrees'[x] # None
         PROVE  /\ treeMap'[x] = x /\ rbfTrees'[x].txs = Members(x)'
                /\ \A u \in Txid : rbfTrees'[x].replaces[u]
                                      \subseteq (Members(x)' \ {x}) \cap replaces'[u]
                /\ \A S \in SUBSET Txid :
                      x \in S /\ (\A u \in S : rbfTrees'[x].replaces[u] \subseteq S)
                      => Members(x)' \subseteq S
    <3>1. CASE x = id
      <4>1. rbfTrees'[x] = imported /\ treeMap'[x] = x /\ imported.txs = W
        BY <3>1, <2>8, <2>12 DEF W
      <4>2. ASSUME NEW u \in Txid, NEW t \in imported.replaces[u]
            PROVE  t \in W /\ t # id /\ t \in replaces'[u]
        <5>1. u \in W /\ t \in tree.replaces[u] /\ t \in K
          BY <4>2, <2>6
        <5>2. t \in W /\ t # id
          BY <5>1, <2>2, <2>8
        <5>3. u \in V
          BY <5>1, <2>9
        <5>4. replaces'[u] = tree.replaces[u] \cap K
          BY <5>3, <2>12
        <5> QED BY <5>1, <5>2, <5>4
      <4>3. ASSUME NEW S \in SUBSET Txid, id \in S,
                   \A u \in S : imported.replaces[u] \subseteq S
            PROVE  W \subseteq S
        <5> DEFINE T == S \cap W
        <5>1. T \in SUBSET Txid /\ id \in T
          BY <4>3, <2>8
        <5>2. ASSUME NEW u \in T
              PROVE  tree.replaces[u] \cap K \subseteq T
          <6>1. u \in S /\ u \in W /\ u \in Txid
            BY <2>8
          <6>2. imported.replaces[u] = tree.replaces[u] \cap K
            BY <6>1, <2>6
          <6> QED BY <6>1, <6>2, <4>3, <2>8
        <5> HIDE DEF T
        <5>3. W \subseteq T
          BY <5>1, <5>2, <2>8
        <5> QED BY <5>3 DEF T
      <4> QED BY <3>1, <4>1, <4>2, <4>3, <2>20
    <3>2. CASE x # id
      <4>1. rbfTrees'[x] = rbfTrees[x] /\ rbfTrees[x] # None
        BY <3>2, <2>12, <2>21
      <4>2. treeMap[x] = x /\ x # None
        BY <4>1, ConstantsAssumption DEF Served
      <4>3. \A t \in Txid : treeMap[t] = x => t \notin V /\ t \notin W
        BY <4>2, <2>7, <2>9
      <4>4. Members(x)' = Members(x)
        BY <3>2, <4>3, <2>12 DEF Members
      <4>5. ASSUME NEW u \in Txid, NEW t \in rbfTrees[x].replaces[u]
            PROVE  t \in replaces'[u]
        <5>1. t \in Members(x) /\ t \in replaces[u] /\ t # x
          BY <4>1 DEF Served
        <5>2. u \in Members(x)
          BY <4>1, <5>1, TreeParent DEF Served
        <5>3. u \notin V
          BY <4>3, <5>2 DEF Members
        <5> QED BY <5>1, <5>3, <2>12
      <4>6. treeMap'[x] = x
        BY <4>2, <4>3, <2>12
      <4> QED BY <4>1, <4>4, <4>5, <4>6 DEF Served
    <3> QED BY <3>1, <3>2
  <2>22. Served'
    BY <2>14, <2>16, <2>19, <2>21 DEF Served
  <2> QED BY <1>1, <1>2, <2>13, <2>15, <2>22
<1> QED BY <1>1, <1>3, <1>4

\* After the import nothing reads the copy again.
LEMMA LoadedStepKeepsServed ==
  ASSUME TypeOK, LoadTypeOK, Served,
         phase = "import" => SalvagedCopy,
         phase = "connect" => \A t \in Txid : conflicts[t] \subseteq txs,
         \/ Running \/ RestoreExpiring \/ StartCheck \/ FinishCheck
         \/ \E t \in Txid : \/ Connect(t) \/ CheckConfirmed(t)
                            \/ CheckUnconfirmed(t) \/ CheckMissing(t)
         \/ \E due \in SUBSET expiring : CleanupDuringCheck(due)
  PROVE  /\ TypeOK' /\ LoadTypeOK' /\ Served' /\ phase' # "import"
         /\ phase' = "connect" => \A t \in Txid : conflicts'[t] \subseteq txs'
<1>1. CASE Running
  <2>1. Next /\ UNCHANGED loadVars /\ phase = "run"
    BY <1>1 DEF Running
  <2>2. TypeOK' /\ Served'
    BY <2>1, NextKeepsType, NextKeepsServed
  <2> QED BY <2>1, <2>2 DEF loadVars, LoadTypeOK
<1>2. CASE RestoreExpiring
  <2>1. /\ phase = "import" /\ phase' = "connect" /\ mempool' = {}
        /\ expiring' = stored.expiring \cap txs
        /\ conflicts' \in [Txid -> SUBSET Txid]
        /\ \A t \in Txid : conflicts'[t] \subseteq txs
        /\ UNCHANGED <<replacedBy, replaces, rbfTrees, dirtyTrees, treeMap, txs,
                       published, unchecked, notFound>>
    BY <1>2 DEF RestoreExpiring, TypeOK
  <2>2. TypeOK'
    BY <2>1 DEF TypeOK
  <2>3. Served'
    BY <2>1, SameTreesStayServed
  <2> QED BY <2>1, <2>2, <2>3 DEF LoadTypeOK
<1>3. CASE StartCheck
  <2>1. UNCHANGED <<vars, mempool, conflicts>> /\ phase' = "check" /\ notFound' = {}
        /\ unchecked' \subseteq txs
    BY <1>3 DEF StartCheck
  <2>2. TypeOK' /\ Served'
    BY <2>1, NextKeepsType, NextKeepsServed
  <2> QED BY <2>1, <2>2 DEF LoadTypeOK, TypeOK
<1>4. CASE FinishCheck
  <2>1. /\ expiring' = expiring \cup (notFound \cap txs)
        /\ phase' = "run" /\ notFound' = {}
        /\ UNCHANGED <<replacedBy, replaces, rbfTrees, dirtyTrees, treeMap, txs,
                       published, mempool, conflicts, unchecked>>
    BY <1>4 DEF FinishCheck
  <2>2. Served'
    BY <2>1, SameTreesStayServed
  <2> QED BY <2>1, <2>2 DEF TypeOK, LoadTypeOK
<1>5. ASSUME NEW t \in Txid, Connect(t)
      PROVE  /\ TypeOK' /\ LoadTypeOK' /\ Served' /\ phase' # "import"
             /\ phase' = "connect" => \A u \in Txid : conflicts'[u] \subseteq txs'
  <2>1. /\ phase = "connect" /\ phase' = phase
        /\ conflicts' = [conflicts EXCEPT ![t] = {}]
        /\ UNCHANGED <<mempool, unchecked, notFound>>
        /\ Add(conflicts[t], t) \/ UNCHANGED vars
    BY <1>5 DEF Connect
  <2>2. \A u \in Txid : conflicts[u] \subseteq txs /\ conflicts[u] \subseteq Txid
    BY <2>1 DEF LoadTypeOK
  <2>3. TypeOK' /\ Served' /\ txs \subseteq txs'
    <3>1. CASE Add(conflicts[t], t)
      <4>1. t \notin conflicts[t] /\ txs \subseteq txs'
        BY <2>2, <3>1 DEF Add
      <4>2. conflicts[t] \in SUBSET (Txid \ {t})
        BY <2>2, <4>1
      <4>3. Next
        BY <3>1, <4>2 DEF Next
      <4> QED BY <4>1, <4>3, NextKeepsType, NextKeepsServed
    <3>2. CASE UNCHANGED vars
      <4>1. txs' = txs
        BY <3>2 DEF vars
      <4> QED BY <3>2, <4>1, NextKeepsType, NextKeepsServed
    <3> QED BY <2>1, <3>1, <3>2
  <2> QED BY <2>1, <2>2, <2>3 DEF LoadTypeOK
<1>6. ASSUME NEW t \in Txid, CheckConfirmed(t)
      PROVE  TypeOK' /\ LoadTypeOK' /\ Served' /\ phase' = "check"
  <2>1. /\ phase = "check"
        /\ rbfTrees' = [id \in Txid |-> IF id \in TreeOf(t)
                                        THEN MinedTree(rbfTrees[id], t)
                                        ELSE rbfTrees[id]]
        /\ expiring' \subseteq expiring \cup ({t} \cap txs)
        /\ unchecked' = unchecked \ {t}
        /\ UNCHANGED <<replacedBy, replaces, dirtyTrees, treeMap, txs, published,
                       phase, mempool, conflicts, notFound>>
    BY <1>6 DEF CheckConfirmed
  <2>2. Served'
    BY <2>1, MarkingKeepsServed
  <2>3. \A id \in TreeOf(t) : MinedTree(rbfTrees[id], t) \in RbfTree
    BY MinedTreeType DEF TreeOf, TypeOK
  <2>4. TypeOK'
    BY <2>1, <2>3 DEF TypeOK
  <2> QED BY <2>1, <2>2, <2>4 DEF LoadTypeOK
<1>7. ASSUME NEW t \in Txid, CheckUnconfirmed(t) \/ CheckMissing(t)
      PROVE  TypeOK' /\ LoadTypeOK' /\ Served' /\ phase' = "check"
  <2>1. /\ UNCHANGED <<vars, phase, mempool, conflicts>> /\ phase = "check"
        /\ unchecked' \subseteq unchecked /\ notFound' \subseteq notFound \cup {t}
    BY <1>7 DEF CheckUnconfirmed, CheckMissing
  <2>2. TypeOK' /\ Served'
    BY <2>1, NextKeepsType, NextKeepsServed
  <2> QED BY <2>1, <2>2 DEF LoadTypeOK
<1>8. ASSUME NEW due \in SUBSET expiring, CleanupDuringCheck(due)
      PROVE  TypeOK' /\ LoadTypeOK' /\ Served' /\ phase' = "check"
  <2>1. Next /\ UNCHANGED loadVars /\ phase = "check"
    BY <1>8 DEF CleanupDuringCheck, Next
  <2>2. TypeOK' /\ Served'
    BY <2>1, NextKeepsType, NextKeepsServed
  <2> QED BY <2>1, <2>2 DEF loadVars, LoadTypeOK
<1> QED BY <1>1, <1>2, <1>3, <1>4, <1>5, <1>6, <1>7, <1>8

\* The invariant behind ServedTreesDisjoint: the served trees are closed under
\* their own children, and what is still to be imported is part of one forest,
\* whatever tx, tree or expiry entries were lost and absorbed trees stale
\* (rbf-cache.ts:400-500).
THEOREM ServedInvariant == RestartSpec => []ServedInv
<1>1. RestartInit => ServedInv
  <2> SUFFICES ASSUME RestartInit
               PROVE  TypeOK /\ LoadTypeOK /\ Served /\ phase = "run"
    BY DEF ServedInv
  <2>1. Init /\ phase = "run" /\ LoadTypeOK
    BY DEF RestartInit, LoadTypeOK, NoConflicts
  <2>2. TypeOK
    BY <2>1 DEF Init, TypeOK, Empty, Map
  <2>3. Served
    BY <2>1 DEF Init, Empty, Served
  <2> QED BY <2>1, <2>2, <2>3
<1>2. ServedInv /\ [RestartNext]_allVars => ServedInv'
  <2> SUFFICES ASSUME ServedInv, [RestartNext]_allVars
               PROVE  ServedInv'
    OBVIOUS
  <2>0. TypeOK /\ LoadTypeOK /\ Served
    BY DEF ServedInv
  <2>1. CASE UNCHANGED allVars
    <3>1. UNCHANGED vars /\ UNCHANGED loadVars
      BY <2>1 DEF allVars
    <3> QED BY <3>1 DEF vars, loadVars, ServedInv, TypeOK, LoadTypeOK, Served,
                 SalvagedCopy, Copy, Members
  <2>2. ASSUME NEW lost \in SUBSET txs, NEW stale \in SUBSET txs,
               NEW lostTrees \in SUBSET TreeIds, NEW lostExpiries \in SUBSET expiring,
               Restart(lost, lostTrees, lostExpiries, stale)
        PROVE  ServedInv'
    <3>1. TypeOK' /\ LoadTypeOK' /\ Served' /\ SalvagedCopy' /\ phase' = "import"
      BY <2>0, <2>2, RestartSalvages
    <3> QED BY <3>1 DEF ServedInv
  <2>3. ASSUME NEW id \in Txid, ImportTree(id)
        PROVE  ServedInv'
    <3>1. SalvagedCopy
      BY <2>3 DEF ServedInv, ImportTree
    <3>2. TypeOK' /\ LoadTypeOK' /\ Served' /\ SalvagedCopy' /\ phase' = "import"
      BY <2>0, <2>3, <3>1, ImportKeepsServed
    <3> QED BY <3>2 DEF ServedInv
  <2>4. ASSUME \/ Running \/ RestoreExpiring \/ StartCheck \/ FinishCheck
               \/ \E t \in Txid : \/ Connect(t) \/ CheckConfirmed(t)
                                  \/ CheckUnconfirmed(t) \/ CheckMissing(t)
               \/ \E due \in SUBSET expiring : CleanupDuringCheck(due)
        PROVE  ServedInv'
    <3>1. /\ TypeOK' /\ LoadTypeOK' /\ Served' /\ phase' # "import"
          /\ phase' = "connect" => \A t \in Txid : conflicts'[t] \subseteq txs'
      BY <2>4, LoadedStepKeepsServed DEF ServedInv
    <3> QED BY <3>1 DEF ServedInv
  <2> QED BY <2>1, <2>2, <2>3, <2>4 DEF RestartNext
<1> QED BY <1>1, <1>2, PTL DEF RestartSpec

\* Whatever tx, tree and expiry entries Redis lost, and whichever absorbed trees it
\* kept too long, getRbfTree (rbf-cache.ts:248-250) serves disjoint trees, each of the transactions that treeMap puts in it.
THEOREM ServedTreesAlwaysDisjoint == RestartSpec => []ServedTreesDisjoint
<1>1. ServedInv => ServedTreesDisjoint
  BY DEF ServedInv, Served, ServedTreesDisjoint, UniqueId, Existence
<1> QED BY <1>1, ServedInvariant, PTL

=============================================================================
