--------------------------- MODULE RbfCacheProofs ---------------------------
(***************************************************************************)
(* Theorems about RbfCache, for every set of transactions.                 *)
(***************************************************************************)
EXTENDS RbfCache, TLAPS

(***************************************************************************)
(* Type correctness                                                        *)
(***************************************************************************)

\* The tree that add builds is an RbfTree.
LEMMA NewTreeType ==
    ASSUME TypeOK, NEW newTx \in Txid, NEW replaced \in SUBSET Txid
    PROVE  NewTree(replaced, newTx) \in RbfTree
<1> DEFINE old == OldRoots(replaced)
<1>1. \A id \in old : id \in Txid /\ rbfTrees[id] \in RbfTree
  BY ConstantsAssumption DEF TypeOK, OldRoots, OldTreeIds, FirstReplaced, Map
<1>2. NewLeaves(replaced) \subseteq Txid /\ Children(replaced) \subseteq Txid
  BY <1>1 DEF NewLeaves, Children, FirstReplaced
<1>3. UNION {rbfTrees[id].txs : id \in old} \subseteq Txid
  BY <1>1 DEF RbfTree
<1>4. UNION {rbfTrees[id].txMined : id \in old} \subseteq Txid
  BY <1>1 DEF RbfTree
<1>5. \A t \in Txid : UNION {rbfTrees[id].replaces[t] : id \in old} \subseteq Txid
  BY <1>1 DEF RbfTree
<1> HIDE DEF old
<1>6. [t \in Txid |-> IF t = newTx THEN Children(replaced)
                      ELSE UNION {rbfTrees[id].replaces[t] : id \in old}]
        \in [Txid -> SUBSET Txid]
  BY <1>2, <1>5
<1>7. NewTree(replaced, newTx).fullRbf \in BOOLEAN
  BY DEF NewTree
<1>8. QED
  BY <1>2, <1>3, <1>4, <1>6, <1>7 DEF NewTree, RbfTree, old

\* Marking a transaction mined leaves an RbfTree.
LEMMA MinedTreeType ==
    ASSUME NEW tree \in RbfTree, NEW txid \in Txid
    PROVE  /\ MinedTree(tree, txid) \in RbfTree
           /\ MinedTree(tree, txid).txs = tree.txs
           /\ MinedTree(tree, txid).replaces = tree.replaces
           /\ MinedTree(tree, txid).fullRbf = tree.fullRbf
<1> DEFINE marked == [tree EXCEPT !.txMined = @ \cup ({txid} \cap tree.txs)]
<1>1. /\ marked \in RbfTree
      /\ marked.txs = tree.txs
      /\ marked.replaces = tree.replaces
      /\ marked.fullRbf = tree.fullRbf
  BY DEF RbfTree
<1>2. MinedTree(tree, txid) = [marked EXCEPT !.mined = TRUE]
  BY Zenon DEF MinedTree
<1> HIDE DEF marked
<1>3. QED
  BY <1>1, <1>2 DEF RbfTree

\* Every step keeps the types.
LEMMA NextKeepsType ==
    ASSUME TypeOK, [Next]_vars
    PROVE  TypeOK'
<1>1. ASSUME NEW newTx \in Txid, NEW replaced \in SUBSET (Txid \ {newTx}),
             Add(replaced, newTx)
      PROVE  TypeOK'
  <2>1. NewTree(replaced, newTx) \in RbfTree
    BY NewTreeType
  <2>2. NewLeaves(replaced) \subseteq Txid /\ Children(replaced) \subseteq Txid
    BY DEF NewLeaves, Children, FirstReplaced, OldRoots, OldTreeIds, TypeOK, Map
  <2>3. QED
    BY <1>1, <2>1, <2>2 DEF Add, TypeOK, Map, DropUnheld
<1>2. ASSUME NEW txid \in Txid, Mined(txid)
      PROVE  TypeOK'
  <2>1. \A id \in TreeOf(txid) : MinedTree(rbfTrees[id], txid) \in RbfTree
    BY MinedTreeType DEF TreeOf, TypeOK
  <2>2. QED
    BY <1>2, <2>1 DEF Mined, TypeOK, TreeOf
<1>3. ASSUME NEW txid \in Txid, Evict(txid)
      PROVE  TypeOK'
  BY <1>3 DEF Evict, TypeOK
<1>4. CASE GetRbfChanges
  BY <1>4 DEF GetRbfChanges, TypeOK
<1>5. ASSUME NEW due \in SUBSET expiring, Cleanup(due)
      PROVE  TypeOK'
  BY <1>5 DEF Cleanup, TypeOK, Map, DropUnheld
<1>6. CASE UNCHANGED vars
  BY <1>6 DEF vars, TypeOK
<1>7. QED
  BY <1>1, <1>2, <1>3, <1>4, <1>5, <1>6 DEF Next

\* Every state of the cache is well typed.
THEOREM TypeCorrect == Spec => []TypeOK
<1>1. Init => TypeOK
  BY DEF Init, TypeOK, Empty, Map
<1>2. TypeOK /\ [Next]_vars => TypeOK'
  BY NextKeepsType
<1>3. QED
  BY <1>1, <1>2, PTL DEF Spec

(***************************************************************************)
(* Consistency of the three views                                          *)
(***************************************************************************)

\* The invariants that rbf-cache.ts:55-60 documents are not inductive: add
\* relies on a replaced transaction being the root of its tree and on the
\* tree objects listing what the maps say, remove on reaching a whole tree.
Consistent ==
    /\ Symmetry
    /\ UniqueId
    /\ UniqueTree
    /\ Existence
    /\ Completeness
    /\ TreesMatchMaps
    /\ ReachedFromRoot
    /\ RootsAreNewest
    /\ NothingLeaks

USE DEF Map

\* A tree id is a transaction that nothing replaced.
LEMMA IdsAreRoots ==
    ASSUME TypeOK, Consistent, NEW t \in Txid, treeMap[t] # None
    PROVE  /\ treeMap[t] \in txs
           /\ treeMap[treeMap[t]] = treeMap[t]
           /\ replacedBy[treeMap[t]] = None
           /\ rbfTrees[treeMap[t]] \in RbfTree
  BY DEF TypeOK, Consistent, UniqueId, NothingLeaks, RootsAreNewest, Existence

\* add: the replaced transactions the cache knows are roots, so the trees it
\* takes over are named by them.
LEMMA AddTakesRoots ==
    ASSUME TypeOK, Consistent, NEW newTx \in Txid, newTx \notin txs,
           NEW replaced \in SUBSET (Txid \ {newTx})
    PROVE  /\ OldTreeIds(replaced) = OldRoots(replaced)
           /\ OldRoots(replaced) = FirstReplaced(replaced) \cap txs
           /\ NewLeaves(replaced) = FirstReplaced(replaced) \ txs
           /\ Children(replaced) = FirstReplaced(replaced)
<1>1. \A t \in FirstReplaced(replaced) : t \in Txid /\ replacedBy[t] = None
  BY DEF FirstReplaced
<1>2. \A t \in Txid : t \in txs <=> treeMap[t] # None
  BY DEF Consistent, NothingLeaks
<1>3. \A t \in FirstReplaced(replaced) : t \in txs => treeMap[t] = t
  BY <1>1 DEF Consistent, RootsAreNewest
<1>4. OldTreeIds(replaced) = FirstReplaced(replaced) \cap txs
  BY <1>1, <1>2, <1>3 DEF OldTreeIds
<1>5. OldRoots(replaced) = OldTreeIds(replaced)
  BY <1>1, <1>2, <1>3, <1>4 DEF OldRoots, Consistent, Existence
<1>6. NewLeaves(replaced) = FirstReplaced(replaced) \ txs
  BY <1>1, <1>2 DEF NewLeaves
<1>7. QED
  BY <1>4, <1>5, <1>6 DEF Children

\* add: the new tree lists the new transaction, the replaced ones and all
\* the versions behind them, with the children the maps give them.
LEMMA NewTreeContents ==
    ASSUME TypeOK, Consistent, NEW newTx \in Txid, newTx \notin txs,
           NEW replaced \in SUBSET (Txid \ {newTx}),
           NEW R, R = FirstReplaced(replaced)
    PROVE  /\ NewTree(replaced, newTx).txs
                = {t \in Txid : t = newTx \/ t \in R \/ treeMap[t] \in R}
           /\ \A t \in Txid : NewTree(replaced, newTx).replaces[t]
                = IF t = newTx THEN R
                  ELSE IF treeMap[t] \in R THEN replaces[t] ELSE {}
<1>1. R \subseteq Txid \ {newTx}
  BY DEF FirstReplaced
<1>2. \A t \in R \cap txs : rbfTrees[t] # None /\ treeMap[t] = t
  BY <1>1 DEF Consistent, Existence, NothingLeaks, RootsAreNewest, FirstReplaced
<1>3. \A id \in R \cap txs : rbfTrees[id].txs = Members(id)
  BY <1>1, <1>2 DEF Consistent, TreesMatchMaps
<1>4. \A id \in R \cap txs : \A t \in Txid :
        rbfTrees[id].replaces[t] = IF t \in Members(id) THEN replaces[t] ELSE {}
  BY <1>1, <1>2 DEF Consistent, TreesMatchMaps
<1>5. \A t \in Txid : treeMap[t] \in R => treeMap[t] \in R \cap txs
  BY <1>1, IdsAreRoots, ConstantsAssumption
<1>6. UNION {rbfTrees[id].txs : id \in R \cap txs}
        = {t \in Txid : treeMap[t] \in R}
  BY <1>3, <1>5 DEF Members
<1>7. ASSUME NEW t \in Txid
      PROVE  UNION {rbfTrees[id].replaces[t] : id \in R \cap txs}
               = IF treeMap[t] \in R THEN replaces[t] ELSE {}
  BY <1>4, <1>5 DEF Members
<1>8. NewTree(replaced, newTx).txs
        = {newTx} \cup (R \ txs) \cup UNION {rbfTrees[id].txs : id \in R \cap txs}
  BY AddTakesRoots DEF NewTree
<1>9. \A t \in Txid : NewTree(replaced, newTx).replaces[t]
        = IF t = newTx THEN R
          ELSE UNION {rbfTrees[id].replaces[t] : id \in R \cap txs}
  BY AddTakesRoots DEF NewTree
<1>10. \A t \in R \cap txs : treeMap[t] \in R
  BY <1>2
<1>11. QED
  <2>1. NewTree(replaced, newTx).txs
          = {t \in Txid : t = newTx \/ t \in R \/ treeMap[t] \in R}
    BY <1>1, <1>6, <1>8, <1>10
  <2>2. QED
    BY <2>1, <1>7, <1>9

\* The state after add, in terms of R, the transactions it does not skip.
LEMMA AddEffect ==
    ASSUME TypeOK, Consistent, NEW newTx \in Txid,
           NEW replaced \in SUBSET (Txid \ {newTx}), Add(replaced, newTx),
           NEW R, R = FirstReplaced(replaced)
    PROVE  /\ R \subseteq Txid \ {newTx} /\ R # {}
           /\ \A t \in R : replacedBy[t] = None
           /\ treeMap[newTx] = None /\ replacedBy[newTx] = None
           /\ replaces[newTx] = {}
           /\ \A t \in Txid : treeMap[t] # newTx /\ newTx \notin replaces[t]
           /\ \A t \in Txid : treeMap'[t] =
                IF t = newTx \/ t \in R \/ treeMap[t] \in R
                THEN newTx ELSE treeMap[t]
           /\ \A t \in Txid : replacedBy'[t] =
                IF t \in R THEN newTx ELSE replacedBy[t]
           /\ \A t \in Txid : replaces'[t] =
                IF t = newTx THEN R ELSE replaces[t]
           /\ txs' = txs \cup {newTx} \cup R
           /\ \A t \in Txid : rbfTrees'[t] =
                IF t = newTx THEN NewTree(replaced, newTx)
                ELSE IF t \in R \cap txs THEN None ELSE rbfTrees[t]
<1>1. R \subseteq Txid \ {newTx} /\ \A t \in R : replacedBy[t] = None
  BY DEF FirstReplaced
<1>2. R # {} /\ newTx \notin txs
  BY DEF Add
<1>3. treeMap[newTx] = None
  BY <1>2 DEF Consistent, NothingLeaks
<1>4. replacedBy[newTx] = None /\ replaces[newTx] = {}
  BY <1>3 DEF Consistent, Completeness
<1>5. \A t \in Txid : newTx \notin replaces[t]
  BY <1>4, ConstantsAssumption DEF Consistent, Symmetry
<1>6. \A t \in Txid : treeMap[t] # newTx
  BY <1>2, IdsAreRoots, ConstantsAssumption
<1>7. \A t \in Txid : treeMap'[t] =
        IF t = newTx \/ t \in R \/ treeMap[t] \in R THEN newTx ELSE treeMap[t]
  BY <1>2, NewTreeContents DEF Add
<1>8. \A t \in Txid : replacedBy'[t] = IF t \in R THEN newTx ELSE replacedBy[t]
  BY DEF Add
<1>9. \A t \in Txid : replaces'[t] = IF t = newTx THEN R ELSE replaces[t]
  BY <1>2, AddTakesRoots DEF Add, TypeOK
<1>10. txs' = txs \cup {newTx} \cup R
  BY <1>2, AddTakesRoots DEF Add
<1>11. \A t \in Txid : rbfTrees'[t] =
         IF t = newTx THEN NewTree(replaced, newTx)
         ELSE IF t \in R \cap txs THEN None ELSE rbfTrees[t]
  BY <1>2, AddTakesRoots DEF Add
<1>12. QED
  BY <1>1, <1>2, <1>3, <1>4, <1>5, <1>6, <1>7, <1>8, <1>9, <1>10, <1>11

\* add keeps the three views consistent.
LEMMA AddKeepsConsistent ==
    ASSUME TypeOK, TypeOK', Consistent, NEW newTx \in Txid,
           NEW replaced \in SUBSET (Txid \ {newTx}), Add(replaced, newTx)
    PROVE  Consistent'
<1> DEFINE R == FirstReplaced(replaced)
<1>a. R \subseteq Txid \ {newTx} /\ R # {}
      /\ (\A t \in R : replacedBy[t] = None)
  BY AddEffect
<1>b. treeMap[newTx] = None /\ replacedBy[newTx] = None /\ replaces[newTx] = {}
  BY AddEffect
<1>c. \A t \in Txid : treeMap[t] # newTx /\ newTx \notin replaces[t]
  BY AddEffect
<1>d. \A t \in Txid : treeMap'[t] =
        IF t = newTx \/ t \in R \/ treeMap[t] \in R THEN newTx ELSE treeMap[t]
  BY AddEffect
<1>e. \A t \in Txid : replacedBy'[t] = IF t \in R THEN newTx ELSE replacedBy[t]
  BY AddEffect
<1>f. \A t \in Txid : replaces'[t] = IF t = newTx THEN R ELSE replaces[t]
  BY AddEffect
<1>g. txs' = txs \cup {newTx} \cup R
  BY AddEffect
<1>h. \A t \in Txid : rbfTrees'[t] =
        IF t = newTx THEN NewTree(replaced, newTx)
        ELSE IF t \in R \cap txs THEN None ELSE rbfTrees[t]
  BY AddEffect
<1>i. NewTree(replaced, newTx) # None
  BY NewTreeType, ConstantsAssumption
<1>j. newTx \notin txs
  BY DEF Add
<1>k. \A t \in Txid : t \in txs <=> treeMap[t] # None
  BY DEF Consistent, NothingLeaks
<1>l. \A t \in R \cap txs : treeMap[t] = t
  BY <1>a DEF Consistent, RootsAreNewest
<1>m. \A t \in Txid : treeMap[t] # None => treeMap[t] \in txs
  BY IdsAreRoots
<1> HIDE DEF R
<1>1. Symmetry'
  BY <1>a, <1>b, <1>c, <1>e, <1>f, ConstantsAssumption
     DEF Consistent, Symmetry, TypeOK
<1>2. UniqueId'
  BY <1>a, <1>b, <1>d, <1>l, ConstantsAssumption DEF Consistent, UniqueId, TypeOK
<1>3. UniqueTree'
  <2>1. ASSUME NEW x \in Txid, NEW y \in replaces'[x], x # newTx
        PROVE  treeMap'[y] = treeMap'[x]
    <3>1. y \in replaces[x] /\ y \in Txid
      BY <2>1, <1>f DEF TypeOK
    <3>2. treeMap[y] = treeMap[x] /\ replacedBy[y] = x
      BY <3>1 DEF Consistent, UniqueTree, Symmetry
    <3>3. y \notin R /\ y # newTx
      BY <3>2, <1>a, <1>b, ConstantsAssumption
    <3>4. replaces[x] # {}
      BY <3>1
    <3>5. treeMap[x] # None
      BY <3>4 DEF Consistent, Completeness
    <3>6. x \in R => treeMap[x] = x
      BY <3>5, <1>k, <1>l
    <3>7. QED
      BY <2>1, <3>1, <3>2, <3>3, <3>6, <1>d
  <2>2. \A y \in replaces'[newTx] : treeMap'[y] = treeMap'[newTx]
    BY <1>a, <1>d, <1>f
  <2>3. QED
    BY <2>1, <2>2 DEF UniqueTree
<1>4. Existence'
  <2>1. ASSUME NEW t \in Txid, treeMap'[t] # None
        PROVE  rbfTrees'[treeMap'[t]] # None
    <3>1. CASE treeMap'[t] = newTx
      BY <3>1, <1>h, <1>i
    <3>2. CASE treeMap'[t] # newTx
      <4>1. treeMap'[t] = treeMap[t] /\ treeMap[t] \notin R
        BY <3>2, <1>d
      <4>2. treeMap[t] \in Txid /\ rbfTrees[treeMap[t]] # None
        BY <2>1, <4>1, <1>m DEF Consistent, Existence, TypeOK
      <4>3. QED
        BY <3>2, <4>1, <4>2, <1>h
    <3>3. QED
      BY <3>1, <3>2
  <2>2. QED
    BY <2>1 DEF Existence
<1>5. Completeness'
  <2>1. ASSUME NEW t \in Txid, replacedBy'[t] # None \/ replaces'[t] # {}
        PROVE  treeMap'[t] # None
    <3>1. t = newTx \/ t \in R \/ treeMap[t] # None
      BY <2>1, <1>e, <1>f DEF Consistent, Completeness
    <3>2. QED
      BY <3>1, <1>d, ConstantsAssumption
  <2>2. QED
    BY <2>1 DEF Completeness
<1>6. TreesMatchMaps'
  <2> SUFFICES ASSUME NEW id \in Txid, rbfTrees'[id] # None
               PROVE  /\ treeMap'[id] = id
                      /\ rbfTrees'[id].txs = Members(id)'
                      /\ \A t \in Txid : rbfTrees'[id].replaces[t] =
                            IF t \in Members(id)' THEN replaces'[t] ELSE {}
    BY DEF TreesMatchMaps
  <2>1. CASE id = newTx
    <3>1. Members(newTx)'
            = {t \in Txid : t = newTx \/ t \in R \/ treeMap[t] \in R}
      BY <1>c, <1>d DEF Members
    <3>2. /\ NewTree(replaced, newTx).txs = Members(newTx)'
          /\ \A t \in Txid : NewTree(replaced, newTx).replaces[t] =
                IF t = newTx THEN R
                ELSE IF treeMap[t] \in R THEN replaces[t] ELSE {}
      BY <3>1, <1>j, NewTreeContents DEF R
    <3>3. \A t \in R : treeMap[t] \notin R => replaces[t] = {}
      BY <1>a, <1>k, <1>l DEF Consistent, Completeness
    <3>4. \A t \in Txid : NewTree(replaced, newTx).replaces[t] =
            IF t \in Members(newTx)' THEN replaces'[t] ELSE {}
      BY <3>1, <3>2, <3>3, <1>f
    <3>5. QED
      BY <2>1, <3>2, <3>4, <1>d, <1>h
  <2>2. CASE id # newTx
    <3>1. rbfTrees'[id] = rbfTrees[id] /\ rbfTrees[id] # None
      BY <2>2, <1>h
    <3>2. treeMap[id] = id
      BY <3>1 DEF Consistent, TreesMatchMaps
    <3>3. id \in txs /\ id \notin R
      BY <2>2, <3>1, <3>2, <1>h, <1>k, ConstantsAssumption
    <3>4. Members(id)' = Members(id) /\ newTx \notin Members(id)
      <4>1. \A t \in Txid : treeMap[t] = id => t \notin R /\ t # newTx
        BY <3>3, <1>b, <1>k, <1>l, ConstantsAssumption
      <4>2. \A t \in Txid : treeMap'[t] = id <=> treeMap[t] = id
        BY <2>2, <3>3, <4>1, <1>d
      <4>3. QED
        BY <4>1, <4>2 DEF Members
    <3>5. QED
      BY <2>2, <3>1, <3>2, <3>3, <3>4, <1>d, <1>f DEF Consistent, TreesMatchMaps
  <2>3. QED
    BY <2>1, <2>2
<1>7. ReachedFromRoot'
  <2> SUFFICES ASSUME NEW t \in Txid, treeMap'[t] # None,
                      NEW S \in SUBSET Txid, treeMap'[t] \in S,
                      ClosedUnderReplaces(S)'
               PROVE  t \in S
    BY DEF ReachedFromRoot, Versions
  <2>1. ClosedUnderReplaces(S)
    BY <1>b, <1>f DEF ClosedUnderReplaces
  <2>2. \A u \in Txid : treeMap[u] \in S => u \in S
    BY <2>1, ConstantsAssumption DEF Consistent, ReachedFromRoot, Versions
  <2>3. CASE treeMap'[t] = newTx
    <3>1. newTx \in S /\ R \subseteq S
      BY <2>3, <1>f DEF ClosedUnderReplaces
    <3>2. t = newTx \/ t \in R \/ treeMap[t] \in R
      BY <2>3, <1>c, <1>d
    <3>3. QED
      BY <3>1, <3>2, <2>2
  <2>4. CASE treeMap'[t] # newTx
    BY <2>2, <2>4, <1>d
  <2>5. QED
    BY <2>3, <2>4
<1>8. RootsAreNewest'
  <2>1. ASSUME NEW t \in txs'
        PROVE  replacedBy'[t] = None <=> treeMap'[t] = t
    <3>1. t \in Txid
      BY DEF TypeOK
    <3>2. CASE t = newTx
      BY <3>2, <1>a, <1>b, <1>d, <1>e
    <3>3. CASE t \in R
      BY <3>3, <1>a, <1>d, <1>e, ConstantsAssumption
    <3>4. CASE t # newTx /\ t \notin R
      <4>1. t \in txs /\ replacedBy'[t] = replacedBy[t]
        BY <3>1, <3>4, <1>e, <1>g
      <4>2. treeMap'[t] = t <=> treeMap[t] = t
        BY <3>1, <3>4, <1>d
      <4>3. QED
        BY <4>1, <4>2 DEF Consistent, RootsAreNewest
    <3>5. QED
      BY <3>2, <3>3, <3>4
  <2>2. QED
    BY <2>1 DEF RootsAreNewest
<1>9. NothingLeaks'
  <2>1. \A t \in Txid : t \in txs' <=> treeMap'[t] # None
    BY <1>a, <1>d, <1>g, <1>k, <1>l, <1>m, ConstantsAssumption
  <2>2. expiring' = expiring /\ expiring \subseteq txs
    BY DEF Add, Consistent, NothingLeaks
  <2>3. QED
    BY <2>1, <2>2, <1>g DEF NothingLeaks, TypeOK
<1>10. QED
  BY <1>1, <1>2, <1>3, <1>4, <1>5, <1>6, <1>7, <1>8, <1>9 DEF Consistent

\* remove(r) on a root visits the whole tree of r and nothing else.
LEMMA VersionsAreMembers ==
    ASSUME TypeOK, Consistent, NEW r \in txs, replacedBy[r] = None
    PROVE  Versions(r) = Members(r) /\ treeMap[r] = r
<1>1. r \in Txid /\ treeMap[r] = r
  BY DEF TypeOK, Consistent, RootsAreNewest
<1>2. Members(r) \subseteq Versions(r)
  BY <1>1, ConstantsAssumption DEF Members, Consistent, ReachedFromRoot
<1>3. ClosedUnderReplaces(Members(r))
  BY DEF ClosedUnderReplaces, Members, Consistent, UniqueTree, TypeOK
<1>4. Versions(r) \subseteq Members(r)
  BY <1>1, <1>3 DEF Versions, Members
<1>5. QED
  BY <1>1, <1>2, <1>4

\* What cleanup removes: the trees of the overdue roots.
LEMMA DoomedAreTrees ==
    ASSUME TypeOK, Consistent, NEW due \in SUBSET expiring
    PROVE  /\ Doomed(due) = {t \in Txid : treeMap[t] \in OverdueRoots(due)}
           /\ \A r \in OverdueRoots(due) : r \in txs /\ treeMap[r] = r
<1>1. \A r \in OverdueRoots(due) : r \in txs /\ replacedBy[r] = None
  BY DEF Consistent, NothingLeaks, OverdueRoots
<1>2. \A r \in OverdueRoots(due) : Versions(r) = Members(r) /\ treeMap[r] = r
  BY <1>1, VersionsAreMembers
<1>3. QED
  BY <1>1, <1>2 DEF Doomed, Members

\* cleanup keeps the three views consistent.
LEMMA CleanupKeepsConsistent ==
    ASSUME TypeOK, TypeOK', Consistent, NEW due \in SUBSET expiring,
           Cleanup(due)
    PROVE  Consistent'
<1> DEFINE E == OverdueRoots(due)
           gone == Doomed(due)
<1>a. \A t \in Txid : t \in gone <=> treeMap[t] \in E
  BY DoomedAreTrees
<1>b. gone \subseteq Txid /\ gone \subseteq txs
  <2>1. gone \subseteq Txid
    BY DEF Doomed, Versions
  <2>2. None \notin E
    BY ConstantsAssumption DEF TypeOK, OverdueRoots
  <2>3. QED
    BY <1>a, <2>1, <2>2 DEF Consistent, NothingLeaks
<1>c. \A r \in E : r \in txs /\ treeMap[r] = r
  BY DoomedAreTrees
<1>d. \A t \in Txid : treeMap'[t] = IF t \in gone THEN None ELSE treeMap[t]
  BY DEF Cleanup
<1>e. \A t \in Txid : replacedBy'[t] = IF t \in gone THEN None ELSE replacedBy[t]
  BY DEF Cleanup
<1>f. \A t \in Txid : replaces'[t] = IF t \in gone THEN {} ELSE replaces[t]
  BY DEF Cleanup
<1>g. txs' = txs \ gone /\ expiring' = expiring \ (due \cup gone)
  BY DEF Cleanup
<1>h. \A t \in Txid : rbfTrees'[t] =
        IF t \in gone /\ treeMap[t] = t THEN None ELSE rbfTrees[t]
  BY DEF Cleanup
<1>i. \A t \in Txid : t \in txs <=> treeMap[t] # None
  BY DEF Consistent, NothingLeaks
<1> HIDE DEF E, gone
<1>j. \A x \in Txid : \A y \in replaces[x] : y \in gone <=> x \in gone
  BY <1>a DEF Consistent, UniqueTree, TypeOK
<1>1. Symmetry'
  <2> SUFFICES ASSUME NEW x \in Txid, NEW y \in Txid
               PROVE  replacedBy'[x] = y <=> x \in replaces'[y]
    BY DEF Symmetry
  <2>1. replacedBy[x] = y <=> x \in replaces[y]
    BY DEF Consistent, Symmetry
  <2>2. QED
    BY <2>1, <1>e, <1>f, <1>j, ConstantsAssumption
<1>2. UniqueId'
  <2>1. ASSUME NEW t \in Txid, treeMap'[t] # None
        PROVE  treeMap'[treeMap'[t]] = treeMap'[t]
    <3>1. t \notin gone /\ treeMap'[t] = treeMap[t] /\ treeMap[t] # None
      BY <2>1, <1>d
    <3>2. treeMap[treeMap[t]] = treeMap[t] /\ treeMap[t] \in Txid
      BY <3>1 DEF Consistent, UniqueId, TypeOK
    <3>3. QED
      BY <3>1, <3>2, <1>a, <1>d
  <2>2. QED
    BY <2>1 DEF UniqueId
<1>3. UniqueTree'
  BY <1>d, <1>f, <1>j DEF Consistent, UniqueTree, TypeOK
<1>4. Existence'
  <2>1. ASSUME NEW t \in Txid, treeMap'[t] # None
        PROVE  rbfTrees'[treeMap'[t]] # None
    <3>1. t \notin gone /\ treeMap'[t] = treeMap[t] /\ treeMap[t] # None
      BY <2>1, <1>d
    <3>2. /\ treeMap[treeMap[t]] = treeMap[t] /\ treeMap[t] \in Txid
          /\ rbfTrees[treeMap[t]] # None
      BY <3>1 DEF Consistent, UniqueId, Existence, TypeOK
    <3>3. QED
      BY <3>1, <3>2, <1>a, <1>h
  <2>2. QED
    BY <2>1 DEF Existence
<1>5. Completeness'
  BY <1>d, <1>e, <1>f DEF Consistent, Completeness
<1>6. TreesMatchMaps'
  <2> SUFFICES ASSUME NEW id \in Txid, rbfTrees'[id] # None
               PROVE  /\ treeMap'[id] = id
                      /\ rbfTrees'[id].txs = Members(id)'
                      /\ \A t \in Txid : rbfTrees'[id].replaces[t] =
                            IF t \in Members(id)' THEN replaces'[t] ELSE {}
    BY DEF TreesMatchMaps
  <2>1. rbfTrees'[id] = rbfTrees[id] /\ treeMap[id] = id /\ id \notin gone
    BY <1>h DEF Consistent, TreesMatchMaps
  <2>2. \A t \in Members(id) : t \notin gone
    BY <2>1, <1>a DEF Members
  <2>3. Members(id)' = Members(id)
    BY <2>2, <1>d, ConstantsAssumption DEF Members
  <2>4. QED
    BY <2>1, <2>2, <2>3, <1>d, <1>f DEF Consistent, TreesMatchMaps
<1>7. ReachedFromRoot'
  <2> SUFFICES ASSUME NEW t \in Txid, treeMap'[t] # None,
                      NEW S \in SUBSET Txid, treeMap'[t] \in S,
                      ClosedUnderReplaces(S)'
               PROVE  t \in S
    BY DEF ReachedFromRoot, Versions
  <2>1. ClosedUnderReplaces(S \cup gone)
    BY <1>b, <1>f, <1>j DEF ClosedUnderReplaces, TypeOK
  <2>2. t \notin gone /\ treeMap'[t] = treeMap[t]
    BY <1>d
  <2>3. t \in S \cup gone
    BY <2>1, <2>2, <1>b DEF Consistent, ReachedFromRoot, Versions
  <2>4. QED
    BY <2>2, <2>3
<1>8. RootsAreNewest'
  BY <1>d, <1>e, <1>g DEF Consistent, RootsAreNewest, TypeOK
<1>9. NothingLeaks'
  BY <1>b, <1>d, <1>g, <1>i DEF Consistent, NothingLeaks, TypeOK
<1>10. QED
  BY <1>1, <1>2, <1>3, <1>4, <1>5, <1>6, <1>7, <1>8, <1>9 DEF Consistent

\* Marking a transaction mined changes no map, and of a tree only its flags.
LEMMA MarkingKeepsConsistent ==
    ASSUME TypeOK, Consistent, NEW txid \in Txid,
           rbfTrees' = [id \in Txid |-> IF id \in TreeOf(txid)
                                       THEN MinedTree(rbfTrees[id], txid)
                                       ELSE rbfTrees[id]],
           UNCHANGED <<replacedBy, replaces, treeMap, txs>>,
           expiring' \subseteq txs
    PROVE  Consistent'
<1>1. UNCHANGED <<replacedBy, replaces, treeMap, txs>> /\ expiring' \subseteq txs
  OBVIOUS
<1>2. ASSUME NEW id \in Txid
      PROVE  /\ rbfTrees'[id] = None <=> rbfTrees[id] = None
             /\ rbfTrees[id] # None =>
                  /\ rbfTrees'[id].txs = rbfTrees[id].txs
                  /\ rbfTrees'[id].replaces = rbfTrees[id].replaces
  <2>1. CASE id \in TreeOf(txid)
    <3>1. rbfTrees[id] \in RbfTree
      BY <2>1 DEF TreeOf, TypeOK
    <3>2. rbfTrees'[id] = MinedTree(rbfTrees[id], txid)
      BY <2>1
    <3>3. MinedTree(rbfTrees[id], txid) # None
      BY <3>1, MinedTreeType, ConstantsAssumption
    <3>4. /\ MinedTree(rbfTrees[id], txid).txs = rbfTrees[id].txs
          /\ MinedTree(rbfTrees[id], txid).replaces = rbfTrees[id].replaces
      BY <3>1, MinedTreeType, Zenon
    <3>5. rbfTrees[id] # None
      BY <2>1 DEF TreeOf
    <3>6. QED
      BY <3>2, <3>3, <3>4, <3>5
  <2>2. CASE id \notin TreeOf(txid)
    BY <2>2
  <2>3. QED
    BY <2>1, <2>2
<1>3. Existence'
  BY <1>1, <1>2 DEF Consistent, Existence, TypeOK
<1>4. TreesMatchMaps'
  BY <1>1, <1>2 DEF Consistent, TreesMatchMaps, Members
<1>5. ReachedFromRoot'
  BY <1>1 DEF Consistent, ReachedFromRoot, Versions, ClosedUnderReplaces
<1>6. QED
  BY <1>1, <1>3, <1>4, <1>5
     DEF Consistent, Symmetry, UniqueId, UniqueTree, Completeness,
         RootsAreNewest, NothingLeaks

\* Nor does it matter when only expiry times change.
LEMMA SameForestStaysConsistent ==
    ASSUME Consistent, UNCHANGED <<replacedBy, replaces, rbfTrees, treeMap, txs>>,
           expiring' \subseteq txs
    PROVE  Consistent'
<1>1. ReachedFromRoot' /\ TreesMatchMaps'
  BY DEF Consistent, ReachedFromRoot, Versions, ClosedUnderReplaces,
         TreesMatchMaps, Members
<1>2. QED
  BY <1>1 DEF Consistent, Symmetry, UniqueId, UniqueTree, Existence,
              Completeness, RootsAreNewest, NothingLeaks

\* Every step keeps the three views consistent.
LEMMA NextKeepsConsistent ==
    ASSUME TypeOK, TypeOK', Consistent, [Next]_vars
    PROVE  Consistent'
<1>1. ASSUME NEW newTx \in Txid, NEW replaced \in SUBSET (Txid \ {newTx}),
             Add(replaced, newTx)
      PROVE  Consistent'
  BY <1>1, AddKeepsConsistent
<1>2. ASSUME NEW txid \in Txid, Mined(txid)
      PROVE  Consistent'
  BY <1>2, MarkingKeepsConsistent DEF Mined, Consistent, NothingLeaks
<1>3. ASSUME NEW txid \in Txid, Evict(txid)
      PROVE  Consistent'
  BY <1>3, SameForestStaysConsistent DEF Evict, Consistent, NothingLeaks
<1>4. CASE GetRbfChanges
  BY <1>4, SameForestStaysConsistent DEF GetRbfChanges, Consistent, NothingLeaks
<1>5. ASSUME NEW due \in SUBSET expiring, Cleanup(due)
      PROVE  Consistent'
  BY <1>5, CleanupKeepsConsistent
<1>6. CASE UNCHANGED vars
  BY <1>6, SameForestStaysConsistent DEF vars, Consistent, NothingLeaks
<1>7. QED
  BY <1>1, <1>2, <1>3, <1>4, <1>5, <1>6 DEF Next

\* The three views are consistent in every reachable state.
THEOREM AlwaysConsistent == Spec => []Consistent
<1>1. Init => Consistent
  BY ConstantsAssumption
     DEF Init, Empty, Consistent, Symmetry, UniqueId, UniqueTree, Existence,
         Completeness, TreesMatchMaps, Members, ReachedFromRoot,
         RootsAreNewest, NothingLeaks
<1>2. TypeOK /\ TypeOK' /\ Consistent /\ [Next]_vars => Consistent'
  BY NextKeepsConsistent
<1>3. QED
  BY <1>1, <1>2, TypeCorrect, PTL DEF Spec

\* Each invariant that the comment of rbf-cache.ts:55-60 lists holds in every
\* reachable state: symmetry, unique id, unique tree, existence, completeness.
THEOREM CacheUpholdsInvariants == Spec => []DocumentedInvariants
<1>1. Consistent => DocumentedInvariants
  BY DEF Consistent, DocumentedInvariants
<1>2. QED
  BY <1>1, AlwaysConsistent, PTL

\* The tree objects, the maps and the sets of keys never come apart, and
\* remove() always reaches a whole tree.
THEOREM ViewsAlwaysAgree == Spec => []ViewsAgree
<1>1. Consistent => ViewsAgree
  BY DEF Consistent, ViewsAgree
<1>2. QED
  BY <1>1, AlwaysConsistent, PTL

(***************************************************************************)
(* Full-RBF marks and change notification                                  *)
(***************************************************************************)

\* A tree's full-RBF mark is exact in every reachable state.
THEOREM FullRbfAlwaysExact == Spec => []FullRbfExact
<1>1. Init => FullRbfExact
  BY DEF Init, Empty, FullRbfExact
<1>2. TypeOK /\ Consistent /\ FullRbfExact /\ [Next]_vars => FullRbfExact'
  <2> SUFFICES ASSUME TypeOK, Consistent, FullRbfExact, [Next]_vars,
                      NEW id \in Txid, rbfTrees'[id] # None
               PROVE  rbfTrees'[id].fullRbf
                        <=> ~(rbfTrees'[id].txs \ {id} \subseteq Signals)
    BY DEF FullRbfExact
  <2>1. ASSUME rbfTrees'[id] = rbfTrees[id]
        PROVE  rbfTrees'[id].fullRbf
                 <=> ~(rbfTrees'[id].txs \ {id} \subseteq Signals)
    BY <2>1 DEF FullRbfExact
  <2>2. ASSUME NEW newTx \in Txid, NEW replaced \in SUBSET (Txid \ {newTx}),
               Add(replaced, newTx)
        PROVE  rbfTrees'[id].fullRbf
                 <=> ~(rbfTrees'[id].txs \ {id} \subseteq Signals)
    <3> DEFINE R == FirstReplaced(replaced)
               tree == NewTree(replaced, newTx)
    <3>1. CASE id # newTx
      BY <2>1, <2>2, <3>1 DEF Add
    <3>2. CASE id = newTx
      <4>1. newTx \notin txs
        BY <2>2 DEF Add
      <4>2. /\ OldRoots(replaced) = R \cap txs
            /\ Children(replaced) = R
        BY <4>1, AddTakesRoots
      <4>3. tree.fullRbf <=> \/ \E r \in R \cap txs : rbfTrees[r].fullRbf
                             \/ ~(R \subseteq Signals)
        BY <4>2 DEF NewTree
      <4>4. \A r \in R \cap txs : /\ r \in Txid /\ treeMap[r] = r
                                  /\ rbfTrees[r] # None
                                  /\ rbfTrees[r].txs = Members(r)
        BY DEF FirstReplaced, TypeOK, Consistent, RootsAreNewest, Existence,
               NothingLeaks, TreesMatchMaps
      <4>5. \A r \in R \cap txs : rbfTrees[r].fullRbf
                                  <=> ~(Members(r) \ {r} \subseteq Signals)
        BY <4>4 DEF FullRbfExact
      <4>6. tree.txs = {t \in Txid : t = newTx \/ t \in R \/ treeMap[t] \in R}
        BY <4>1, NewTreeContents
      <4>7. \A t \in Txid : treeMap[t] \in R => treeMap[t] \in R \cap txs
        BY IdsAreRoots, ConstantsAssumption DEF FirstReplaced
      <4>8. R \subseteq Txid \ {newTx} /\ \A t \in Txid : treeMap[t] # newTx
        BY <4>1, IdsAreRoots, ConstantsAssumption DEF FirstReplaced
      <4>9. treeMap[newTx] = None
        BY <4>1 DEF Consistent, NothingLeaks
      <4> HIDE DEF R, tree
      <4>10. ~(tree.txs \ {newTx} \subseteq Signals) <=>
                \/ \E r \in R \cap txs : ~(Members(r) \ {r} \subseteq Signals)
                \/ ~(R \subseteq Signals)
        BY <4>4, <4>6, <4>7, <4>8, <4>9, ConstantsAssumption DEF Members
      <4>11. rbfTrees'[id] = tree
        BY <2>2, <3>2 DEF Add, tree
      <4>12. QED
        BY <3>2, <4>3, <4>5, <4>10, <4>11
    <3>3. QED
      BY <3>1, <3>2
  <2>3. ASSUME NEW txid \in Txid, Mined(txid)
        PROVE  rbfTrees'[id].fullRbf
                 <=> ~(rbfTrees'[id].txs \ {id} \subseteq Signals)
    <3>1. CASE id \notin TreeOf(txid)
      BY <2>1, <2>3, <3>1 DEF Mined
    <3>2. CASE id \in TreeOf(txid)
      <4>1. rbfTrees[id] \in RbfTree /\ rbfTrees[id] # None
        BY <3>2 DEF TreeOf, TypeOK
      <4>2. rbfTrees'[id] = MinedTree(rbfTrees[id], txid)
        BY <2>3, <3>2 DEF Mined
      <4>3. /\ MinedTree(rbfTrees[id], txid).txs = rbfTrees[id].txs
            /\ MinedTree(rbfTrees[id], txid).fullRbf = rbfTrees[id].fullRbf
        BY <4>1, MinedTreeType, Zenon
      <4>4. QED
        BY <4>1, <4>2, <4>3 DEF FullRbfExact
    <3>3. QED
      BY <3>1, <3>2
  <2>4. CASE UNCHANGED rbfTrees
    BY <2>1, <2>4
  <2>5. ASSUME NEW due \in SUBSET expiring, Cleanup(due)
        PROVE  rbfTrees'[id].fullRbf
                 <=> ~(rbfTrees'[id].txs \ {id} \subseteq Signals)
    BY <2>1, <2>5 DEF Cleanup
  <2>6. QED
    BY <2>2, <2>3, <2>4, <2>5 DEF Next, Evict, GetRbfChanges, vars
<1>3. QED
  BY <1>1, <1>2, TypeCorrect, AlwaysConsistent, PTL DEF Spec

\* No change of a tree escapes getRbfChanges.
THEOREM ChangesAlwaysDirty == Spec => []ChangesAreDirty
<1>1. Init => ChangesAreDirty
  BY DEF Init, Empty, ChangesAreDirty
<1>2. TypeOK /\ ChangesAreDirty /\ [Next]_vars => ChangesAreDirty'
  <2> SUFFICES ASSUME TypeOK, ChangesAreDirty, [Next]_vars
               PROVE  ChangesAreDirty'
    OBVIOUS
  <2>1. ASSUME NEW newTx \in Txid, NEW replaced \in SUBSET (Txid \ {newTx}),
               Add(replaced, newTx)
        PROVE  ChangesAreDirty'
    BY <2>1 DEF Add, DropUnheld, ChangesAreDirty
  <2>2. ASSUME NEW txid \in Txid, Mined(txid)
        PROVE  ChangesAreDirty'
    BY <2>2 DEF Mined, ChangesAreDirty
  <2>3. ASSUME NEW txid \in Txid, Evict(txid)
        PROVE  ChangesAreDirty'
    BY <2>3 DEF Evict, ChangesAreDirty
  <2>4. CASE GetRbfChanges
    BY <2>4 DEF GetRbfChanges, ChangesAreDirty
  <2>5. ASSUME NEW due \in SUBSET expiring, Cleanup(due)
        PROVE  ChangesAreDirty'
    BY <2>5 DEF Cleanup, DropUnheld, ChangesAreDirty
  <2>6. CASE UNCHANGED vars
    BY <2>6 DEF vars, ChangesAreDirty
  <2>7. QED
    BY <2>1, <2>2, <2>3, <2>4, <2>5, <2>6 DEF Next
<1>3. QED
  BY <1>1, <1>2, TypeCorrect, PTL DEF Spec

(***************************************************************************)
(* What a step may do to the history                                       *)
(***************************************************************************)

\* What cleanup forgets is whole trees whose newest version has expired.
LEMMA CleanupForgetsTrees ==
    ASSUME TypeOK, Consistent, NEW due \in SUBSET expiring, Cleanup(due),
           NEW t \in txs \ txs'
    PROVE  /\ treeMap[t] \in expiring
           /\ \A u \in Txid : treeMap[u] = treeMap[t] => u \notin txs'
<1>1. Doomed(due) = {u \in Txid : treeMap[u] \in OverdueRoots(due)}
  BY DoomedAreTrees
<1>2. txs' = txs \ Doomed(due)
  BY DEF Cleanup
<1>3. OverdueRoots(due) \subseteq expiring
  BY DEF OverdueRoots
<1>4. QED
  BY <1>1, <1>2, <1>3 DEF TypeOK

\* History is forgotten by whole expired trees only.
THEOREM OnlyExpiredTreesForgotten == Spec => ForgetsWholeExpiredTrees
<1>1. TypeOK /\ Consistent /\ [Next]_vars =>
        [\A t \in txs \ txs' :
           /\ treeMap[t] \in expiring
           /\ \A u \in Txid : treeMap[u] = treeMap[t] => u \notin txs']_vars
  <2> SUFFICES ASSUME TypeOK, Consistent, Next, NEW t \in txs \ txs'
               PROVE  /\ treeMap[t] \in expiring
                      /\ \A u \in Txid : treeMap[u] = treeMap[t] => u \notin txs'
    OBVIOUS
  <2>1. PICK due \in SUBSET expiring : Cleanup(due)
    BY DEF Next, Add, Mined, Evict, GetRbfChanges
  <2>2. QED
    BY <2>1, CleanupForgetsTrees
<1>2. QED
  BY <1>1, TypeCorrect, AlwaysConsistent, PTL DEF Spec, ForgetsWholeExpiredTrees

(***************************************************************************)
(* The cache implements RbfVersions                                        *)
(***************************************************************************)

\* An add is a replacement of the transactions it does not skip.
LEMMA AddImplementsReplace ==
    ASSUME TypeOK, TypeOK', Consistent, NEW newTx \in Txid,
           NEW replaced \in SUBSET (Txid \ {newTx}), Add(replaced, newTx)
    PROVE  History!Replace(FirstReplaced(replaced), newTx)
<1> DEFINE R == FirstReplaced(replaced)
<1>1. R \subseteq Txid \ {newTx} /\ R # {} /\ treeMap[newTx] = None
  BY AddEffect
<1>2. \A t \in Txid : treeMap'[t] =
        IF t = newTx \/ t \in R \/ treeMap[t] \in R THEN newTx ELSE treeMap[t]
  BY AddEffect
<1>3. \A t \in R : treeMap[t] \in {None, t}
  BY DEF FirstReplaced, Consistent, RootsAreNewest, NothingLeaks
<1>4. replacedBy' = [t \in Txid |-> IF t \in R THEN newTx ELSE replacedBy[t]]
  BY DEF Add
<1> HIDE DEF R
<1>5. treeMap' = [t \in Txid |->
                    IF t \in R \cup {newTx} \/ treeMap[t] \in R
                    THEN newTx ELSE treeMap[t]]
  BY <1>2 DEF TypeOK
<1>6. QED
  BY <1>1, <1>3, <1>4, <1>5 DEF History!Replace, History!Replaceable, R

\* A cleanup forgets the trees of the overdue roots, if there are any.
LEMMA CleanupImplementsForget ==
    ASSUME TypeOK, TypeOK', Consistent, NEW due \in SUBSET expiring,
           Cleanup(due)
    PROVE  \/ History!Forget(OverdueRoots(due))
           \/ UNCHANGED <<treeMap, replacedBy>>
<1> DEFINE E == OverdueRoots(due)
<1>1. Doomed(due) = {t \in Txid : treeMap[t] \in E}
  BY DoomedAreTrees
<1>2. \A r \in E : treeMap[r] = r
  BY DoomedAreTrees
<1>3. treeMap' = [t \in Txid |-> IF treeMap[t] \in E THEN None ELSE treeMap[t]]
  BY <1>1 DEF Cleanup
<1>4. replacedBy' = [t \in Txid |->
                       IF treeMap[t] \in E THEN None ELSE replacedBy[t]]
  BY <1>1 DEF Cleanup
<1> HIDE DEF E
<1>5. CASE E = {}
  BY <1>3, <1>4, <1>5 DEF TypeOK
<1>6. CASE E # {}
  BY <1>2, <1>3, <1>4, <1>6 DEF History!Forget, E
<1>7. QED
  BY <1>5, <1>6

\* The cache answers "what replaced it" and "what is its newest version" as
\* RbfVersions specifies.
THEOREM CacheImplementsVersions == Spec => ImplementsVersions
<1>1. Init => History!Init
  BY DEF Init, Empty, History!Init
<1>2. TypeOK /\ TypeOK' /\ Consistent /\ [Next]_vars =>
        [History!Next]_<<treeMap, replacedBy>>
  <2> SUFFICES ASSUME TypeOK, TypeOK', Consistent, Next
               PROVE  History!Next \/ UNCHANGED <<treeMap, replacedBy>>
    BY DEF vars
  <2>1. ASSUME NEW newTx \in Txid, NEW replaced \in SUBSET (Txid \ {newTx}),
               Add(replaced, newTx)
        PROVE  History!Next
    <3>1. FirstReplaced(replaced) \in SUBSET Txid
      BY DEF FirstReplaced
    <3>2. QED
      BY <2>1, <3>1, AddImplementsReplace DEF History!Next
  <2>2. ASSUME NEW due \in SUBSET expiring, Cleanup(due)
        PROVE  History!Next \/ UNCHANGED <<treeMap, replacedBy>>
    <3>1. OverdueRoots(due) \in SUBSET Txid
      BY DEF OverdueRoots, TypeOK
    <3>2. QED
      BY <2>2, <3>1, CleanupImplementsForget DEF History!Next
  <2>3. QED
    BY <2>1, <2>2 DEF Next, Mined, Evict, GetRbfChanges
<1>3. QED
  BY <1>1, <1>2, TypeCorrect, AlwaysConsistent, PTL
     DEF Spec, ImplementsVersions, History!Spec

=============================================================================
