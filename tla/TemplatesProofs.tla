-------------------------- MODULE TemplatesProofs ---------------------------
(***************************************************************************)
(* Proofs about Templates, for any finite set of transactions with any     *)
(* parents.                                                                *)
(***************************************************************************)
EXTENDS Templates, FiniteSetTheorems, TLAPS

(***************************************************************************)
(* The inductive invariant                                                 *)
(***************************************************************************)

\* f maps uids of the current numbering to sets of them.
Linking(f) == f \in [DOMAIN f -> SUBSET (1 .. nextUid - 1)]

\* A call is awaited in a round or in a block only, and a block waits for its
\* first call before it deletes anything.
CallShape ==
    /\ called.type \in {"none", "make", "update"}
    /\ called.type = "none" => called = NoCall
    /\ block.stage \in {"none", "audit", "confirm", "templates"}
    /\ block.txs \subseteq Transaction
    /\ block.stage = "confirm" => called.type = "none"
    /\ called.type # "none" \/ block.stage # "none" => newTransactions = {}

\* The two maps are inverse, on the transactions that have a uid.
MapsInverse ==
    \A t \in DOMAIN txidMap :
        txidMap[t] \in DOMAIN uidMap /\ uidMap[txidMap[t]] = t

Shape ==
    /\ TemplatesTypeOK
    /\ uid \in [Transaction -> Nat]
    /\ CallShape
    /\ MapsInverse
    /\ Linking(Changed)

\* The copy has transactions of the mempool only, under the uids that all maps
\* agree on: what leaves is always told of, what enters may be not.
CopyOfMempool ==
    \A u \in DOMAIN Changed :
        /\ u \in DOMAIN uidMap
        /\ uidMap[u] \in cached \cap DOMAIN txidMap
        /\ txidMap[uidMap[u]] = u
        /\ uid[uidMap[u]] = u

\* While all uids are given anew the copy is empty and the call brings all of the
\* mempool; a call removes nothing that is in the mempool.
FreshStart ==
    /\ ~rustInitialized => generator = Nothing
    /\ called.type = "update" => rustInitialized
    /\ called.type = "make" =>
          /\ ~rustInitialized /\ called.removed = {}
          /\ \A t \in cached : \E u \in DOMAIN Changed : uidMap[u] = t
    /\ called.removed \subseteq Transaction \ cached

\* The links of the copy are those of the mempool, as long as no parent came after
\* its child; and none of those about to be told of has a child in it.
RightLinks ==
    ~parted =>
        /\ \A u, v \in DOMAIN Changed :
              v \in Changed[u] <=> uidMap[v] \in Parents[uidMap[u]]
        /\ \A q \in newTransactions : \A u \in DOMAIN Changed :
              q \notin Parents[uidMap[u]]

\* What the last result left behind.
Complete ==
    current =>
        /\ mempoolBlocks = cached
        /\ called.type = "none" /\ rustInitialized =>
              \A t \in cached : t \in DOMAIN txidMap
                                /\ txidMap[t] \in DOMAIN generator

TemplatesInv ==
    /\ Shape
    /\ \A t \in newTransactions : uid[t] = 0
    /\ CopyOfMempool
    /\ FreshStart
    /\ RightLinks
    /\ Complete

-----------------------------------------------------------------------------
(***************************************************************************)
(* Numberings and their inverses                                           *)
(***************************************************************************)

LEMMA PartsFinite ==
    ASSUME NEW txs \in SUBSET Transaction
    PROVE  IsFiniteSet(txs) /\ Cardinality(txs) \in Nat
BY FS_Subset, FS_CardinalityType, TemplatesAssumption

LEMMA UnionSize ==
    ASSUME NEW S \in SUBSET Transaction, NEW T \in SUBSET Transaction, S \cap T = {}
    PROVE  Cardinality(S \cup T) = Cardinality(S) + Cardinality(T)
<1>1. Cardinality(S \cap T) = 0
  BY FS_EmptySet
<1>2. IsFiniteSet(S) /\ IsFiniteSet(T)
      /\ Cardinality(S) \in Nat /\ Cardinality(T) \in Nat
  BY PartsFinite
<1>3. Cardinality(S \cup T) = Cardinality(S) + Cardinality(T) - Cardinality(S \cap T)
  BY <1>2, FS_Union
<1> QED
  BY <1>1, <1>2, <1>3

\* setUid gives different numbers, one after the other.
LEMMA NumberedFacts ==
    ASSUME NEW txs \in SUBSET Transaction, NEW first \in Nat
    PROVE  /\ Numbered(txs, first) \in [txs -> first .. first + Cardinality(txs) - 1]
           /\ IsInjective(Numbered(txs, first))
<1> DEFINE below(t) == {s \in txs : s < t}
<1>1. \A t \in txs : Cardinality(below(t)) \in Nat
  BY PartsFinite
<1>2. ASSUME NEW t \in txs, NEW T \in SUBSET txs, below(t) \subseteq T, t \in T
      PROVE  Cardinality(below(t)) < Cardinality(T)
  <2>1. below(t) # T /\ IsFiniteSet(T)
    BY <1>2, PartsFinite, TemplatesAssumption
  <2>2. Cardinality(below(t)) <= Cardinality(T) /\ Cardinality(below(t)) # Cardinality(T)
    BY <2>1, <1>2, FS_Subset
  <2> QED
    BY <2>2, <1>1, PartsFinite
<1>3. \A t \in txs : Cardinality(below(t)) < Cardinality(txs)
  BY <1>2
<1>4. \A s, t \in txs : s < t => Cardinality(below(s)) < Cardinality(below(t))
  <2> SUFFICES ASSUME NEW s \in txs, NEW t \in txs, s < t
               PROVE  Cardinality(below(s)) < Cardinality(below(t))
    OBVIOUS
  <2>1. \A x \in txs : x \in Nat
    BY TemplatesAssumption
  <2>2. \A x \in txs : x < s => x < t
    BY <2>1
  <2>3. below(s) \subseteq below(t) /\ s \in below(t)
    BY <2>2
  <2>4. below(t) \in SUBSET txs
    OBVIOUS
  <2> QED
    BY <2>3, <2>4, <1>2
<1>5. \A s, t \in txs : s # t => Cardinality(below(s)) # Cardinality(below(t))
  BY <1>1, <1>4, TemplatesAssumption
<1>6. Cardinality(txs) \in Nat
  BY PartsFinite
<1>7. Numbered(txs, first) = [t \in txs |-> first + Cardinality(below(t))]
  BY DEF Numbered
<1> HIDE DEF below
<1> QED
  BY <1>1, <1>3, <1>5, <1>6, <1>7 DEF IsInjective

LEMMA ReversedFacts ==
    ASSUME NEW f, \A s, t \in DOMAIN f : f[s] = f[t] => s = t
    PROVE  /\ DOMAIN Reversed(f) = Ids(f)
           /\ \A t \in DOMAIN f : f[t] \in Ids(f) /\ Reversed(f)[f[t]] = t
           /\ Ids(Reversed(f)) = DOMAIN f
<1>1. \A t \in DOMAIN f : (CHOOSE s \in DOMAIN f : f[s] = f[t]) = t
  OBVIOUS
<1>2. Reversed(f) = [u \in Ids(f) |-> CHOOSE s \in DOMAIN f : f[s] = u]
  BY DEF Reversed
<1>3. \A t \in DOMAIN f : f[t] \in Ids(f)
  BY DEF Ids
<1>4. \A t \in DOMAIN f : Reversed(f)[f[t]] = t
  BY <1>1, <1>2, <1>3
<1>5. \A u \in Ids(f) : \E t \in DOMAIN f : u = f[t]
  BY DEF Ids
<1>6. DOMAIN Reversed(f) = Ids(f)
  BY <1>2
<1>7. \A u \in DOMAIN Reversed(f) : Reversed(f)[u] \in DOMAIN f
  BY <1>4, <1>5, <1>6
<1>8. \A t \in DOMAIN f : \E u \in DOMAIN Reversed(f) : Reversed(f)[u] = t
  BY <1>3, <1>4, <1>6
<1>9. Ids(Reversed(f)) = {Reversed(f)[u] : u \in DOMAIN Reversed(f)}
  BY DEF Ids
<1> QED
  BY <1>3, <1>4, <1>6, <1>7, <1>8, <1>9

\* What is sent of txs: for each of them the parents in the mempool with a uid.
LEMMA SentFacts ==
    ASSUME NEW txs, NEW all, NEW ids, txs \subseteq DOMAIN ids,
           \A s, t \in DOMAIN ids : ids[s] = ids[t] => s = t
    PROVE  /\ DOMAIN Sent(txs, all, ids) = {ids[t] : t \in txs}
           /\ \A t \in txs : Sent(txs, all, ids)[ids[t]] \subseteq Ids(ids)
           /\ \A t \in txs : \A p \in all \cap DOMAIN ids :
                 ids[p] \in Sent(txs, all, ids)[ids[t]] <=> p \in Parents[t]
<1>1. \A t \in txs : (CHOOSE s \in txs : ids[s] = ids[t]) = t
  OBVIOUS
<1>2. \A t \in txs : Sent(txs, all, ids)[ids[t]] = InputsOf(t, all, ids)
  BY <1>1 DEF Sent
<1> QED
  BY <1>2 DEF Sent, InputsOf, Ids

-----------------------------------------------------------------------------
(***************************************************************************)
(* What giving uids does to the maps                                       *)
(***************************************************************************)

MapShape ==
    /\ nextUid \in Nat \ {0}
    /\ DOMAIN uidMap \subseteq 1 .. nextUid - 1
    /\ txidMap \in [DOMAIN txidMap -> DOMAIN uidMap]
    /\ DOMAIN txidMap \subseteq Transaction /\ Ids(uidMap) \subseteq Transaction
    /\ uid \in [Transaction -> Nat]
    /\ MapsInverse

\* What the next call brings of txs: the uids of those of their parents in all.
Brings(txs, all) ==
    /\ DOMAIN called'.inserted = {txidMap'[t] : t \in txs}
    /\ \A t \in txs : called'.inserted[txidMap'[t]] \subseteq 1 .. nextUid' - 1
    /\ \A t \in txs : \A p \in all :
          txidMap'[p] \in called'.inserted[txidMap'[t]] <=> p \in Parents[t]

LEMMA MakeEffect ==
    ASSUME NEW txs \in SUBSET Transaction, Make(txs)
    PROVE  /\ MapShape'
           /\ DOMAIN txidMap' = txs
           /\ \A t \in txs : uid'[t] = txidMap'[t]
           /\ called'.type = "make" /\ called'.removed = {}
           /\ Brings(txs, txs)
<1> DEFINE ids == Numbered(txs, 1)
<1>1. Cardinality(txs) \in Nat
  BY PartsFinite
<1>2. /\ ids \in [txs -> 1 .. Cardinality(txs)]
      /\ \A s, t \in txs : ids[s] = ids[t] => s = t
  <2>1. 1 + Cardinality(txs) - 1 = Cardinality(txs)
    BY <1>1
  <2> QED
    BY <2>1, NumberedFacts, 1 \in Nat DEF IsInjective
<1>3. /\ txidMap' = ids /\ uidMap' = Reversed(ids)
      /\ uid' = [t \in Transaction |-> IF t \in txs THEN ids[t] ELSE 0]
      /\ nextUid' = 1 + Cardinality(txs)
      /\ called' = [type |-> "make", inserted |-> Sent(txs, txs, ids), removed |-> {}]
  BY DEF Make
<1> HIDE DEF ids
<1>4. DOMAIN ids = txs
  BY <1>2
<1>5. /\ DOMAIN uidMap' = Ids(ids)
      /\ \A t \in txs : ids[t] \in Ids(ids) /\ uidMap'[ids[t]] = t
      /\ Ids(uidMap') = txs
  BY <1>2, <1>3, <1>4, ReversedFacts
<1>6. Ids(ids) \subseteq 1 .. Cardinality(txs)
  BY <1>2, <1>4 DEF Ids
<1>7. nextUid' \in Nat \ {0} /\ nextUid' - 1 = Cardinality(txs)
  BY <1>1, <1>3
<1>8. txidMap' \in [DOMAIN txidMap' -> DOMAIN uidMap']
  BY <1>2, <1>3, <1>4, <1>5
<1>9. uid' \in [Transaction -> Nat]
  BY <1>1, <1>2, <1>3
<1>10. MapsInverse'
  BY <1>3, <1>4, <1>5 DEF MapsInverse
<1>11. MapShape'
  BY <1>3, <1>4, <1>5, <1>6, <1>7, <1>8, <1>9, <1>10 DEF MapShape, Ids
<1>12. /\ DOMAIN Sent(txs, txs, ids) = {ids[t] : t \in txs}
       /\ \A t \in txs : Sent(txs, txs, ids)[ids[t]] \subseteq Ids(ids)
       /\ \A t \in txs : \A p \in txs \cap DOMAIN ids :
             ids[p] \in Sent(txs, txs, ids)[ids[t]] <=> p \in Parents[t]
  <2>1. txs \subseteq DOMAIN ids /\ \A s, t \in DOMAIN ids : ids[s] = ids[t] => s = t
    BY <1>2, <1>4
  <2> QED
    BY <2>1, SentFacts
<1>13. Brings(txs, txs)
  BY <1>3, <1>4, <1>6, <1>7, <1>12 DEF Brings
<1> QED
  BY <1>3, <1>4, <1>11, <1>13

LEMMA UpdateEffect ==
    ASSUME MapShape,
           NEW txs \in SUBSET Transaction, NEW added \in SUBSET Transaction,
           NEW removed \in SUBSET Transaction, NEW accelerated \in SUBSET Transaction,
           Update(txs, added, removed, accelerated)
    PROVE  /\ MapShape' /\ nextUid' >= nextUid
           /\ \A u \in DOMAIN uidMap : u \in DOMAIN uidMap' /\ uidMap'[u] = uidMap[u]
           /\ \A t \in DOMAIN txidMap \ added :
                 /\ t \in DOMAIN txidMap' /\ txidMap'[t] = txidMap[t]
                 /\ uid'[t] \in {uid[t], txidMap[t]}
           /\ \A t \in added :
                 /\ t \in DOMAIN txidMap' /\ txidMap'[t] >= nextUid
                 /\ uid'[t] = txidMap'[t]
           /\ called'.type = "update"
           /\ called'.removed = {t \in removed : uid'[t] # 0}
           /\ Brings(added, txs \cap (DOMAIN txidMap \cup added))
<1> DEFINE n == Cardinality(added)
           fresh == Numbered(added, nextUid)
           ids == Over(txidMap, fresh)
           others == accelerated \ DOMAIN ids
           more == Numbered(others, nextUid + n)
           m == Cardinality(others)
           given == Over(fresh, more)
<1>1. n \in Nat /\ m \in Nat /\ nextUid \in Nat \ {0} /\ nextUid + n \in Nat
  BY PartsFinite DEF MapShape
<1>2. /\ txidMap' = Over(ids, more)
      /\ uidMap' = Over(uidMap, Reversed(given))
      /\ uid' = [t \in Transaction |->
                    IF t \in DOMAIN given THEN given[t]
                    ELSE IF t \in accelerated THEN ids[t] ELSE uid[t]]
      /\ nextUid' = nextUid + Cardinality(DOMAIN given)
      /\ called' = [type |-> "update", inserted |-> Sent(added, txs, ids),
                      removed |-> {t \in removed : uid'[t] # 0}]
  BY DEF Update
<1>3. fresh \in [added -> nextUid .. nextUid + n - 1] /\ IsInjective(fresh)
  BY <1>1, NumberedFacts
<1>4. more \in [others -> nextUid + n .. nextUid + n + m - 1] /\ IsInjective(more)
  BY <1>1, NumberedFacts
<1>5. others \in SUBSET Transaction
  OBVIOUS
<1>6. DOMAIN ids = DOMAIN txidMap \cup added
  BY <1>3 DEF Over
<1> HIDE DEF fresh, more
<1>7. \A t \in DOMAIN ids : ids[t] = IF t \in added THEN fresh[t] ELSE txidMap[t]
  BY <1>3 DEF Over
<1> HIDE DEF ids
<1>8. others \cap DOMAIN ids = {} /\ others \cap added = {}
  BY <1>6
<1>9. DOMAIN given = added \cup others
  BY <1>3, <1>4 DEF Over
<1>10. \A t \in DOMAIN given : given[t] = IF t \in others THEN more[t] ELSE fresh[t]
  BY <1>3, <1>4 DEF Over
<1> HIDE DEF others
<1>11. DOMAIN txidMap' = DOMAIN ids \cup others
       /\ \A t \in DOMAIN txidMap' : txidMap'[t] = IF t \in others THEN more[t] ELSE ids[t]
  BY <1>2, <1>4 DEF Over
<1> HIDE DEF given
<1>12. Cardinality(DOMAIN given) = n + m
  BY <1>5, <1>8, <1>9, UnionSize
<1>13. nextUid' = nextUid + n + m
  BY <1>1, <1>2, <1>12
<1> HIDE DEF n, m
<1>14. \A t \in DOMAIN given : given[t] \in nextUid .. nextUid' - 1
  BY <1>1, <1>3, <1>4, <1>9, <1>10, <1>13
<1>15. \A s, t \in DOMAIN given : given[s] = given[t] => s = t
  <2> SUFFICES ASSUME NEW s \in DOMAIN given, NEW t \in DOMAIN given,
                      given[s] = given[t]
               PROVE  s = t
    OBVIOUS
  <2>1. CASE s \in others /\ t \in others
    BY <2>1, <1>4, <1>10 DEF IsInjective
  <2>2. CASE s \notin others /\ t \notin others
    BY <2>2, <1>3, <1>9, <1>10 DEF IsInjective
  <2>3. \A x \in others, y \in added \ others : given[x] # given[y]
    BY <1>1, <1>3, <1>4, <1>9, <1>10
  <2> QED
    BY <2>1, <2>2, <2>3, <1>9
<1>16. /\ DOMAIN Reversed(given) = Ids(given)
       /\ \A t \in DOMAIN given : given[t] \in Ids(given) /\ Reversed(given)[given[t]] = t
       /\ Ids(Reversed(given)) = DOMAIN given
  BY <1>15, ReversedFacts
<1>17. Ids(given) \subseteq nextUid .. nextUid' - 1
  BY <1>14 DEF Ids
<1>18. /\ DOMAIN uidMap' = DOMAIN uidMap \cup Ids(given)
       /\ \A u \in DOMAIN uidMap' :
             uidMap'[u] = IF u \in Ids(given) THEN Reversed(given)[u] ELSE uidMap[u]
  BY <1>2, <1>16 DEF Over
<1>19. DOMAIN uidMap \cap Ids(given) = {}
  BY <1>1, <1>17 DEF MapShape
<1>20. \A u \in DOMAIN uidMap : u \in DOMAIN uidMap' /\ uidMap'[u] = uidMap[u]
  BY <1>18, <1>19
<1>21. \A t \in DOMAIN txidMap \ added :
           t \in DOMAIN txidMap' /\ t \notin DOMAIN given /\ txidMap'[t] = txidMap[t]
  BY <1>6, <1>7, <1>8, <1>9, <1>11
<1>22. \A t \in DOMAIN given : t \in DOMAIN txidMap' /\ txidMap'[t] = given[t]
  BY <1>6, <1>7, <1>8, <1>9, <1>10, <1>11
<1>23. DOMAIN txidMap' = (DOMAIN txidMap \ added) \cup DOMAIN given
  BY <1>6, <1>9, <1>11
<1>24. MapShape'
  <2>1. nextUid' \in Nat \ {0} /\ nextUid' >= nextUid
    BY <1>1, <1>13
  <2>2. DOMAIN uidMap' \subseteq 1 .. nextUid' - 1
    BY <2>1, <1>1, <1>17, <1>18 DEF MapShape
  <2>3. \A t \in DOMAIN txidMap' : txidMap'[t] \in DOMAIN uidMap'
                                   /\ uidMap'[txidMap'[t]] = t
    <3>1. \A t \in DOMAIN txidMap \ added : txidMap'[t] \in DOMAIN uidMap'
                                            /\ uidMap'[txidMap'[t]] = t
      BY <1>20, <1>21 DEF MapShape, MapsInverse
    <3>2. \A t \in DOMAIN given : txidMap'[t] \in DOMAIN uidMap'
                                  /\ uidMap'[txidMap'[t]] = t
      BY <1>16, <1>18, <1>22
    <3> QED
      BY <3>1, <3>2, <1>23
  <2>4. txidMap' = [t \in DOMAIN txidMap' |-> txidMap'[t]]
    BY <1>2 DEF Over
  <2>5. txidMap' \in [DOMAIN txidMap' -> DOMAIN uidMap']
    BY <2>3, <2>4
  <2>6. DOMAIN given \subseteq Transaction
    BY <1>5, <1>9
  <2>7. DOMAIN txidMap' \subseteq Transaction
    BY <2>6, <1>23 DEF MapShape
  <2>8. \A u \in DOMAIN uidMap' : uidMap'[u] \in Transaction
    <3>1. \A u \in DOMAIN uidMap : uidMap[u] \in Transaction
      BY DEF MapShape, Ids
    <3>2. \A u \in Ids(given) : Reversed(given)[u] \in DOMAIN given
      BY <1>16 DEF Ids
    <3> QED
      BY <3>1, <3>2, <2>6, <1>18
  <2>9. Ids(uidMap') \subseteq Transaction
    BY <2>8 DEF Ids
  <2>10. \A t \in accelerated : t \in DOMAIN given \/ t \in DOMAIN ids
    BY <1>9 DEF others
  <2>11. \A t \in DOMAIN ids : ids[t] \in Nat
    <3>1. \A t \in DOMAIN txidMap : txidMap[t] \in Nat
      BY <1>1 DEF MapShape
    <3>2. \A t \in added : fresh[t] \in Nat
      BY <1>1, <1>3 DEF n
    <3> QED
      BY <3>1, <3>2, <1>6, <1>7
  <2>12. \A t \in DOMAIN given : given[t] \in Nat
    BY <1>1, <1>14, <2>1
  <2>13. \A t \in Transaction : uid[t] \in Nat
    BY DEF MapShape
  <2>14. uid' \in [Transaction -> Nat]
    BY <2>10, <2>11, <2>12, <2>13, <1>2
  <2>15. Ids(uidMap)' \subseteq Transaction
    BY <2>9 DEF Ids
  <2> QED
    BY <2>1, <2>2, <2>3, <2>5, <2>7, <2>14, <2>15 DEF MapShape, MapsInverse
<1>25. nextUid' >= nextUid
  BY <1>1, <1>13
<1>26. \A t \in DOMAIN txidMap \ added : uid'[t] \in {uid[t], txidMap[t]}
  <2>1. \A t \in DOMAIN txidMap \ added : ids[t] = txidMap[t] /\ t \in Transaction
    BY <1>6, <1>7 DEF MapShape
  <2> QED
    BY <2>1, <1>2, <1>21
<1>27. \A t \in added : /\ t \in DOMAIN txidMap' /\ txidMap'[t] >= nextUid
                        /\ uid'[t] = txidMap'[t]
  <2>1. \A t \in added : t \in DOMAIN given
    BY <1>9
  <2>2. \A t \in added : given[t] >= nextUid
    BY <2>1, <1>1, <1>14
  <2> QED
    BY <2>1, <2>2, <1>2, <1>22
<1>28. \A t \in DOMAIN ids : ids[t] = txidMap'[t]
  BY <1>8, <1>11
<1>29. \A s, t \in DOMAIN ids : ids[s] = ids[t] => s = t
  <2>1. \A s, t \in DOMAIN txidMap' : txidMap'[s] = txidMap'[t] => s = t
    BY <1>24 DEF MapShape, MapsInverse
  <2> QED
    BY <2>1, <1>11, <1>28
<1>30. added \subseteq DOMAIN ids
  BY <1>6
<1>31. /\ DOMAIN Sent(added, txs, ids) = {ids[t] : t \in added}
       /\ \A t \in added : Sent(added, txs, ids)[ids[t]] \subseteq Ids(ids)
       /\ \A t \in added : \A p \in txs \cap DOMAIN ids :
             ids[p] \in Sent(added, txs, ids)[ids[t]] <=> p \in Parents[t]
  BY <1>29, <1>30, SentFacts
<1>32. Ids(ids) \subseteq 1 .. nextUid' - 1
  <2>1. \A t \in DOMAIN ids : txidMap'[t] \in DOMAIN uidMap'
    BY <1>11, <1>24 DEF MapShape
  <2>2. \A t \in DOMAIN ids : ids[t] \in 1 .. nextUid' - 1
    BY <2>1, <1>24, <1>28 DEF MapShape
  <2> QED
    BY <2>2 DEF Ids
<1>33. called'.inserted = Sent(added, txs, ids) /\ called'.type = "update"
       /\ called'.removed = {t \in removed : uid'[t] # 0}
  BY <1>2
<1>34. DOMAIN called'.inserted = {txidMap'[t] : t \in added}
  <2>1. \A t \in added : ids[t] = txidMap'[t]
    BY <1>28, <1>30
  <2> QED
    BY <2>1, <1>31, <1>33
<1>35. \A t \in added : called'.inserted[txidMap'[t]] \subseteq 1 .. nextUid' - 1
  <2> SUFFICES ASSUME NEW t \in added
               PROVE  called'.inserted[txidMap'[t]] \subseteq 1 .. nextUid' - 1
    OBVIOUS
  <2>1. ids[t] = txidMap'[t]
    BY <1>28, <1>30
  <2> QED
    BY <2>1, <1>31, <1>32, <1>33
<1>36. \A t \in added : \A p \in txs \cap (DOMAIN txidMap \cup added) :
           txidMap'[p] \in called'.inserted[txidMap'[t]] <=> p \in Parents[t]
  <2> SUFFICES ASSUME NEW t \in added, NEW p \in txs \cap (DOMAIN txidMap \cup added)
               PROVE  txidMap'[p] \in called'.inserted[txidMap'[t]] <=> p \in Parents[t]
    OBVIOUS
  <2>1. ids[t] = txidMap'[t] /\ p \in txs \cap DOMAIN ids /\ ids[p] = txidMap'[p]
    BY <1>6, <1>28, <1>30
  <2> QED
    BY <2>1, <1>31, <1>33
<1>37. Brings(added, txs \cap (DOMAIN txidMap \cup added))
  BY <1>34, <1>35, <1>36 DEF Brings
<1> QED
  BY <1>20, <1>21, <1>24, <1>25, <1>26, <1>27, <1>33, <1>37

-----------------------------------------------------------------------------
(***************************************************************************)
(* Every step keeps the invariant                                          *)
(***************************************************************************)

\* Without a call the generator has what it has.
LEMMA NothingCalled ==
    ASSUME TemplatesTypeOK, called = NoCall
    PROVE  Changed = generator
<1>1. DOMAIN Nothing = {}
  BY DEF Nothing
<1>2. called.inserted = Nothing /\ called.removed = {}
  BY DEF NoCall
<1>3. Changed = Less(Over(generator, Nothing), {})
  BY <1>2 DEF Changed
<1>4. /\ DOMAIN Changed = DOMAIN generator \cup DOMAIN Nothing
      /\ \A u \in DOMAIN Changed :
            Changed[u] = IF u \in DOMAIN Nothing THEN Nothing[u] ELSE generator[u]
  BY <1>3 DEF Less, Over
<1>5. generator = [u \in DOMAIN generator |-> generator[u]]
  BY DEF TemplatesTypeOK
<1>6. Changed = [u \in DOMAIN Changed |-> Changed[u]]
  BY <1>3 DEF Less
<1> QED
  BY <1>1, <1>4, <1>5, <1>6

LEMMA UidsGrow ==
    ASSUME NEW m \in Nat, NEW n \in Nat, n >= m
    PROVE  1 .. m - 1 \subseteq 1 .. n - 1
OBVIOUS

LEMMA ShapeOfMaps ==
    ASSUME Shape
    PROVE  MapShape
BY DEF Shape, TemplatesTypeOK, MapShape

\* What a callback leaves, before it awaits the call.
Callback(removed) ==
    /\ called.type = "none"
    /\ removed \subseteq Transaction
    /\ cached' = cached \ removed
    /\ newTransactions' = {}
    /\ mempoolBlocks' = mempoolBlocks
    /\ current' \in BOOLEAN /\ (current' => current /\ removed = {})
    /\ block'.stage \in {"none", "audit", "templates"}
    /\ block'.txs \subseteq Transaction

LEMMA CallbackKeeps ==
    ASSUME TemplatesInv, NEW removed, Callback(removed),
           MapShape', Linking(Changed)', CopyOfMempool', FreshStart',
           generator' \in {Nothing, generator}, nextUid' >= nextUid \/ generator' = Nothing,
           rustInitialized' \in BOOLEAN, parted' \in BOOLEAN,
           called'.type \in {"make", "update"},
           ~parted' =>
              \A u, v \in DOMAIN Changed' :
                  v \in Changed'[u] <=> uidMap'[v] \in Parents[uidMap'[u]]
    PROVE  TemplatesInv'
<1>1. Linking(generator)'
  <2>1. CASE generator' = Nothing
    BY <2>1 DEF Linking, Nothing
  <2>2. CASE generator' = generator /\ nextUid' >= nextUid
    <3>1. nextUid \in Nat /\ nextUid' \in Nat
      BY DEF TemplatesInv, Shape, TemplatesTypeOK, MapShape
    <3>2. 1 .. nextUid - 1 \subseteq 1 .. nextUid' - 1
      BY <2>2, <3>1, UidsGrow
    <3>3. generator \in [DOMAIN generator -> SUBSET (1 .. nextUid - 1)]
      BY DEF TemplatesInv, Shape, TemplatesTypeOK
    <3> QED
      BY <2>2, <3>2, <3>3 DEF Linking
  <2> QED
    BY <2>1, <2>2
<1>2. TemplatesTypeOK'
  <2>1. cached' \subseteq Transaction /\ newTransactions' \subseteq cached'
        /\ mempoolBlocks' \subseteq Transaction
    BY DEF TemplatesInv, Shape, TemplatesTypeOK, Callback
  <2>2. current' \in BOOLEAN
    BY DEF Callback
  <2> QED
    BY <1>1, <2>1, <2>2 DEF TemplatesTypeOK, MapShape, Linking
<1>3. CallShape'
  BY Zenon DEF CallShape, Callback
<1>4. Shape'
  BY <1>2, <1>3 DEF Shape, MapShape
<1>5. RightLinks'
  BY DEF RightLinks, Callback
<1>6. Complete'
  <2> SUFFICES ASSUME current' PROVE mempoolBlocks' = cached' /\ called'.type # "none"
    BY DEF Complete
  <2>1. current /\ removed = {}
    BY DEF Callback
  <2>2. mempoolBlocks = cached
    BY <2>1 DEF TemplatesInv, Complete
  <2> QED
    BY <2>1, <2>2 DEF Callback
<1>7. \A t \in newTransactions' : uid'[t] = 0
  BY DEF Callback
<1> QED
  BY <1>4, <1>5, <1>6, <1>7 DEF TemplatesInv

LEMMA MakeKeeps ==
    ASSUME TemplatesInv, NEW removed, Callback(removed), Make(cached'),
           rustInitialized' = FALSE, generator' = Nothing
    PROVE  TemplatesInv'
<1>1. cached' \in SUBSET Transaction
  BY DEF TemplatesInv, Shape, TemplatesTypeOK, Callback
<1>2. /\ MapShape' /\ DOMAIN txidMap' = cached'
      /\ \A t \in cached' : uid'[t] = txidMap'[t]
      /\ called'.type = "make" /\ called'.removed = {}
      /\ Brings(cached', cached')
  BY <1>1, MakeEffect
<1>3. DOMAIN Nothing = {}
  BY DEF Nothing
<1>4. /\ DOMAIN Changed' = DOMAIN called'.inserted
      /\ \A u \in DOMAIN Changed' : Changed'[u] = called'.inserted[u]
      /\ Changed' = [u \in DOMAIN Changed' |-> Changed'[u]]
  <2>1. Changed' = Less(Over(Nothing, called'.inserted), {})
    BY <1>2 DEF Changed
  <2>2. /\ DOMAIN Changed' = DOMAIN Nothing \cup DOMAIN called'.inserted
        /\ \A u \in DOMAIN Changed' : Changed'[u] =
              IF u \in DOMAIN called'.inserted THEN called'.inserted[u] ELSE Nothing[u]
    BY <2>1 DEF Less, Over
  <2>3. Changed' = [u \in DOMAIN Changed' |-> Changed'[u]]
    BY <2>1 DEF Less
  <2> QED
    BY <1>3, <2>2, <2>3
<1>5. DOMAIN Changed' = {txidMap'[t] : t \in cached'}
  BY <1>2, <1>4 DEF Brings
<1>6. \A t \in cached' : txidMap'[t] \in DOMAIN uidMap' /\ uidMap'[txidMap'[t]] = t
  BY <1>2 DEF MapShape, MapsInverse
<1>7. \A u \in DOMAIN Changed' : \E t \in cached' :
          u = txidMap'[t] /\ uidMap'[u] = t /\ Changed'[u] = called'.inserted[txidMap'[t]]
  BY <1>4, <1>5, <1>6
<1>8. CopyOfMempool'
  BY <1>2, <1>6, <1>7 DEF CopyOfMempool
<1>9. Linking(Changed)'
  <2>1. \A u \in DOMAIN Changed' : Changed'[u] \in SUBSET (1 .. nextUid' - 1)
    BY <1>2, <1>7 DEF Brings
  <2> QED
    BY <2>1, <1>4 DEF Linking
<1>10. FreshStart'
  BY <1>2, <1>5, <1>6 DEF FreshStart
<1>11. \A u, v \in DOMAIN Changed' :
           v \in Changed'[u] <=> uidMap'[v] \in Parents[uidMap'[u]]
  BY <1>2, <1>7 DEF Brings
<1>12. parted' \in BOOLEAN
  BY DEF Make
<1> QED
  BY <1>2, <1>8, <1>9, <1>10, <1>11, <1>12, CallbackKeeps

LEMMA UpdateKeeps ==
    ASSUME TemplatesInv, NEW removed, Callback(removed),
           NEW accelerated \in SUBSET cached',
           Update(cached', newTransactions, removed, accelerated),
           rustInitialized, rustInitialized' = rustInitialized, generator' = generator
    PROVE  TemplatesInv'
<1> DEFINE added == newTransactions
           all == cached' \cap (DOMAIN txidMap \cup added)
<1>1. /\ cached' \in SUBSET Transaction /\ added \in SUBSET Transaction
      /\ added \subseteq cached /\ removed \in SUBSET Transaction
      /\ nextUid \in Nat \ {0}
  BY DEF TemplatesInv, Shape, TemplatesTypeOK, Callback
<1>2. MapShape
  BY ShapeOfMaps DEF TemplatesInv
<1>3. /\ MapShape' /\ nextUid' >= nextUid
      /\ \A u \in DOMAIN uidMap : u \in DOMAIN uidMap' /\ uidMap'[u] = uidMap[u]
      /\ \A t \in DOMAIN txidMap \ added :
            /\ t \in DOMAIN txidMap' /\ txidMap'[t] = txidMap[t]
            /\ uid'[t] \in {uid[t], txidMap[t]}
      /\ \A t \in added :
            /\ t \in DOMAIN txidMap' /\ txidMap'[t] >= nextUid
            /\ uid'[t] = txidMap'[t]
      /\ called'.type = "update"
      /\ called'.removed = {t \in removed : uid'[t] # 0}
      /\ Brings(added, all)
  BY <1>1, <1>2, UpdateEffect
<1>4. Changed = generator
  BY NothingCalled DEF TemplatesInv, Shape, CallShape, Callback
<1> DEFINE leaving == {uid'[t] : t \in called'.removed}
<1>5. /\ DOMAIN Changed' = (DOMAIN generator \cup DOMAIN called'.inserted) \ leaving
      /\ \A u \in DOMAIN Changed' : Changed'[u] =
            IF u \in DOMAIN called'.inserted THEN called'.inserted[u] ELSE generator[u]
      /\ Changed' = [u \in DOMAIN Changed' |-> Changed'[u]]
  <2>1. Changed' = Less(Over(generator, called'.inserted), leaving)
    BY DEF Changed
  <2> HIDE DEF leaving
  <2> QED
    BY <2>1 DEF Less, Over
<1>6. \A t \in removed : uid'[t] # 0 => uid'[t] \in leaving
  BY <1>3
<1> HIDE DEF leaving
<1>7. \A u \in DOMAIN called'.inserted : \E t \in added : u = txidMap'[t] /\ u >= nextUid
  BY <1>3 DEF Brings
<1>8. \A u \in DOMAIN generator :
          /\ u \in DOMAIN uidMap /\ uidMap[u] \in cached \cap DOMAIN txidMap
          /\ txidMap[uidMap[u]] = u /\ uid[uidMap[u]] = u
          /\ u \in Nat /\ u > 0 /\ u < nextUid
  <2>1. \A u \in DOMAIN uidMap : u \in Nat /\ u > 0 /\ u < nextUid
    BY <1>1, <1>2 DEF MapShape
  <2> QED
    BY <2>1, <1>4 DEF TemplatesInv, CopyOfMempool
<1>9. \A u \in DOMAIN called'.inserted : u \notin DOMAIN generator
  BY <1>1, <1>3, <1>7, <1>8 DEF MapShape
\* A uid that stays is of a transaction that stays.
<1>10. ASSUME NEW u \in DOMAIN Changed', u \in DOMAIN generator
       PROVE  /\ uidMap[u] \in DOMAIN txidMap \ added /\ uidMap[u] \in cached'
              /\ uidMap'[u] = uidMap[u] /\ txidMap'[uidMap[u]] = u
              /\ uid'[uidMap[u]] = u /\ u \in DOMAIN uidMap'
  <2>1. uidMap[u] \notin added
    BY <1>8, <1>10 DEF TemplatesInv
  <2>2. uidMap[u] \in DOMAIN txidMap \ added /\ uidMap[u] \in cached
    BY <2>1, <1>8, <1>10
  <2>3. uid'[uidMap[u]] = u /\ txidMap'[uidMap[u]] = u
    BY <2>2, <1>3, <1>8, <1>10
  <2>4. uidMap[u] \notin removed
    BY <2>3, <1>5, <1>6, <1>8, <1>10
  <2> QED
    BY <2>2, <2>3, <2>4, <1>3, <1>8, <1>10 DEF Callback
<1>11. ASSUME NEW u \in DOMAIN Changed', u \notin DOMAIN generator
       PROVE  \E t \in added :
                 /\ u = txidMap'[t] /\ uidMap'[u] = t /\ uid'[t] = u
                 /\ t \in cached' /\ u \in DOMAIN uidMap' /\ u \in DOMAIN called'.inserted
  <2>1. u \in DOMAIN called'.inserted
    BY <1>5, <1>11
  <2>2. PICK t \in added : u = txidMap'[t] /\ u >= nextUid
    BY <2>1, <1>7
  <2>3. uidMap'[u] = t /\ u \in DOMAIN uidMap' /\ uid'[t] = u
    BY <2>2, <1>3 DEF MapShape, MapsInverse
  <2>4. u \in Nat /\ u # 0
    BY <2>3, <1>3 DEF MapShape
  <2>5. t \notin removed
    BY <2>3, <2>4, <1>5, <1>6
  <2>6. t \in cached'
    BY <2>5, <1>1 DEF Callback
  <2> QED
    BY <2>1, <2>2, <2>3, <2>6
<1>12. \A u \in DOMAIN Changed' :
           /\ uidMap'[u] \in all /\ u \in DOMAIN uidMap'
           /\ uidMap'[u] \in DOMAIN txidMap'
           /\ txidMap'[uidMap'[u]] = u /\ uid'[uidMap'[u]] = u
  <2> SUFFICES ASSUME NEW u \in DOMAIN Changed'
               PROVE  /\ uidMap'[u] \in all /\ u \in DOMAIN uidMap'
                      /\ uidMap'[u] \in DOMAIN txidMap'
                      /\ txidMap'[uidMap'[u]] = u /\ uid'[uidMap'[u]] = u
    OBVIOUS
  <2>1. CASE u \in DOMAIN generator
    BY <2>1, <1>3, <1>10
  <2>2. CASE u \notin DOMAIN generator
    BY <2>2, <1>3, <1>11
  <2> QED
    BY <2>1, <2>2
<1>13. CopyOfMempool'
  BY <1>12 DEF CopyOfMempool
<1>14. Linking(Changed)'
  <2>1. \A u \in DOMAIN Changed' : Changed'[u] \in SUBSET (1 .. nextUid' - 1)
    <3> SUFFICES ASSUME NEW u \in DOMAIN Changed'
                 PROVE  Changed'[u] \in SUBSET (1 .. nextUid' - 1)
      OBVIOUS
    <3>1. CASE u \in DOMAIN called'.inserted
      BY <3>1, <1>3, <1>5, <1>7 DEF Brings
    <3>2. CASE u \notin DOMAIN called'.inserted
      <4>1. u \in DOMAIN generator /\ Changed'[u] = generator[u]
        BY <3>2, <1>5
      <4>2. generator[u] \subseteq 1 .. nextUid - 1
        BY <4>1 DEF TemplatesInv, Shape, TemplatesTypeOK
      <4>3. nextUid \in Nat /\ nextUid' \in Nat
        BY <1>1, <1>3 DEF MapShape
      <4> QED
        BY <4>1, <4>2, <4>3, <1>3, UidsGrow
    <3> QED
      BY <3>1, <3>2
  <2> QED
    BY <2>1, <1>5 DEF Linking
<1>15. FreshStart'
  <2>1. called'.removed \subseteq Transaction \ cached'
    BY <1>1, <1>3 DEF Callback
  <2> QED
    BY <2>1, <1>3 DEF FreshStart
<1>16. ASSUME ~parted', NEW u \in DOMAIN Changed', NEW v \in DOMAIN Changed'
       PROVE  v \in Changed'[u] <=> uidMap'[v] \in Parents[uidMap'[u]]
  <2>1. ~parted
    BY <1>16 DEF Update
  <2>2. CASE u \notin DOMAIN generator
    <3>1. PICK t \in added : u = txidMap'[t] /\ uidMap'[u] = t /\ u \in DOMAIN called'.inserted
      BY <2>2, <1>11
    <3>2. uidMap'[v] \in all /\ txidMap'[uidMap'[v]] = v
      BY <1>12
    <3>3. Changed'[u] = called'.inserted[txidMap'[t]]
      BY <3>1, <1>5
    <3>4. v \in called'.inserted[txidMap'[t]] <=> uidMap'[v] \in Parents[t]
      BY <3>2, <1>3 DEF Brings
    <3> QED
      BY <3>1, <3>3, <3>4
  <2>3. CASE u \in DOMAIN generator /\ v \in DOMAIN generator
    <3>1. v \in generator[u] <=> uidMap[v] \in Parents[uidMap[u]]
      BY <2>1, <2>3, <1>4 DEF TemplatesInv, RightLinks
    <3>2. Changed'[u] = generator[u]
      BY <2>3, <1>5, <1>9
    <3> QED
      BY <3>1, <3>2, <2>3, <1>10
  <2>4. CASE u \in DOMAIN generator /\ v \notin DOMAIN generator
    <3>1. PICK t \in added : uidMap'[v] = t /\ v \in DOMAIN called'.inserted
      BY <2>4, <1>11
    <3>2. t \notin Parents[uidMap[u]] /\ uidMap'[u] = uidMap[u]
      BY <2>1, <2>4, <1>4, <1>10 DEF TemplatesInv, RightLinks
    <3>3. Changed'[u] = generator[u]
      BY <2>4, <1>5, <1>9
    <3>4. generator[u] \subseteq 1 .. nextUid - 1
      BY <2>4 DEF TemplatesInv, Shape, TemplatesTypeOK
    <3>5. v >= nextUid /\ v \in Nat
      BY <3>1, <1>3, <1>7, <1>12 DEF MapShape
    <3>6. v \notin generator[u]
      BY <3>4, <3>5, <1>1
    <3> QED
      BY <3>1, <3>2, <3>3, <3>6
  <2> QED
    BY <2>2, <2>3, <2>4
<1>17. parted' \in BOOLEAN /\ rustInitialized' \in BOOLEAN
  BY DEF Update, TemplatesInv, Shape, TemplatesTypeOK
<1> QED
  BY <1>3, <1>13, <1>14, <1>15, <1>16, <1>17, CallbackKeeps

LEMMA RoundKeeps ==
    ASSUME TemplatesInv, NEW removed, Callback(removed),
           UpdateBlockTemplates(cached', newTransactions, removed)
    PROVE  TemplatesInv'
<1>1. CASE TooSparse(cached', newTransactions) \/ ~rustInitialized
  <2>1. Make(cached') /\ rustInitialized' = FALSE
    BY <1>1 DEF UpdateBlockTemplates
  <2>2. generator' = IF TooSparse(cached', newTransactions) THEN Nothing ELSE generator
    BY <1>1 DEF UpdateBlockTemplates
  <2>3. generator' = Nothing
    BY <1>1, <2>2 DEF TemplatesInv, FreshStart
  <2> QED
    BY <2>1, <2>3, MakeKeeps
<1>2. CASE ~(TooSparse(cached', newTransactions) \/ ~rustInitialized)
  <2>1. /\ \E accelerated \in SUBSET cached' :
              Update(cached', newTransactions, removed, accelerated)
        /\ rustInitialized' = rustInitialized /\ generator' = generator
    BY <1>2 DEF UpdateBlockTemplates
  <2> QED
    BY <2>1, <1>2, UpdateKeeps
<1> QED
  BY <1>1, <1>2

LEMMA CallbacksKeep ==
    ASSUME TemplatesInv,
           \/ \E deleted \in SUBSET cached : MempoolChange(deleted)
           \/ \E txs \in SUBSET cached : NewBlock(txs)
           \/ ConfirmBlock
    PROVE  TemplatesInv'
<1>0. /\ cached \subseteq Transaction /\ current \in BOOLEAN
      /\ block.stage \in {"none", "audit", "confirm", "templates"}
      /\ block.txs \subseteq Transaction
      /\ block.stage = "confirm" => called.type = "none" /\ newTransactions = {}
  BY Zenon DEF TemplatesInv, Shape, TemplatesTypeOK, CallShape
<1>1. ASSUME NEW deleted \in SUBSET cached, MempoolChange(deleted)
      PROVE  TemplatesInv'
  <2>1. Callback(deleted)
    BY <1>0, <1>1 DEF MempoolChange, Between, Callback
  <2>2. UpdateBlockTemplates(cached', newTransactions, deleted)
    BY <1>1 DEF MempoolChange
  <2> QED
    BY <2>1, <2>2, RoundKeeps
<1>2. ASSUME NEW txs \in SUBSET cached, NewBlock(txs)
      PROVE  TemplatesInv'
  <2>1. Callback({})
    BY <1>0, <1>2 DEF NewBlock, Between, Callback
  <2>2. UpdateBlockTemplates(cached', newTransactions, {})
    BY <1>2 DEF NewBlock
  <2> QED
    BY <2>1, <2>2, RoundKeeps
<1>3. ASSUME ConfirmBlock
      PROVE  TemplatesInv'
  <2>1. /\ cached' = cached \ block.txs
        /\ block' = [block EXCEPT !.stage = "templates"]
        /\ current' = FALSE /\ mempoolBlocks' = mempoolBlocks
        /\ newTransactions' = newTransactions
        /\ block.stage = "confirm"
        /\ UpdateBlockTemplates(cached', {}, block.txs)
    BY <1>3 DEF ConfirmBlock
  <2>2. block'.stage \in {"none", "audit", "templates"} /\ block'.txs \subseteq Transaction
    BY <1>0, <2>1
  <2>3. Callback(block.txs)
    BY <1>0, <2>1, <2>2 DEF Callback
  <2> QED
    BY <1>0, <2>1, <2>3, RoundKeeps
<1> QED
  BY <1>1, <1>2, <1>3

LEMMA AddSliceKeeps ==
    ASSUME TemplatesInv, NEW t \in Transaction, AddSlice(t)
    PROVE  TemplatesInv'
<1>1. /\ t \notin cached /\ cached' = cached \cup {t}
      /\ newTransactions' = newTransactions \cup {t}
      /\ uid' = [uid EXCEPT ![t] = 0] /\ current' = FALSE
      /\ parted' = (parted \/ \E c \in cached \ newTransactions : t \in Parents[c])
      /\ UNCHANGED <<uidMap, txidMap, nextUid, rustInitialized, mempoolBlocks,
                     generator, called, block>>
      /\ called.type = "none" /\ block.stage = "none"
  BY DEF AddSlice, Between
<1>2. called = NoCall
  BY <1>1 DEF TemplatesInv, Shape, CallShape
<1>3. TemplatesTypeOK'
  <2>1. parted' \in BOOLEAN /\ current' \in BOOLEAN
    BY <1>1
  <2> QED
    BY <2>1, <1>1 DEF TemplatesInv, Shape, TemplatesTypeOK
<1>4. Changed = generator /\ Changed' = generator
  <2>1. Changed = generator
    BY <1>2, NothingCalled DEF TemplatesInv, Shape
  <2>2. called.removed = {} /\ called' = called /\ generator' = generator
    BY <1>1, <1>2 DEF NoCall
  <2>3. Changed = Less(Over(generator, called.inserted), {})
    BY <2>2 DEF Changed
  <2>4. Changed' = Less(Over(generator, called.inserted), {})
    BY <2>2 DEF Changed
  <2> QED
    BY <2>1, <2>3, <2>4
<1>5. uid' \in [Transaction -> Nat]
  BY <1>1 DEF TemplatesInv, Shape
<1>6. CallShape'
  BY <1>1 DEF TemplatesInv, Shape, CallShape
<1>7. Shape'
  BY <1>1, <1>3, <1>4, <1>5, <1>6 DEF TemplatesInv, Shape, MapsInverse, Linking
<1>8. \A q \in newTransactions' : uid'[q] = 0
  BY <1>1 DEF TemplatesInv, Shape
<1>9. \A u \in DOMAIN generator : /\ u \in DOMAIN uidMap /\ uidMap[u] \in cached
                                  /\ uid[uidMap[u]] = u /\ u > 0
  BY <1>4 DEF TemplatesInv, Shape, CopyOfMempool, TemplatesTypeOK
<1>10. CopyOfMempool'
  BY <1>1, <1>4 DEF TemplatesInv, CopyOfMempool, Shape
<1>11. FreshStart'
  BY <1>1, <1>2 DEF TemplatesInv, FreshStart, NoCall
<1>12. RightLinks'
  <2> SUFFICES ASSUME ~parted'
               PROVE  /\ \A u, v \in DOMAIN generator :
                            v \in generator[u] <=> uidMap[v] \in Parents[uidMap[u]]
                      /\ \A q \in newTransactions' : \A u \in DOMAIN generator :
                            q \notin Parents[uidMap[u]]
    BY <1>1, <1>4 DEF RightLinks
  <2>1. ~parted /\ \A c \in cached \ newTransactions : t \notin Parents[c]
    BY <1>1
  <2>2. \A u \in DOMAIN generator : uidMap[u] \in cached \ newTransactions
    BY <1>9 DEF TemplatesInv
  <2> QED
    BY <1>1, <1>4, <2>1, <2>2 DEF TemplatesInv, RightLinks
<1>13. Complete'
  BY <1>1 DEF Complete
<1> QED
  BY <1>7, <1>8, <1>10, <1>11, <1>12, <1>13 DEF TemplatesInv

\* Steps that leave the mempool, the maps and the generator alone.
LEMMA OthersKeep ==
    ASSUME TemplatesInv,
           \/ LoseAdditions
           \/ \E txs \in SUBSET cached : NewBlockNotAudited(txs)
           \/ UNCHANGED templateVars
    PROVE  TemplatesInv'
<1>1. /\ cached' = cached /\ newTransactions' \in {{}, newTransactions}
      /\ UNCHANGED <<mapVars, rustInitialized, mempoolBlocks, generator, called,
                     current, parted>>
      /\ \/ block' = block
         \/ called.type = "none" /\ newTransactions' = {} /\
            \E txs \in SUBSET cached : block' = [stage |-> "confirm", txs |-> txs]
  BY DEF LoseAdditions, NewBlockNotAudited, templateVars, mapVars, Between
<1>2. UNCHANGED <<uid, uidMap, txidMap, nextUid, rustInitialized, mempoolBlocks,
                  generator, called, current, parted>>
  BY <1>1 DEF mapVars
<1>3. Changed' = Changed
  BY <1>2 DEF Changed
<1>4. TemplatesTypeOK'
  BY <1>1, <1>2 DEF TemplatesInv, Shape, TemplatesTypeOK
<1>5. CallShape'
  <2>1. /\ block'.stage \in {"none", "audit", "confirm", "templates"}
        /\ block'.txs \subseteq Transaction
        /\ block'.stage = "confirm" => called.type = "none"
    BY <1>1 DEF TemplatesInv, Shape, CallShape, TemplatesTypeOK
  <2>2. called'.type # "none" \/ block'.stage # "none" => newTransactions' = {}
    BY <1>1, <1>2 DEF TemplatesInv, Shape, CallShape
  <2> QED
    BY <2>1, <2>2, <1>2 DEF TemplatesInv, Shape, CallShape
<1>6. Shape'
  BY <1>2, <1>3, <1>4, <1>5 DEF TemplatesInv, Shape, MapsInverse, Linking
<1>7. CopyOfMempool'
  BY <1>1, <1>2, <1>3 DEF TemplatesInv, CopyOfMempool
<1>8. FreshStart'
  BY <1>1, <1>2, <1>3 DEF TemplatesInv, FreshStart
<1>9. RightLinks'
  BY <1>1, <1>2, <1>3 DEF TemplatesInv, RightLinks
<1>10. Complete'
  BY <1>1, <1>2 DEF TemplatesInv, Complete
<1>11. \A t \in newTransactions' : uid'[t] = 0
  BY <1>1, <1>2 DEF TemplatesInv
<1> QED
  BY <1>6, <1>7, <1>8, <1>9, <1>10, <1>11 DEF TemplatesInv

LEMMA AfterCallShape ==
    ASSUME TemplatesInv, AfterCall, called.type # "none"
    PROVE  /\ called' = NoCall /\ newTransactions = {} /\ newTransactions' = {}
           /\ cached' = cached /\ CallShape'
<1>1. /\ block.stage \in {"none", "audit", "confirm", "templates"}
      /\ block.txs \subseteq Transaction /\ newTransactions = {}
  BY Zenon DEF TemplatesInv, Shape, CallShape
<1>2. \/ block' = NoBlock
      \/ block.stage = "audit" /\ block' = [block EXCEPT !.stage = "confirm"]
  BY DEF AfterCall
<1>3. block'.stage \in {"none", "audit", "confirm", "templates"}
      /\ block'.txs \subseteq Transaction
  <2>1. CASE block' = NoBlock
    BY <2>1 DEF NoBlock
  <2>2. CASE block.stage = "audit" /\ block' = [block EXCEPT !.stage = "confirm"]
    <3>1. block'.txs \in {block.txs}
      BY <2>2 DEF AfterCall
    <3>2. block'.stage \in {"confirm", block.stage}
      BY <2>2
    <3> QED
      BY <3>1, <3>2, <1>1
  <2> QED
    BY <2>1, <2>2, <1>2
<1>4. called' = NoCall /\ newTransactions' = newTransactions /\ cached' = cached
  BY DEF AfterCall
<1> QED
  BY <1>1, <1>3, <1>4 DEF CallShape, NoCall

LEMMA NothingMore ==
    ASSUME NEW g, g = [u \in DOMAIN g |-> g[u]]
    PROVE  Less(Over(g, NoCall.inserted), {uid'[t] : t \in NoCall.removed}) = g
<1>1. DOMAIN Nothing = {}
  BY DEF Nothing
<1>2. Less(Over(g, Nothing), {}) = [u \in DOMAIN g |-> g[u]]
  BY <1>1 DEF Less, Over
<1> QED
  BY <1>2 DEF NoCall

LEMMA RefuseKeeps ==
    ASSUME TemplatesInv, Refuse
    PROVE  TemplatesInv'
<1>1. /\ generator' = Nothing /\ rustInitialized' = FALSE
      /\ UNCHANGED <<uid, uidMap, txidMap, nextUid, mempoolBlocks, current, parted>>
  BY DEF Refuse, mapVars
<1>2. /\ called' = NoCall /\ newTransactions' = {} /\ cached' = cached /\ CallShape'
  BY AfterCallShape DEF Refuse
<1>3. DOMAIN Nothing = {} /\ Nothing = [u \in {} |-> Nothing[u]]
  BY DEF Nothing
<1>4. Changed' = Nothing
  <2>1. Changed' = Less(Over(Nothing, NoCall.inserted), {uid'[t] : t \in NoCall.removed})
    BY <1>1, <1>2 DEF Changed
  <2>2. Nothing = [u \in DOMAIN Nothing |-> Nothing[u]]
    BY DEF Nothing
  <2> QED
    BY <2>1, <2>2, NothingMore
<1>5. Nothing \in [DOMAIN Nothing -> SUBSET (1 .. nextUid' - 1)]
  BY <1>3
<1>6. TemplatesTypeOK'
  BY <1>1, <1>2, <1>5 DEF TemplatesInv, Shape, TemplatesTypeOK
<1>7. Shape'
  BY <1>1, <1>2, <1>4, <1>5, <1>6 DEF TemplatesInv, Shape, MapsInverse, Linking
<1>8. CopyOfMempool' /\ RightLinks'
  BY <1>2, <1>3, <1>4 DEF CopyOfMempool, RightLinks
<1>9. FreshStart'
  BY <1>1, <1>2 DEF FreshStart, NoCall
<1>10. Complete'
  BY <1>1, <1>2 DEF TemplatesInv, Complete
<1>11. \A t \in newTransactions' : uid'[t] = 0
  BY <1>2
<1> QED
  BY <1>7, <1>8, <1>9, <1>10, <1>11 DEF TemplatesInv

\* Different uids of the copy are of different transactions of the mempool, so that
\* comparing the numbers is enough.
LEMMA NumbersAreEnough ==
    ASSUME TemplatesInv, called.type # "none", ComesBack
    PROVE  \A t \in cached : \E u \in DOMAIN Changed : uidMap[u] = t
<1>1. CASE called.type = "make"
  BY <1>1 DEF TemplatesInv, FreshStart
<1>2. CASE called.type = "update"
  <2> DEFINE f == [u \in DOMAIN Changed |-> uidMap[u]]
  <2>1. f \in [DOMAIN Changed -> cached]
    BY DEF TemplatesInv, CopyOfMempool
  <2>2. \A u, v \in DOMAIN Changed : uidMap[u] = uidMap[v] => u = v
    BY DEF TemplatesInv, CopyOfMempool
  <2>3. f \in Injection(DOMAIN Changed, cached)
    BY <2>1, <2>2 DEF Injection, IsInjective
  <2>4. IsFiniteSet(cached)
    BY PartsFinite DEF TemplatesInv, Shape, TemplatesTypeOK
  <2>5. Cardinality(DOMAIN Changed) = Cardinality(cached)
    BY <1>2 DEF ComesBack
  <2>6. f \in Surjection(DOMAIN Changed, cached)
    <3> HIDE DEF f
    <3> QED
      BY <2>3, <2>4, <2>5, FS_Injection
  <2> QED
    BY <2>6 DEF Surjection
<1> QED
  BY <1>1, <1>2 DEF TemplatesInv, Shape, CallShape

LEMMA AnswerKeeps ==
    ASSUME TemplatesInv, Answer
    PROVE  TemplatesInv'
<1> DEFINE removed == called.removed \cap DOMAIN txidMap
           gone == {txidMap[t] : t \in removed}
<1>1. /\ called.type # "none" /\ ComesBack /\ AfterCall
      /\ generator' = Changed /\ rustInitialized' = TRUE /\ current' = TRUE
      /\ mempoolBlocks' = {uidMap[u] : u \in DOMAIN Changed}
      /\ uidMap' = Less(uidMap, gone) /\ txidMap' = Less(txidMap, removed)
      /\ uid' = [t \in Transaction |-> IF t \in called.removed THEN 0 ELSE uid[t]]
      /\ nextUid' = nextUid /\ parted' = parted
  BY DEF Answer
<1>2. /\ called' = NoCall /\ newTransactions' = {} /\ cached' = cached /\ CallShape'
  BY <1>1, AfterCallShape
<1>3. Changed \in [DOMAIN Changed -> SUBSET (1 .. nextUid - 1)]
  BY DEF TemplatesInv, Shape, Linking
<1>4. Changed' = Changed
  <2>1. Changed' = Less(Over(Changed, NoCall.inserted), {uid'[t] : t \in NoCall.removed})
    BY <1>1, <1>2 DEF Changed
  <2>2. Changed = [u \in DOMAIN Changed |-> Changed[u]]
    BY <1>3
  <2> QED
    BY <2>1, <2>2, NothingMore
<1>5. /\ DOMAIN txidMap' = DOMAIN txidMap \ removed
      /\ \A t \in DOMAIN txidMap' : txidMap'[t] = txidMap[t]
      /\ txidMap' = [t \in DOMAIN txidMap' |-> txidMap'[t]]
      /\ DOMAIN uidMap' = DOMAIN uidMap \ gone
      /\ \A u \in DOMAIN uidMap' : uidMap'[u] = uidMap[u]
  <2> HIDE DEF removed, gone
  <2> QED
    BY <1>1 DEF Less
<1>6. \A t \in DOMAIN txidMap : txidMap[t] \in DOMAIN uidMap /\ uidMap[txidMap[t]] = t
  BY DEF TemplatesInv, Shape, MapsInverse
<1>7. \A t \in DOMAIN txidMap : t \notin removed => txidMap[t] \notin gone
  BY <1>6
<1> HIDE DEF gone
<1>8. MapsInverse'
  BY <1>5, <1>6, <1>7 DEF MapsInverse
\* What comes back is of transactions that stay.
<1>9. \A u \in DOMAIN Changed :
          /\ uidMap[u] \in cached /\ uidMap[u] \notin called.removed
          /\ uidMap[u] \in DOMAIN txidMap' /\ u \in DOMAIN uidMap'
          /\ uidMap'[u] = uidMap[u] /\ txidMap'[uidMap[u]] = u
          /\ uid'[uidMap[u]] = u
  <2> SUFFICES ASSUME NEW u \in DOMAIN Changed
               PROVE  /\ uidMap[u] \in cached /\ uidMap[u] \notin called.removed
                      /\ uidMap[u] \in DOMAIN txidMap' /\ u \in DOMAIN uidMap'
                      /\ uidMap'[u] = uidMap[u] /\ txidMap'[uidMap[u]] = u
                      /\ uid'[uidMap[u]] = u
    OBVIOUS
  <2>1. /\ uidMap[u] \in cached \cap DOMAIN txidMap /\ txidMap[uidMap[u]] = u
        /\ uid[uidMap[u]] = u /\ u \in DOMAIN uidMap
    BY DEF TemplatesInv, CopyOfMempool
  <2>2. uidMap[u] \notin called.removed /\ uidMap[u] \in Transaction
    BY <2>1 DEF TemplatesInv, FreshStart, Shape, TemplatesTypeOK
  <2>3. uidMap[u] \notin removed
    BY <2>2
  <2>4. u \notin gone
    BY <2>1, <2>3, <1>7
  <2> QED
    BY <2>1, <2>2, <2>3, <2>4, <1>1, <1>5
<1> HIDE DEF removed
<1>10. CopyOfMempool'
  BY <1>2, <1>4, <1>9 DEF CopyOfMempool
<1>11. TemplatesTypeOK'
  <2>1. txidMap' \in [DOMAIN txidMap' -> DOMAIN uidMap']
    BY <1>5, <1>8 DEF MapsInverse
  <2>2. DOMAIN uidMap' \subseteq 1 .. nextUid - 1 /\ DOMAIN txidMap' \subseteq Transaction
    BY <1>5 DEF TemplatesInv, Shape, TemplatesTypeOK
  <2>3. \A u \in DOMAIN uidMap : uidMap[u] \in Transaction
    BY DEF TemplatesInv, Shape, TemplatesTypeOK, Ids
  <2>4. Ids(uidMap') \subseteq Transaction
    BY <2>3, <1>5 DEF Ids
  <2>5. mempoolBlocks' \subseteq Transaction
    BY <1>1, <1>9 DEF TemplatesInv, Shape, TemplatesTypeOK
  <2>6. generator' \in [DOMAIN generator' -> SUBSET (1 .. nextUid' - 1)]
    BY <1>1, <1>3
  <2>7. cached' \subseteq Transaction /\ newTransactions' \subseteq cached'
        /\ nextUid' \in Nat \ {0}
    BY <1>1, <1>2 DEF TemplatesInv, Shape, TemplatesTypeOK
  <2>8. rustInitialized' \in BOOLEAN /\ current' \in BOOLEAN
    BY <1>1
  <2>9. parted' \in BOOLEAN
    BY <1>1 DEF TemplatesInv, Shape, TemplatesTypeOK
  <2>10. Ids(uidMap)' \subseteq Transaction
    BY <2>4 DEF Ids
  <2> QED
    BY <1>1, <2>1, <2>2, <2>5, <2>6, <2>7, <2>8, <2>9, <2>10 DEF TemplatesTypeOK
<1>12. Shape'
  <2>1. \A t \in Transaction : uid[t] \in Nat
    BY DEF TemplatesInv, Shape
  <2>2. uid' \in [Transaction -> Nat]
    BY <1>1, <2>1
  <2> QED
    BY <2>2, <1>1, <1>2, <1>3, <1>4, <1>8, <1>11 DEF Shape, Linking
<1>13. FreshStart'
  BY <1>1, <1>2 DEF FreshStart, NoCall
<1>14. RightLinks'
  BY <1>1, <1>2, <1>4, <1>9 DEF TemplatesInv, RightLinks
<1>15. Complete'
  <2>1. \A t \in cached : \E u \in DOMAIN Changed : uidMap[u] = t
    BY <1>1, NumbersAreEnough
  <2>2. mempoolBlocks' = cached
    BY <2>1, <1>1, <1>9
  <2>3. \A t \in cached : t \in DOMAIN txidMap' /\ txidMap'[t] \in DOMAIN Changed
    BY <2>1, <1>9
  <2> QED
    BY <2>2, <2>3, <1>1, <1>2 DEF Complete
<1>16. \A t \in newTransactions' : uid'[t] = 0
  BY <1>2
<1> QED
  BY <1>10, <1>12, <1>13, <1>14, <1>15, <1>16 DEF TemplatesInv

LEMMA InitHolds == TemplatesInit => TemplatesInv
<1> SUFFICES ASSUME TemplatesInit PROVE TemplatesInv
  OBVIOUS
<1>1. DOMAIN Nothing = {} /\ Nothing \in [{} -> {}]
  BY DEF Nothing
<1>2. TemplatesTypeOK
  <2>1. cached \subseteq Transaction /\ newTransactions = {} /\ nextUid = 1
        /\ mempoolBlocks = {} /\ rustInitialized = FALSE /\ current = FALSE
        /\ parted = FALSE /\ uidMap = Nothing /\ txidMap = Nothing
        /\ generator = Nothing
    BY DEF TemplatesInit
  <2>2. Ids(uidMap) = {}
    BY <1>1, <2>1 DEF Ids
  <2>3. DOMAIN uidMap = {} /\ DOMAIN txidMap = {} /\ DOMAIN generator = {}
    BY <1>1, <2>1
  <2>4. txidMap \in [DOMAIN txidMap -> DOMAIN uidMap]
        /\ generator \in [DOMAIN generator -> SUBSET (1 .. nextUid - 1)]
    BY <2>1, <2>3 DEF Nothing
  <2>5. rustInitialized \in BOOLEAN /\ current \in BOOLEAN /\ parted \in BOOLEAN
    BY <2>1
  <2>6. /\ cached \subseteq Transaction /\ newTransactions \subseteq cached
        /\ nextUid \in Nat \ {0} /\ mempoolBlocks \subseteq Transaction
    BY <2>1
  <2>7. DOMAIN uidMap \subseteq 1 .. nextUid - 1 /\ DOMAIN txidMap \subseteq Transaction
        /\ Ids(uidMap) \subseteq Transaction
    BY <2>2, <2>3
  <2> QED
    BY Zenon, <2>4, <2>5, <2>6, <2>7 DEF TemplatesTypeOK
<1>3. Changed = generator
  BY <1>2, NothingCalled DEF TemplatesInit
<1>4. Shape
  BY <1>1, <1>2, <1>3 DEF TemplatesInit, Shape, CallShape, NoCall, NoBlock, MapsInverse, Linking
<1>5. CopyOfMempool /\ RightLinks
  BY <1>1, <1>3 DEF TemplatesInit, CopyOfMempool, RightLinks
<1>6. FreshStart
  BY DEF TemplatesInit, FreshStart, NoCall
<1>7. Complete
  BY DEF TemplatesInit, Complete
<1> QED
  BY <1>4, <1>5, <1>6, <1>7 DEF TemplatesInit, TemplatesInv

-----------------------------------------------------------------------------
\* The inductive invariant: copy, maps and mempool agree, whatever rounds fail and
\* whatever results are refused.
THEOREM TemplatesInvariant == TemplatesSpec => []TemplatesInv
<1>1. TemplatesInv /\ [TemplatesNext]_templateVars => TemplatesInv'
  <2> SUFFICES ASSUME TemplatesInv, [TemplatesNext]_templateVars
               PROVE  TemplatesInv'
    OBVIOUS
  <2>1. CASE \E t \in Transaction : AddSlice(t)
    BY <2>1, AddSliceKeeps
  <2>2. CASE \/ \E deleted \in SUBSET cached : MempoolChange(deleted)
             \/ \E txs \in SUBSET cached : NewBlock(txs)
             \/ ConfirmBlock
    BY <2>2, CallbacksKeep
  <2>3. CASE \/ LoseAdditions
             \/ \E txs \in SUBSET cached : NewBlockNotAudited(txs)
             \/ UNCHANGED templateVars
    BY <2>3, OthersKeep
  <2>4. CASE Answer
    BY <2>4, AnswerKeeps
  <2>5. CASE Refuse
    BY <2>5, RefuseKeeps
  <2> QED
    BY <2>1, <2>2, <2>3, <2>4, <2>5 DEF TemplatesNext
<1> QED
  BY <1>1, InitHolds, PTL DEF TemplatesSpec

\* Types, and all uids in use below the capacity given to the generator
\* (mempool-blocks.ts:573).
THEOREM TemplatesTypeCorrect == TemplatesSpec => []TemplatesTypeOK
<1>1. TemplatesInv => TemplatesTypeOK
  BY DEF TemplatesInv, Shape
<1> QED
  BY <1>1, TemplatesInvariant, PTL

\* A result that is taken is of the mempool as it is, with the links of the mempool
\* unless a parent came after its child (mempool-blocks.ts:344).
THEOREM ResultsAlwaysCurrent == TemplatesSpec => []TemplatesCurrent
<1>1. ASSUME TemplatesInv, current
      PROVE  mempoolBlocks = cached
  BY <1>1 DEF TemplatesInv, Complete
<1>2. ASSUME TemplatesInv, current, rustInitialized, called.type = "none", ~parted,
             NEW t \in cached
      PROVE  generator[txidMap[t]] \cap DOMAIN generator = InputsOf(t, cached, txidMap)
  <2>1. Changed = generator
    BY <1>2, NothingCalled DEF TemplatesInv, Shape, CallShape
  <2>2. \A p \in cached : /\ p \in DOMAIN txidMap /\ txidMap[p] \in DOMAIN generator
                          /\ uidMap[txidMap[p]] = p
    BY <1>2 DEF TemplatesInv, Complete, Shape, MapsInverse
  <2>3. \A v \in DOMAIN generator :
            v \in generator[txidMap[t]] <=> uidMap[v] \in Parents[t]
    BY <1>2, <2>1, <2>2 DEF TemplatesInv, RightLinks
  <2>4. \A v \in DOMAIN generator : uidMap[v] \in cached /\ txidMap[uidMap[v]] = v
    BY <1>2, <2>1 DEF TemplatesInv, CopyOfMempool
  <2> QED
    BY <2>2, <2>3, <2>4 DEF InputsOf
<1>3. TemplatesInv => TemplatesCurrent
  BY <1>1, <1>2 DEF TemplatesCurrent
<1> QED
  BY <1>3, TemplatesInvariant, PTL

=============================================================================
