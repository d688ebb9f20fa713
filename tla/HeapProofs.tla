----------------------------- MODULE HeapProofs -----------------------------
(***************************************************************************)
(* PairingHeap implements PriorityQueue, for any finite set of elements    *)
(* and any scores.                                                         *)
(*                                                                         *)
(* The invariant is that the pointers child, next and prev form one tree   *)
(* of what has a score (Forest), in which every parent is higher than its  *)
(* children.  A parent and a position among the siblings are not stored:   *)
(* that there are some is the invariant, and each operation is shown to    *)
(* have some after it.  The two loops of mergePairs are recursive          *)
(* functions on the number of turns; the number of the nodes is enough for *)
(* the first one, since the siblings of a node are a finite chain.         *)
(***************************************************************************)
EXTENDS PairingHeap, FiniteSetTheorems, SequenceTheorems, TLAPS

-----------------------------------------------------------------------------
(* PairingHeap: finite orders and recursive functions *)

\* A strict order on a finite set has a member before which there is none.
LEMMA FirstOf ==
  ASSUME NEW S, IsFiniteSet(S), S # {}, NEW R,
         \A x \in S : <<x, x>> \notin R,
         \A x, y, z \in S : <<x, y>> \in R /\ <<y, z>> \in R => <<x, z>> \in R
  PROVE  \E m \in S : \A x \in S : <<x, m>> \notin R
<1> DEFINE Before(x) == {y \in S : <<y, x>> \in R}
           B == {Before(x) : x \in S}
<1>1. \A x \in S : Before(x) \in FiniteSubsetsOf(S)
  <2> SUFFICES ASSUME NEW x \in S PROVE Before(x) \in FiniteSubsetsOf(S)
    OBVIOUS
  <2>1. Before(x) \in SUBSET S
    OBVIOUS
  <2>2. IsFiniteSet(Before(x))
    BY <2>1, FS_Subset
  <2> QED BY <2>1, <2>2 DEF FiniteSubsetsOf
<1>2. B \subseteq FiniteSubsetsOf(S) /\ B # {}
  <2> HIDE DEF Before
  <2> QED BY <1>1
<1>3. PICK b \in B : \A c \in B : <<c, b>> \notin StrictSubsetOrdering(S)
  <2> HIDE DEF B
  <2> QED BY <1>2, FS_StrictSubsetOrderingWellFounded, WFMin
<1>4. PICK m \in S : b = Before(m)
  OBVIOUS
<1>5. ASSUME NEW x \in S, <<x, m>> \in R PROVE FALSE
  <2>1. Before(x) \subseteq Before(m) /\ x \in Before(m) /\ x \notin Before(x)
    BY <1>5
  <2>2. Before(x) \in SUBSET S /\ Before(m) \in SUBSET S /\ Before(x) # Before(m)
    BY <2>1
  <2>3. <<Before(x), Before(m)>> \in StrictSubsetOrdering(S)
    BY <2>1, <2>2, <1>1 DEF StrictSubsetOrdering
  <2> QED BY <2>3, <1>3, <1>4
<1> QED BY <1>5

\* Reaching each number from the one before it.
LEMMA UpTo ==
  ASSUME NEW n \in Nat, NEW Good, 0 \in Good,
         \A i \in 1..n : i - 1 \in Good => i \in Good
  PROVE  \A i \in 0..n : i \in Good
<1> DEFINE Bad == {i \in 0..n : i \notin Good}
           R == {p \in (0..n) \X (0..n) : p[1] < p[2]}
<1> SUFFICES ASSUME Bad # {} PROVE FALSE
  OBVIOUS
<1>1. IsFiniteSet(0..n)
  BY FS_Interval
<1>2. IsFiniteSet(Bad)
  BY <1>1, FS_Subset
<1>3. \A x, y \in 0..n : <<x, y>> \in R <=> x < y
  OBVIOUS
<1>4. PICK m \in Bad : \A x \in Bad : <<x, m>> \notin R
  <2>1. Bad \subseteq 0..n
    OBVIOUS
  <2>2. \A x \in Bad : <<x, x>> \notin R
    BY <1>3, <2>1
  <2>3. \A x, y, z \in Bad : <<x, y>> \in R /\ <<y, z>> \in R => <<x, z>> \in R
    BY <1>3, <2>1
  <2> HIDE DEF Bad, R
  <2> QED BY <1>2, <2>2, <2>3, FirstOf
<1>5. m \in 1..n /\ m - 1 \in 0..n /\ m - 1 < m
  OBVIOUS
<1>6. m - 1 \in Good
  BY <1>3, <1>4, <1>5
<1> QED BY <1>5, <1>6

\* The function f goes on from start by the functions step, through the sets X.
Goes(f, n, start, step, X) ==
    /\ f[0] = start
    /\ \A i \in 1..n : f[i] = step[i][f[i - 1]]
    /\ \A i \in 0..n : f[i] \in X[i]

\* A recursion over the numbers up to n, from start by the functions step: when it
\* goes from each of the sets X[i] into the next one its equation has a solution.
LEMMA StepsExist ==
  ASSUME NEW n \in Nat, NEW U, NEW X \in [0..n -> SUBSET U], NEW start \in X[0],
         NEW step \in [1..n -> [U -> U]],
         \A i \in 1..n : \A x \in X[i - 1] : step[i][x] \in X[i]
  PROVE  \E f \in [0..n -> U] : Goes(f, n, start, step, X)
<1> DEFINE Solves(f, k) == /\ f[0] = start
                           /\ \A i \in 1..n : i <= k => f[i] = step[i][f[i - 1]]
           Good == {k \in 0..n : \E f \in [0..n -> U] : Solves(f, k)}
<1>0. start \in U /\ 0 \in 0..n
  OBVIOUS
<1>1. 0 \in Good
  <2>1. [i \in 0..n |-> start] \in [0..n -> U]
    BY <1>0
  <2>2. Solves([i \in 0..n |-> start], 0)
    BY <1>0
  <2> QED BY <1>0, <2>1, <2>2
<1>2. ASSUME NEW k \in 1..n, k - 1 \in Good
      PROVE  k \in Good
  <2>1. PICK f \in [0..n -> U] : Solves(f, k - 1)
    BY <1>2
  <2> DEFINE h == [f EXCEPT ![k] = step[k][f[k - 1]]]
  <2>2. k \in 0..n /\ k - 1 \in 0..n /\ k # 0
    OBVIOUS
  <2>3. step[k][f[k - 1]] \in U
    BY <2>2
  <2>4. h \in [0..n -> U] /\ h[0] = start /\ h[k] = step[k][f[k - 1]] /\ h[k - 1] = f[k - 1]
    BY <2>1, <2>2, <2>3
  <2>5. ASSUME NEW i \in 1..n, i <= k - 1
        PROVE  h[i] = step[i][h[i - 1]]
    <3>1. i # k /\ i - 1 # k /\ i \in 0..n /\ i - 1 \in 0..n
      BY <2>5
    <3>2. h[i] = f[i] /\ h[i - 1] = f[i - 1]
      BY <3>1
    <3> QED BY <2>1, <2>5, <3>2
  <2>6. \A i \in 1..n : i <= k => i = k \/ i <= k - 1
    OBVIOUS
  <2>7. Solves(h, k)
    <3> HIDE DEF h
    <3> QED BY <2>4, <2>5, <2>6
  <2> HIDE DEF h, Solves
  <2> QED BY <2>2, <2>4, <2>7
<1>3. n \in Good
  <2> HIDE DEF Good
  <2>1. n \in 0..n
    OBVIOUS
  <2> QED BY <1>1, <1>2, <2>1, UpTo
<1>4. PICK f \in [0..n -> U] : f[0] = start /\ \A i \in 1..n : f[i] = step[i][f[i - 1]]
  <2>1. \A i \in 1..n : i <= n
    OBVIOUS
  <2> QED BY <1>3, <2>1
<1>5. \A i \in 0..n : f[i] \in X[i]
  <2> DEFINE In == {i \in 0..n : f[i] \in X[i]}
  <2>1. 0 \in In
    BY <1>0, <1>4
  <2>2. ASSUME NEW i \in 1..n, i - 1 \in In PROVE i \in In
    BY <1>4, <2>2
  <2>3. \A i \in 0..n : i \in In
    <3> HIDE DEF In
    <3> QED BY <2>1, <2>2, UpTo
  <2> QED BY <2>3
<1> QED BY <1>4, <1>5 DEF Goes

-----------------------------------------------------------------------------
(* PairingHeap: what the pointers form *)

Node == [child : Pointer, next : Pointer, prev : Pointer]
Heaps == [Element -> Node]

\* The node n has a parent that is higher and is its first child, or comes after
\* the sibling that points to it, which has the greater position.
InPlace(s, h, S, par, pos, n) ==
    par[n] # None =>
        /\ par[n] \in S /\ Higher(s, par[n], n)
        /\ h[n].prev \in S
        /\ \/ h[n].prev = par[n] /\ h[par[n]].child = n
           \/ /\ par[h[n].prev] = par[n]
              /\ h[h[n].prev].next = n
              /\ pos[h[n].prev] > pos[n]
        /\ h[n].next # None =>
              h[n].next \in S /\ par[h[n].next] = par[n] /\ h[h[n].next].prev = n

FirstChild(h, S, par, n) ==
    h[n].child # None =>
        h[n].child \in S /\ par[h[n].child] = n /\ h[h[n].child].prev = n

\* The pointers of the nodes S form trees, with these parents and positions among
\* the siblings.  The pointers of a node without a parent to siblings are not used.
Trees(s, h, S, par, pos) ==
    \A n \in S : InPlace(s, h, S, par, pos, n) /\ FirstChild(h, S, par, n)

\* They form trees with the tops T.
Forest(s, h, S, T) ==
    \E par \in [Element -> Pointer], pos \in [Element -> Nat] :
        Trees(s, h, S, par, pos) /\ T = {n \in S : par[n] = None}

\* None is no element.
LEMMA NoneFacts ==
  /\ None \notin Element /\ Element \subseteq Nat /\ IsFiniteSet(Element)
  /\ None \in Pointer /\ Element \subseteq Pointer
BY HeapAssumption DEF None, Pointer

\* A higher score, then a higher uid comes first: an order.
LEMMA HigherFacts ==
  ASSUME NEW s \in [Element -> Nat]
  PROVE  /\ \A a \in Element : ~Higher(s, a, a)
         /\ \A a, b \in Element : a # b => Higher(s, a, b) \/ Higher(s, b, a)
         /\ \A a, b, c \in Element : Higher(s, a, b) /\ Higher(s, b, c) => Higher(s, a, c)
BY NoneFacts DEF Higher

\* No node is its own parent.
LEMMA ParentsDiffer ==
  ASSUME NEW s \in [Element -> Nat], NEW h, NEW S \in SUBSET Element,
         NEW par, NEW pos, Trees(s, h, S, par, pos)
  PROVE  \A n \in S : par[n] # n
BY HigherFacts, NoneFacts DEF Trees, InPlace

\* From the heap h of the trees with the tops T the heap h2 has been made, in which
\* one of two tops is below the other one.
Melded(s, h, S, T, a, b, h2, top) ==
    /\ h2 \in Heaps /\ top \in {a, b} /\ h2[top].next = None
    /\ \A x \in Element : x \notin S \/ x \in T \ {a, b} => h2[x] = h[x]
    /\ Forest(s, h2, S, (T \ {a, b}) \cup {top})

\* A node below which another is put.
LEMMA AdoptForest ==
  ASSUME NEW s \in [Element -> Nat], NEW h \in Heaps, NEW S \in SUBSET Element,
         NEW T, Forest(s, h, S, T), NEW p \in T, NEW c \in T, p # c, Higher(s, p, c),
         NEW h2, h2 = Adopt(h, p, c)
  PROVE  Melded(s, h, S, T, p, c, h2, p)
<1>0. PICK par \in [Element -> Pointer], pos \in [Element -> Nat] :
          Trees(s, h, S, par, pos) /\ T = {n \in S : par[n] = None}
  BY DEF Forest
<1>a. p \in S /\ c \in S /\ par[p] = None /\ par[c] = None
  BY <1>0
<1> DEFINE f == h[p].child
           par2 == [par EXCEPT ![c] = p]
           pos2 == [pos EXCEPT ![c] = IF f = None THEN 0 ELSE pos[f] + 1]
<1>1. /\ f \in Pointer
      /\ f # None => f \in S /\ par[f] = p /\ h[f].prev = p /\ f # p /\ f # c
  <2>1. FirstChild(h, S, par, p)
    BY <1>0, <1>a DEF Trees
  <2> QED BY <2>1, <1>a, NoneFacts DEF FirstChild, Heaps, Node
<1>2. /\ h2 \in Heaps
      /\ \A n \in Element : n # p => h2[n].child = h[n].child
      /\ \A n \in Element : n \notin {p, c} => h2[n].next = h[n].next
      /\ \A n \in Element : n \notin {p, c, f} => h2[n].prev = h[n].prev
      /\ h2[p] = [child |-> c, next |-> None, prev |-> None]
      /\ h2[c].next = f /\ h2[c].prev = p
      /\ f # None => h2[f].prev = c
      /\ \A n \in Element : n \notin {p, c, f} => h2[n] = h[n]
  <2>1. \A n \in Element : h[n] \in Node
    BY DEF Heaps
  <2>2. p \in Pointer /\ c \in Pointer /\ p \in Element /\ c \in Element
    BY <1>a, NoneFacts
  <2>3. \A n \in Element :
           /\ n = p => h2[n] = [child |-> c, next |-> None, prev |-> None]
           /\ n # p /\ n = c => h2[n] = [child |-> h[c].child, next |-> f, prev |-> p]
           /\ n # p /\ n # c /\ n = f => h2[n] = [h[n] EXCEPT !.prev = c]
           /\ n # p /\ n # c /\ n # f => h2[n] = h[n]
    <3> SUFFICES ASSUME NEW n \in Element
                 PROVE  /\ n = p => h2[n] = [child |-> c, next |-> None, prev |-> None]
                        /\ n # p /\ n = c => h2[n] = [child |-> h[c].child, next |-> f, prev |-> p]
                        /\ n # p /\ n # c /\ n = f => h2[n] = [h[n] EXCEPT !.prev = c]
                        /\ n # p /\ n # c /\ n # f => h2[n] = h[n]
      OBVIOUS
    <3>1. h2[n] = CASE n = p -> [child |-> c, next |-> None, prev |-> None]
                    [] n = c -> [child |-> h[c].child, next |-> h[p].child, prev |-> p]
                    [] n = h[p].child -> [h[n] EXCEPT !.prev = c]
                    [] OTHER -> h[n]
      BY DEF Adopt
    <3>6. n \in {p, c} => n # h[p].child
      BY <1>1, <1>a, NoneFacts
    <3>2. CASE n = p
      BY <3>1, <3>2, <3>6
    <3>3. CASE n = c
      BY <3>1, <3>3, <3>6
    <3>4. CASE n # p /\ n # c /\ n = f
      BY <3>1, <3>4
    <3>5. CASE n # p /\ n # c /\ n # f
      BY <3>1, <3>5
    <3> QED BY <3>2, <3>3, <3>4, <3>5
  <2>0. DOMAIN h2 = Element /\ h2 = [n \in Element |-> h2[n]]
    BY DEF Adopt
  <2> HIDE DEF f
  <2>4. h2[p] = [child |-> c, next |-> None, prev |-> None]
    BY <2>2, <2>3
  <2>5. h2[c] = [child |-> h[c].child, next |-> f, prev |-> p]
    BY <2>2, <2>3
  <2>6. \A n \in Element : n \notin {p, c, f} => h2[n] = h[n]
    BY <2>3
  <2>7. f # None => h2[f] = [h[f] EXCEPT !.prev = c]
    BY <1>1, <2>3
  <2>8. \A n \in Element : h2[n] \in Node
    <3> SUFFICES ASSUME NEW n \in Element PROVE h2[n] \in Node
      OBVIOUS
    <3>1. CASE n = p
      BY <3>1, <2>2, <2>4, NoneFacts DEF Node
    <3>2. CASE n = c
      BY <3>2, <1>1, <2>1, <2>2, <2>5, NoneFacts DEF Node
    <3>3. CASE n = f
      BY <3>3, <1>1, <2>1, <2>2, <2>7, NoneFacts DEF Node
    <3> QED BY <3>1, <3>2, <3>3, <2>1, <2>6
  <2>9. h2 \in Heaps
    BY <2>0, <2>8 DEF Heaps
  <2>10. ASSUME NEW n \in Element, n # p PROVE h2[n].child = h[n].child
    <3>1. CASE n = c
      BY <3>1, <2>5
    <3>2. CASE n = f
      BY <3>2, <2>1, <2>7, NoneFacts DEF Node
    <3> QED BY <3>1, <3>2, <2>6, <2>10
  <2>11. ASSUME NEW n \in Element, n \notin {p, c} PROVE h2[n].next = h[n].next
    <3>2. CASE n = f
      BY <3>2, <2>1, <2>7, NoneFacts DEF Node
    <3> QED BY <3>2, <2>6, <2>11
  <2> QED BY <1>1, <2>1, <2>4, <2>5, <2>6, <2>7, <2>9, <2>10, <2>11, NoneFacts DEF Node
<1>3. par2 \in [Element -> Pointer] /\ par2[c] = p
      /\ \A n \in Element : n # c => par2[n] = par[n]
  BY <1>a, NoneFacts
<1>4. /\ pos2 \in [Element -> Nat]
      /\ f # None => pos2[c] > pos[f]
      /\ \A n \in Element : n # c => pos2[n] = pos[n]
  <2> HIDE DEF f
  <2>1. c \in Element /\ (f # None => pos[f] \in Nat)
    BY <1>1, <1>a
  <2> QED BY <2>1
<1> HIDE DEF f, par2, pos2
<1> USE <1>a
<1>5. ASSUME NEW n \in S PROVE FirstChild(h2, S, par2, n)
  <2>1. FirstChild(h, S, par, n)
    BY <1>0 DEF Trees
  <2>2. CASE n = p
    BY <2>2, <1>2, <1>3 DEF FirstChild
  <2>3. CASE n # p
    <3> DEFINE x == h[n].child
    <3>1. h2[n].child = x
      BY <2>3, <1>2
    <3> SUFFICES ASSUME x # None PROVE x \in S /\ par2[x] = n /\ h2[x].prev = n
      BY <3>1 DEF FirstChild
    <3>2. x \in S /\ par[x] = n /\ h[x].prev = n
      BY <2>1 DEF FirstChild
    <3>3. x \notin {p, c, f}
      BY <3>2, <2>3, <1>1, NoneFacts
    <3> HIDE DEF x
    <3> QED BY <3>2, <3>3, <1>2, <1>3
  <2> QED BY <2>2, <2>3
<1>6. ASSUME NEW n \in S PROVE InPlace(s, h2, S, par2, pos2, n)
  <2>0. InPlace(s, h, S, par, pos, n)
    BY <1>0 DEF Trees
  <2>1. CASE n = c
    <3>1. par2[n] = p /\ h2[n].prev = p /\ h2[n].next = f /\ h2[p].child = n
      BY <2>1, <1>2, <1>3
    <3>2. f # None => f \in S /\ par2[f] = p /\ h2[f].prev = n
      BY <2>1, <1>1, <1>2, <1>3
    <3> QED BY <2>1, <3>1, <3>2 DEF InPlace
  <2>2. CASE n = p
    BY <2>2, <1>3 DEF InPlace
  <2>3. CASE n = f
    <3>1. /\ par[n] = p /\ par2[n] = p /\ p # None /\ h[n].prev = p
          /\ h2[n].prev = c /\ h2[c].next = n /\ par2[c] = p /\ pos2[c] > pos2[n]
          /\ h2[n].next = h[n].next
      BY <2>3, <1>1, <1>2, <1>3, <1>4, NoneFacts
    <3>2. h[n].next # None =>
             /\ h[n].next \in S /\ par[h[n].next] = p /\ h[h[n].next].prev = n
             /\ h[n].next \notin {p, c, f}
      BY <2>0, <2>3, <3>1, <1>1, NoneFacts DEF InPlace
    <3>3. h[n].next # None => par2[h[n].next] = p /\ h2[h[n].next].prev = n
      BY <3>2, <1>2, <1>3
    <3> QED BY <2>0, <3>1, <3>2, <3>3 DEF InPlace
  <2>4. CASE n \notin {c, p, f} /\ par[n] # None
    <3>1. h2[n] = h[n] /\ par2[n] = par[n] /\ par[n] \in S /\ Higher(s, par[n], n)
          /\ h[n].prev \in S
      BY <2>0, <2>4, <1>2, <1>3 DEF InPlace
    <3>2. ASSUME h[n].prev = par[n], h[par[n]].child = n
          PROVE  h2[n].prev = par2[n] /\ h2[par2[n]].child = n
      BY <3>1, <3>2, <2>4, <1>2 DEF f
    <3>3. ASSUME par[h[n].prev] = par[n], h[h[n].prev].next = n, pos[h[n].prev] > pos[n]
          PROVE  /\ par2[h2[n].prev] = par2[n] /\ h2[h2[n].prev].next = n
                 /\ pos2[h2[n].prev] > pos2[n]
      BY <3>1, <3>3, <2>4, <1>2, <1>3, <1>4
    <3>4. ASSUME h[n].next # None
          PROVE  h[n].next \in S /\ par2[h[n].next] = par2[n] /\ h2[h[n].next].prev = n
      BY <2>0, <3>1, <3>4, <2>4, <1>1, <1>2, <1>3 DEF InPlace
    <3> QED BY <2>0, <2>4, <3>1, <3>2, <3>3, <3>4 DEF InPlace
  <2>5. CASE n \notin {c, p, f} /\ par[n] = None
    BY <2>5, <1>3 DEF InPlace
  <2> QED BY <2>1, <2>2, <2>3, <2>4, <2>5
<1>7. Trees(s, h2, S, par2, pos2)
  BY <1>5, <1>6 DEF Trees
<1>8. (T \ {p, c}) \cup {p} = {n \in S : par2[n] = None}
  BY <1>0, <1>3, NoneFacts
<1>9. Forest(s, h2, S, (T \ {p, c}) \cup {p})
  BY <1>3, <1>4, <1>7, <1>8 DEF Forest
<1>10. \A x \in Element : x \notin S \/ x \in T \ {p, c} => h2[x] = h[x]
  BY <1>0, <1>1, <1>2, <1>a, NoneFacts
<1>11. h2[p].next = None
  BY <1>2
<1> QED BY <1>2, <1>9, <1>10, <1>11 DEF Melded

\* A node that is taken out from between its siblings becomes a top.
LEMMA UnlinkedTrees ==
  ASSUME NEW s \in [Element -> Nat], NEW h \in Heaps, NEW S \in SUBSET Element,
         NEW par \in [Element -> Pointer], NEW pos \in [Element -> Nat],
         Trees(s, h, S, par, pos), NEW n \in S, par[n] # None,
         NEW par2 \in [Element -> Pointer],
         par2[n] = None, \A x \in Element : x # n => par2[x] = par[x]
  PROVE  /\ Unlinked(h, n) \in Heaps
         /\ Unlinked(h, n)[n] = h[n]
         /\ \A x \in Element \ S : Unlinked(h, n)[x] = h[x]
         /\ \A x \in S : par[x] = None => Unlinked(h, n)[x].next = h[x].next
         /\ Trees(s, Unlinked(h, n), S, par2, pos)
<1> DEFINE q == h[n].prev
           m == h[n].next
           First == h[q].child = n
           u == Unlinked(h, n)
<1>1. \A x \in S : par[x] # x
  BY ParentsDiffer
<1>2. /\ q \in S /\ q # n /\ q # None
      /\ First => q = par[n]
      /\ ~First => par[q] = par[n] /\ h[q].next = n /\ pos[q] > pos[n]
  <2>1. InPlace(s, h, S, par, pos, n) /\ n \in Element
    BY DEF Trees
  <2>2. q \in S /\ q # None
    BY <2>1, NoneFacts DEF InPlace
  <2>3. First => par[n] = q
    BY <2>2, NoneFacts DEF Trees, FirstChild
  <2>4. ~First => par[q] = par[n] /\ h[q].next = n /\ pos[q] > pos[n]
    BY <2>1 DEF InPlace
  <2>5. pos[n] \in Nat
    BY <2>1
  <2>6. q # n
    BY <2>2, <2>3, <2>4, <2>5, <1>1
  <2> QED BY <2>2, <2>3, <2>4, <2>6
<1>3. /\ m \in Pointer
      /\ m # None => /\ m \in S /\ par[m] = par[n] /\ h[m].prev = n /\ m # n /\ m # q
                     /\ pos[n] > pos[m]
  <2>1. InPlace(s, h, S, par, pos, n) /\ n \in Element /\ h[n] \in Node
    BY DEF Trees, Heaps
  <2>2. m \in Pointer
    BY <2>1 DEF Node
  <2>3. ASSUME m # None PROVE m \in S /\ par[m] = par[n] /\ h[m].prev = n
    BY <2>1, <2>3 DEF InPlace
  <2>4. ASSUME m # None
        PROVE  m # n /\ m # q /\ pos[n] > pos[m]
    <3>1. m # n
      BY <1>2, <2>3, <2>4
    <3>2. InPlace(s, h, S, par, pos, m) /\ par[n] # m /\ par[m] # n
      BY <1>1, <2>3, <2>4 DEF Trees
    <3>3. pos[n] > pos[m]
      BY <2>3, <2>4, <3>1, <3>2 DEF InPlace
    <3>4. m # q
      <4>1. pos[n] \in Nat /\ pos[m] \in Nat
        BY <2>3, <2>4
      <4> QED BY <1>2, <2>3, <2>4, <3>2, <3>3, <4>1
    <3> QED BY <3>1, <3>3, <3>4
  <2> QED BY <2>2, <2>3, <2>4
<1>4. /\ DOMAIN u = Element /\ u = [x \in Element |-> u[x]]
      /\ First => u[q] = [h[q] EXCEPT !.child = m]
      /\ ~First => u[q] = [h[q] EXCEPT !.next = m]
      /\ m # None => u[m] = [h[m] EXCEPT !.prev = q]
      /\ \A x \in Element : x \notin {q, m} => u[x] = h[x]
  <2>1. q \in Element /\ (m # None => m \in Element /\ m # q)
    BY <1>2, <1>3
  <2>2. \A x \in Element : u[x] = CASE x = q /\ h[x].child = n -> [h[x] EXCEPT !.child = m]
                                    [] x = q /\ h[x].child # n -> [h[x] EXCEPT !.next = m]
                                    [] x = m -> [h[x] EXCEPT !.prev = q]
                                    [] OTHER -> h[x]
    BY DEF Unlinked
  <2>3. DOMAIN u = Element /\ u = [x \in Element |-> u[x]]
    BY DEF Unlinked
  <2> HIDE DEF u, q, m
  <2>4. First => u[q] = [h[q] EXCEPT !.child = m]
    BY <2>1, <2>2, NoneFacts
  <2>5. ~First => u[q] = [h[q] EXCEPT !.next = m]
    BY <2>1, <2>2, NoneFacts
  <2>6. m # None => u[m] = [h[m] EXCEPT !.prev = q]
    BY <2>1, <2>2
  <2>7. ASSUME NEW x \in Element, x \notin {q, m} PROVE u[x] = h[x]
    BY <2>2, <2>7
  <2> QED BY <2>3, <2>4, <2>5, <2>6, <2>7
<1> HIDE DEF u, q, m
<1>5. /\ u \in Heaps
      /\ First => u[q].child = m /\ u[q].next = h[q].next
      /\ ~First => u[q].child = h[q].child /\ u[q].next = m
      /\ \A x \in Element : x # q => u[x].child = h[x].child /\ u[x].next = h[x].next
      /\ m # None => u[m].prev = q
      /\ \A x \in Element : x # m => u[x].prev = h[x].prev
  <2>1. \A x \in Element : h[x] \in Node
    BY DEF Heaps
  <2>2. q \in Element /\ q \in Pointer /\ (m # None => m \in Element /\ m # q) /\ q # None
    BY <1>2, <1>3, NoneFacts
  <2>3. First => /\ u[q] \in Node
                 /\ u[q].child = m /\ u[q].next = h[q].next /\ u[q].prev = h[q].prev
    BY <1>3, <1>4, <2>1, <2>2 DEF Node
  <2>4. ~First => /\ u[q] \in Node
                  /\ u[q].child = h[q].child /\ u[q].next = m /\ u[q].prev = h[q].prev
    BY <1>3, <1>4, <2>1, <2>2 DEF Node
  <2>5. m # None => /\ u[m] \in Node
                    /\ u[m].child = h[m].child /\ u[m].next = h[m].next /\ u[m].prev = q
    BY <1>4, <2>1, <2>2 DEF Node
  <2>6. \A x \in Element : u[x] \in Node
    <3> SUFFICES ASSUME NEW x \in Element PROVE u[x] \in Node
      OBVIOUS
    <3>1. CASE x = q
      BY <3>1, <2>3, <2>4
    <3>2. CASE x = m
      BY <3>2, <2>5, NoneFacts
    <3> QED BY <3>1, <3>2, <1>4, <2>1
  <2>7. u \in Heaps
    BY <1>4, <2>6 DEF Heaps
  <2>8. \A x \in Element : x # q => u[x].child = h[x].child /\ u[x].next = h[x].next
    <3> SUFFICES ASSUME NEW x \in Element, x # q
                 PROVE  u[x].child = h[x].child /\ u[x].next = h[x].next
      OBVIOUS
    <3>1. CASE x = m
      BY <3>1, <2>5, NoneFacts
    <3> QED BY <3>1, <1>4
  <2>9. \A x \in Element : x # m => u[x].prev = h[x].prev
    <3> SUFFICES ASSUME NEW x \in Element, x # m
                 PROVE  u[x].prev = h[x].prev
      OBVIOUS
    <3>1. CASE x = q
      BY <3>1, <2>3, <2>4
    <3> QED BY <3>1, <1>4
  <2> QED BY <2>3, <2>4, <2>5, <2>7, <2>8, <2>9
<1>6. par2 \in [Element -> Pointer] /\ par2[n] = None
      /\ \A x \in Element : x # n => par2[x] = par[x]
  OBVIOUS
<1>7. ASSUME NEW x \in S PROVE FirstChild(u, S, par2, x)
  <2>1. FirstChild(h, S, par, x)
    BY DEF Trees
  <2>2. CASE x = q /\ First
    <3>1. u[x].child = m
      BY <2>2, <1>5
    <3>2. m # None => m \in S /\ par2[m] = x /\ u[m].prev = x
      BY <2>2, <1>2, <1>3, <1>5, <1>6
    <3> QED BY <3>1, <3>2 DEF FirstChild
  <2>3. CASE ~(x = q /\ First)
    <3> DEFINE z == h[x].child
    <3>1. u[x].child = z
      BY <2>3, <1>5
    <3> SUFFICES ASSUME z # None PROVE z \in S /\ par2[z] = x /\ u[z].prev = x
      BY <3>1 DEF FirstChild
    <3>2. z \in S /\ par[z] = x /\ h[z].prev = x
      BY <2>1 DEF FirstChild
    <3>3. z # n
      BY <3>2, <2>3 DEF q
    <3>4. z # m
      BY <3>2, <1>1, <1>3
    <3> HIDE DEF z
    <3> QED BY <3>2, <3>3, <3>4, <1>5, <1>6
  <2> QED BY <2>2, <2>3
<1>8. ASSUME NEW x \in S, x # n, par[x] # None,
             NEW z, z = u[x].next, z # None
      PROVE  z \in S /\ par2[z] = par2[x] /\ u[z].prev = x
  <2>1. InPlace(s, h, S, par, pos, x)
    BY DEF Trees
  <2>2. CASE x = q /\ ~First
    BY <2>2, <1>2, <1>3, <1>5, <1>6, <1>8
  <2>3. CASE ~(x = q /\ ~First)
    <3>1. z = h[x].next
      BY <2>3, <1>5, <1>8
    <3>2. z \in S /\ par[z] = par[x] /\ h[z].prev = x
      BY <2>1, <3>1, <1>8 DEF InPlace
    <3>3. z # n
      <4>1. CASE x = q
        BY <4>1, <2>3, <3>2, <1>1, <1>2
      <4>2. CASE x # q
        BY <4>2, <3>2 DEF q
      <4> QED BY <4>1, <4>2
    <3>4. z # m
      BY <3>2, <1>3, <1>8
    <3> QED BY <3>2, <3>3, <3>4, <1>5, <1>6, <1>8
  <2> QED BY <2>2, <2>3
<1>9. ASSUME NEW x \in S, x # n, par[x] # None
      PROVE  /\ u[x].prev \in S
             /\ \/ u[x].prev = par2[x] /\ u[par2[x]].child = x
                \/ /\ par2[u[x].prev] = par2[x]
                   /\ u[u[x].prev].next = x
                   /\ pos[u[x].prev] > pos[x]
  <2>1. InPlace(s, h, S, par, pos, x)
    BY DEF Trees
  <2>2. CASE x = m
    <3>1. /\ u[x].prev = q /\ q \in S /\ q # n /\ par2[q] = par[q] /\ par2[x] = par[n]
      BY <2>2, <1>2, <1>3, <1>5, <1>6, <1>9, NoneFacts
    <3>2. CASE First
      BY <3>1, <3>2, <2>2, <1>2, <1>5
    <3>3. CASE ~First
      <4>1. pos[q] \in Nat /\ pos[n] \in Nat /\ pos[m] \in Nat
        BY <1>2, <2>2
      <4>2. pos[q] > pos[m]
        BY <3>3, <2>2, <1>2, <1>3, <4>1, NoneFacts
      <4> QED BY <3>1, <3>3, <4>2, <2>2, <1>2, <1>5
    <3> QED BY <3>2, <3>3
  <2>3. CASE x # m
    <3> DEFINE v == h[x].prev
    <3>1. u[x].prev = v /\ v \in S /\ par2[x] = par[x]
      BY <2>1, <2>3, <1>5, <1>6, <1>9 DEF InPlace
    <3>2. CASE v = par[x] /\ h[par[x]].child = x
      <4>1. ~(v = q /\ First)
        BY <3>2, <1>9
      <4>2. u[v].child = x
        BY <3>1, <3>2, <4>1, <1>5
      <4> HIDE DEF v
      <4> QED BY <3>1, <3>2, <4>2
    <3>3. CASE par[v] = par[x] /\ h[v].next = x /\ pos[v] > pos[x]
      <4>1. v # n
        BY <3>3, <2>3 DEF m
      <4>2. ~(v = q /\ ~First)
        BY <3>3, <1>2, <1>9
      <4>3. u[v].next = x
        BY <3>1, <3>3, <4>2, <1>5
      <4> HIDE DEF v
      <4> QED BY <3>1, <3>3, <4>1, <4>3, <1>6
    <3> QED BY <2>1, <3>2, <3>3, <1>9 DEF InPlace
  <2> QED BY <2>2, <2>3
<1>10. ASSUME NEW x \in S PROVE InPlace(s, u, S, par2, pos, x)
  <2>1. InPlace(s, h, S, par, pos, x)
    BY DEF Trees
  <2>2. CASE x = n \/ par[x] = None
    BY <2>2, <1>6 DEF InPlace
  <2>3. CASE x # n /\ par[x] # None
    <3>1. par2[x] = par[x] /\ par[x] \in S /\ Higher(s, par[x], x)
      BY <2>1, <2>3, <1>6 DEF InPlace
    <3>2. u[x].next # None =>
             u[x].next \in S /\ par2[u[x].next] = par2[x] /\ u[u[x].next].prev = x
      BY <2>3, <1>8
    <3> QED BY <2>3, <3>1, <3>2, <1>9 DEF InPlace
  <2> QED BY <2>2, <2>3
<1>11. Trees(s, u, S, par2, pos)
  BY <1>7, <1>10 DEF Trees
<1>12. u[n] = h[n] /\ \A x \in Element \ S : u[x] = h[x]
  BY <1>2, <1>3, <1>4, NoneFacts
<1>13. \A x \in S : par[x] = None => u[x].next = h[x].next
  <2> SUFFICES ASSUME NEW x \in S, par[x] = None PROVE u[x].next = h[x].next
    OBVIOUS
  <2>1. ~(x = q /\ ~First)
    BY <1>2
  <2> QED BY <2>1, <1>5
<1> QED BY <1>5, <1>11, <1>12, <1>13 DEF u

-----------------------------------------------------------------------------
(* PairingHeap: what the helpers do to the trees *)

\* The list of siblings Q that starts with current: rank goes down along it.
Chain(h, Q, current, rank) ==
    /\ current \in Q \cup {None}
    /\ \A q \in Q :
          /\ h[q].next \in Q \cup {None}
          /\ h[q].next # None => h[q].next # current /\ rank[q] > rank[h[q].next]
          /\ q # current => \E r \in Q : h[r].next = q
    /\ \A q, r \in Q : h[q].next = h[r].next /\ h[q].next # None => q = r

\* Two tops are melded: one of them stays, the other is below it.
LEMMA MeldForest ==
  ASSUME NEW s \in [Element -> Nat], NEW h \in Heaps, NEW S \in SUBSET Element,
         NEW T, Forest(s, h, S, T), NEW a \in T, NEW b \in T, a # b,
         NEW m, m = Meld(s, h, a, b)
  PROVE  Melded(s, h, S, T, a, b, m.heap, m.top)
<1>1. T \subseteq S
  BY DEF Forest
<1>2. a \in Element /\ b \in Element /\ a # None /\ b # None
  BY <1>1, NoneFacts
<1>3. m = IF Higher(s, a, b) THEN Top(Adopt(h, a, b), a) ELSE Top(Adopt(h, b, a), b)
  BY <1>2 DEF Meld
<1>4. CASE Higher(s, a, b)
  <2>1. m.heap = Adopt(h, a, b) /\ m.top = a
    BY <1>3, <1>4 DEF Top
  <2> QED BY <1>4, <2>1, AdoptForest
<1>5. CASE ~Higher(s, a, b)
  <2>1. Higher(s, b, a)
    BY <1>2, <1>5, HigherFacts
  <2>2. m.heap = Adopt(h, b, a) /\ m.top = b
    BY <1>3, <1>5 DEF Top
  <2>3. Melded(s, h, S, T, b, a, m.heap, m.top)
    BY <2>1, <2>2, AdoptForest
  <2>4. {b, a} = {a, b}
    OBVIOUS
  <2> QED BY <2>3, <2>4 DEF Melded
<1> QED BY <1>4, <1>5

\* Melding with nothing.
LEMMA MeldNone ==
  ASSUME NEW s, NEW h, NEW a \in Pointer, NEW m,
         m = Meld(s, h, a, None) \/ m = Meld(s, h, None, a)
  PROVE  m.heap = h /\ m.top = a
BY DEF Meld, Top

\* From the heap h the heap u has been made, in which the node n is a top as well.
Cut(s, h, S, T, n, u) ==
    /\ u \in Heaps /\ u[n] = h[n]
    /\ \A x \in Element : x \notin S => u[x] = h[x]
    /\ \A x \in T : u[x].next = h[x].next
    /\ Forest(s, u, S, T \cup {n})

\* A node that is cut out with what is below it.
LEMMA UnlinkedForest ==
  ASSUME NEW s \in [Element -> Nat], NEW h \in Heaps, NEW S \in SUBSET Element,
         NEW T, Forest(s, h, S, T), NEW n \in S \ T
  PROVE  Cut(s, h, S, T, n, Unlinked(h, n))
<1>1. PICK par \in [Element -> Pointer], pos \in [Element -> Nat] :
          Trees(s, h, S, par, pos) /\ T = {x \in S : par[x] = None}
  BY DEF Forest
<1> DEFINE par2 == [par EXCEPT ![n] = None]
<1>2. /\ Unlinked(h, n) \in Heaps /\ Unlinked(h, n)[n] = h[n]
      /\ \A x \in Element \ S : Unlinked(h, n)[x] = h[x]
      /\ \A x \in S : par[x] = None => Unlinked(h, n)[x].next = h[x].next
      /\ Trees(s, Unlinked(h, n), S, par2, pos)
  <2>1. n \in S /\ par[n] # None
    BY <1>1
  <2>2. /\ par2 \in [Element -> Pointer]
        /\ par2[n] = None /\ \A x \in Element : x # n => par2[x] = par[x]
    BY <2>1, NoneFacts
  <2> HIDE DEF par2
  <2>3. Trees(s, h, S, par, pos)
    BY <1>1
  <2>4. Trees(s, Unlinked(h, n), S, par2, pos)
    BY <2>1, <2>2, <2>3, UnlinkedTrees
  <2> QED BY <2>1, <2>2, <2>3, <2>4, UnlinkedTrees
<1>3. par2 \in [Element -> Pointer] /\ T \cup {n} = {x \in S : par2[x] = None}
  BY <1>1, NoneFacts
<1>4. Forest(s, Unlinked(h, n), S, T \cup {n})
  <2> HIDE DEF par2
  <2> QED BY <1>2, <1>3 DEF Forest
<1> QED BY <1>1, <1>2, <1>4 DEF Cut

\* Without the top n its children Q are tops: a chain that starts with its first.
Dropped(s, h, S, T, n) ==
    \E Q \in SUBSET (S \ T), rank \in [Element -> Nat] :
        /\ Forest(s, h, S \ {n}, (T \ {n}) \cup Q)
        /\ Chain(h, Q, h[n].child, rank)

\* A top can be dropped, if the scores of the others stay.
LEMMA DropForest ==
  ASSUME NEW s \in [Element -> Nat], NEW h \in Heaps, NEW S \in SUBSET Element,
         NEW T, Forest(s, h, S, T), NEW n \in T,
         NEW s2 \in [Element -> Nat], \A x \in S \ {n} : s2[x] = s[x]
  PROVE  Dropped(s2, h, S, T, n)
<1>1. PICK par \in [Element -> Pointer], pos \in [Element -> Nat] :
          Trees(s, h, S, par, pos) /\ T = {x \in S : par[x] = None}
  BY DEF Forest
<1> DEFINE par2 == [x \in Element |-> IF par[x] = n THEN None ELSE par[x]]
           Q == {x \in S : par[x] = n}
<1>2. /\ n \in S /\ n \in Element /\ n # None /\ par[n] = None
      /\ \A x \in S : InPlace(s, h, S, par, pos, x) /\ FirstChild(h, S, par, x)
  BY <1>1, NoneFacts DEF Trees
<1>3. /\ par2 \in [Element -> Pointer]
      /\ \A x \in Element : par[x] # n => par2[x] = par[x]
      /\ \A x \in Element : par[x] = n => par2[x] = None
      /\ Q \in SUBSET (S \ T)
      /\ (T \ {n}) \cup Q = {x \in S \ {n} : par2[x] = None}
      /\ \A x \in S : x \in Q <=> par[x] = n
  BY <1>1, <1>2, NoneFacts
<1> HIDE DEF par2, Q
<1>4. ASSUME NEW x \in S \ {n} PROVE InPlace(s2, h, S \ {n}, par2, pos, x)
  <2>1. InPlace(s, h, S, par, pos, x)
    BY <1>2
  <2>2. CASE par[x] \in {n, None}
    BY <2>2, <1>3 DEF InPlace
  <2>3. CASE par[x] \notin {n, None}
    <3>1. /\ par2[x] = par[x] /\ par[x] \in S \ {n} /\ Higher(s2, par[x], x)
      BY <2>1, <2>3, <1>3 DEF InPlace, Higher
    <3>2. h[x].prev \in S \ {n}
      BY <2>1, <2>3, <1>2 DEF InPlace
    <3>3. ASSUME par[h[x].prev] = par[x] PROVE par2[h[x].prev] = par2[x]
      BY <3>1, <3>2, <3>3, <2>3, <1>3
    <3>4. ASSUME h[x].next # None
          PROVE  h[x].next \in S \ {n} /\ par2[h[x].next] = par2[x] /\ h[h[x].next].prev = x
      BY <2>1, <2>3, <3>1, <3>4, <1>2, <1>3 DEF InPlace
    <3> QED BY <2>1, <2>3, <3>1, <3>2, <3>3, <3>4 DEF InPlace
  <2> QED BY <2>2, <2>3
<1>5. ASSUME NEW x \in S \ {n} PROVE FirstChild(h, S \ {n}, par2, x)
  BY <1>2, <1>3, NoneFacts DEF FirstChild
<1>6. Forest(s2, h, S \ {n}, (T \ {n}) \cup Q)
  <2>1. Trees(s2, h, S \ {n}, par2, pos)
    BY <1>4, <1>5 DEF Trees
  <2> QED BY <2>1, <1>3 DEF Forest
<1>7. Chain(h, Q, h[n].child, pos)
  <2>1. /\ h[n].child \in Q \cup {None}
        /\ h[n].child # None => h[h[n].child].prev = n
    BY <1>2, <1>3 DEF FirstChild
  <2>2. \A x \in S : par[x] # x
    BY <1>1, ParentsDiffer
  <2>3. ASSUME NEW q \in Q, h[q].next # None
        PROVE  /\ h[q].next \in Q /\ h[h[q].next].prev = q
               /\ h[q].next # h[n].child /\ pos[q] > pos[h[q].next]
    <3>1. q \in S /\ q # n /\ par[q] = n
      BY <1>2, <1>3, NoneFacts
    <3>2. h[q].next \in S /\ par[h[q].next] = n /\ h[h[q].next].prev = q
      BY <2>3, <3>1, <1>2 DEF InPlace
    <3>3. InPlace(s, h, S, par, pos, h[q].next)
      BY <3>2, <1>2
    <3>4. pos[q] > pos[h[q].next]
      BY <3>1, <3>2, <3>3, <1>2 DEF InPlace
    <3>5. h[q].next # h[n].child
      BY <3>1, <3>2, <2>1, <2>3
    <3>6. h[q].next \in Q
      BY <3>2, <1>3
    <3> QED BY <3>2, <3>4, <3>5, <3>6
  <2>4. ASSUME NEW q \in Q, q # h[n].child
        PROVE  \E r \in Q : h[r].next = q
    <3>1. q \in S /\ par[q] = n
      BY <1>3
    <3>2. h[q].prev \in S /\ par[h[q].prev] = n /\ h[h[q].prev].next = q
      BY <3>1, <2>4, <1>2 DEF InPlace
    <3> QED BY <3>2, <1>3
  <2>5. \A q, r \in Q : h[q].next = h[r].next /\ h[q].next # None => q = r
    BY <2>3
  <2> QED BY <2>1, <2>3, <2>4, <2>5 DEF Chain
<1> QED BY <1>3, <1>6, <1>7 DEF Dropped

\* A node without children is added.
LEMMA AddForest ==
  ASSUME NEW s, NEW h \in Heaps, NEW S \in SUBSET Element,
         NEW T, Forest(s, h, S, T), NEW n \in Element \ S, h[n].child = None,
         NEW s2, \A x \in S : s2[x] = s[x]
  PROVE  Forest(s2, h, S \cup {n}, T \cup {n})
<1>1. PICK par \in [Element -> Pointer], pos \in [Element -> Nat] :
          Trees(s, h, S, par, pos) /\ T = {x \in S : par[x] = None}
  BY DEF Forest
<1> DEFINE par2 == [par EXCEPT ![n] = None]
<1>2. /\ par2 \in [Element -> Pointer] /\ par2[n] = None
      /\ \A x \in S : par2[x] = par[x]
      /\ T \cup {n} = {x \in S \cup {n} : par2[x] = None}
  BY <1>1, NoneFacts
<1> HIDE DEF par2
<1>3. ASSUME NEW x \in S
      PROVE  InPlace(s2, h, S \cup {n}, par2, pos, x) /\ FirstChild(h, S \cup {n}, par2, x)
  <2>1. InPlace(s, h, S, par, pos, x) /\ FirstChild(h, S, par, x)
    BY <1>1 DEF Trees
  <2>2. par[x] \in S => (Higher(s, par[x], x) <=> Higher(s2, par[x], x))
    BY DEF Higher
  <2>3. InPlace(s2, h, S \cup {n}, par2, pos, x)
    BY <2>1, <2>2, <1>2 DEF InPlace
  <2> QED BY <2>1, <2>3, <1>2 DEF FirstChild
<1>4. InPlace(s2, h, S \cup {n}, par2, pos, n) /\ FirstChild(h, S \cup {n}, par2, n)
  BY <1>2 DEF InPlace, FirstChild
<1>5. Trees(s2, h, S \cup {n}, par2, pos)
  BY <1>3, <1>4 DEF Trees
<1> QED BY <1>2, <1>5 DEF Forest

\* The pointers of a top to siblings do not matter.
LEMMA SameForest ==
  ASSUME NEW s, NEW h, NEW h2, NEW S \in SUBSET Element, NEW T, Forest(s, h, S, T),
         \A x \in S \ T : h2[x] = h[x],
         \A x \in T : h2[x].child = h[x].child
  PROVE  Forest(s, h2, S, T)
<1>1. PICK par \in [Element -> Pointer], pos \in [Element -> Nat] :
          Trees(s, h, S, par, pos) /\ T = {x \in S : par[x] = None}
  BY DEF Forest
<1>2. /\ \A x \in S : par[x] # None => h2[x] = h[x]
      /\ \A x \in S : h2[x].child = h[x].child
  BY <1>1
<1>3. ASSUME NEW x \in S PROVE InPlace(s, h2, S, par, pos, x)
  <2>1. InPlace(s, h, S, par, pos, x)
    BY <1>1 DEF Trees
  <2> QED BY <2>1, <1>2 DEF InPlace
<1>4. ASSUME NEW x \in S PROVE FirstChild(h2, S, par, x)
  <2>1. FirstChild(h, S, par, x)
    BY <1>1 DEF Trees
  <2>2. \A y \in S : par[y] # None => h2[y].prev = h[y].prev
    BY <1>2
  <2>3. h[x].child # None => par[h[x].child] # None
    BY <2>1, NoneFacts DEF FirstChild
  <2> QED BY <2>1, <2>2, <2>3, <1>2 DEF FirstChild
<1> QED BY <1>1, <1>3, <1>4 DEF Forest, Trees

\* The score of a top is raised, or of a first child whose parent is still higher.
LEMMA RaiseForest ==
  ASSUME NEW s \in [Element -> Nat], NEW h \in Heaps, NEW S \in SUBSET Element,
         NEW T, Forest(s, h, S, T), NEW n \in S,
         NEW s2 \in [Element -> Nat], \A x \in Element \ {n} : s2[x] = s[x], s2[n] > s[n],
         \/ n \in T
         \/ h[h[n].prev].child = n /\ Higher(s2, h[n].prev, n)
  PROVE  Forest(s2, h, S, T)
<1>1. PICK par \in [Element -> Pointer], pos \in [Element -> Nat] :
          Trees(s, h, S, par, pos) /\ T = {x \in S : par[x] = None}
  BY DEF Forest
<1>2. ASSUME NEW x \in S, par[x] # None PROVE Higher(s2, par[x], x)
  <2>1. InPlace(s, h, S, par, pos, x) /\ par[x] \in S /\ Higher(s, par[x], x) /\ h[x].prev \in S
    BY <1>1, <1>2 DEF Trees, InPlace
  <2>2. CASE x = n
    <3>1. h[h[n].prev].child = n /\ Higher(s2, h[n].prev, n) /\ n # None
      BY <2>2, <1>1, <1>2, NoneFacts
    <3>2. par[n] = h[n].prev
      BY <2>1, <2>2, <3>1, <1>1 DEF Trees, FirstChild
    <3> QED BY <2>2, <3>1, <3>2
  <2>3. CASE x # n
    <3>1. /\ s2[x] = s[x] /\ s2[par[x]] >= s[par[x]] /\ s[x] \in Nat
          /\ s[par[x]] \in Nat /\ s2[par[x]] \in Nat /\ x \in Nat /\ par[x] \in Nat
      BY <2>1, <2>3, NoneFacts
    <3> QED BY <2>1, <3>1 DEF Higher
  <2> QED BY <2>2, <2>3
<1>3. ASSUME NEW x \in S PROVE InPlace(s2, h, S, par, pos, x)
  <2>1. InPlace(s, h, S, par, pos, x)
    BY <1>1 DEF Trees
  <2> QED BY <2>1, <1>2 DEF InPlace
<1> QED BY <1>1, <1>3 DEF Forest, Trees

-----------------------------------------------------------------------------
(* PairingHeap: mergePairs *)

\* Where every one of a list has another before it the list is empty.
LEMMA NoEndlessChain ==
  ASSUME NEW Q \in SUBSET Element, NEW h \in Heaps, NEW rank \in [Element -> Nat],
         Chain(h, Q, None, rank)
  PROVE  Q = {}
<1> SUFFICES ASSUME Q # {} PROVE FALSE
  OBVIOUS
<1> DEFINE R == {p \in Q \X Q : rank[p[1]] > rank[p[2]]}
<1>1. IsFiniteSet(Q)
  BY NoneFacts, FS_Subset
<1>2. \A x, y \in Q : <<x, y>> \in R <=> rank[x] > rank[y]
  OBVIOUS
<1>3. \A x \in Q : rank[x] \in Nat /\ x # None
  BY NoneFacts
<1>4. PICK m \in Q : \A x \in Q : <<x, m>> \notin R
  <2>1. \A x \in Q : <<x, x>> \notin R
    BY <1>2, <1>3
  <2>2. \A x, y, z \in Q : <<x, y>> \in R /\ <<y, z>> \in R => <<x, z>> \in R
    BY <1>2, <1>3
  <2> HIDE DEF R
  <2> QED BY <1>1, <2>1, <2>2, FirstOf
<1>5. PICK r \in Q : h[r].next = m
  BY <1>3 DEF Chain
<1>6. rank[r] > rank[m]
  BY <1>3, <1>5 DEF Chain
<1> QED BY <1>2, <1>4, <1>6

Listed(list) == {list[i] : i \in 1..Len(list)}
NoneTwice(list) == \A i, j \in 1..Len(list) : list[i] = list[j] => i = j

\* The list more is list with t before it.
Longer(list, t, more) ==
    /\ more \in Seq(Element)
    /\ Listed(more) = Listed(list) \cup {t}
    /\ NoneTwice(list) /\ t \notin Listed(list) => NoneTwice(more)

\* A node that is not on the list can be put before it.
LEMMA Prepended ==
  ASSUME NEW list \in Seq(Element), NEW t \in Element, NEW more, more = <<t>> \o list
  PROVE  Longer(list, t, more)
<1>1. <<t>> \in Seq(Element) /\ Len(<<t>>) = 1 /\ <<t>>[1] = t
  OBVIOUS
<1>2. more \in Seq(Element) /\ Len(more) = Len(list) + 1 /\ Len(list) \in Nat
  BY <1>1
<1>3. \A i \in 1..Len(more) : more[i] = IF i <= 1 THEN <<t>>[i] ELSE list[i - 1]
  BY <1>1, <1>2
<1>4. more[1] = t
  BY <1>1, <1>2, <1>3
<1>5. \A i \in 1..Len(more) : i # 1 => i - 1 \in 1..Len(list) /\ more[i] = list[i - 1]
  BY <1>2, <1>3
<1>6. \A i \in 1..Len(list) : i + 1 \in 1..Len(more) /\ more[i + 1] = list[i]
  BY <1>2, <1>3
<1>7. Listed(more) \subseteq Listed(list) \cup {t}
  BY <1>4, <1>5 DEF Listed
<1>8. Listed(list) \cup {t} \subseteq Listed(more)
  BY <1>2, <1>4, <1>6 DEF Listed
<1>9. ASSUME NoneTwice(list), t \notin Listed(list) PROVE NoneTwice(more)
  <2> SUFFICES ASSUME NEW i \in 1..Len(more), NEW j \in 1..Len(more), more[i] = more[j]
               PROVE  i = j
    BY DEF NoneTwice
  <2>1. \A k \in 1..Len(list) : list[k] # t
    BY <1>9 DEF Listed
  <2>2. CASE i = 1 \/ j = 1
    BY <2>1, <2>2, <1>4, <1>5
  <2>3. CASE i # 1 /\ j # 1
    <3>1. i - 1 = j - 1
      BY <2>3, <1>5, <1>9 DEF NoneTwice
    <3> QED BY <3>1
  <2> QED BY <2>2, <2>3
<1> QED BY <1>2, <1>7, <1>8, <1>9 DEF Longer

\* The first loop at x: the siblings Q are still to come, the pairs are tops.
Pairing(s, h, S, T, rank, x, Q) ==
    /\ x.heap \in Heaps /\ x.current \in Pointer /\ x.pairs \in Seq(Element)
    /\ Chain(x.heap, Q, x.current, rank)
    /\ Q \cap T = {} /\ Q \cap Listed(x.pairs) = {} /\ T \cap Listed(x.pairs) = {}
    /\ Forest(s, x.heap, S, T \cup Q \cup Listed(x.pairs))
    /\ NoneTwice(x.pairs)
    /\ \A p \in Listed(x.pairs) : x.heap[p].next = None
    /\ \A y \in Element : y \notin S \/ y \in T => x.heap[y] = h[y]

\* So at y, with fewer siblings to come than Q.
PairingOn(s, h, S, T, rank, y, Q) ==
    \E rest \in SUBSET Q :
        /\ Pairing(s, h, S, T, rank, y, rest)
        /\ rest = Q => Q = {}

\* A turn takes one or two siblings away.
LEMMA MeldTwoPairs ==
  ASSUME NEW s \in [Element -> Nat], NEW h, NEW S \in SUBSET Element, NEW T,
         NEW rank \in [Element -> Nat], NEW Q \in SUBSET Element,
         NEW x, Pairing(s, h, S, T, rank, x, Q),
         NEW y, y = MeldTwo(s, x)
  PROVE  PairingOn(s, h, S, T, rank, y, Q)
<1> DEFINE a == x.current
           b == x.heap[a].next
           P == Listed(x.pairs)
           m == Meld(s, x.heap, a, b)
           U == T \cup Q \cup P
<1>1. /\ x.heap \in Heaps /\ a \in Q \cup {None} /\ x.pairs \in Seq(Element)
      /\ Chain(x.heap, Q, a, rank) /\ Forest(s, x.heap, S, U)
      /\ Q \cap T = {} /\ Q \cap P = {} /\ T \cap P = {}
  BY DEF Pairing, Chain
<1>2. CASE a = None
  <2>1. Q = {}
    BY <1>1, <1>2, NoEndlessChain
  <2>2. y = x
    BY <1>2 DEF MeldTwo
  <2> QED BY <2>1, <2>2 DEF PairingOn
<1>3. CASE a # None /\ b = None
  <2> DEFINE h2 == [x.heap EXCEPT ![a].prev = None]
             rest == Q \ {a}
  <2>1. y = [heap |-> h2, current |-> None, pairs |-> <<a>> \o x.pairs]
    BY <1>3 DEF MeldTwo
  <2>2. a \in Q /\ a \in Element
    BY <1>1, <1>3
  <2>3. /\ h2 \in Heaps
        /\ \A z \in Element : z # a => h2[z] = x.heap[z]
        /\ h2[a].next = None /\ h2[a].child = x.heap[a].child
    BY <1>1, <1>3, <2>2, NoneFacts DEF Heaps, Node
  <2> HIDE DEF h2
  <2>4. /\ y.heap = h2 /\ y.current = None /\ y.pairs \in Seq(Element)
        /\ Listed(y.pairs) = P \cup {a} /\ NoneTwice(y.pairs)
    <3>1. y.heap = h2 /\ y.current = None /\ y.pairs = <<a>> \o x.pairs
      BY <2>1
    <3>2. Longer(x.pairs, a, y.pairs)
      BY <1>1, <2>2, <3>1, Prepended
    <3> QED BY <1>1, <2>2, <3>1, <3>2 DEF Longer, Pairing
  <2> HIDE DEF P
  <2>5. Chain(h2, rest, None, rank)
    <3>1. \A q \in rest : h2[q] = x.heap[q] /\ q \in Q
      BY <2>3
    <3>2. \A q \in rest : x.heap[q].next \in rest \cup {None}
      BY <1>1, <1>3 DEF Chain
    <3>3. \A q \in rest : x.heap[q].next # None => rank[q] > rank[x.heap[q].next]
      BY <1>1 DEF Chain
    <3>4. ASSUME NEW q \in rest PROVE \E r \in rest : x.heap[r].next = q
      <4>1. PICK r \in Q : x.heap[r].next = q
        BY <1>1 DEF Chain
      <4> QED BY <4>1, <1>3, NoneFacts
    <3>5. \A q, r \in rest : x.heap[q].next = x.heap[r].next /\ x.heap[q].next # None => q = r
      BY <1>1 DEF Chain
    <3>6. \A q \in rest : q # None
      BY NoneFacts
    <3> HIDE DEF rest, a, b
    <3> QED BY <3>1, <3>2, <3>3, <3>4, <3>5, <3>6 DEF Chain
  <2>6. /\ rest \cap T = {} /\ rest \cap Listed(y.pairs) = {} /\ T \cap Listed(y.pairs) = {}
        /\ T \cup rest \cup Listed(y.pairs) = U
    BY <1>1, <2>2, <2>4
  <2>7. Forest(s, h2, S, U)
    <3>1. U \subseteq S
      BY <1>1 DEF Forest
    <3>2. \A z \in S \ U : h2[z] = x.heap[z]
      BY <2>2, <2>3
    <3>3. \A z \in U : h2[z].child = x.heap[z].child
      BY <2>3, <3>1
    <3> HIDE DEF U
    <3> QED BY <1>1, <3>2, <3>3, SameForest
  <2>9. \A p \in Listed(y.pairs) : h2[p].next = None
    <3>1. \A p \in P : x.heap[p].next = None /\ p \in Element
      BY <1>1 DEF Pairing, P, Listed
    <3> QED BY <2>3, <2>4, <3>1
  <2>10. \A z \in Element : z \notin S \/ z \in T => h2[z] = h[z]
    <3>1. a \in S /\ a \notin T
      BY <1>1, <2>2 DEF Forest
    <3> QED BY <2>3, <3>1 DEF Pairing
  <2>11. Pairing(s, h, S, T, rank, y, rest)
    <3> HIDE DEF rest, U
    <3> QED BY <2>3, <2>4, <2>5, <2>6, <2>7, <2>9, <2>10, NoneFacts DEF Pairing
  <2> QED BY <2>2, <2>11 DEF PairingOn
<1>4. CASE a # None /\ b # None
  <2> DEFINE c == x.heap[b].next
             rest == Q \ {a, b}
  <2>1. y = [heap |-> m.heap, current |-> c, pairs |-> <<m.top>> \o x.pairs]
    BY <1>4 DEF MeldTwo
  <2>2. a \in Q /\ b \in Q /\ a # b /\ a \in U /\ b \in U
    BY <1>1, <1>4 DEF Chain
  <2>3. Melded(s, x.heap, S, U, a, b, m.heap, m.top)
    <3> DEFINE g == x.heap
               w == m
    <3>1. w = Meld(s, g, a, b) /\ g \in Heaps /\ Forest(s, g, S, U)
      BY <1>1
    <3> HIDE DEF g, w, U, a, b
    <3>2. Melded(s, g, S, U, a, b, w.heap, w.top)
      BY <2>2, <3>1, MeldForest
    <3> QED BY <3>2 DEF g, w, a, b
  <2> HIDE DEF m
  <2>4. m.top \in {a, b} /\ m.top \in Element
    BY <2>2, <2>3 DEF Melded
  <2>5. /\ y.heap = m.heap /\ y.current = c /\ y.pairs \in Seq(Element)
        /\ Listed(y.pairs) = P \cup {m.top} /\ NoneTwice(y.pairs)
    <3>1. y.heap = m.heap /\ y.current = c /\ y.pairs = <<m.top>> \o x.pairs
      BY <2>1
    <3>2. Longer(x.pairs, m.top, y.pairs)
      BY <1>1, <2>4, <3>1, Prepended
    <3>3. m.top \notin P
      BY <1>1, <2>2, <2>4
    <3> QED BY <1>1, <3>1, <3>2, <3>3 DEF Longer, Pairing
  <2> HIDE DEF P
  <2>6. /\ \A z \in Element : z \notin S \/ z \in U \ {a, b} => m.heap[z] = x.heap[z]
        /\ m.heap \in Heaps /\ m.heap[m.top].next = None
        /\ Forest(s, m.heap, S, (U \ {a, b}) \cup {m.top})
    BY <2>3 DEF Melded
  <2>7. \A q \in rest : m.heap[q].next = x.heap[q].next
    BY <2>6
  <2>8. /\ c \in rest \cup {None}
        /\ \A q \in rest : x.heap[q].next \notin {a, b} /\ (x.heap[q].next # None => x.heap[q].next # c)
        /\ \A q \in rest : q # c => x.heap[a].next # q /\ x.heap[b].next # q
    <3>1. c \in Q \cup {None} /\ c # a /\ c # b
      <4>1. \A q \in Q : rank[q] \in Nat
        OBVIOUS
      <4> QED BY <1>1, <1>4, <2>2, <4>1 DEF Chain
    <3>2. ASSUME NEW q \in rest
          PROVE  /\ x.heap[q].next \notin {a, b}
                 /\ x.heap[q].next # None => x.heap[q].next # c
      BY <1>1, <1>4, <2>2 DEF Chain
    <3> QED BY <3>1, <3>2
  <2>9. Chain(m.heap, rest, c, rank)
    <3>1. \A q \in rest : x.heap[q].next \in Q \cup {None}
      BY <1>1 DEF Chain
    <3>2. \A q \in rest : x.heap[q].next # None => rank[q] > rank[x.heap[q].next]
      BY <1>1 DEF Chain
    <3>3. ASSUME NEW q \in rest, q # c PROVE \E r \in rest : x.heap[r].next = q
      <4>1. PICK r \in Q : x.heap[r].next = q
        BY <1>1, <3>3 DEF Chain
      <4> QED BY <2>8, <3>3, <4>1
    <3>4. \A q, r \in rest : x.heap[q].next = x.heap[r].next /\ x.heap[q].next # None => q = r
      BY <1>1 DEF Chain
    <3> HIDE DEF a, b, c
    <3> QED BY <2>7, <2>8, <3>1, <3>2, <3>3, <3>4 DEF Chain
  <2>10. /\ rest \cap T = {} /\ rest \cap Listed(y.pairs) = {} /\ T \cap Listed(y.pairs) = {}
         /\ T \cup rest \cup Listed(y.pairs) = (U \ {a, b}) \cup {m.top}
    BY <1>1, <2>2, <2>4, <2>5
  <2>12. \A p \in Listed(y.pairs) : m.heap[p].next = None
    <3>1. \A p \in P : x.heap[p].next = None
      BY DEF Pairing, P
    <3>2. \A p \in P : p \in Element
      BY <1>1 DEF P, Listed
    <3>3. \A p \in P : p \in U \ {a, b}
      BY <1>1, <2>2
    <3> QED BY <2>5, <2>6, <3>1, <3>2, <3>3
  <2>13. \A z \in Element : z \notin S \/ z \in T => m.heap[z] = h[z]
    <3>1. \A z \in T : z \in U \ {a, b}
      BY <1>1, <2>2
    <3> QED BY <2>6, <3>1 DEF Pairing
  <2>14. c \in Pointer
    BY <2>8 DEF Pointer
  <2>15. Pairing(s, h, S, T, rank, y, rest)
    <3> HIDE DEF rest, U, a, b, c
    <3> QED BY <2>5, <2>6, <2>9, <2>10, <2>12, <2>13, <2>14 DEF Pairing
  <2> QED BY <2>2, <2>15 DEF PairingOn
<1> QED BY <1>2, <1>3, <1>4

\* After the first loop no siblings are left: all are in the pairs.
LEMMA PairsAll ==
  ASSUME NEW s \in [Element -> Nat], NEW h \in Heaps, NEW S \in SUBSET Element, NEW T,
         NEW Q \in SUBSET Element, Q \cap T = {}, Forest(s, h, S, T \cup Q),
         NEW first, NEW rank \in [Element -> Nat], Chain(h, Q, first, rank)
  PROVE  Pairing(s, h, S, T, rank, Pairs(s, h, first), {})
<1> DEFINE n == Cardinality(Element)
           States == [heap : Heaps, current : Pointer, pairs : Seq(Element)]
           Reaches(i, x) == \E rest \in SUBSET Element :
                               /\ Pairing(s, h, S, T, rank, x, rest)
                               /\ Cardinality(rest) <= n - i
           X == [i \in 0..n |-> {x \in States : Reaches(i, x)}]
           start == [heap |-> h, current |-> first, pairs |-> <<>>]
           step == [i \in 1..n |-> [x \in States |->
                      IF MeldTwo(s, x) \in States THEN MeldTwo(s, x) ELSE x]]
           Equation(f) == [i \in 0..n |-> IF i = 0 THEN start ELSE MeldTwo(s, f[i - 1])]
<1>1. n \in Nat /\ 0 \in 0..n /\ n \in 0..n
  BY NoneFacts, FS_CardinalityType
<1>2. \A rest \in SUBSET Element : IsFiniteSet(rest) /\ Cardinality(rest) \in Nat
                                   /\ Cardinality(rest) <= n
  BY NoneFacts, FS_Subset, FS_CardinalityType
<1> HIDE DEF n
<1>3. start \in X[0]
  <2>1. first \in Pointer
    BY NoneFacts DEF Chain, Pointer
  <2>2. start \in States
    BY <2>1
  <2>3. Listed(<<>>) = {} /\ NoneTwice(<<>>) /\ <<>> \in Seq(Element)
    BY DEF Listed, NoneTwice
  <2>4. Pairing(s, h, S, T, rank, start, Q)
    BY <2>1, <2>3 DEF Pairing
  <2>5. Reaches(0, start)
    BY <1>1, <1>2, <2>4
  <2> HIDE DEF start, Reaches, States
  <2> QED BY <1>1, <2>2, <2>5
<1>4. ASSUME NEW i \in 1..n, NEW x \in States, Reaches(i - 1, x),
             NEW y, y = MeldTwo(s, x), y \in States
      PROVE  Reaches(i, y)
  <2>1. PICK rest \in SUBSET Element :
           Pairing(s, h, S, T, rank, x, rest) /\ Cardinality(rest) <= n - (i - 1)
    BY <1>4
  <2>2. PICK less \in SUBSET rest :
           Pairing(s, h, S, T, rank, y, less) /\ (less = rest => rest = {})
    <3>1. PairingOn(s, h, S, T, rank, y, rest)
      BY <1>4, <2>1, MeldTwoPairs
    <3> QED BY <3>1 DEF PairingOn
  <2>3. Cardinality(less) <= n - i
    <3>1. CASE less = rest
      <4>1. Cardinality(less) = 0
        BY <2>2, <3>1, FS_EmptySet
      <4> QED BY <1>1, <4>1
    <3>2. CASE less # rest
      <4>1. IsFiniteSet(rest)
        BY <1>2
      <4>2. Cardinality(less) < Cardinality(rest)
        <5>1. less \in SUBSET rest /\ less # rest
          BY <3>2
        <5>2. Cardinality(less) <= Cardinality(rest) /\ Cardinality(less) # Cardinality(rest)
          BY <4>1, <5>1, FS_Subset
        <5>3. Cardinality(less) \in Nat /\ Cardinality(rest) \in Nat
          BY <1>2
        <5> QED BY <5>2, <5>3
      <4>3. Cardinality(less) \in Nat /\ Cardinality(rest) \in Nat
        BY <1>2
      <4> QED BY <1>1, <2>1, <4>2, <4>3
    <3> QED BY <3>1, <3>2
  <2> QED BY <2>2, <2>3
<1>5. ASSUME NEW i \in 1..n, NEW x \in States, Reaches(i - 1, x)
      PROVE  MeldTwo(s, x) \in States
  <2>1. PICK rest \in SUBSET Element : Pairing(s, h, S, T, rank, x, rest)
    BY <1>5
  <2> DEFINE y == MeldTwo(s, x)
  <2>2. PICK less \in SUBSET rest : Pairing(s, h, S, T, rank, y, less)
    <3>1. y = MeldTwo(s, x)
      OBVIOUS
    <3> HIDE DEF y
    <3>2. PairingOn(s, h, S, T, rank, y, rest)
      BY <2>1, <3>1, MeldTwoPairs
    <3> QED BY <3>2 DEF PairingOn
  <2>3. y.heap \in Heaps /\ y.current \in Pointer /\ y.pairs \in Seq(Element)
    BY <2>2 DEF Pairing
  <2>4. y = [heap |-> y.heap, current |-> y.current, pairs |-> y.pairs]
    <3> DEFINE a == x.current
               b == x.heap[a].next
    <3>1. CASE a = None
      BY <3>1 DEF MeldTwo
    <3>2. CASE a # None /\ b = None
      BY <3>2 DEF MeldTwo
    <3>3. CASE a # None /\ b # None
      BY <3>3 DEF MeldTwo
    <3> QED BY <3>1, <3>2, <3>3
  <2> HIDE DEF y
  <2>5. y \in States
    BY <2>3, <2>4
  <2> QED BY <2>5 DEF y
<1>6. /\ \A i \in 0..n : X[i] = {x \in States : Reaches(i, x)}
      /\ X \in [0..n -> SUBSET States]
  <2> HIDE DEF Reaches, States
  <2> QED OBVIOUS
<1>7. step \in [1..n -> [States -> States]]
      /\ \A i \in 1..n : \A x \in States :
            MeldTwo(s, x) \in States => step[i][x] = MeldTwo(s, x)
  <2> HIDE DEF States
  <2> QED OBVIOUS
<1>8. \A i \in 1..n : i - 1 \in 0..n /\ i \in 0..n
  BY <1>1
<1> HIDE DEF X, start, step, States, Reaches
<1>9. \A i \in 1..n : \A x \in X[i - 1] : step[i][x] \in X[i]
  BY <1>4, <1>5, <1>6, <1>7, <1>8
<1>10. PICK f \in [0..n -> States] : /\ f[0] = start
                                     /\ \A i \in 1..n : f[i] = step[i][f[i - 1]]
                                     /\ \A i \in 0..n : f[i] \in X[i]
  <2>1. \E f \in [0..n -> States] : Goes(f, n, start, step, X)
    BY <1>1, <1>3, <1>6, <1>7, <1>9, StepsExist
  <2> QED BY <2>1 DEF Goes
<1>11. f = Equation(f)
  <2>1. \A i \in 1..n : f[i] = MeldTwo(s, f[i - 1])
    BY <1>5, <1>6, <1>7, <1>8, <1>10
  <2>2. \A i \in 0..n : i # 0 => i \in 1..n
    OBVIOUS
  <2>3. \A i \in 0..n : f[i] = IF i = 0 THEN start ELSE MeldTwo(s, f[i - 1])
    BY <1>10, <2>1, <2>2
  <2> QED BY <1>10, <2>3
<1> DEFINE loop == CHOOSE g : g = Equation(g)
<1>12. loop = Equation(loop)
  BY <1>11
<1>13. Pairs(s, h, first) = loop[n]
  BY DEF Pairs, n, start
<1> HIDE DEF loop
<1>14. \A i \in 0..n : loop[i] \in X[i]
  <2> DEFINE In == {i \in 0..n : loop[i] \in X[i]}
  <2>1. 0 \in In
    <3>1. loop[0] = start
      BY <1>1, <1>12
    <3> QED BY <1>1, <1>3, <3>1
  <2>2. ASSUME NEW i \in 1..n, i - 1 \in In PROVE i \in In
    <3>1. loop[i] = MeldTwo(s, loop[i - 1])
      <4>1. i \in 0..n /\ i # 0
        OBVIOUS
      <4> QED BY <1>12, <4>1
    <3>2. loop[i - 1] \in States /\ Reaches(i - 1, loop[i - 1])
      BY <1>6, <1>8, <2>2
    <3>3. loop[i] \in States /\ Reaches(i, loop[i])
      BY <1>4, <1>5, <3>1, <3>2
    <3> QED BY <1>6, <1>8, <3>3
  <2>3. \A i \in 0..n : i \in In
    <3> HIDE DEF In
    <3> QED BY <1>1, <2>1, <2>2, UpTo
  <2> QED BY <2>3
<1>15. Reaches(n, loop[n])
  BY <1>1, <1>6, <1>14
<1>16. PICK rest \in SUBSET Element :
          Pairing(s, h, S, T, rank, loop[n], rest) /\ Cardinality(rest) <= n - n
  BY <1>15 DEF Reaches
<1>17. rest = {}
  <2>1. Cardinality(rest) = 0 /\ IsFiniteSet(rest)
    BY <1>1, <1>2, <1>16
  <2> QED BY <2>1, FS_EmptySet
<1> QED BY <1>13, <1>16, <1>17

\* A heap y with one top instead of what has been merged, the others as they were.
Merged(s, h, S, T, y) ==
    /\ y.heap \in Heaps /\ y.top \in (S \ T) \cup {None}
    /\ y.top # None => y.heap[y.top].next = None
    /\ \A x \in Element : x \notin S \/ x \in T => y.heap[x] = h[x]
    /\ Forest(s, y.heap, S, T \cup ({y.top} \ {None}))

\* The second loop after i turns: y has one top for the first i of the list.
Merging(s, h, S, T, list, i, y) ==
    LET later == {list[j] : j \in (i + 1)..Len(list)}
    IN  /\ y.heap \in Heaps /\ y.top \in (S \ (T \cup later)) \cup {None}
        /\ y.top # None => y.heap[y.top].next = None
        /\ \A p \in later : y.heap[p].next = None
        /\ \A x \in Element : x \notin S \/ x \in T => y.heap[x] = h[x]
        /\ Forest(s, y.heap, S, T \cup later \cup ({y.top} \ {None}))

\* A turn melds the next of the list.
LEMMA MeldNext ==
  ASSUME NEW s \in [Element -> Nat], NEW h, NEW S \in SUBSET Element, NEW T,
         NEW list \in Seq(Element), NoneTwice(list), T \cap Listed(list) = {},
         NEW i \in 1..Len(list), NEW y, Merging(s, h, S, T, list, i - 1, y),
         NEW z, z = Meld(s, y.heap, y.top, list[i])
  PROVE  Merging(s, h, S, T, list, i, z)
<1> DEFINE b == list[i]
           later == {list[j] : j \in (i + 1)..Len(list)}
           top == y.top
           g == y.heap
           U == T \cup later \cup {b} \cup ({top} \ {None})
<1>1. {list[j] : j \in ((i - 1) + 1)..Len(list)} = later \cup {b}
  <2>1. Len(list) \in Nat
    OBVIOUS
  <2>2. \A j \in Int : j \in ((i - 1) + 1)..Len(list) <=> j = i \/ j \in (i + 1)..Len(list)
    BY <2>1
  <2>3. ((i - 1) + 1)..Len(list) = (i + 1)..Len(list) \cup {i}
    BY <2>1, <2>2
  <2> QED BY <2>3
<1>2. /\ b \in Element /\ b # None /\ b \notin later /\ b \notin T
      /\ later \cap T = {} /\ later \subseteq Element
  <2>1. \A j \in (i + 1)..Len(list) : j \in 1..Len(list) /\ j # i
    OBVIOUS
  <2>2. b \in Element /\ later \subseteq Element
    BY <2>1
  <2>3. b \notin later
    BY <2>1 DEF NoneTwice
  <2>4. b \in Listed(list) /\ later \subseteq Listed(list)
    BY <2>1 DEF Listed
  <2> QED BY <2>2, <2>3, <2>4, NoneFacts
<1> HIDE DEF later, b
<1>3. /\ g \in Heaps /\ top \in (S \ (T \cup later \cup {b})) \cup {None}
      /\ top # None => g[top].next = None
      /\ \A p \in later \cup {b} : g[p].next = None
      /\ \A x \in Element : x \notin S \/ x \in T => g[x] = h[x]
      /\ Forest(s, g, S, U)
  <2>1. T \cup (later \cup {b}) \cup ({top} \ {None}) = U
    OBVIOUS
  <2>2. S \ (T \cup (later \cup {b})) = S \ (T \cup later \cup {b})
    OBVIOUS
  <2> HIDE DEF U
  <2> QED BY <1>1, <2>1, <2>2 DEF Merging
<1>4. U \subseteq S
  BY <1>3 DEF Forest
<1>5. z = Meld(s, g, top, b)
  BY DEF b
<1>6. CASE top = None
  <2>1. z.heap = g /\ z.top = b
    BY <1>2, <1>5, <1>6, MeldNone DEF Pointer
  <2>2. T \cup later \cup ({b} \ {None}) = U /\ b \in S \ (T \cup later)
    BY <1>2, <1>4, <1>6
  <2>3. /\ z.heap \in Heaps /\ z.top \in (S \ (T \cup later)) \cup {None}
        /\ z.top # None => z.heap[z.top].next = None
        /\ \A p \in later : z.heap[p].next = None
        /\ \A x \in Element : x \notin S \/ x \in T => z.heap[x] = h[x]
    BY <1>3, <2>1, <2>2
  <2>4. Forest(s, z.heap, S, T \cup later \cup ({z.top} \ {None}))
    BY <1>3, <2>1, <2>2
  <2> HIDE DEF g, top, U
  <2> QED BY <2>3, <2>4 DEF Merging, later
<1>7. CASE top # None
  <2>1. top \in U /\ b \in U /\ top # b
    BY <1>3, <1>7
  <2>2. Melded(s, g, S, U, top, b, z.heap, z.top)
    <3> HIDE DEF g, top, U
    <3> QED BY <1>3, <1>5, <2>1, MeldForest
  <2> HIDE DEF g, top, U
  <2>3. /\ z.heap \in Heaps /\ z.top \in {top, b} /\ z.heap[z.top].next = None
        /\ \A x \in Element : x \notin S \/ x \in U \ {top, b} => z.heap[x] = g[x]
        /\ Forest(s, z.heap, S, (U \ {top, b}) \cup {z.top})
    BY <2>2 DEF Melded
  <2>4. /\ U \ {top, b} = T \cup later
        /\ z.top \in S \ (T \cup later) /\ z.top # None
        /\ (U \ {top, b}) \cup {z.top} = T \cup later \cup ({z.top} \ {None})
    BY <1>2, <1>3, <1>4, <1>7, <2>1, <2>3 DEF U
  <2>5. \A p \in later : z.heap[p].next = None
    BY <1>2, <1>3, <2>3, <2>4
  <2>6. \A x \in Element : x \notin S \/ x \in T => z.heap[x] = h[x]
    BY <1>3, <2>3, <2>4
  <2>7. Forest(s, z.heap, S, T \cup later \cup ({z.top} \ {None}))
    BY <2>3, <2>4
  <2> QED BY <2>3, <2>4, <2>5, <2>6, <2>7 DEF Merging, later
<1> QED BY <1>6, <1>7

\* The list of pairs becomes one tree.
LEMMA MeldAllForest ==
  ASSUME NEW s \in [Element -> Nat], NEW h \in Heaps, NEW S \in SUBSET Element, NEW T,
         NEW list \in Seq(Element), NoneTwice(list), T \cap Listed(list) = {},
         Forest(s, h, S, T \cup Listed(list)),
         \A p \in Listed(list) : h[p].next = None
  PROVE  Merged(s, h, S, T, MeldAll(s, h, list))
<1> DEFINE n == Len(list)
           States == [heap : Heaps, top : Pointer]
           Good(i, y) == Merging(s, h, S, T, list, i, y)
           X == [i \in 0..n |-> {y \in States : Good(i, y)}]
           start == Top(h, None)
           Next(i, y) == Meld(s, y.heap, y.top, list[i])
           step == [i \in 1..n |-> [y \in States |->
                      IF Next(i, y) \in States THEN Next(i, y) ELSE y]]
           Equation(f) == [i \in 0..n |->
                              IF i = 0 THEN Top(h, None)
                              ELSE Meld(s, f[i - 1].heap, f[i - 1].top, list[i])]
<1>1. n \in Nat /\ 0 \in 0..n /\ n \in 0..n /\ \A i \in 1..n : i - 1 \in 0..n /\ i \in 0..n
  OBVIOUS
<1> HIDE DEF n
<1>2. start \in States /\ Good(0, start)
  <2>1. start.heap = h /\ start.top = None /\ start \in States
    BY NoneFacts DEF Top
  <2>2. {list[j] : j \in (0 + 1)..Len(list)} = Listed(list)
    BY DEF Listed
  <2> HIDE DEF start
  <2>3. T \cup Listed(list) \cup ({None} \ {None}) = T \cup Listed(list)
    OBVIOUS
  <2>4. Forest(s, start.heap, S, T \cup Listed(list) \cup ({start.top} \ {None}))
    BY <2>1, <2>3
  <2> QED BY <2>1, <2>2, <2>4 DEF Merging
<1>3. ASSUME NEW i \in 1..n, NEW y \in States, Good(i - 1, y)
      PROVE  Next(i, y) \in States /\ Good(i, Next(i, y))
  <2> DEFINE z == Next(i, y)
  <2>1. i \in 1..Len(list)
    BY DEF n
  <2>2. z = Meld(s, y.heap, y.top, list[i])
    OBVIOUS
  <2>3. Good(i, z)
    <3> HIDE DEF z
    <3> QED BY <1>3, <2>1, <2>2, MeldNext
  <2>4. z = [heap |-> z.heap, top |-> z.top]
    BY DEF Meld, Top
  <2> HIDE DEF z
  <2>5. z.heap \in Heaps /\ z.top \in Pointer
    BY <2>3, NoneFacts DEF Merging
  <2> QED BY <2>3, <2>4, <2>5 DEF z
<1>4. /\ \A i \in 0..n : X[i] = {y \in States : Good(i, y)}
      /\ X \in [0..n -> SUBSET States]
  <2> HIDE DEF Good, States
  <2> QED OBVIOUS
<1>5. step \in [1..n -> [States -> States]]
      /\ \A i \in 1..n : \A y \in States : Next(i, y) \in States => step[i][y] = Next(i, y)
  <2> HIDE DEF States, Next
  <2> QED OBVIOUS
<1> HIDE DEF X, start, step, States, Good
<1>6. \A i \in 1..n : \A y \in X[i - 1] : step[i][y] \in X[i]
  <2> HIDE DEF Next
  <2> SUFFICES ASSUME NEW i \in 1..n, NEW y \in X[i - 1] PROVE step[i][y] \in X[i]
    OBVIOUS
  <2>1. y \in States /\ Good(i - 1, y)
    BY <1>1, <1>4
  <2>2. Next(i, y) \in States /\ Good(i, Next(i, y))
    BY <1>3, <2>1
  <2>3. step[i][y] = Next(i, y)
    BY <1>5, <2>1, <2>2
  <2> QED BY <1>1, <1>4, <2>2, <2>3
<1>7. PICK f \in [0..n -> States] : /\ f[0] = start
                                    /\ \A i \in 1..n : f[i] = step[i][f[i - 1]]
                                    /\ \A i \in 0..n : f[i] \in X[i]
  <2>1. start \in X[0]
    BY <1>1, <1>2, <1>4
  <2>2. \E f \in [0..n -> States] : Goes(f, n, start, step, X)
    BY <1>1, <1>4, <1>5, <1>6, <2>1, StepsExist
  <2> QED BY <2>2 DEF Goes
<1>8. f = Equation(f)
  <2>1. \A i \in 1..n : f[i] = Next(i, f[i - 1])
    <3> HIDE DEF Next
    <3> QED BY <1>1, <1>3, <1>4, <1>5, <1>7
  <2>2. \A i \in 0..n : i # 0 => i \in 1..n
    OBVIOUS
  <2>3. \A i \in 0..n : f[i] = IF i = 0 THEN Top(h, None)
                               ELSE Meld(s, f[i - 1].heap, f[i - 1].top, list[i])
    BY <1>7, <2>1, <2>2 DEF start
  <2> QED BY <1>7, <2>3
<1> DEFINE melded == CHOOSE m : m = Equation(m)
<1>9. melded = Equation(melded)
  BY <1>8
<1>10. MeldAll(s, h, list) = melded[n]
  BY DEF MeldAll, n
<1> HIDE DEF melded
<1>11. /\ melded[0] = start
       /\ \A i \in 1..n : melded[i] = Next(i, melded[i - 1])
  <2>1. \A i \in 1..n : i \in 0..n /\ i # 0
    OBVIOUS
  <2> QED BY <1>1, <1>9, <2>1 DEF start
<1> HIDE DEF Next
<1>12. melded[n] \in States /\ Good(n, melded[n])
  <2> DEFINE In == {i \in 0..n : melded[i] \in States /\ Good(i, melded[i])}
  <2>1. 0 \in In
    BY <1>1, <1>2, <1>11
  <2>2. ASSUME NEW i \in 1..n, i - 1 \in In PROVE i \in In
    BY <1>1, <1>3, <1>11, <2>2
  <2>3. \A i \in 0..n : i \in In
    <3> HIDE DEF In
    <3> QED BY <1>1, <2>1, <2>2, UpTo
  <2> QED BY <1>1, <2>3
<1> DEFINE y == melded[n]
<1>13. Merging(s, h, S, T, list, n, y)
  BY <1>12 DEF Good
<1> HIDE DEF y
<1>14. {list[j] : j \in (n + 1)..Len(list)} = {}
  BY <1>1 DEF n
<1>15. /\ y.heap \in Heaps /\ y.top \in (S \ (T \cup {})) \cup {None}
       /\ y.top # None => y.heap[y.top].next = None
       /\ \A x \in Element : x \notin S \/ x \in T => y.heap[x] = h[x]
       /\ Forest(s, y.heap, S, T \cup {} \cup ({y.top} \ {None}))
  BY <1>13, <1>14 DEF Merging
<1>16. S \ (T \cup {}) = S \ T /\ T \cup {} \cup ({y.top} \ {None}) = T \cup ({y.top} \ {None})
  OBVIOUS
<1>17. Forest(s, y.heap, S, T \cup ({y.top} \ {None}))
  BY <1>15, <1>16
<1>18. Merged(s, h, S, T, y)
  BY <1>15, <1>16, <1>17 DEF Merged
<1> QED BY <1>10, <1>18 DEF y

\* mergePairs makes one tree of a list of siblings.
LEMMA MergePairsForest ==
  ASSUME NEW s \in [Element -> Nat], NEW h \in Heaps, NEW S \in SUBSET Element, NEW T,
         NEW Q \in SUBSET Element, Q \cap T = {}, Forest(s, h, S, T \cup Q),
         NEW first, NEW rank \in [Element -> Nat], Chain(h, Q, first, rank)
  PROVE  Merged(s, h, S, T, MergePairs(s, h, first))
<1> DEFINE x == Pairs(s, h, first)
           y == MeldAll(s, x.heap, x.pairs)
<1>1. Pairing(s, h, S, T, rank, x, {})
  BY PairsAll
<1> HIDE DEF x
<1>2. T \cup {} \cup Listed(x.pairs) = T \cup Listed(x.pairs)
  OBVIOUS
<1>3. Forest(s, x.heap, S, T \cup Listed(x.pairs))
  BY <1>1, <1>2 DEF Pairing
<1>4. Merged(s, x.heap, S, T, y)
  BY <1>1, <1>3, MeldAllForest DEF Pairing
<1> HIDE DEF y
<1>5. \A z \in Element : z \notin S \/ z \in T => x.heap[z] = h[z]
  BY <1>1 DEF Pairing
<1>6. Merged(s, h, S, T, y)
  BY <1>4, <1>5 DEF Merged
<1> QED BY <1>6 DEF MergePairs, x, y

\* A top that has its children merged in its place.
LEMMA RemoveForest ==
  ASSUME NEW s \in [Element -> Nat], NEW h \in Heaps, NEW S \in SUBSET Element, NEW T,
         NEW n \in Element \ T, Forest(s, h, S, T \cup {n}),
         NEW s2 \in [Element -> Nat], \A x \in S \ {n} : s2[x] = s[x]
  PROVE  Merged(s2, h, S \ {n}, T, MergePairs(s2, h, h[n].child))
<1> DEFINE U == T \cup {n}
           first == h[n].child
<1>1. Forest(s, h, S, U) /\ n \in U
  OBVIOUS
<1> HIDE DEF U
<1>2. Dropped(s2, h, S, U, n)
  BY <1>1, DropForest
<1>3. PICK Q \in SUBSET (S \ U), rank \in [Element -> Nat] :
         Forest(s2, h, S \ {n}, (U \ {n}) \cup Q) /\ Chain(h, Q, first, rank)
  BY <1>2 DEF Dropped
<1>4. U \ {n} = T /\ Q \cap T = {} /\ Q \in SUBSET Element /\ S \ {n} \in SUBSET Element
  BY <1>3 DEF U
<1>5. Forest(s2, h, S \ {n}, T \cup Q)
  BY <1>3, <1>4
<1> HIDE DEF first
<1>6. Merged(s2, h, S \ {n}, T, MergePairs(s2, h, first))
  BY <1>3, <1>4, <1>5, MergePairsForest
<1> QED BY <1>6 DEF first

\* Scores of nodes that are not in the trees do not matter.
LEMMA ScoresForest ==
  ASSUME NEW s, NEW h, NEW S, NEW T, Forest(s, h, S, T),
         NEW s2, \A x \in S : s2[x] = s[x]
  PROVE  Forest(s2, h, S, T)
<1>1. PICK par \in [Element -> Pointer], pos \in [Element -> Nat] :
          Trees(s, h, S, par, pos) /\ T = {x \in S : par[x] = None}
  BY DEF Forest
<1>2. ASSUME NEW x \in S PROVE InPlace(s2, h, S, par, pos, x)
  <2>1. InPlace(s, h, S, par, pos, x)
    BY <1>1 DEF Trees
  <2>2. par[x] \in S => (Higher(s, par[x], x) <=> Higher(s2, par[x], x))
    BY DEF Higher
  <2> QED BY <2>1, <2>2 DEF InPlace
<1> QED BY <1>1, <1>2 DEF Forest, Trees

\* Of all nodes the highest one is a top.
LEMMA HighestIsTop ==
  ASSUME NEW s \in [Element -> Nat], NEW h, NEW S \in SUBSET Element,
         NEW T, Forest(s, h, S, T), S # {}
  PROVE  \E t \in T : \A x \in S \ {t} : Higher(s, t, x)
<1>1. PICK par \in [Element -> Pointer], pos \in [Element -> Nat] :
          Trees(s, h, S, par, pos) /\ T = {x \in S : par[x] = None}
  BY DEF Forest
<1> DEFINE R == {p \in S \X S : Higher(s, p[1], p[2])}
<1>2. \A x, y \in S : <<x, y>> \in R <=> Higher(s, x, y)
  OBVIOUS
<1>3. PICK t \in S : \A x \in S : <<x, t>> \notin R
  <2>1. IsFiniteSet(S)
    BY NoneFacts, FS_Subset
  <2>2. \A x \in S : <<x, x>> \notin R
    BY <1>2, HigherFacts
  <2>3. \A x, y, z \in S : <<x, y>> \in R /\ <<y, z>> \in R => <<x, z>> \in R
    BY <1>2, HigherFacts
  <2> HIDE DEF R
  <2> QED BY <2>1, <2>2, <2>3, FirstOf
<1>4. \A x \in S \ {t} : Higher(s, t, x)
  BY <1>2, <1>3, HigherFacts
<1>5. t \in T
  BY <1>1, <1>2, <1>3 DEF Trees, InPlace
<1> QED BY <1>4, <1>5

-----------------------------------------------------------------------------
(* PairingHeap: the operations *)

Inside(s) == {n \in Element : s[n] # 0}

\* The heap y holds the nodes S in one tree, and nothing of the others.
Holds(s, S, y) ==
    /\ y.heap \in Heaps /\ y.top \in S \cup {None}
    /\ y.top # None => y.heap[y.top].next = None
    /\ Forest(s, y.heap, S, {y.top} \ {None})
    /\ \A x \in Element \ S : y.heap[x] = Detached

HeapInvariant == HeapTypeOK /\ Holds(scores, Inside(scores), Top(heap, root))

\* A node put into the heap.
LEMMA InsertHolds ==
  ASSUME NEW s, NEW S \in SUBSET Element, NEW y, Holds(s, S, y), NEW n \in Element \ S,
         NEW s2 \in [Element -> Nat], \A x \in S : s2[x] = s[x],
         NEW z, z = Meld(s2, y.heap, y.top, n), NEW S2, S2 = S \cup {n}
  PROVE  Holds(s2, S2, z)
<1> DEFINE g == y.heap
           top == y.top
           T == {top} \ {None}
<1>1. /\ g \in Heaps /\ top \in S \cup {None} /\ (top # None => g[top].next = None)
      /\ Forest(s, g, S, T) /\ g[n] = Detached /\ n # None /\ n # top
      /\ \A x \in Element \ S : g[x] = Detached
  BY NoneFacts DEF Holds
<1>2. g[n].child = None /\ g[n].next = None
  BY <1>1 DEF Detached
<1>3. z = Meld(s2, g, top, n)
  OBVIOUS
<1> HIDE DEF g, top
<1>4. Forest(s2, g, S2, T \cup {n})
  <2> HIDE DEF T
  <2> QED BY <1>1, <1>2, AddForest
<1>5. S2 \in SUBSET Element
  OBVIOUS
<1>6. CASE top = None
  <2>1. z.heap = g /\ z.top = n
    BY <1>3, <1>6, MeldNone DEF Pointer
  <2>2. T \cup {n} = {n} \ {None}
    BY <1>1, <1>6
  <2>3. Forest(s2, z.heap, S2, {z.top} \ {None})
    BY <1>4, <2>1, <2>2
  <2> HIDE DEF T
  <2> QED BY <1>1, <1>2, <2>1, <2>3 DEF Holds
<1>7. CASE top # None
  <2> DEFINE U == {top, n}
  <2>1. T \cup {n} = U
    BY <1>7
  <2>2. Forest(s2, g, S2, U) /\ top \in U /\ n \in U
    BY <1>4, <2>1
  <2> HIDE DEF T, U
  <2>3. Melded(s2, g, S2, U, top, n, z.heap, z.top)
    BY <1>1, <1>3, <1>5, <2>2, MeldForest
  <2>4. /\ z.heap \in Heaps /\ z.top \in {top, n} /\ z.heap[z.top].next = None
        /\ \A x \in Element : x \notin S2 => z.heap[x] = g[x]
        /\ Forest(s2, z.heap, S2, (U \ {top, n}) \cup {z.top})
    BY <2>3 DEF Melded
  <2>5. (U \ {top, n}) \cup {z.top} = {z.top} \ {None} /\ z.top \in S2
    BY <1>1, <1>7, <2>4 DEF U
  <2>6. Forest(s2, z.heap, S2, {z.top} \ {None})
    BY <2>4, <2>5
  <2>7. \A x \in Element \ S2 : z.heap[x] = Detached
    BY <1>1, <2>4
  <2> QED BY <2>4, <2>5, <2>6, <2>7 DEF Holds
<1> QED BY <1>6, <1>7

\* A heap after mergePairs, when there are no other tops, without the node n.
LEMMA MergedHolds ==
  ASSUME NEW s, NEW h, NEW S \in SUBSET Element, NEW y, Merged(s, h, S, {}, y),
         NEW n \in Element \ S, \A x \in Element \ S : x # n => h[x] = Detached,
         NEW z, z = Top([y.heap EXCEPT ![n] = Detached], y.top)
  PROVE  Holds(s, S, z)
<1>1. /\ z.top = y.top /\ y.heap \in Heaps
      /\ y.top \in S \cup {None} /\ (y.top # None => y.heap[y.top].next = None)
      /\ \A x \in Element : x \notin S => y.heap[x] = h[x]
  BY DEF Merged, Top
<1>2. /\ z.heap \in Heaps /\ z.heap[n] = Detached
      /\ \A x \in Element : x # n => z.heap[x] = y.heap[x]
  BY <1>1, NoneFacts DEF Top, Heaps, Node, Detached
<1>3. {} \cup ({y.top} \ {None}) = {z.top} \ {None}
  BY <1>1
<1>4. Forest(s, y.heap, S, {z.top} \ {None})
  BY <1>3 DEF Merged
<1>5. Forest(s, z.heap, S, {z.top} \ {None})
  <2> DEFINE T == {z.top} \ {None}
  <2>1. \A x \in S : z.heap[x] = y.heap[x]
    BY <1>2
  <2>2. T \subseteq S
    BY <1>1
  <2> HIDE DEF T
  <2>3. \A x \in S \ T : z.heap[x] = y.heap[x]
    BY <2>1
  <2>4. \A x \in T : z.heap[x].child = y.heap[x].child
    BY <2>1, <2>2
  <2>5. Forest(s, y.heap, S, T)
    BY <1>4 DEF T
  <2>6. Forest(s, z.heap, S, T)
    BY <2>3, <2>4, <2>5, SameForest
  <2> QED BY <2>6 DEF T
<1> QED BY <1>1, <1>2, <1>5, NoneFacts DEF Holds

\* What the invariant says of the root, which is the highest of all nodes.
LEMMA InvariantFacts ==
  ASSUME HeapInvariant
  PROVE  /\ heap \in Heaps /\ scores \in [Element -> Nat]
         /\ root \in Inside(scores) \cup {None}
         /\ Inside(scores) \in SUBSET Element
         /\ root # None => heap[root].next = None
         /\ Forest(scores, heap, Inside(scores), {root} \ {None})
         /\ \A x \in Element \ Inside(scores) : heap[x] = Detached
         /\ Inside(scores) # {} =>
               root # None /\ \A x \in Inside(scores) \ {root} : Higher(scores, root, x)
<1>1. /\ heap \in Heaps /\ root \in Inside(scores) \cup {None}
      /\ Inside(scores) \in SUBSET Element
      /\ root # None => heap[root].next = None
      /\ Forest(scores, heap, Inside(scores), {root} \ {None})
      /\ \A x \in Element \ Inside(scores) : heap[x] = Detached
  BY DEF HeapInvariant, Holds, Top, Inside
<1>2. scores \in [Element -> Nat]
  <2>1. Priority \cup {0} \subseteq Nat
    BY HeapAssumption
  <2>2. scores \in [Element -> Priority \cup {0}]
    BY DEF HeapInvariant, HeapTypeOK
  <2> HIDE DEF HeapInvariant
  <2> QED BY <2>1, <2>2
<1>3. ASSUME Inside(scores) # {}
      PROVE  root # None /\ \A x \in Inside(scores) \ {root} : Higher(scores, root, x)
  <2>1. PICK t \in {root} \ {None} : \A x \in Inside(scores) \ {t} : Higher(scores, t, x)
    BY <1>1, <1>2, <1>3, HighestIsTop
  <2> QED BY <2>1
<1> QED BY <1>1, <1>2, <1>3

\* A node taken out of the heap, wherever it is.
LEMMA DeletedHolds ==
  ASSUME HeapInvariant, NEW n \in Inside(scores),
         NEW s2 \in [Element -> Nat], \A x \in Inside(scores) \ {n} : s2[x] = scores[x]
  PROVE  Holds(s2, Inside(scores) \ {n}, Deleted(s2, n))
<1> DEFINE S == Inside(scores)
           rest == S \ {n}
<1>1. /\ heap \in Heaps /\ scores \in [Element -> Nat] /\ S \in SUBSET Element
      /\ root \in S /\ root # None /\ heap[root].next = None
      /\ Forest(scores, heap, S, {root} \ {None})
      /\ \A x \in Element \ S : heap[x] = Detached
      /\ n \in S /\ n \in Element /\ n # None
  BY InvariantFacts, NoneFacts DEF Inside
<1>2. {root} \ {None} = {root} /\ \A x \in S \ {n} : s2[x] = scores[x]
  BY <1>1
<1> HIDE DEF S
<1>3. Forest(scores, heap, S, {root})
  BY <1>1, <1>2
<1>4. n \in Element \ rest /\ rest \in SUBSET Element
  BY <1>1
<1>5. CASE n = root
  <2> DEFINE merged == MergePairs(s2, heap, heap[n].child)
             z == Top([merged.heap EXCEPT ![n] = Detached], merged.top)
  <2>1. Deleted(s2, n) = z
    BY <1>5 DEF Deleted
  <2>2. {} \cup {n} = {root} /\ n \in Element \ {}
    BY <1>1, <1>5
  <2>3. Forest(scores, heap, S, {} \cup {n})
    BY <1>3, <2>2
  <2>4. Merged(s2, heap, S \ {n}, {}, merged)
    BY <1>1, <1>2, <2>2, <2>3, RemoveForest
  <2>5. \A x \in Element \ rest : x # n => heap[x] = Detached
    BY <1>1
  <2>6. z = Top([merged.heap EXCEPT ![n] = Detached], merged.top)
    OBVIOUS
  <2> HIDE DEF merged, z
  <2>7. Holds(s2, rest, z)
    BY <1>4, <2>4, <2>5, <2>6, MergedHolds
  <2> QED BY <2>1, <2>7 DEF S
<1>6. CASE n # root
  <2> DEFINE u == Unlinked(heap, n)
             merged == MergePairs(s2, u, heap[n].child)
             whole == Meld(s2, merged.heap, root, merged.top)
             z == Top([whole.heap EXCEPT ![n] = Detached], whole.top)
  <2>1. Deleted(s2, n) = z
    BY <1>6 DEF Deleted
  <2>2. /\ u \in Heaps /\ u[n] = heap[n]
        /\ \A x \in Element \ S : u[x] = heap[x]
        /\ u[root].next = None
        /\ Forest(scores, u, S, {root} \cup {n})
    <3>1. n \in S \ {root}
      BY <1>1, <1>6
    <3>2. Cut(scores, heap, S, {root}, n, u)
      BY <1>1, <1>3, <3>1, UnlinkedForest
    <3> HIDE DEF u
    <3> QED BY <1>1, <3>2 DEF Cut
  <2>3. Merged(s2, u, rest, {root}, merged)
    <3> DEFINE w == MergePairs(s2, u, u[n].child)
    <3> HIDE DEF u
    <3>1. n \in Element \ {root}
      BY <1>1, <1>6
    <3>2. Merged(s2, u, S \ {n}, {root}, w)
      BY <1>1, <1>2, <2>2, <3>1, RemoveForest
    <3>3. u[n].child = heap[n].child
      BY <2>2
    <3> QED BY <3>2, <3>3
  <2>4. z = Top([whole.heap EXCEPT ![n] = Detached], whole.top)
    OBVIOUS
  <2>5. whole = Meld(s2, merged.heap, root, merged.top)
    OBVIOUS
  <2> HIDE DEF merged, whole, z, u
  <2>6. /\ merged.heap \in Heaps /\ merged.top \in (rest \ {root}) \cup {None}
        /\ \A x \in Element : x \notin rest \/ x = root => merged.heap[x] = u[x]
        /\ Forest(s2, merged.heap, rest, {root} \cup ({merged.top} \ {None}))
    BY <2>3 DEF Merged
  <2>7. Merged(s2, u, rest, {}, whole)
    <3>0. root \in rest
      BY <1>1, <1>6
    <3>1. CASE merged.top = None
      <4>1. whole.heap = merged.heap /\ whole.top = root
        BY <1>1, <2>5, <3>1, MeldNone DEF Pointer
      <4>2. {root} \cup ({merged.top} \ {None}) = {} \cup ({whole.top} \ {None})
        BY <1>1, <3>1, <4>1
      <4>3. Forest(s2, whole.heap, rest, {} \cup ({whole.top} \ {None}))
        BY <2>6, <4>1, <4>2
      <4> QED BY <1>1, <2>2, <2>6, <3>0, <4>1, <4>3 DEF Merged
    <3>2. CASE merged.top # None
      <4> DEFINE b == merged.top
                 U == {root, b}
                 g == merged.heap
      <4>1. {root} \cup ({b} \ {None}) = U /\ root # b /\ b \in rest
        BY <2>6, <3>2
      <4>2. Forest(s2, g, rest, U) /\ root \in U /\ b \in U
        BY <2>6, <4>1
      <4>3. whole = Meld(s2, g, root, b) /\ g \in Heaps
        BY <2>5, <2>6
      <4> HIDE DEF b, U, g, rest
      <4>4. Melded(s2, g, rest, U, root, b, whole.heap, whole.top)
        BY <1>4, <4>1, <4>2, <4>3, MeldForest
      <4>5. /\ whole.heap \in Heaps /\ whole.top \in {root, b}
            /\ whole.heap[whole.top].next = None
            /\ \A x \in Element : x \notin rest => whole.heap[x] = g[x]
            /\ Forest(s2, whole.heap, rest, (U \ {root, b}) \cup {whole.top})
        BY <4>4 DEF Melded
      <4>6. /\ (U \ {root, b}) \cup {whole.top} = {} \cup ({whole.top} \ {None})
            /\ whole.top \in (rest \ {}) \cup {None}
        BY <1>4, <3>0, <4>1, <4>5, NoneFacts DEF U
      <4>7. Forest(s2, whole.heap, rest, {} \cup ({whole.top} \ {None}))
        BY <4>5, <4>6
      <4>8. \A x \in Element : x \notin rest \/ x \in {} => whole.heap[x] = u[x]
        BY <2>6, <4>5 DEF g
      <4> QED BY <4>5, <4>6, <4>7, <4>8 DEF Merged
    <3> QED BY <3>1, <3>2
  <2>8. \A x \in Element \ rest : x # n => u[x] = Detached
    BY <1>1, <2>2
  <2>9. Holds(s2, rest, z)
    <3> HIDE DEF rest
    <3> QED BY <1>4, <2>4, <2>7, <2>8, MergedHolds
  <2> QED BY <2>1, <2>9 DEF S
<1> QED BY <1>5, <1>6

\* What is left to show of a step that makes the heap y.
LEMMA KeepsInvariant ==
  ASSUME HeapInvariant, NEW y, Holds(scores', Inside(scores'), y),
         root' = y.top, heap' = y.heap,
         scores' \in [Element -> Priority \cup {0}], popped' \in Pointer
  PROVE  HeapInvariant'
<1>1. Holds(scores', Inside(scores'), Top(heap', root'))
  BY DEF Holds, Top
<1>2. root' \in Pointer /\ heap' \in Heaps
  BY NoneFacts DEF Holds, Inside
<1> QED BY <1>1, <1>2 DEF HeapInvariant, HeapTypeOK, Heaps, Node

\* The scores after a change of one.
LEMMA ScoreFacts ==
  ASSUME HeapInvariant, NEW n \in Element, NEW p \in Priority \cup {0},
         scores' = [scores EXCEPT ![n] = p]
  PROVE  /\ scores' \in [Element -> Priority \cup {0}] /\ scores' \in [Element -> Nat]
         /\ scores'[n] = p /\ \A x \in Element : x # n => scores'[x] = scores[x]
         /\ p # 0 => Inside(scores') = Inside(scores) \cup {n}
         /\ p = 0 => Inside(scores') = Inside(scores) \ {n}
         /\ p \in Priority => p # 0
<1>1. scores \in [Element -> Priority \cup {0}]
  BY DEF HeapInvariant, HeapTypeOK
<1>2. Priority \cup {0} \subseteq Nat /\ (p \in Priority => p # 0)
  BY HeapAssumption
<1>3. /\ scores' \in [Element -> Priority \cup {0}] /\ scores'[n] = p
      /\ \A x \in Element : x # n => scores'[x] = scores[x]
  BY <1>1
<1>4. scores' \in [Element -> Nat]
  BY <1>2, <1>3
<1> QED BY <1>2, <1>3, <1>4 DEF Inside

\* The scores of what is not in the heap do not matter.
LEMMA ScoresHold ==
  ASSUME NEW s, NEW S, NEW y, Holds(s, S, y), NEW s2, \A x \in S : s2[x] = s[x]
  PROVE  Holds(s2, S, y)
<1> DEFINE T == {y.top} \ {None}
           h == y.heap
<1>1. Forest(s, h, S, T)
  BY DEF Holds
<1> HIDE DEF T, h
<1>2. Forest(s2, h, S, T)
  BY <1>1, ScoresForest
<1> QED BY <1>2 DEF Holds, T, h

\* add: a new node is melded with the root.
LEMMA AddStep ==
  ASSUME HeapInvariant, NEW n \in Element, NEW p \in Priority, add(n, p)
  PROVE  HeapInvariant'
<1> DEFINE y == Top(heap, root)
           z == Meld(scores', heap, root, n)
           S == Inside(scores)
<1>1. /\ scores[n] = 0 /\ scores' = [scores EXCEPT ![n] = p]
      /\ root' = z.top /\ heap' = z.heap /\ popped' = popped
  BY DEF add, Becomes
<1>2. /\ scores' \in [Element -> Priority \cup {0}] /\ scores' \in [Element -> Nat]
      /\ \A x \in Element : x # n => scores'[x] = scores[x]
      /\ Inside(scores') = S \cup {n}
  BY <1>1, ScoreFacts
<1>3. /\ Holds(scores, S, y) /\ n \in Element \ S /\ popped \in Pointer
      /\ \A x \in S : scores'[x] = scores[x]
  BY <1>1, <1>2 DEF HeapInvariant, HeapTypeOK, Inside
<1>4. z = Meld(scores', y.heap, y.top, n)
  BY DEF Top
<1> HIDE DEF y, z, S
<1>5. Holds(scores', Inside(scores'), z)
  <2>1. S \in SUBSET Element
    BY DEF S, Inside
  <2> QED BY <1>2, <1>3, <1>4, <2>1, InsertHolds
<1> QED BY <1>1, <1>2, <1>3, <1>5, KeepsInvariant

\* deleteNode: what was below the node is melded with the rest.
LEMMA DeleteStep ==
  ASSUME HeapInvariant, NEW n \in Element, deleteNode(n)
  PROVE  HeapInvariant'
<1> DEFINE z == Deleted(scores, n)
           rest == Inside(scores) \ {n}
<1>1. /\ scores[n] # 0 /\ scores' = [scores EXCEPT ![n] = 0]
      /\ root' = z.top /\ heap' = z.heap /\ popped' = popped
  BY DEF deleteNode, Becomes
<1>2. n \in Inside(scores) /\ rest \subseteq Element
  BY <1>1 DEF Inside
<1>3. scores \in [Element -> Nat] /\ popped \in Pointer
  BY InvariantFacts DEF HeapInvariant, HeapTypeOK
<1>4. /\ scores' \in [Element -> Priority \cup {0}]
      /\ \A x \in Element : x # n => scores'[x] = scores[x]
      /\ Inside(scores') = rest
  BY <1>1, ScoreFacts
<1>5. Holds(scores, rest, z)
  BY <1>2, <1>3, DeletedHolds
<1> HIDE DEF z, rest
<1>6. \A x \in rest : scores'[x] = scores[x]
  BY <1>2, <1>4 DEF rest
<1>7. Holds(scores', rest, z)
  BY <1>5, <1>6, ScoresHold
<1> QED BY <1>1, <1>3, <1>4, <1>7, KeepsInvariant

\* pop: the root was the highest, and its children are melded into one tree.
LEMMA PopStep ==
  ASSUME HeapInvariant, pop
  PROVE  /\ HeapInvariant' /\ popped' = root /\ root \in Inside(scores)
         /\ \A x \in Inside(scores) \ {root} : Higher(scores, root, x)
         /\ scores' = [scores EXCEPT ![root] = 0]
<1> DEFINE merged == MergePairs(scores, heap, heap[root].child)
           S == Inside(scores)
           z == Top([merged.heap EXCEPT ![root] = Detached], merged.top)
<1>1. /\ root # None /\ popped' = root /\ scores' = [scores EXCEPT ![root] = 0]
      /\ root' = z.top /\ heap' = z.heap
  BY DEF pop, Top
<1>2. /\ heap \in Heaps /\ scores \in [Element -> Nat] /\ root \in S
      /\ S \in SUBSET Element /\ Forest(scores, heap, S, {root} \ {None})
      /\ \A x \in Element \ S : heap[x] = Detached
      /\ \A x \in S \ {root} : Higher(scores, root, x)
  BY <1>1, InvariantFacts
<1>3. root \in Element /\ root \in Pointer
  BY <1>2, NoneFacts
<1>4. /\ scores' \in [Element -> Priority \cup {0}]
      /\ \A x \in Element : x # root => scores'[x] = scores[x]
      /\ Inside(scores') = S \ {root}
  BY <1>1, <1>3, ScoreFacts
<1>5. z = Top([merged.heap EXCEPT ![root] = Detached], merged.top)
  OBVIOUS
<1>6. merged = MergePairs(scores, heap, heap[root].child)
  OBVIOUS
<1> HIDE DEF S, merged, z
<1>7. Forest(scores, heap, S, {} \cup {root}) /\ root \in Element \ {}
  <2>1. {root} \ {None} = {} \cup {root}
    BY <1>1
  <2> QED BY <1>2, <1>3, <2>1
<1>8. Merged(scores, heap, S \ {root}, {}, merged)
  BY <1>2, <1>6, <1>7, RemoveForest
<1>9. S \ {root} \in SUBSET Element /\ \A x \in Element \ (S \ {root}) : x # root => heap[x] = Detached
  BY <1>2
<1>10. Holds(scores, S \ {root}, z)
  BY <1>3, <1>5, <1>8, <1>9, MergedHolds
<1>11. \A x \in S \ {root} : scores'[x] = scores[x]
  BY <1>2, <1>4
<1>12. Holds(scores', S \ {root}, z)
  BY <1>10, <1>11, ScoresHold
<1>13. HeapInvariant'
  BY <1>1, <1>3, <1>4, <1>12, KeepsInvariant
<1> QED BY <1>1, <1>2, <1>13 DEF S

\* decreasePriority: the node is taken out without what was below it and added again.
LEMMA DecreaseStep ==
  ASSUME HeapInvariant, NEW n \in Element, NEW p \in Priority, decreasePriority(n, p)
  PROVE  HeapInvariant'
<1> DEFINE y == Deleted(scores', n)
           z == Meld(scores', y.heap, y.top, n)
           S == Inside(scores)
           rest == S \ {n}
<1>1. /\ scores[n] # 0 /\ scores' = [scores EXCEPT ![n] = p]
      /\ root' = z.top /\ heap' = z.heap /\ popped' = popped
  BY DEF decreasePriority, Becomes
<1>2. /\ scores' \in [Element -> Priority \cup {0}] /\ scores' \in [Element -> Nat]
      /\ \A x \in Element : x # n => scores'[x] = scores[x]
      /\ Inside(scores') = S \cup {n}
  BY <1>1, ScoreFacts
<1>3. /\ n \in S /\ S \subseteq Element /\ popped \in Pointer
      /\ n \in Element \ rest /\ Inside(scores') = rest \cup {n}
  BY <1>1, <1>2 DEF HeapInvariant, HeapTypeOK, Inside
<1>4. \A x \in rest : scores'[x] = scores[x]
  BY <1>2, <1>3
<1>5. Holds(scores', rest, y)
  BY <1>2, <1>3, <1>4, DeletedHolds
<1>6. z = Meld(scores', y.heap, y.top, n)
  OBVIOUS
<1> HIDE DEF y, z, S, rest
<1>7. Holds(scores', Inside(scores'), z)
  BY <1>2, <1>3, <1>5, <1>6, InsertHolds
<1> QED BY <1>1, <1>2, <1>3, <1>7, KeepsInvariant

\* increasePriority: a node that stays where it is has a parent that is higher still,
\* and any other is cut out with what is below it and melded with the root.
LEMMA IncreaseStep ==
  ASSUME HeapInvariant, NEW n \in Element, NEW p \in Priority, increasePriority(n, p)
  PROVE  HeapInvariant'
<1> DEFINE prev == heap[n].prev
           S == Inside(scores)
           u == Unlinked(heap, n)
           z == Meld(scores', u, root, n)
           Stays == n = root \/ (heap[prev].child = n /\ Higher(scores', prev, n))
<1>1. /\ scores[n] # 0 /\ p > scores[n] /\ scores' = [scores EXCEPT ![n] = p]
      /\ popped' = popped
      /\ Stays => root' = root /\ heap' = heap
      /\ ~Stays => root' = z.top /\ heap' = z.heap
  BY DEF increasePriority, Becomes
<1>2. /\ scores' \in [Element -> Priority \cup {0}] /\ scores' \in [Element -> Nat]
      /\ scores'[n] = p /\ \A x \in Element : x # n => scores'[x] = scores[x]
      /\ Inside(scores') = S \cup {n}
  BY <1>1, ScoreFacts
<1>3. /\ n \in S /\ S \in SUBSET Element /\ popped \in Pointer /\ Inside(scores') = S
  BY <1>1, <1>2 DEF HeapInvariant, HeapTypeOK, Inside
<1>4. /\ heap \in Heaps /\ scores \in [Element -> Nat] /\ root \in S /\ root # None
      /\ heap[root].next = None /\ Forest(scores, heap, S, {root} \ {None})
      /\ \A x \in Element \ S : heap[x] = Detached
  BY <1>3, InvariantFacts
<1>5. {root} \ {None} = {root}
  BY <1>4
<1>6. \A x \in Element \ {n} : scores'[x] = scores[x]
  BY <1>2
<1>7. scores'[n] > scores[n]
  BY <1>1, <1>2
<1> HIDE DEF S
<1>8. CASE Stays
  <2>1. n \in {root} \/ (heap[heap[n].prev].child = n /\ Higher(scores', heap[n].prev, n))
    BY <1>8
  <2>2. Forest(scores', heap, S, {root})
    BY <1>2, <1>3, <1>4, <1>5, <1>6, <1>7, <2>1, RaiseForest
  <2> DEFINE y == Top(heap, root)
  <2>3. y.heap = heap /\ y.top = root
    BY DEF Top
  <2> HIDE DEF y
  <2>4. Holds(scores', S, y)
    BY <1>4, <1>5, <2>2, <2>3 DEF Holds
  <2>5. Holds(scores', Inside(scores'), y) /\ root' = y.top /\ heap' = y.heap
    BY <1>1, <1>3, <1>8, <2>3, <2>4
  <2> QED BY <1>1, <1>2, <1>3, <2>5, KeepsInvariant
<1>9. CASE ~Stays
  <2> DEFINE T == {root, n}
  <2>1. n \in S \ {root} /\ n # root
    BY <1>3, <1>9
  <2>2. Cut(scores, heap, S, {root}, n, u)
    BY <1>3, <1>4, <1>5, <2>1, UnlinkedForest
  <2>3. z = Meld(scores', u, root, n)
    OBVIOUS
  <2> HIDE DEF u, z
  <2>4. /\ u \in Heaps /\ Forest(scores, u, S, {root} \cup {n})
        /\ \A x \in Element : x \notin S => u[x] = heap[x]
    BY <2>2 DEF Cut
  <2>5. Forest(scores, u, S, T) /\ n \in T /\ root \in T
    <3>1. {root} \cup {n} = T
      OBVIOUS
    <3> QED BY <2>4, <3>1
  <2> HIDE DEF T
  <2>6. Forest(scores', u, S, T)
    BY <1>2, <1>3, <1>4, <1>6, <1>7, <2>4, <2>5, RaiseForest
  <2>7. Melded(scores', u, S, T, root, n, z.heap, z.top)
    BY <1>2, <1>3, <2>1, <2>3, <2>4, <2>5, <2>6, MeldForest
  <2>8. /\ z.heap \in Heaps /\ z.top \in {root, n} /\ z.heap[z.top].next = None
        /\ \A x \in Element : x \notin S => z.heap[x] = u[x]
        /\ Forest(scores', z.heap, S, (T \ {root, n}) \cup {z.top})
    BY <2>7 DEF Melded
  <2>9. z.top \in S /\ (T \ {root, n}) \cup {z.top} = {z.top} \ {None}
    BY <1>3, <1>4, <2>8, NoneFacts DEF T
  <2>10. Forest(scores', z.heap, S, {z.top} \ {None})
    BY <2>8, <2>9
  <2>11. \A x \in Element \ S : z.heap[x] = Detached
    BY <1>4, <2>4, <2>8
  <2>12. Holds(scores', S, z)
    BY <2>8, <2>9, <2>10, <2>11 DEF Holds
  <2>13. Holds(scores', Inside(scores'), z) /\ root' = z.top /\ heap' = z.heap
    BY <1>1, <1>3, <1>9, <2>12 DEF u, z
  <2> QED BY <1>1, <1>2, <1>3, <2>13, KeepsInvariant
<1> QED BY <1>8, <1>9

\* An empty heap is a forest without trees.
LEMMA HeapInitInvariant ==
  ASSUME HeapInit
  PROVE  HeapInvariant
<1>1. Inside(scores) = {} /\ root = None /\ heap \in Heaps
      /\ \A x \in Element : heap[x] = Detached
  BY NoneFacts DEF HeapInit, Inside, Heaps, Node, Detached
<1>2. HeapTypeOK
  BY NoneFacts DEF HeapInit, HeapTypeOK, Detached, Pointer
<1> DEFINE y == Top(heap, root)
<1>3. y.heap = heap /\ y.top = root
  BY DEF Top
<1>4. Forest(scores, heap, {}, {})
  <2> DEFINE par == [x \in Element |-> None]
             pos == [x \in Element |-> 0]
  <2>1. par \in [Element -> Pointer] /\ pos \in [Element -> Nat]
    BY NoneFacts
  <2> HIDE DEF par, pos
  <2>2. Trees(scores, heap, {}, par, pos) /\ {} = {x \in {} : par[x] = None}
    BY DEF Trees
  <2> QED BY <2>1, <2>2 DEF Forest
<1>5. {root} \ {None} = {}
  BY <1>1
<1> HIDE DEF y
<1>6. Forest(scores, y.heap, Inside(scores), {y.top} \ {None})
  BY <1>1, <1>3, <1>4, <1>5
<1>7. Holds(scores, Inside(scores), y)
  BY <1>1, <1>3, <1>6 DEF Holds
<1> QED BY <1>2, <1>7 DEF HeapInvariant, y

\* Every operation keeps the invariant.
LEMMA HeapStepInvariant ==
  ASSUME HeapInvariant, [HeapNext]_heapVars
  PROVE  HeapInvariant'
<1>1. ASSUME NEW n \in Element, NEW p \in Priority,
             add(n, p) \/ increasePriority(n, p) \/ decreasePriority(n, p)
      PROVE  HeapInvariant'
  BY <1>1, AddStep, IncreaseStep, DecreaseStep
<1>2. ASSUME pop PROVE HeapInvariant'
  BY <1>2, PopStep
<1>3. ASSUME NEW n \in Element, deleteNode(n) PROVE HeapInvariant'
  BY <1>3, DeleteStep
<1>4. ASSUME UNCHANGED heapVars PROVE HeapInvariant'
  <2>1. root' = root /\ heap' = heap /\ scores' = scores /\ popped' = popped
    BY <1>4 DEF heapVars
  <2> DEFINE y == Top(heap, root)
  <2>2. Holds(scores', Inside(scores'), y) /\ root' = y.top /\ heap' = y.heap
    BY <2>1 DEF HeapInvariant, Top
  <2>3. scores' \in [Element -> Priority \cup {0}] /\ popped' \in Pointer
    BY <2>1 DEF HeapInvariant, HeapTypeOK
  <2> HIDE DEF y
  <2> QED BY <2>2, <2>3, KeepsInvariant
<1> QED BY <1>1, <1>2, <1>3, <1>4 DEF HeapNext

\* After every operation the pointers form one tree of what was added and not
\* removed, ordered by score, and nodes outside have no pointers left.
THEOREM HeapAlwaysInvariant == HeapSpec => []HeapInvariant
<1>1. HeapInit => HeapInvariant
  BY HeapInitInvariant
<1>2. HeapInvariant /\ [HeapNext]_heapVars => HeapInvariant'
  BY HeapStepInvariant
<1> QED BY <1>1, <1>2, PTL DEF HeapSpec

\* The root and every pointer of a node are null or a node.
THEOREM HeapTypeCorrect == HeapSpec => []HeapTypeOK
<1>1. HeapInvariant => HeapTypeOK
  BY DEF HeapInvariant
<1> QED BY <1>1, HeapAlwaysInvariant, PTL

\* What can be reached from the root is what has a score.
LEMMA ReachedIsInside ==
  HeapInvariant => Reached = Inside(scores)
<1> SUFFICES ASSUME HeapInvariant PROVE Reached = Inside(scores)
  OBVIOUS
<1> DEFINE S == Inside(scores)
           Closed(nodes) == /\ {root} \ {None} \subseteq nodes
                            /\ \A n \in nodes :
                                  {heap[n].child, heap[n].next} \ {None} \subseteq nodes
<1>1. Reached = {n \in Element : \A nodes \in SUBSET Element : Closed(nodes) => n \in nodes}
  BY DEF Reached
<1>2. /\ heap \in Heaps /\ scores \in [Element -> Nat] /\ root \in S \cup {None}
      /\ S \in SUBSET Element /\ (root # None => heap[root].next = None)
      /\ Forest(scores, heap, S, {root} \ {None})
  BY InvariantFacts
<1>3. PICK par \in [Element -> Pointer], pos \in [Element -> Nat] :
          Trees(scores, heap, S, par, pos) /\ {root} \ {None} = {x \in S : par[x] = None}
  BY <1>2 DEF Forest
<1> HIDE DEF S
<1>4. Closed(S)
  <2>1. {root} \ {None} \subseteq S
    BY <1>2
  <2>2. ASSUME NEW n \in S PROVE {heap[n].child, heap[n].next} \ {None} \subseteq S
    <3>1. InPlace(scores, heap, S, par, pos, n) /\ FirstChild(heap, S, par, n)
      BY <1>3 DEF Trees
    <3>2. heap[n].child # None => heap[n].child \in S
      BY <3>1 DEF FirstChild
    <3>3. heap[n].next # None => heap[n].next \in S
      <4>1. CASE par[n] = None
        <5>1. n = root /\ root # None
          BY <1>3, <4>1
        <5> QED BY <1>2, <5>1
      <4>2. CASE par[n] # None
        BY <3>1, <4>2 DEF InPlace
      <4> QED BY <4>1, <4>2
    <3> QED BY <3>2, <3>3
  <2> QED BY <2>1, <2>2
<1>5. ASSUME NEW nodes \in SUBSET Element, Closed(nodes), S \ nodes # {} PROVE FALSE
  <2> DEFINE Left == S \ nodes
             R == {p \in Left \X Left : Higher(scores, p[1], p[2])}
  <2>1. \A x, y \in Left : <<x, y>> \in R <=> Higher(scores, x, y)
    OBVIOUS
  <2>2. IsFiniteSet(Left) /\ Left \subseteq Element
    <3>1. Left \subseteq Element
      BY <1>2
    <3> HIDE DEF Left
    <3> QED BY <3>1, NoneFacts, FS_Subset
  <2>3. PICK m \in Left : \A x \in Left : <<x, m>> \notin R
    <3>1. \A x \in Left : <<x, x>> \notin R
      BY <1>2, <2>1, <2>2, HigherFacts
    <3>2. \A x, y, z \in Left : <<x, y>> \in R /\ <<y, z>> \in R => <<x, z>> \in R
      BY <1>2, <2>1, <2>2, HigherFacts
    <3>3. Left # {}
      BY <1>5
    <3> HIDE DEF Left, R
    <3> QED BY <2>2, <3>1, <3>2, <3>3, FirstOf
  <2>4. m \in S /\ m \notin nodes
    OBVIOUS
  <2>5. par[m] # None
    BY <1>3, <1>5, <2>4
  <2>6. par[m] \in S /\ par[m] \in nodes
    <3>1. par[m] \in S /\ Higher(scores, par[m], m)
      BY <1>3, <2>4, <2>5 DEF Trees, InPlace
    <3> QED BY <2>1, <2>3, <3>1
  <2> DEFINE Same == {x \in Left : par[x] = par[m]}
             B == {p \in Same \X Same : pos[p[1]] > pos[p[2]]}
  <2>7. \A x, y \in Same : <<x, y>> \in B <=> pos[x] > pos[y]
    OBVIOUS
  <2>8. PICK k \in Same : \A x \in Same : <<x, k>> \notin B
    <3>1. \A x \in Same : pos[x] \in Nat
      BY <2>2
    <3>2. \A x \in Same : <<x, x>> \notin B
      BY <2>7, <3>1
    <3>3. \A x, y, z \in Same : <<x, y>> \in B /\ <<y, z>> \in B => <<x, z>> \in B
      BY <2>7, <3>1
    <3>4. Same # {} /\ Same \subseteq Left
      BY <2>3
    <3> HIDE DEF Same, B, Left
    <3>5. IsFiniteSet(Same)
      BY <2>2, <3>4, FS_Subset
    <3> QED BY <3>2, <3>3, <3>4, <3>5, FirstOf
  <2> DEFINE q == heap[k].prev
  <2>9. /\ k \in S /\ k \notin nodes /\ par[k] = par[m]
        /\ k # None
    BY <1>2, NoneFacts
  <2>10. /\ q \in S
         /\ \/ heap[par[k]].child = k
            \/ par[q] = par[k] /\ heap[q].next = k /\ pos[q] > pos[k]
    BY <1>3, <2>5, <2>9 DEF Trees, InPlace
  <2>11. CASE heap[par[k]].child = k
    BY <1>5, <2>6, <2>9, <2>11
  <2>12. CASE par[q] = par[k] /\ heap[q].next = k /\ pos[q] > pos[k]
    <3>1. CASE q \in nodes
      BY <1>5, <2>9, <2>12, <3>1
    <3>2. CASE q \notin nodes
      <4>1. q \in Same
        BY <2>9, <2>10, <2>12, <3>2
      <4> QED BY <2>7, <2>8, <2>12, <4>1
    <3> QED BY <3>1, <3>2
  <2> QED BY <2>10, <2>11, <2>12
<1>6. S \subseteq Element
  BY <1>2
<1>7. ASSUME NEW n \in Element
      PROVE  n \in S <=> \A nodes \in SUBSET Element : Closed(nodes) => n \in nodes
  <2> HIDE DEF Closed
  <2> QED BY <1>4, <1>5, <1>6
<1>8. {n \in Element : \A nodes \in SUBSET Element : Closed(nodes) => n \in nodes} = S
  <2> HIDE DEF Closed
  <2> QED BY <1>6, <1>7
<1> QED BY <1>1, <1>8 DEF S

\* The priorities of the abstract queue.
Prio == [n \in Reached |-> scores[n]]
PrioIsScore == Prio = [n \in Inside(scores) |-> scores[n]]

\* They are the scores of all that has one.
LEMMA PrioFacts ==
  HeapInvariant => PrioIsScore
BY ReachedIsInside DEF Prio, PrioIsScore

\* The same after a step.
LEMMA NextPrioFacts ==
  HeapInvariant' => PrioIsScore'
BY PrioFacts, PTL

\* A changed score changes, adds or removes one priority and no other.
LEMMA PrioChanged ==
  ASSUME HeapInvariant, HeapInvariant', NEW n \in Element, NEW p \in Priority \cup {0},
         scores' = [scores EXCEPT ![n] = p]
  PROVE  /\ DOMAIN Prio = Inside(scores)
         /\ \A x \in Inside(scores) : Prio[x] = scores[x]
         /\ p # 0 => Prio' = [x \in DOMAIN Prio \cup {n} |-> IF x = n THEN p ELSE Prio[x]]
         /\ p = 0 => Prio' = [x \in DOMAIN Prio \ {n} |-> Prio[x]]
<1>1. Prio = [x \in Inside(scores) |-> scores[x]]
  BY PrioFacts DEF PrioIsScore
<1>2. Prio' = [x \in Inside(scores') |-> scores'[x]]
  BY NextPrioFacts DEF PrioIsScore
<1>3. /\ scores'[n] = p /\ \A x \in Element : x # n => scores'[x] = scores[x]
      /\ p # 0 => Inside(scores') = Inside(scores) \cup {n}
      /\ p = 0 => Inside(scores') = Inside(scores) \ {n}
      /\ Inside(scores) \subseteq Element
  BY ScoreFacts DEF Inside
<1> DEFINE S == Inside(scores)
           S2 == Inside(scores')
<1> HIDE DEF S, S2
<1>4. DOMAIN Prio = S /\ \A x \in S : Prio[x] = scores[x]
  BY <1>1 DEF S
<1>5. ASSUME p # 0
      PROVE  Prio' = [x \in DOMAIN Prio \cup {n} |-> IF x = n THEN p ELSE Prio[x]]
  <2>1. S2 = S \cup {n} /\ S \subseteq Element /\ Prio' = [x \in S2 |-> scores'[x]]
    BY <1>2, <1>3, <1>5 DEF S, S2
  <2>2. \A x \in S2 : scores'[x] = IF x = n THEN p ELSE Prio[x]
    BY <1>3, <1>4, <2>1
  <2> QED BY <1>4, <2>1, <2>2
<1>6. ASSUME p = 0
      PROVE  Prio' = [x \in DOMAIN Prio \ {n} |-> Prio[x]]
  <2>1. S2 = S \ {n} /\ S \subseteq Element /\ Prio' = [x \in S2 |-> scores'[x]]
    BY <1>2, <1>3, <1>6 DEF S, S2
  <2>2. \A x \in S2 : scores'[x] = Prio[x]
    BY <1>3, <1>4, <2>1
  <2> QED BY <1>4, <2>1, <2>2
<1> QED BY <1>4, <1>5, <1>6 DEF S

\* Each operation is one of the abstract queue.
LEMMA HeapStepRefines ==
  ASSUME HeapInvariant, HeapInvariant', [HeapNext]_heapVars
  PROVE  [Queue!QueueNext]_(Queue!queueVars)
<1> USE DEF Queue!QueueNext, Queue!Insert, Queue!Change, Queue!TakeFirst, Queue!Delete,
            Queue!With, Queue!Without, Queue!Waiting, Queue!Precedes
<1>1. ASSUME NEW n \in Element, NEW p \in Priority, add(n, p)
      PROVE  Queue!Insert(n, p)
  <2>1. scores' = [scores EXCEPT ![n] = p] /\ popped' = popped /\ n \notin Inside(scores)
    BY <1>1 DEF add, Inside
  <2>2. p # 0
    BY HeapAssumption
  <2>3. /\ DOMAIN Prio = Inside(scores)
        /\ Prio' = [x \in DOMAIN Prio \cup {n} |-> IF x = n THEN p ELSE Prio[x]]
    BY <2>1, <2>2, PrioChanged
  <2> QED BY <2>1, <2>3 DEF Prio
<1>2. ASSUME NEW n \in Element, NEW p \in Priority,
             increasePriority(n, p) \/ decreasePriority(n, p)
      PROVE  Queue!Change(n, p)
  <2>1. scores' = [scores EXCEPT ![n] = p] /\ popped' = popped /\ n \in Inside(scores)
    BY <1>2 DEF increasePriority, decreasePriority, Inside
  <2>2. p # 0
    BY HeapAssumption
  <2>3. /\ DOMAIN Prio = Inside(scores)
        /\ Prio' = [x \in DOMAIN Prio \cup {n} |-> IF x = n THEN p ELSE Prio[x]]
    BY <2>1, <2>2, PrioChanged
  <2> QED BY <2>1, <2>3 DEF Prio
<1>3. ASSUME pop PROVE Queue!TakeFirst
  <2>1. /\ popped' = root /\ root \in Inside(scores)
        /\ \A x \in Inside(scores) \ {root} : Higher(scores, root, x)
        /\ scores' = [scores EXCEPT ![root] = 0]
    BY <1>3, PopStep
  <2>2. root \in Element
    BY <2>1 DEF Inside
  <2>3. /\ DOMAIN Prio = Inside(scores)
        /\ \A x \in Inside(scores) : Prio[x] = scores[x]
        /\ Prio' = [x \in DOMAIN Prio \ {root} |-> Prio[x]]
    BY <2>1, <2>2, PrioChanged
  <2>4. \A x \in DOMAIN Prio \ {root} :
           Prio[root] > Prio[x] \/ (Prio[root] = Prio[x] /\ root > x)
    BY <2>1, <2>3 DEF Higher
  <2> QED BY <2>1, <2>3, <2>4 DEF Prio
<1>4. ASSUME NEW n \in Element, deleteNode(n)
      PROVE  Queue!Delete(n)
  <2>1. scores' = [scores EXCEPT ![n] = 0] /\ popped' = popped /\ n \in Inside(scores)
    BY <1>4 DEF deleteNode, Inside
  <2>2. /\ DOMAIN Prio = Inside(scores)
        /\ Prio' = [x \in DOMAIN Prio \ {n} |-> Prio[x]]
    BY <2>1, PrioChanged
  <2> QED BY <2>1, <2>2 DEF Prio
<1>5. ASSUME UNCHANGED heapVars PROVE UNCHANGED Queue!queueVars
  <2>1. root' = root /\ heap' = heap /\ scores' = scores /\ popped' = popped
    BY <1>5 DEF heapVars
  <2>2. Reached' = Reached
    BY <2>1 DEF Reached
  <2> QED BY <2>1, <2>2 DEF Queue!queueVars
<1> HIDE DEF Queue!Insert, Queue!Change, Queue!TakeFirst, Queue!Delete
<1> QED BY <1>1, <1>2, <1>3, <1>4, <1>5 DEF HeapNext

\* Whatever was melded, cut out and melded again before: what can be reached from
\* the root is what was added and not removed, with its score, and pop takes the
\* highest.  No operation loses a node or leaves a removed one behind.
THEOREM HeapIsPriorityQueue == HeapSpec => IsPriorityQueue
<1>1. HeapInit => Queue!QueueInit
  <2> SUFFICES ASSUME HeapInit PROVE Queue!QueueInit
    OBVIOUS
  <2>1. Reached = {}
    <3>1. Inside(scores) = {}
      BY DEF HeapInit, Inside
    <3> QED BY <3>1, HeapInitInvariant, ReachedIsInside
  <2> QED BY <2>1 DEF HeapInit, None, Queue!QueueInit, Queue!Waiting
<1>2. HeapInvariant /\ HeapInvariant' /\ [HeapNext]_heapVars
         => [Queue!QueueNext]_(Queue!queueVars)
  BY HeapStepRefines
<1> QED BY <1>1, <1>2, HeapAlwaysInvariant, PTL DEF HeapSpec, IsPriorityQueue, Queue!QueueSpec
=============================================================================
