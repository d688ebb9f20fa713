----------------------------- MODULE PairingHeap -----------------------------
(***************************************************************************)
(* The pairing heap of src/backend/src/utils/pairing-heap.ts, which holds  *)
(* the transactions whose score has changed for tx-selection-worker.ts.    *)
(*                                                                         *)
(* The pointers are modelled one by one.  A node is its element; one that  *)
(* has left the heap is garbage and its pointers are forgotten.  The       *)
(* caller changes a score and then tells the heap in which direction.      *)
(***************************************************************************)
EXTENDS Integers, Sequences, FiniteSets

CONSTANTS
    Element,        \* uids, greater than 0
    Priority        \* the scores

ASSUME HeapAssumption ==
    /\ Element \subseteq Nat \ {0} /\ IsFiniteSet(Element)
    /\ Priority \subseteq Nat \ {0}

None == 0

VARIABLES
    root,
    heap,           \* the pointers child, next and prev of every node
    scores,         \* 0 for an element that is not in the heap
    popped          \* the element that was popped last

heapVars == <<root, heap, scores, popped>>

Pointer == Element \cup {None}

HeapTypeOK ==
    /\ root \in Pointer
    /\ heap \in [Element -> [child : Pointer, next : Pointer, prev : Pointer]]
    /\ scores \in [Element -> Priority \cup {0}]
    /\ popped \in Pointer

Detached == [child |-> None, next |-> None, prev |-> None]

HeapInit ==
    /\ root = None
    /\ heap = [n \in Element |-> Detached]
    /\ scores = [n \in Element |-> 0]
    /\ popped = None

(***************************************************************************)
(* Melding                                                                 *)
(***************************************************************************)

\* The comparator of tx-selection-worker.ts.
Higher(s, a, b) == s[a] > s[b] \/ (s[a] = s[b] /\ a > b)

\* A heap with the node on top of it: what meld returns and has changed.
Top(h, n) == [heap |-> h, top |-> n]

Adopt(h, parent, child) ==
    [n \in Element |->
        CASE n = parent -> [child |-> child, next |-> None, prev |-> None]
          [] n = child -> [child |-> h[child].child, next |-> h[parent].child,
                           prev |-> parent]
          [] n = h[parent].child -> [h[n] EXCEPT !.prev = child]
          [] OTHER -> h[n]]

Meld(s, h, a, b) ==
    CASE a = None -> Top(h, b)
      [] a # None /\ b \in {None, a} -> Top(h, a)
      [] OTHER -> IF Higher(s, a, b) THEN Top(Adopt(h, a, b), a)
                  ELSE Top(Adopt(h, b, a), b)

(***************************************************************************)
(* mergePairs                                                              *)
(***************************************************************************)

\* A turn of the first loop: the node it is at and the next sibling are melded
\* and put on the list of pairs.  A node without a sibling is the last.
MeldTwo(s, loop) ==
    LET first == loop.current
        second == loop.heap[first].next
        melded == Meld(s, loop.heap, first, second)
    IN  CASE first = None -> loop
          [] first # None /\ second = None ->
                [heap |-> [loop.heap EXCEPT ![first].prev = None],
                 current |-> None, pairs |-> <<first>> \o loop.pairs]
          [] OTHER ->
                [heap |-> melded.heap, current |-> loop.heap[second].next,
                 pairs |-> <<melded.top>> \o loop.pairs]

\* The first loop: there are no more turns than nodes.
Pairs(s, h, first) ==
    LET loop[i \in 0..Cardinality(Element)] ==
            IF i = 0 THEN [heap |-> h, current |-> first, pairs |-> <<>>]
            ELSE MeldTwo(s, loop[i - 1])
    IN  loop[Cardinality(Element)]

\* The second loop: the pairs are melded into one, the last pair first.
MeldAll(s, h, pairs) ==
    LET melded[i \in 0..Len(pairs)] ==
            IF i = 0 THEN Top(h, None)
            ELSE Meld(s, melded[i - 1].heap, melded[i - 1].top, pairs[i])
    IN  melded[Len(pairs)]

MergePairs(s, h, first) ==
    LET paired == Pairs(s, h, first) IN MeldAll(s, paired.heap, paired.pairs)

(***************************************************************************)
(* The operations                                                          *)
(***************************************************************************)

Becomes(result) == root' = result.top /\ heap' = result.heap

add(n, p) ==
    /\ scores[n] = 0
    /\ scores' = [scores EXCEPT ![n] = p]
    /\ Becomes(Meld(scores', heap, root, n))
    /\ UNCHANGED popped

pop ==
    LET merged == MergePairs(scores, heap, heap[root].child)
    IN
    /\ root # None
    /\ popped' = root
    /\ scores' = [scores EXCEPT ![root] = 0]
    /\ root' = merged.top
    /\ heap' = [merged.heap EXCEPT ![root] = Detached]

\* Mutant: the next sibling still points to the node.
UnlinkedHalf(h, n) ==
    [m \in Element |->
        CASE m = h[n].prev /\ h[m].child = n -> [h[m] EXCEPT !.child = h[n].next]
          [] m = h[n].prev /\ h[m].child # n -> [h[m] EXCEPT !.next = h[n].next]
          [] OTHER -> h[m]]

\* The node and what is below it are taken out from between its siblings.
Unlinked(h, n) ==
    [m \in Element |->
        CASE m = h[n].prev /\ h[m].child = n -> [h[m] EXCEPT !.child = h[n].next]
          [] m = h[n].prev /\ h[m].child # n -> [h[m] EXCEPT !.next = h[n].next]
          [] m = h[n].next -> [h[m] EXCEPT !.prev = h[n].prev]
          [] OTHER -> h[m]]

Deleted(s, n) ==
    LET without == IF n = root THEN heap ELSE Unlinked(heap, n)
        merged == MergePairs(s, without, heap[n].child)
        rest == IF n = root THEN merged ELSE Meld(s, merged.heap, root, merged.top)
    IN  Top([rest.heap EXCEPT ![n] = Detached], rest.top)

deleteNode(n) ==
    /\ scores[n] # 0
    /\ Becomes(Deleted(scores, n))
    /\ scores' = [scores EXCEPT ![n] = 0]
    /\ UNCHANGED popped

\* A first child whose parent is still higher stays where it is; any other node
\* is melded with the root, even below a parent that is higher.
increasePriority(n, p) ==
    LET prev == heap[n].prev
    IN
    /\ scores[n] # 0 /\ p > scores[n]
    /\ scores' = [scores EXCEPT ![n] = p]
    /\ IF n = root \/ (heap[prev].child = n /\ Higher(scores', prev, n))
       THEN UNCHANGED <<root, heap>>
       ELSE Becomes(Meld(scores', Unlinked(heap, n), root, n))
    /\ UNCHANGED popped

decreasePriority(n, p) ==
    /\ scores[n] # 0 /\ p < scores[n]
    /\ scores' = [scores EXCEPT ![n] = p]
    /\ LET rest == Deleted(scores', n)
       IN  Becomes(Meld(scores', rest.heap, rest.top, n))
    /\ UNCHANGED popped

HeapNext ==
    \/ \E n \in Element, p \in Priority :
          add(n, p) \/ increasePriority(n, p) \/ decreasePriority(n, p)
    \/ pop
    \/ \E n \in Element : deleteNode(n)

HeapSpec == HeapInit /\ [][HeapNext]_heapVars

(***************************************************************************)
(* Properties                                                              *)
(***************************************************************************)

\* The nodes that any set has which has the root and what its members point to.
Reached ==
    LET Holds(nodes) ==
            /\ {root} \ {None} \subseteq nodes
            /\ \A n \in nodes : {heap[n].child, heap[n].next} \ {None} \subseteq nodes
    IN  {n \in Element : \A nodes \in SUBSET Element : Holds(nodes) => n \in nodes}

Queue == INSTANCE PriorityQueue
            WITH priority <- [n \in Reached |-> scores[n]],
                 taken <- popped

\* The pointers implement a priority queue: what can be reached from the root is
\* what was added and not removed, and pop takes the highest, whatever was melded,
\* cut out and melded again before.
IsPriorityQueue == Queue!QueueSpec
=============================================================================
