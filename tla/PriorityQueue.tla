---------------------------- MODULE PriorityQueue ----------------------------
(***************************************************************************)
(* What a priority queue promises: the abstract specification that         *)
(* PairingHeap implements.                                                 *)
(***************************************************************************)
EXTENDS Integers

CONSTANTS
    Element,        \* numbers: the uids of transactions
    Priority        \* what a priority may be

VARIABLES
    priority,       \* the elements of the queue -> their priorities
    taken           \* the element that was taken last, 0 before the first

queueVars == <<priority, taken>>

Waiting == DOMAIN priority

\* Of two with the same priority the higher number comes first.
Precedes(e, f) == priority[e] > priority[f] \/ (priority[e] = priority[f] /\ e > f)

Without(e) == [f \in Waiting \ {e} |-> priority[f]]
With(e, p) == [f \in Waiting \cup {e} |-> IF f = e THEN p ELSE priority[f]]

QueueInit == Waiting = {} /\ taken = 0

Insert(e, p) ==
    /\ e \notin Waiting
    /\ priority' = With(e, p)
    /\ UNCHANGED taken

TakeFirst ==
    \E e \in Waiting :
        /\ \A f \in Waiting \ {e} : Precedes(e, f)
        /\ taken' = e
        /\ priority' = Without(e)

Change(e, p) ==
    /\ e \in Waiting
    /\ priority' = With(e, p)
    /\ UNCHANGED taken

Delete(e) ==
    /\ e \in Waiting
    /\ priority' = Without(e)
    /\ UNCHANGED taken

QueueNext ==
    \/ \E e \in Element, p \in Priority : Insert(e, p) \/ Change(e, p)
    \/ TakeFirst
    \/ \E e \in Element : Delete(e)

QueueSpec == QueueInit /\ [][QueueNext]_queueVars
=============================================================================
