------------------------------- MODULE PLimit -------------------------------
(***************************************************************************)
(* The promise limiter (src/backend/src/utils/p-limit.ts), which           *)
(* $getMempoolTransactionsExtended puts before the node                    *)
(* (src/backend/src/api/transaction-utils.ts).                             *)
(*                                                                         *)
(* A call is a function handed to the limiter.  Enqueueing it leaves a     *)
(* microtask behind that looks later whether a call may start, so that     *)
(* checks, new calls and calls that end interleave freely.  clearQueue,    *)
(* which nothing in src/ uses, is left out.                                *)
(***************************************************************************)
EXTENDS Integers, Sequences, FiniteSets

CONSTANTS
    Call,           \* the calls that are ever made
    Concurrency     \* how many may run at a time

ASSUME LimitAssumption == IsFiniteSet(Call) /\ Concurrency \in Nat \ {0}

VARIABLES
    callQueue,      \* calls that wait, oldest first
    checks,         \* microtasks that have not run yet
    activeCount,    \* calls the limiter believes to be running
    running,        \* calls that have started and not ended
    finished        \* calls that have ended

limitVars == <<callQueue, checks, activeCount, running, finished>>

Queued == {callQueue[i] : i \in DOMAIN callQueue}

LimitTypeOK ==
    /\ callQueue \in Seq(Call)
    /\ checks \in Nat
    /\ activeCount \in Int
    /\ running \subseteq Call
    /\ finished \subseteq Call

LimitInit ==
    /\ callQueue = <<>>
    /\ checks = 0
    /\ activeCount = 0
    /\ running = {}
    /\ finished = {}

\* limiter(fn): the call is queued and the check is left to a microtask.
EnqueueCall(c) ==
    /\ c \notin Queued \cup running \cup finished
    /\ callQueue' = Append(callQueue, c)
    /\ checks' = checks + 1
    /\ UNCHANGED <<activeCount, running, finished>>

\* Mutant: the check forgets that a running call takes a slot.
CheckQueueUnlimited ==
    /\ checks > 0
    /\ checks' = checks - 1
    /\ IF callQueue # <<>>
       THEN /\ callQueue' = Tail(callQueue)
            /\ activeCount' = activeCount + 1
            /\ running' = running \cup {Head(callQueue)}
       ELSE UNCHANGED <<callQueue, activeCount, running>>
    /\ UNCHANGED finished

\* The microtask: the oldest call starts if there is a slot for it.
CheckQueue ==
    /\ checks > 0
    /\ checks' = checks - 1
    /\ IF activeCount < Concurrency /\ callQueue # <<>>
       THEN /\ callQueue' = Tail(callQueue)
            /\ activeCount' = activeCount + 1
            /\ running' = running \cup {Head(callQueue)}
       ELSE UNCHANGED <<callQueue, activeCount, running>>
    /\ UNCHANGED finished

\* Mutant: a call that ends frees its slot and starts nothing.
FinishCallAlone(c) ==
    /\ c \in running
    /\ finished' = finished \cup {c}
    /\ running' = running \ {c}
    /\ activeCount' = activeCount - 1
    /\ UNCHANGED <<callQueue, checks>>

\* A call ends, well or badly, and next() starts the oldest one that waits.
FinishCall(c) ==
    /\ c \in running
    /\ finished' = finished \cup {c}
    /\ IF callQueue # <<>>
       THEN /\ callQueue' = Tail(callQueue)
            /\ activeCount' = activeCount - 1 + 1
            /\ running' = (running \ {c}) \cup {Head(callQueue)}
       ELSE /\ activeCount' = activeCount - 1
            /\ running' = running \ {c}
            /\ UNCHANGED callQueue
    /\ UNCHANGED checks

LimitNext ==
    \/ \E c \in Call : EnqueueCall(c) \/ FinishCall(c)
    \/ CheckQueue

\* Microtasks always run, and a request ends: the clients have timeouts.
LimitFairness ==
    /\ WF_limitVars(CheckQueue)
    /\ \A c \in Call : WF_limitVars(FinishCall(c))

LimitSpec == LimitInit /\ [][LimitNext]_limitVars /\ LimitFairness

(***************************************************************************)
(* Properties                                                              *)
(***************************************************************************)

\* Never more calls run than the limit allows, and once the microtasks have
\* run no call waits beside a free slot: next() and the checks between them
\* lose no wakeup and start no call twice.
WorkConserving ==
    /\ activeCount = Cardinality(running)
    /\ activeCount <= Concurrency
    /\ checks = 0 /\ callQueue # <<>> => activeCount = Concurrency

\* Every call that was queued ends: there are finitely many, so from some moment on
\* none waits or runs.
EveryCallEnds == <>[](Queued \cup running = {})
=============================================================================
