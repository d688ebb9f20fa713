----------------------------- MODULE RedisQueue -----------------------------
(***************************************************************************)
(* The queues in front of the Redis cache of the mempool                   *)
(* (src/backend/src/api/redis-cache.ts): transactions to be written and    *)
(* transactions to be removed, kept while Redis cannot be reached.         *)
(*                                                                         *)
(* The callers are the main loop (api/mempool.ts, api/blocks.ts) and what  *)
(* runs whenever the connection is back, which may not be done when the    *)
(* connection is lost and back again.  A command is executed in the order  *)
(* in which it is sent; its reply comes later, and one that fails may have *)
(* been executed or not.  Transactions keep their identity, not their      *)
(* content; the queues of the replacement cache are left out.              *)
(***************************************************************************)
EXTENDS Integers, Sequences, FiniteSets

CONSTANTS
    Tx,
    FlushLimit,     \* txFlushLimit
    BatchSize,      \* REDIS.BATCH_QUERY_BASE_SIZE
    Connections,    \* bound of the model: calls of $onConnected in progress
    MaxQueue,       \* bound of the model: length of cacheQueue, of removeQueue
    MaxOutages      \* bound of the model: failed commands, disconnections, kills

ASSUME RedisAssumption ==
    /\ FlushLimit \in Nat \ {0} /\ BatchSize \in Nat \ {0} /\ "loop" \notin Connections
    /\ MaxQueue \in Nat /\ MaxOutages \in Nat

VARIABLES
    pool,           \* mempoolCache
    deleted,        \* what the main loop is about to remove from Redis
    cacheQueue,
    removeQueue,
    pauseFlush,
    connected,
    inRedis,         \* the transactions Redis has
    at,             \* caller -> where it is
    toAdd,          \* caller -> the slice it has sent
    toRemove,       \* caller -> the transactions whose removal it has not sent yet
    failed,         \* caller -> the transactions of its commands that fail
    outages,
    strayed         \* history: see Overlap, Late and Lost

redisVars == <<pool, deleted, cacheQueue, removeQueue, pauseFlush, connected,
               inRedis, at, toAdd, toRemove, failed, outages, strayed>>

Caller == {"loop"} \cup Connections
Place == {"idle", "add", "flush", "addSent", "flushSent", "remove", "removeSent"}

RangeOf(s) == {s[i] : i \in DOMAIN s}
Waiting == RangeOf(cacheQueue)

RedisTypeOK ==
    /\ pool \subseteq Tx /\ deleted \in Seq(Tx)
    /\ cacheQueue \in Seq(Tx) /\ Len(cacheQueue) <= MaxQueue
    /\ removeQueue \in Seq(Tx)
    /\ pauseFlush \in BOOLEAN /\ connected \in BOOLEAN
    /\ inRedis \subseteq Tx
    /\ at \in [Caller -> Place]
    /\ toAdd \in [Caller -> Seq(Tx)]
    /\ toRemove \in [Caller -> Seq(Tx)]
    /\ failed \in [Caller -> Seq(Tx)]
    /\ outages \in 0..MaxOutages
    /\ strayed \in BOOLEAN

RedisInit ==
    /\ pool = {} /\ deleted = <<>>
    /\ cacheQueue = <<>> /\ removeQueue = <<>>
    /\ pauseFlush = FALSE /\ connected = TRUE
    /\ inRedis = {}
    /\ at = [c \in Caller |-> "idle"]
    /\ toAdd = [c \in Caller |-> <<>>]
    /\ toRemove = [c \in Caller |-> <<>>]
    /\ failed = [c \in Caller |-> <<>>]
    /\ outages = 0
    /\ strayed = FALSE

Goes(c, place) == at' = [at EXCEPT ![c] = place]
Outage == outages < MaxOutages /\ outages' = outages + 1

(***************************************************************************)
(* The main loop                                                           *)
(***************************************************************************)

\* $addTransaction: a full queue is flushed at once unless a flush has failed.
AddTransaction(t) ==
    /\ at["loop"] = "idle"
    /\ t \notin pool \cup RangeOf(deleted)
    /\ Len(cacheQueue) < MaxQueue
    /\ pool' = pool \cup {t}
    /\ cacheQueue' = Append(cacheQueue, t)
    /\ Goes("loop", IF Len(cacheQueue') >= FlushLimit /\ ~pauseFlush
                    THEN "add" ELSE "idle")
    /\ UNCHANGED <<deleted, removeQueue, pauseFlush, connected, inRedis, toAdd,
                   toRemove, failed, outages, strayed>>

\* Transactions in any order, each once.
Lists(txs) ==
    {s \in UNION {[1..n -> txs] : n \in 0..MaxQueue} :
        \A i, j \in DOMAIN s : s[i] = s[j] => i = j}

\* Transactions leave the mempool and are to be removed from Redis.
Delete(gone) ==
    /\ at["loop"] = "idle"
    /\ gone = <<>> \/ Len(removeQueue) + Len(gone) <= MaxQueue
    /\ pool' = pool \ RangeOf(gone)
    /\ deleted' = gone
    /\ UNCHANGED <<cacheQueue, removeQueue, pauseFlush, connected, inRedis, toAdd,
                   toRemove, failed, outages, strayed>>

\* The end of a round: what has left the node's mempool is deleted, the queue
\* is flushed, the deleted transactions are removed.
EndRound(gone) == Delete(gone) /\ Goes("loop", "flush")

\* A block: its transactions are removed and nothing is flushed before.
HandleMined(mined) == Delete(mined) /\ Goes("loop", "remove")

(***************************************************************************)
(* $flushTransactions                                                      *)
(***************************************************************************)

SkipFlush(c) ==
    /\ at[c] \in {"add", "flush"}
    /\ cacheQueue = <<>> \/ ~connected
    /\ Goes(c, IF at[c] = "add" THEN "idle" ELSE "remove")
    /\ UNCHANGED <<pool, deleted, cacheQueue, removeQueue, pauseFlush, connected,
                   inRedis, toAdd, toRemove, failed, outages, strayed>>

\* A second flush sends the slice of the first one again, and each of them
\* cuts its length off the queue: transactions that came between the two cuts
\* are never sent.
Overlap(c) == \E d \in Caller \ {c} : at[d] \in {"addSent", "flushSent"}

FirstOf(limit, q) == IF Len(q) <= limit THEN q ELSE SubSeq(q, 1, limit)

RestOf(limit, q) == SubSeq(q, Len(FirstOf(limit, q)) + 1, Len(q))

Slice == FirstOf(FlushLimit, cacheQueue)

SendFlush(c) ==
    /\ at[c] \in {"add", "flush"}
    /\ cacheQueue # <<>> /\ connected
    /\ Goes(c, IF at[c] = "add" THEN "addSent" ELSE "flushSent")
    /\ pauseFlush' = FALSE
    /\ toAdd' = [toAdd EXCEPT ![c] = Slice]
    /\ \/ /\ inRedis' = inRedis \cup RangeOf(Slice)
          /\ failed' = [failed EXCEPT ![c] = <<>>]
          /\ UNCHANGED outages
       \/ /\ Outage
          /\ inRedis' \in {inRedis, inRedis \cup RangeOf(Slice)}
          /\ failed' = [failed EXCEPT ![c] = Slice]
    /\ strayed' = (strayed \/ Overlap(c))
    /\ UNCHANGED <<pool, deleted, cacheQueue, removeQueue, connected, toRemove>>

\* Mutant: a failed slice is cut off the queue as well.
FlushReplyCut(c) ==
    /\ at[c] \in {"addSent", "flushSent"}
    /\ cacheQueue' = SubSeq(cacheQueue, Len(toAdd[c]) + 1, Len(cacheQueue))
    /\ pauseFlush' = (pauseFlush \/ failed[c] # <<>>)
    /\ Goes(c, IF at[c] = "addSent" THEN "idle" ELSE "remove")
    /\ toAdd' = [toAdd EXCEPT ![c] = <<>>]
    /\ failed' = [failed EXCEPT ![c] = <<>>]
    /\ UNCHANGED <<pool, deleted, removeQueue, connected, inRedis, toRemove,
                   outages, strayed>>

\* The saved slice is cut off the queue; a failure pauses $addTransaction.
FlushReply(c) ==
    /\ at[c] \in {"addSent", "flushSent"}
    /\ IF failed[c] = <<>>
       THEN /\ cacheQueue' = SubSeq(cacheQueue, Len(toAdd[c]) + 1, Len(cacheQueue))
            /\ UNCHANGED pauseFlush
       ELSE pauseFlush' = TRUE /\ UNCHANGED cacheQueue
    /\ Goes(c, IF at[c] = "addSent" THEN "idle" ELSE "remove")
    /\ toAdd' = [toAdd EXCEPT ![c] = <<>>]
    /\ failed' = [failed EXCEPT ![c] = <<>>]
    /\ UNCHANGED <<pool, deleted, removeQueue, connected, inRedis, toRemove,
                   outages, strayed>>

(***************************************************************************)
(* $removeTransactions                                                     *)
(***************************************************************************)

Removed(c) == removeQueue \o (IF c = "loop" THEN deleted ELSE <<>>)

\* A removal overtakes a write that still waits, or comes again for a
\* transaction that is back in the mempool.
Late(txs) == RangeOf(txs) \cap (Waiting \cup pool) # {}

\* One slice of a list.  It fails on its own, and may have been executed all the
\* same unless there is no connection.
SendSlice(c, list, failures) ==
    LET slice == FirstOf(BatchSize, list)
    IN
    /\ toRemove' = [toRemove EXCEPT ![c] = RestOf(BatchSize, list)]
    /\ \/ /\ connected
          /\ failed' = [failed EXCEPT ![c] = failures]
          /\ inRedis' = inRedis \ RangeOf(slice)
          /\ UNCHANGED outages
       \/ /\ failed' = [failed EXCEPT ![c] = failures \o slice]
          /\ IF connected
             THEN Outage /\ inRedis' \in {inRedis, inRedis \ RangeOf(slice)}
             ELSE UNCHANGED <<outages, inRedis>>
    /\ strayed' = (strayed \/ Late(slice))

\* The queue is taken and its first slice sent, or kept if there is no connection.
SendRemove(c) ==
    /\ at[c] = "remove"
    /\ deleted' = IF c = "loop" THEN <<>> ELSE deleted
    /\ IF connected /\ Removed(c) # <<>>
       THEN /\ Goes(c, "removeSent")
            /\ removeQueue' = <<>>
            /\ SendSlice(c, Removed(c), <<>>)
       ELSE /\ Goes(c, "idle")
            /\ removeQueue' = Removed(c)
            /\ UNCHANGED <<toRemove, failed, inRedis, outages, strayed>>
    /\ UNCHANGED <<pool, cacheQueue, pauseFlush, connected, toAdd>>

\* Each slice is sent when the one before has been answered.
SendNextSlice(c) ==
    /\ at[c] = "removeSent"
    /\ toRemove[c] # <<>>
    /\ SendSlice(c, toRemove[c], failed[c])
    /\ UNCHANGED <<pool, deleted, cacheQueue, removeQueue, pauseFlush, connected, at,
                   toAdd>>

\* Mutant: the failed removals replace what was queued in the meantime.
RemoveReplyReplacing(c) ==
    /\ at[c] = "removeSent"
    /\ toRemove[c] = <<>>
    /\ removeQueue' = failed[c]
    /\ Goes(c, "idle")
    /\ failed' = [failed EXCEPT ![c] = <<>>]
    /\ UNCHANGED <<pool, deleted, cacheQueue, pauseFlush, connected, inRedis,
                   toAdd, toRemove, outages, strayed>>

\* "concat instead of replace, in case more txs have been added".
RemoveReply(c) ==
    /\ at[c] = "removeSent"
    /\ toRemove[c] = <<>>
    /\ removeQueue' = removeQueue \o failed[c]
    /\ Goes(c, "idle")
    /\ failed' = [failed EXCEPT ![c] = <<>>]
    /\ UNCHANGED <<pool, deleted, cacheQueue, pauseFlush, connected, inRedis,
                   toAdd, toRemove, outages, strayed>>

(***************************************************************************)
(* The connection and the process                                          *)
(***************************************************************************)

Disconnect ==
    /\ connected
    /\ Outage
    /\ connected' = FALSE
    /\ UNCHANGED <<pool, deleted, cacheQueue, removeQueue, pauseFlush, inRedis,
                   at, toAdd, toRemove, failed, strayed>>

\* $onConnected: flush, then the queued removals.
OnConnected(c) ==
    /\ ~connected
    /\ at[c] = "idle"
    /\ connected' = TRUE
    /\ Goes(c, "flush")
    /\ UNCHANGED <<pool, deleted, cacheQueue, removeQueue, pauseFlush, inRedis,
                   toAdd, toRemove, failed, outages, strayed>>

\* An exception ends the main loop's round between deletion and removal.
Lost == deleted # <<>>

AbandonRound ==
    /\ at["loop"] \in {"flush", "remove"}
    /\ Outage
    /\ Goes("loop", "idle")
    /\ deleted' = <<>>
    /\ strayed' = (strayed \/ Lost)
    /\ UNCHANGED <<pool, cacheQueue, removeQueue, pauseFlush, connected, inRedis,
                   toAdd, toRemove, failed>>

\* The process starts again from what Redis has; unreached, from nothing.
RestartFromRedis(reached) ==
    /\ Outage
    /\ pool' = IF reached THEN inRedis ELSE {}
    /\ deleted' = <<>>
    /\ cacheQueue' = <<>> /\ removeQueue' = <<>>
    /\ pauseFlush' = FALSE
    /\ connected' = reached
    /\ at' = [c \in Caller |-> "idle"]
    /\ toAdd' = [c \in Caller |-> <<>>]
    /\ toRemove' = [c \in Caller |-> <<>>]
    /\ failed' = [c \in Caller |-> <<>>]
    /\ strayed' = (strayed \/ (~reached /\ inRedis # {}))
    /\ UNCHANGED inRedis

RedisNext ==
    \/ \E t \in Tx : AddTransaction(t)
    \/ \E txs \in Lists(pool) : EndRound(txs) \/ HandleMined(txs)
    \/ \E c \in Caller :
          \/ SkipFlush(c) \/ SendFlush(c) \/ FlushReply(c)
          \/ SendRemove(c) \/ SendNextSlice(c) \/ RemoveReply(c)
    \/ \E c \in Connections : OnConnected(c)
    \/ Disconnect \/ AbandonRound
    \/ \E reached \in BOOLEAN : RestartFromRedis(reached)

RedisSpec == RedisInit /\ [][RedisNext]_redisVars

(***************************************************************************)
(* Properties                                                              *)
(***************************************************************************)

\* A transaction of the mempool is in Redis or waits to be written, through
\* failures, disconnections and restarts.
StoredOrQueued == ~strayed => pool \subseteq inRedis \cup Waiting

\* What Redis holds beyond the mempool is on its way out: it waits for a
\* removal, or a removal of it is about to be sent or has failed. Else the next start
\* would load transactions that nobody knows.
LeftoversGo ==
    ~strayed => \A t \in inRedis \ pool :
        \/ t \in RangeOf(removeQueue) \cup RangeOf(deleted) \cup Waiting
        \/ \E c \in Caller : t \in RangeOf(toRemove[c]) \cup RangeOf(failed[c])
=============================================================================
