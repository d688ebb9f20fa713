--------------------------- MODULE ServicesProofs ---------------------------
(***************************************************************************)
(* Proofs about the components that have no state in common with others:   *)
(* PLimit, for any number of calls and any limit; DiskCache, for any number *)
(* of files, blocks and mishaps; RedisQueue, for any transactions and any  *)
(* limit of a batch; Indexer, for any number of calls in progress; Failover, *)
(* for any hosts and any number of requests.                               *)
(***************************************************************************)
EXTENDS PLimit, DiskCache, RedisQueue, Indexer, Failover, FiniteSetTheorems, SequenceTheorems, TLAPS

-----------------------------------------------------------------------------
(* PLimit *)

\* No call is twice in the queue.
Distinct == \A i, j \in DOMAIN callQueue : callQueue[i] = callQueue[j] => i = j

\* While there is a free slot, a microtask is left for every call that waits: it
\* is this that makes the limiter lose no wakeup.
EnoughChecks == activeCount < Concurrency => Len(callQueue) <= checks

LimitInv ==
    /\ LimitTypeOK
    /\ activeCount = Cardinality(running)
    /\ activeCount <= Concurrency
    /\ Distinct
    /\ Queued \cap running = {}
    /\ EnoughChecks

\* What starting the oldest call does to the queue: it is in it no more.
LEMMA StartOldest ==
    ASSUME callQueue \in Seq(Call), callQueue # <<>>, Distinct,
           callQueue' = Tail(callQueue)
    PROVE  /\ Head(callQueue) \in Queued
           /\ callQueue' \in Seq(Call)
           /\ Len(callQueue') = Len(callQueue) - 1
           /\ Distinct'
           /\ Queued' \subseteq Queued \ {Head(callQueue)}
<1>1. /\ callQueue' \in Seq(Call)
      /\ Len(callQueue) \in Nat \ {0}
      /\ Len(callQueue') = Len(callQueue) - 1
      /\ DOMAIN callQueue = 1..Len(callQueue)
      /\ DOMAIN callQueue' = 1..Len(callQueue')
      /\ Head(callQueue) = callQueue[1]
      /\ \A i \in DOMAIN callQueue' : callQueue'[i] = callQueue[i + 1]
  OBVIOUS
<1>2. Distinct'
  BY <1>1 DEF Distinct
<1>3. Queued' \subseteq Queued \ {Head(callQueue)}
  BY <1>1 DEF Distinct, Queued
<1> QED BY <1>1, <1>2, <1>3 DEF Queued

\* A new call is last in the queue.
LEMMA AppendCall ==
    ASSUME callQueue \in Seq(Call), Distinct, NEW c \in Call, c \notin Queued,
           callQueue' = Append(callQueue, c)
    PROVE  /\ callQueue' \in Seq(Call)
           /\ Len(callQueue') = Len(callQueue) + 1
           /\ Distinct'
           /\ Queued' = Queued \cup {c}
<1>1. /\ callQueue' \in Seq(Call)
      /\ Len(callQueue) \in Nat
      /\ Len(callQueue') = Len(callQueue) + 1
      /\ DOMAIN callQueue = 1..Len(callQueue)
      /\ DOMAIN callQueue' = 1..Len(callQueue) + 1
      /\ callQueue'[Len(callQueue) + 1] = c
      /\ \A i \in DOMAIN callQueue : callQueue'[i] = callQueue[i]
  OBVIOUS
<1>2. Distinct'
  BY <1>1 DEF Distinct, Queued
<1>3. Queued' = Queued \cup {c}
  BY <1>1 DEF Queued
<1> QED BY <1>1, <1>2, <1>3

LEMMA LimitInvInit == LimitInit => LimitInv
BY LimitAssumption, FS_EmptySet
   DEF LimitInit, LimitInv, LimitTypeOK, Distinct, EnoughChecks, Queued

\* The limiter's check and the end of a call start at most one call each.
LEMMA LimitInvStep == LimitInv /\ [LimitNext]_limitVars => LimitInv'
<1> SUFFICES ASSUME LimitInv, [LimitNext]_limitVars
             PROVE  LimitInv'
  OBVIOUS
<1>0. /\ IsFiniteSet(running)
      /\ Cardinality(running) \in Nat
      /\ Len(callQueue) \in Nat
      /\ Concurrency \in Nat \ {0}
  BY LimitAssumption, FS_Subset, FS_CardinalityType DEF LimitInv, LimitTypeOK
<1>1. ASSUME NEW c \in Call, EnqueueCall(c)
      PROVE  LimitInv'
  BY <1>0, <1>1, AppendCall
     DEF EnqueueCall, LimitInv, LimitTypeOK, EnoughChecks
<1>2. CASE CheckQueue
  <2>1. CASE activeCount < Concurrency /\ callQueue # <<>>
    <3>1. /\ callQueue' = Tail(callQueue)
          /\ running' = running \cup {Head(callQueue)}
          /\ activeCount' = activeCount + 1
          /\ checks' = checks - 1 /\ checks > 0
          /\ finished' = finished
      BY <1>2, <2>1 DEF CheckQueue
    <3>2. /\ Head(callQueue) \in Queued /\ Head(callQueue) \in Call
          /\ callQueue' \in Seq(Call)
          /\ Len(callQueue') = Len(callQueue) - 1
          /\ Distinct'
          /\ Queued' \subseteq Queued \ {Head(callQueue)}
      BY <2>1, <3>1, StartOldest DEF LimitInv, LimitTypeOK
    <3>3. Cardinality(running') = Cardinality(running) + 1
      BY <1>0, <3>1, <3>2, FS_AddElement DEF LimitInv
    <3> QED BY <1>0, <2>1, <3>1, <3>2, <3>3 DEF LimitInv, LimitTypeOK, EnoughChecks
  <2>2. CASE ~(activeCount < Concurrency /\ callQueue # <<>>)
    <3>1. callQueue = <<>> => Len(callQueue) = 0
      OBVIOUS
    <3> QED BY <1>0, <1>2, <2>2, <3>1
            DEF CheckQueue, LimitInv, LimitTypeOK, EnoughChecks, Distinct, Queued
  <2> QED BY <2>1, <2>2
<1>3. ASSUME NEW c \in Call, FinishCall(c)
      PROVE  LimitInv'
  <2>0. /\ c \in running /\ checks' = checks /\ finished' = finished \cup {c}
        /\ IsFiniteSet(running \ {c})
        /\ Cardinality(running \ {c}) = Cardinality(running) - 1
    BY <1>0, <1>3, FS_RemoveElement DEF FinishCall
  <2>1. CASE callQueue # <<>>
    <3>1. /\ callQueue' = Tail(callQueue)
          /\ running' = (running \ {c}) \cup {Head(callQueue)}
          /\ activeCount' = activeCount
      BY <1>0, <1>3, <2>1 DEF FinishCall, LimitInv
    <3>2. /\ Head(callQueue) \in Queued /\ Head(callQueue) \in Call
          /\ callQueue' \in Seq(Call)
          /\ Len(callQueue') = Len(callQueue) - 1
          /\ Distinct'
          /\ Queued' \subseteq Queued \ {Head(callQueue)}
      BY <2>1, <3>1, StartOldest DEF LimitInv, LimitTypeOK
    <3>3. Cardinality(running') = Cardinality(running)
      <4>1. Head(callQueue) \notin running \ {c}
        BY <3>2 DEF LimitInv
      <4>2. Cardinality(running') = Cardinality(running \ {c}) + 1
        BY <2>0, <3>1, <4>1, FS_AddElement
      <4> QED BY <1>0, <2>0, <4>2
    <3> QED BY <1>0, <2>0, <3>1, <3>2, <3>3 DEF LimitInv, LimitTypeOK, EnoughChecks
  <2>2. CASE callQueue = <<>>
    <3>1. /\ callQueue' = callQueue /\ Len(callQueue) = 0
          /\ running' = running \ {c}
          /\ activeCount' = activeCount - 1
      BY <1>3, <2>2 DEF FinishCall
    <3> QED BY <1>0, <2>0, <3>1
            DEF LimitInv, LimitTypeOK, EnoughChecks, Distinct, Queued
  <2> QED BY <2>1, <2>2
<1>4. CASE UNCHANGED limitVars
  BY <1>4 DEF limitVars, LimitInv, LimitTypeOK, EnoughChecks, Distinct, Queued
<1> QED BY <1>1, <1>2, <1>3, <1>4 DEF LimitNext

\* Every variable of the limiter keeps its type (p-limit.ts:109-185).
THEOREM LimitTypeCorrect == LimitSpec => []LimitTypeOK
<1>1. LimitInv => LimitTypeOK
  BY DEF LimitInv
<1> QED BY <1>1, LimitInvInit, LimitInvStep, PTL DEF LimitSpec

\* The limit is kept and no call waits beside a free slot once the microtasks
\* have run (p-limit.ts:115-163).
THEOREM LimiterWorks == LimitSpec => []WorkConserving
<1>1. LimitInv => WorkConserving
  <2> SUFFICES ASSUME LimitInv PROVE WorkConserving
    OBVIOUS
  <2>1. checks = 0 /\ callQueue # <<>> => activeCount = Concurrency
    BY LimitAssumption DEF LimitInv, LimitTypeOK, EnoughChecks
  <2> QED BY <2>1 DEF LimitInv, WorkConserving
<1> QED BY <1>1, LimitInvInit, LimitInvStep, PTL DEF LimitSpec

-----------------------------------------------------------------------------
(* DiskCache *)

\* What the temporary and the renamed files of a save hold.
SaveInv ==
    /\ saver \in {"idle", "rbf"} => chunk = 0
    /\ saver \in {"paused", "writing"} =>
          \A c \in Chunk : c < chunk => tmp[c] = snapshot
    /\ saver = "renaming" =>
          /\ \A c \in Chunk : tmp[c] = snapshot
          /\ \A c \in Chunk : c < chunk => file[c] = snapshot

DiskInv == DiskTypeOK /\ SaveInv /\ WholeSave

\* The lock is held inside of a round of the main loop only, once.
LockInv ==
    /\ locks \in Nat
    /\ loop \in {"idle", "updating", "returned"}
    /\ loop = "idle" => locks = 0
    /\ locks <= 1

\* A save that waits is resumed: somebody holds the lock, and whoever gives it
\* back looks for it (disk-cache.ts:275-300).
PausedWhileLocked == saver = "paused" => locks > 0 /\ loop # "idle"

LEMMA DiskInvInit == DiskInit => DiskInv
<1> SUFFICES ASSUME DiskInit PROVE DiskInv
  OBVIOUS
<1>1. 0 \in Chunk /\ 0 \in Generation
  BY DiskAssumption DEF Chunk, Generation
<1>2. DiskTypeOK
  <2>1. tmp \in [Chunk -> Generation] /\ file \in [Chunk -> Generation]
    BY <1>1 DEF DiskInit
  <2>2. locks \in Nat /\ mishaps \in 0..MaxMishaps
    BY DiskAssumption DEF DiskInit
  <2> QED BY <1>1, <2>1, <2>2 DEF DiskInit, DiskTypeOK
<1>3. SaveInv /\ WholeSave
  BY DEF DiskInit, SaveInv, WholeSave
<1> QED BY <1>2, <1>3 DEF DiskInv

LEMMA UnlockStep ==
    ASSUME DiskTypeOK, Unlock
    PROVE  /\ locks' \in Nat
           /\ saver' = saver \/ (saver = "paused" /\ saver' = "writing")
BY DEF DiskTypeOK, Unlock

\* Steps that leave the files and the place of the save alone.
LEMMA SameFiles ==
    ASSUME DiskInv, UNCHANGED <<chunk, snapshot, tmp, file, torn>>,
           saver' = saver \/ (saver = "paused" /\ saver' = "writing")
    PROVE  SaveInv' /\ WholeSave'
BY DEF DiskInv, SaveInv, WholeSave, CutShort

\* A save starts: nothing has been written yet.
LEMMA StartSave ==
    ASSUME DiskInv, saver = "idle", saver' \in {"paused", "writing"}, chunk' = 0,
           UNCHANGED <<file, torn>>
    PROVE  SaveInv' /\ WholeSave'
BY DiskAssumption DEF DiskInv, SaveInv, WholeSave, CutShort, Chunk

\* A save or the process stops, and what was cut short is remembered.
LEMMA StopSave ==
    ASSUME DiskInv, saver' \in {"idle", "rbf"}, chunk' = 0, file' = file,
           torn' = (torn \/ CutShort)
    PROVE  SaveInv' /\ WholeSave'
BY DEF DiskInv, SaveInv, WholeSave, CutShort

LEMMA DiskInvStep == DiskInv /\ [DiskNext]_diskVars => DiskInv'
<1> SUFFICES ASSUME DiskInv, [DiskNext]_diskVars
             PROVE  DiskInv'
  OBVIOUS
<1> USE DiskAssumption
<1>0. DiskTypeOK
  BY DEF DiskInv
<1>1. CASE LockCache
  <2>1. DiskTypeOK'
    BY <1>0, <1>1 DEF LockCache, DiskTypeOK
  <2> QED BY <1>1, <2>1, SameFiles DEF LockCache, DiskInv
<1>2. CASE HandleBlock
  <2>1. DiskTypeOK'
    BY <1>0, <1>2 DEF HandleBlock, DiskTypeOK, Yielded, Generation, Chunk
  <2>2. SaveInv' /\ WholeSave'
    <3>1. CASE UNCHANGED <<saver, chunk, snapshot>>
      BY <1>2, <3>1, SameFiles DEF HandleBlock
    <3>2. CASE ~UNCHANGED <<saver, chunk, snapshot>>
      BY <1>2, <3>2, StartSave DEF HandleBlock, Yielded, isWritingCache
    <3> QED BY <3>1, <3>2
  <2> QED BY <2>1, <2>2 DEF DiskInv
<1>3. CASE EndBlocks
  <2>1. locks' \in Nat /\ (saver' = saver \/ (saver = "paused" /\ saver' = "writing"))
    BY <1>0, <1>3, UnlockStep DEF EndBlocks, DiskTypeOK
  <2>2. DiskTypeOK'
    BY <1>0, <1>3, <2>1 DEF EndBlocks, DiskTypeOK
  <2> QED BY <1>3, <2>1, <2>2, SameFiles DEF EndBlocks, DiskInv
<1>4. CASE FinallyUnlock
  <2>1. locks' \in Nat /\ (saver' = saver \/ (saver = "paused" /\ saver' = "writing"))
    BY <1>0, <1>4, UnlockStep DEF FinallyUnlock
  <2>2. DiskTypeOK'
    BY <1>0, <1>4, <2>1 DEF FinallyUnlock, DiskTypeOK
  <2> QED BY <1>4, <2>1, <2>2, SameFiles DEF FinallyUnlock, DiskInv
<1>5. CASE SavePools
  <2>1. DiskTypeOK'
    BY <1>0, <1>5 DEF SavePools, DiskTypeOK, Yielded, Chunk
  <2> QED BY <1>5, <2>1, StartSave DEF SavePools, Yielded, isWritingCache, DiskInv
<1>6. CASE WriteChunk
  <2>1. DiskTypeOK'
    BY <1>0, <1>6 DEF WriteChunk, DiskTypeOK, Yielded, Chunk
  <2>2. SaveInv'
    BY <1>0, <1>6 DEF WriteChunk, DiskInv, SaveInv, DiskTypeOK, Yielded, Chunk
  <2>3. WholeSave'
    BY <1>6 DEF WriteChunk, DiskInv, WholeSave, CutShort
  <2> QED BY <2>1, <2>2, <2>3 DEF DiskInv
<1>7. CASE RenameChunk
  <2>1. DiskTypeOK'
    <3>1. tmp[chunk] \in Generation
      BY <1>0 DEF DiskTypeOK
    <3>2. file' \in [Chunk -> Generation]
      BY <1>0, <1>7, <3>1 DEF RenameChunk, DiskTypeOK
    <3>3. chunk' \in Chunk
      BY <1>0, <1>7 DEF RenameChunk, DiskTypeOK, Chunk
    <3>4. torn' \in BOOLEAN
      BY <1>0, <1>7 DEF RenameChunk, DiskTypeOK
    <3> QED BY <1>0, <1>7, <3>2, <3>3, <3>4 DEF RenameChunk, DiskTypeOK
  <2>2. SaveInv'
    BY <1>0, <1>7 DEF RenameChunk, DiskInv, SaveInv, DiskTypeOK, Chunk
  <2>3. WholeSave'
    <3>1. CASE chunk < Chunks - 1
      BY <1>0, <1>7, <3>1 DEF RenameChunk, WholeSave, CutShort, DiskTypeOK, Chunk
    <3>2. CASE ~(chunk < Chunks - 1)
      <4>1. \A c \in Chunk : file'[c] = snapshot
        BY <1>0, <1>7, <3>2 DEF RenameChunk, DiskInv, SaveInv, DiskTypeOK, Chunk
      <4> QED BY <4>1 DEF WholeSave
    <3> QED BY <3>1, <3>2
  <2> QED BY <2>1, <2>2, <2>3 DEF DiskInv
<1>8. CASE WriteRbf
  <2>1. DiskTypeOK'
    BY <1>0, <1>8 DEF WriteRbf, DiskTypeOK
  <2>2. SaveInv' /\ WholeSave'
    BY <1>8 DEF WriteRbf, DiskInv, SaveInv, WholeSave, CutShort
  <2> QED BY <2>1, <2>2 DEF DiskInv
<1>9. CASE FailWrite
  <2>1. DiskTypeOK'
    BY <1>0, <1>9 DEF FailWrite, Mishap, DiskTypeOK, CutShort, Chunk
  <2> QED BY <1>9, <2>1, StopSave DEF FailWrite, DiskInv
<1>10. CASE Interrupt
  <2>1. DiskTypeOK'
    <3>1. 0 \in Chunk
      BY DEF Chunk
    <3>2. torn' \in BOOLEAN
      BY <1>0, <1>10 DEF Interrupt, DiskTypeOK
    <3> QED BY <1>0, <1>10, <3>1, <3>2 DEF Interrupt, Mishap, Stopped, DiskTypeOK
  <2>2. CASE isWritingCache
    BY <1>10, <2>1, <2>2, StopSave DEF Interrupt, Stopped, DiskInv
  <2>3. CASE ~isWritingCache
    BY <1>10, <2>1, <2>3 DEF Interrupt, Stopped, DiskInv, SaveInv, WholeSave
  <2> QED BY <2>2, <2>3
<1>11. CASE Kill
  <2>1. DiskTypeOK'
    BY <1>0, <1>11 DEF Kill, Mishap, Stopped, DiskTypeOK, CutShort, Chunk
  <2> QED BY <1>11, <2>1, StopSave DEF Kill, Stopped, DiskInv
<1>12. CASE UNCHANGED diskVars
  <2>1. DiskTypeOK'
    BY <1>0, <1>12 DEF diskVars, DiskTypeOK
  <2> QED BY <1>12, <2>1, SameFiles DEF diskVars, DiskInv
<1> QED
  BY <1>1, <1>2, <1>3, <1>4, <1>5, <1>6, <1>7, <1>8, <1>9, <1>10, <1>11, <1>12
     DEF DiskNext, DiskLoop, DiskSave

\* Every variable keeps its type (disk-cache.ts:42-142, 275-300).
THEOREM DiskTypeCorrect == DiskSpec => []DiskTypeOK
<1>1. DiskInv => DiskTypeOK
  BY DEF DiskInv
<1> QED BY <1>1, DiskInvInit, DiskInvStep, PTL DEF DiskSpec

\* A start reads the files of one save, unless a rename loop was cut short and no
\* save has been completed since (disk-cache.ts:64-142).
THEOREM SavesAreWhole == DiskSpec => []WholeSave
<1>1. DiskInv => WholeSave
  BY DEF DiskInv
<1> QED BY <1>1, DiskInvInit, DiskInvStep, PTL DEF DiskSpec

\* No wakeup of a waiting save is lost: while one waits the main loop is in a
\* round, at whose end the lock is given back (index.ts:282, disk-cache.ts:284-300).
THEOREM NoSaveWaitsAlone == DiskSpec => []PausedWhileLocked
<1> DEFINE Inv == LockInv /\ (saver = "paused" => locks > 0)
<1>1. DiskInit => Inv
  BY DEF DiskInit, LockInv
<1>2. Inv /\ [DiskNext]_diskVars => Inv'
  <2> SUFFICES ASSUME Inv, [DiskNext]_diskVars
               PROVE  Inv'
    OBVIOUS
  <2> USE DEF LockInv
  <2>1. CASE LockCache \/ HandleBlock \/ SavePools
    BY <2>1 DEF LockCache, HandleBlock, SavePools, Yielded
  <2>2. CASE EndBlocks \/ FinallyUnlock
    BY <2>2 DEF EndBlocks, FinallyUnlock, Unlock
  <2>3. CASE WriteChunk \/ RenameChunk \/ WriteRbf
    BY <2>3 DEF WriteChunk, RenameChunk, WriteRbf, Yielded
  <2>4. CASE FailWrite \/ Interrupt \/ Kill
    BY <2>4 DEF FailWrite, Interrupt, Kill, Stopped
  <2>5. CASE UNCHANGED diskVars
    BY <2>5 DEF diskVars
  <2> QED BY <2>1, <2>2, <2>3, <2>4, <2>5 DEF DiskNext, DiskLoop, DiskSave
<1>3. Inv => PausedWhileLocked
  BY DEF LockInv, PausedWhileLocked
<1> QED BY <1>1, <1>2, <1>3, PTL DEF DiskSpec

-----------------------------------------------------------------------------
(* RedisQueue *)

IsPrefixOf(s, q) == Len(s) <= Len(q) /\ \A i \in 1..Len(s) : q[i] = s[i]

Flushing(c) == at[c] \in {"addSent", "flushSent"}

\* What is being flushed is still at the head of the queue, and is in Redis unless
\* the flush fails; only one flush is under way.
FlushInv ==
    /\ \A c, d \in Caller : Flushing(c) /\ Flushing(d) => c = d
    /\ \A c \in Caller : Flushing(c) =>
          /\ IsPrefixOf(toAdd[c], cacheQueue)
          /\ failed[c] = <<>> => RangeOf(toAdd[c]) \subseteq inRedis

\* A removal of the transaction is still to come.
Leaving(t) ==
    \/ t \in RangeOf(removeQueue) \cup RangeOf(deleted)
    \/ \E c \in Caller :
          at[c] = "removeSent" /\ t \in RangeOf(toRemove[c]) \cup RangeOf(failed[c])

\* What is in Redis or on its way there but in the mempool no more will be removed.
LeavingInv == \A t \in (inRedis \cup Waiting) \ pool : Leaving(t)

\* Only between the deletion and the removal has the main loop something to remove.
DeletedInv == at["loop"] \in {"idle", "add", "addSent", "removeSent"} => deleted = <<>>

(***************************************************************************)
(* The queue as a sequence                                                 *)
(***************************************************************************)

\* The positions of what is left of n + k elements when n are cut off.
LEMMA Positions ==
    ASSUME NEW n \in Nat, NEW m \in Nat
    PROVE  /\ n + 1 <= m => m - n \in Nat /\ m - n <= m
           /\ ~(n + 1 <= m) => 1..m - n = 1..0
           /\ \A i \in 1..m - n : n + i \in 1..m
           /\ \A i \in 1..m : i <= n \/ (i - n \in 1..m - n /\ n + (i - n) = i)
OBVIOUS

\* What follows a slice of the queue.
Rest(s, q) == SubSeq(q, Len(s) + 1, Len(q))

LEMMA CutSlice ==
    ASSUME NEW q \in Seq(Tx), NEW s \in Seq(Tx)
    PROVE  /\ Rest(s, q) \in Seq(Tx)
           /\ Len(Rest(s, q)) <= Len(q)
           /\ RangeOf(Rest(s, q)) \subseteq RangeOf(q)
           /\ IsPrefixOf(s, q) => RangeOf(q) \subseteq RangeOf(s) \cup RangeOf(Rest(s, q))
<1> DEFINE n == Len(s)
           m == Len(q)
           rest == Rest(s, q)
<1>1. /\ n \in Nat /\ m \in Nat
      /\ DOMAIN s = 1..n /\ DOMAIN q = 1..m
  OBVIOUS
<1>2. rest = SubSeq(q, n + 1, m) /\ \A i \in n + 1..m : q[i] \in Tx
  BY <1>1 DEF Rest
<1> HIDE DEF rest
<1>3. /\ rest \in Seq(Tx)
      /\ Len(rest) = IF n + 1 <= m THEN m - n ELSE 0
      /\ \A i \in 1..m - n : rest[i] = q[n + i]
  <2>1. /\ n + 1 \in Int /\ m \in Int
        /\ m - (n + 1) + 1 = m - n
        /\ \A i \in 1..m - n : (n + 1) + i - 1 = n + i
    BY <1>1
  <2> HIDE DEF n, m
  <2>2. \A i \in n + 1..m : q[i] \in Tx
    BY <1>2
  <2>3. /\ SubSeq(q, n + 1, m) \in Seq(Tx)
        /\ Len(SubSeq(q, n + 1, m)) = IF n + 1 <= m THEN m - (n + 1) + 1 ELSE 0
        /\ \A i \in 1..m - (n + 1) + 1 : SubSeq(q, n + 1, m)[i] = q[(n + 1) + i - 1]
    BY <2>1, <2>2, SubSeqProperties
  <2> QED BY <1>2, <2>1, <2>3
<1>4. DOMAIN rest = 1..Len(rest) /\ Len(rest) \in Nat
  BY <1>3, LenProperties
<1> HIDE DEF n, m
<1>5. DOMAIN rest = 1..m - n /\ Len(rest) <= m
  <2>1. CASE n + 1 <= m
    <3>1. Len(rest) = m - n
      BY <1>3, <2>1
    <3> QED BY <1>1, <1>4, <3>1, <2>1, Positions
  <2>2. CASE ~(n + 1 <= m)
    <3>1. Len(rest) = 0
      BY <1>3, <2>2
    <3>2. 1..m - n = 1..0
      BY <1>1, <2>2, Positions
    <3> QED BY <1>1, <1>4, <3>1, <3>2
  <2> QED BY <2>1, <2>2
<1>6. ASSUME NEW i \in DOMAIN rest
      PROVE  rest[i] \in RangeOf(q)
  <2>1. i \in 1..m - n /\ n + i \in DOMAIN q
    BY <1>1, <1>5, Positions
  <2> QED BY <1>3, <2>1 DEF RangeOf
<1>7. ASSUME IsPrefixOf(s, q), NEW i \in DOMAIN q
      PROVE  q[i] \in RangeOf(s) \cup RangeOf(rest)
  <2>1. i \in 1..m
    BY <1>1
  <2>2. CASE i <= n
    <3>1. i \in DOMAIN s /\ i \in 1..n
      BY <1>1, <2>1, <2>2
    <3>2. q[i] = s[i]
      BY <1>7, <3>1 DEF IsPrefixOf, n
    <3> QED BY <3>1, <3>2 DEF RangeOf
  <2>3. CASE ~(i <= n)
    <3>1. i - n \in 1..m - n /\ n + (i - n) = i
      BY <1>1, <2>1, <2>3, Positions
    <3>2. i - n \in DOMAIN rest /\ rest[i - n] = q[i]
      BY <1>3, <1>5, <3>1
    <3> QED BY <3>2 DEF RangeOf
  <2> QED BY <2>2, <2>3
<1>8. RangeOf(rest) \subseteq RangeOf(q)
  BY <1>6 DEF RangeOf
<1>9. IsPrefixOf(s, q) => RangeOf(q) \subseteq RangeOf(s) \cup RangeOf(rest)
  <2>1. RangeOf(q) = {q[i] : i \in DOMAIN q}
    BY DEF RangeOf
  <2> QED BY <1>7, <2>1
<1> QED BY <1>3, <1>5, <1>8, <1>9 DEF m, rest

LEMMA AppendTx ==
    ASSUME NEW q \in Seq(Tx), NEW t \in Tx
    PROVE  /\ Append(q, t) \in Seq(Tx)
           /\ Len(Append(q, t)) = Len(q) + 1
           /\ RangeOf(Append(q, t)) = RangeOf(q) \cup {t}
           /\ \A s \in Seq(Tx) : IsPrefixOf(s, q) => IsPrefixOf(s, Append(q, t))
<1>1. /\ Append(q, t) \in Seq(Tx)
      /\ Len(q) \in Nat /\ DOMAIN q = 1..Len(q)
      /\ Len(Append(q, t)) = Len(q) + 1 /\ DOMAIN Append(q, t) = 1..Len(q) + 1
      /\ Append(q, t)[Len(q) + 1] = t
      /\ \A i \in 1..Len(q) : Append(q, t)[i] = q[i]
  OBVIOUS
<1>2. RangeOf(Append(q, t)) = RangeOf(q) \cup {t}
  BY <1>1 DEF RangeOf
<1> QED BY <1>1, <1>2 DEF IsPrefixOf

\* The first slice of a list is a prefix of it, and with the rest makes up the list.
LEMMA FirstAndRest ==
    ASSUME NEW q \in Seq(Tx), NEW limit \in Nat \ {0}
    PROVE  /\ FirstOf(limit, q) \in Seq(Tx) /\ RestOf(limit, q) \in Seq(Tx)
           /\ IsPrefixOf(FirstOf(limit, q), q)
           /\ RangeOf(FirstOf(limit, q)) \subseteq RangeOf(q)
           /\ RangeOf(RestOf(limit, q)) \subseteq RangeOf(q)
           /\ RangeOf(q) \subseteq RangeOf(FirstOf(limit, q)) \cup RangeOf(RestOf(limit, q))
           /\ q # <<>> => RangeOf(FirstOf(limit, q)) # {}
<1> DEFINE first == FirstOf(limit, q)
<1>1. Len(q) \in Nat /\ DOMAIN q = 1..Len(q) /\ (q # <<>> => Len(q) # 0)
  OBVIOUS
<1>2. /\ first \in Seq(Tx) /\ IsPrefixOf(first, q)
      /\ RangeOf(first) \subseteq RangeOf(q)
      /\ q # <<>> => RangeOf(first) # {}
  <2>1. CASE Len(q) <= limit
    <3>1. first = q
      BY <2>1 DEF FirstOf
    <3>2. q # <<>> => 1 \in DOMAIN q
      BY <1>1
    <3> QED BY <1>1, <3>1, <3>2 DEF IsPrefixOf, RangeOf
  <2>2. CASE ~(Len(q) <= limit)
    <3>1. \A i \in 1..limit : q[i] \in Tx
      BY <1>1, <2>2
    <3>2. /\ first \in Seq(Tx) /\ Len(first) = limit
          /\ \A i \in 1..limit : first[i] = q[i]
      BY <1>1, <2>2, <3>1, SubSeqProperties DEF FirstOf
    <3>3. DOMAIN first = 1..limit
      BY <3>2
    <3>4. 1 \in DOMAIN first /\ DOMAIN first \subseteq DOMAIN q
      BY <1>1, <2>2, <3>3
    <3>5. RangeOf(first) \subseteq RangeOf(q) /\ RangeOf(first) # {}
      BY <3>2, <3>3, <3>4 DEF RangeOf
    <3>6. IsPrefixOf(first, q)
      BY <1>1, <2>2, <3>2 DEF IsPrefixOf
    <3> QED BY <3>2, <3>5, <3>6
  <2> QED BY <2>1, <2>2
<1>3. RestOf(limit, q) = Rest(first, q)
  BY DEF RestOf, Rest
<1> HIDE DEF first
<1>4. /\ Rest(first, q) \in Seq(Tx)
      /\ RangeOf(Rest(first, q)) \subseteq RangeOf(q)
      /\ RangeOf(q) \subseteq RangeOf(first) \cup RangeOf(Rest(first, q))
  BY <1>2, CutSlice
<1> QED BY <1>2, <1>3, <1>4 DEF first

LEMMA SliceOfQueue ==
    ASSUME cacheQueue \in Seq(Tx), cacheQueue # <<>>
    PROVE  /\ Slice \in Seq(Tx)
           /\ IsPrefixOf(Slice, cacheQueue)
           /\ RangeOf(Slice) \subseteq Waiting
           /\ RangeOf(Slice) # {}
BY FirstAndRest, RedisAssumption DEF Slice, Waiting

LEMMA ConcatRange ==
    ASSUME NEW s \in Seq(Tx), NEW q \in Seq(Tx)
    PROVE  /\ s \o q \in Seq(Tx)
           /\ RangeOf(s \o q) = RangeOf(s) \cup RangeOf(q)
<1>1. /\ s \o q \in Seq(Tx)
      /\ Len(s) \in Nat /\ Len(q) \in Nat
      /\ DOMAIN s = 1..Len(s) /\ DOMAIN q = 1..Len(q)
      /\ DOMAIN (s \o q) = 1..Len(s) + Len(q)
      /\ \A i \in 1..Len(s) : (s \o q)[i] = s[i]
      /\ \A i \in 1..Len(q) : (s \o q)[Len(s) + i] = q[i]
  OBVIOUS
<1>2. ASSUME NEW i \in DOMAIN (s \o q) PROVE (s \o q)[i] \in RangeOf(s) \cup RangeOf(q)
  <2>1. CASE i <= Len(s)
    <3>1. i \in 1..Len(s)
      BY <1>1, <2>1
    <3> QED BY <1>1, <3>1 DEF RangeOf
  <2>2. CASE ~(i <= Len(s))
    <3>1. i - Len(s) \in 1..Len(q) /\ Len(s) + (i - Len(s)) = i
      BY <1>1, <2>2
    <3>2. (s \o q)[i] = q[i - Len(s)]
      BY <1>1, <3>1
    <3> QED BY <1>1, <3>1, <3>2 DEF RangeOf
  <2> QED BY <2>1, <2>2
<1>3. ASSUME NEW i \in DOMAIN s PROVE s[i] \in RangeOf(s \o q)
  <2>1. i \in DOMAIN (s \o q) /\ (s \o q)[i] = s[i]
    BY <1>1
  <2> QED BY <2>1 DEF RangeOf
<1>4. ASSUME NEW i \in DOMAIN q PROVE q[i] \in RangeOf(s \o q)
  <2>1. Len(s) + i \in DOMAIN (s \o q) /\ (s \o q)[Len(s) + i] = q[i]
    BY <1>1
  <2> QED BY <2>1 DEF RangeOf
<1>5. RangeOf(s \o q) \subseteq RangeOf(s) \cup RangeOf(q)
  BY <1>2 DEF RangeOf
<1>6. RangeOf(s) \subseteq RangeOf(s \o q)
  BY <1>3 DEF RangeOf
<1>7. RangeOf(q) \subseteq RangeOf(s \o q)
  BY <1>4 DEF RangeOf
<1> QED BY <1>1, <1>5, <1>6, <1>7

\* What is to be removed is a list of transactions of the mempool.
LEMMA ListType ==
    ASSUME pool \subseteq Tx, NEW txs \in Lists(pool)
    PROVE  txs \in Seq(Tx)
<1>1. PICK n \in 0..MaxQueue : txs \in [1..n -> pool]
  BY DEF Lists
<1>2. n \in Nat /\ txs \in [1..n -> Tx]
  BY <1>1, RedisAssumption
<1> QED BY <1>2

\* A prefix of the queue waits.
LEMMA PrefixWaits ==
    ASSUME NEW s \in Seq(Tx), cacheQueue \in Seq(Tx), IsPrefixOf(s, cacheQueue)
    PROVE  RangeOf(s) \subseteq Waiting
BY DEF IsPrefixOf, RangeOf, Waiting

LEMMA EmptyRange == RangeOf(<<>>) = {}
BY DEF RangeOf

(***************************************************************************)
(* Types                                                                   *)
(***************************************************************************)

LEMMA RangeType ==
    ASSUME NEW q \in Seq(Tx)
    PROVE  RangeOf(q) \subseteq Tx
BY DEF RangeOf

\* Sending one slice of a list.
LEMMA SendSliceTypes ==
    ASSUME RedisTypeOK, NEW c \in Caller, NEW list \in Seq(Tx), NEW failures \in Seq(Tx),
           SendSlice(c, list, failures)
    PROVE  /\ toRemove' \in [Caller -> Seq(Tx)] /\ failed' \in [Caller -> Seq(Tx)]
           /\ inRedis' \subseteq Tx /\ outages' \in 0..MaxOutages /\ strayed' \in BOOLEAN
<1>1. /\ FirstOf(BatchSize, list) \in Seq(Tx) /\ RestOf(BatchSize, list) \in Seq(Tx)
      /\ failures \o FirstOf(BatchSize, list) \in Seq(Tx)
  BY FirstAndRest, ConcatRange, RedisAssumption
<1>2. toRemove' \in [Caller -> Seq(Tx)] /\ failed' \in [Caller -> Seq(Tx)]
  BY <1>1 DEF SendSlice, RedisTypeOK
<1>3. inRedis' \subseteq Tx
  BY DEF SendSlice, RedisTypeOK
<1>4. outages' = outages \/ Outage
  BY DEF SendSlice
<1>5. outages' \in 0..MaxOutages
  BY <1>4, RedisAssumption DEF Outage, RedisTypeOK
<1>6. strayed' \in BOOLEAN
  BY DEF SendSlice
<1> QED BY <1>2, <1>3, <1>5, <1>6

LEMMA RedisTypeStep ==
    ASSUME RedisTypeOK, [RedisNext]_redisVars
    PROVE  RedisTypeOK'
<1> USE RedisAssumption DEF RedisTypeOK, Goes
<1>1. ASSUME NEW t \in Tx, AddTransaction(t) PROVE RedisTypeOK'
  <2>1. cacheQueue' \in Seq(Tx) /\ Len(cacheQueue') = Len(cacheQueue) + 1
    BY <1>1, AppendTx DEF AddTransaction
  <2>2. Len(cacheQueue') <= MaxQueue
    BY <1>1, <2>1 DEF AddTransaction
  <2>3. at' \in [Caller -> Place]
    BY <1>1 DEF AddTransaction, Caller, Place
  <2> QED BY <1>1, <2>1, <2>2, <2>3 DEF AddTransaction
<1>2. ASSUME NEW txs \in Lists(pool), EndRound(txs) \/ HandleMined(txs)
      PROVE  RedisTypeOK'
  <2>1. txs \in Seq(Tx)
    BY ListType
  <2>2. at' \in [Caller -> Place]
    BY <1>2 DEF EndRound, HandleMined, Delete, Caller, Place
  <2> QED BY <1>2, <2>1, <2>2 DEF EndRound, HandleMined, Delete
<1>4. ASSUME NEW c \in Caller, SkipFlush(c) PROVE RedisTypeOK'
  BY <1>4 DEF SkipFlush, Place
<1>5. ASSUME NEW c \in Caller, SendFlush(c) PROVE RedisTypeOK'
  <2>1. Slice \in Seq(Tx) /\ RangeOf(Slice) \subseteq Tx
    BY <1>5, SliceOfQueue, RangeType DEF SendFlush
  <2>2. /\ inRedis' \subseteq Tx
        /\ failed' \in [Caller -> Seq(Tx)]
        /\ outages' \in 0..MaxOutages
    <3>1. inRedis' \subseteq Tx
      BY <1>5, <2>1 DEF SendFlush
    <3>2. failed' \in [Caller -> Seq(Tx)]
      <4>1. <<>> \in Seq(Tx)
        OBVIOUS
      <4> QED BY <1>5, <2>1, <4>1 DEF SendFlush
    <3>3. outages' = outages \/ Outage
      BY <1>5 DEF SendFlush
    <3> QED BY <3>1, <3>2, <3>3 DEF Outage
  <2>3. strayed' \in BOOLEAN
    BY <1>5 DEF SendFlush
  <2>4. at' \in [Caller -> Place] /\ toAdd' \in [Caller -> Seq(Tx)]
    BY <1>5, <2>1 DEF SendFlush, Place
  <2> QED BY <1>5, <2>2, <2>3, <2>4 DEF SendFlush
<1>6. ASSUME NEW c \in Caller, FlushReply(c) PROVE RedisTypeOK'
  <2>1. cacheQueue' \in Seq(Tx) /\ Len(cacheQueue') <= MaxQueue
    <3>1. CASE failed[c] = <<>>
      <4>1. toAdd[c] \in Seq(Tx)
        OBVIOUS
      <4>2. /\ cacheQueue' \in Seq(Tx)
            /\ Len(cacheQueue') <= Len(cacheQueue)
        <5>1. cacheQueue' = Rest(toAdd[c], cacheQueue)
          BY <1>6, <3>1 DEF FlushReply, Rest
        <5> QED BY <4>1, <5>1, CutSlice
      <4> QED BY <4>2
    <3>2. CASE failed[c] # <<>>
      BY <1>6, <3>2 DEF FlushReply
    <3> QED BY <3>1, <3>2
  <2>2. <<>> \in Seq(Tx)
    OBVIOUS
  <2>3. at' \in [Caller -> Place] /\ toAdd' \in [Caller -> Seq(Tx)]
    BY <1>6, <2>2 DEF FlushReply, Place
  <2>4. pauseFlush' \in BOOLEAN /\ failed' \in [Caller -> Seq(Tx)]
    BY <1>6, <2>2 DEF FlushReply
  <2> QED BY <1>6, <2>1, <2>3, <2>4 DEF FlushReply
<1>7. ASSUME NEW c \in Caller, SendRemove(c) PROVE RedisTypeOK'
  <2>1. Removed(c) \in Seq(Tx) /\ <<>> \in Seq(Tx)
    BY ConcatRange DEF Removed
  <2>2. /\ at' \in [Caller -> Place] /\ removeQueue' \in Seq(Tx)
        /\ deleted' \in Seq(Tx)
    BY <1>7, <2>1 DEF SendRemove, Place
  <2>3. CASE connected /\ Removed(c) # <<>>
    <3>1. SendSlice(c, Removed(c), <<>>)
      BY <1>7, <2>3 DEF SendRemove
    <3> QED BY <1>7, <2>1, <2>2, <3>1, SendSliceTypes DEF SendRemove
  <2>4. CASE ~(connected /\ Removed(c) # <<>>)
    BY <1>7, <2>2, <2>4 DEF SendRemove
  <2> QED BY <2>3, <2>4
<1>8. ASSUME NEW c \in Caller, SendNextSlice(c) \/ RemoveReply(c) PROVE RedisTypeOK'
  <2>1. CASE SendNextSlice(c)
    <3>1. toRemove[c] \in Seq(Tx) /\ failed[c] \in Seq(Tx)
      OBVIOUS
    <3> QED BY <2>1, <3>1, SendSliceTypes DEF SendNextSlice
  <2>2. CASE RemoveReply(c)
    <3>1. removeQueue' \in Seq(Tx) /\ <<>> \in Seq(Tx)
      BY <2>2, ConcatRange DEF RemoveReply
    <3> QED BY <2>2, <3>1 DEF RemoveReply, Place
  <2> QED BY <1>8, <2>1, <2>2
<1>9. CASE Disconnect
  <2>1. connected' \in BOOLEAN
    BY <1>9 DEF Disconnect
  <2>2. outages' \in 0..MaxOutages
    BY <1>9 DEF Disconnect, Outage
  <2> QED BY <1>9, <2>1, <2>2 DEF Disconnect
<1>10. ASSUME NEW c \in Connections, OnConnected(c) PROVE RedisTypeOK'
  BY <1>10 DEF OnConnected, Caller, Place
<1>11. CASE AbandonRound
  <2>1. strayed' \in BOOLEAN
    BY <1>11 DEF AbandonRound
  <2>2. at' \in [Caller -> Place]
    BY <1>11 DEF AbandonRound, Place
  <2>3. outages' \in 0..MaxOutages
    BY <1>11 DEF AbandonRound, Outage
  <2>4. <<>> \in Seq(Tx)
    OBVIOUS
  <2> QED BY <1>11, <2>1, <2>2, <2>3, <2>4 DEF AbandonRound
<1>12. ASSUME NEW reached \in BOOLEAN, RestartFromRedis(reached) PROVE RedisTypeOK'
  <2>1. <<>> \in Seq(Tx) /\ Len(<<>>) = 0
    OBVIOUS
  <2>2. /\ at' \in [Caller -> Place] /\ toAdd' \in [Caller -> Seq(Tx)]
        /\ toRemove' \in [Caller -> Seq(Tx)] /\ failed' \in [Caller -> Seq(Tx)]
    BY <1>12, <2>1 DEF RestartFromRedis, Place
  <2>3. strayed' \in BOOLEAN /\ connected' \in BOOLEAN /\ pauseFlush' \in BOOLEAN
    BY <1>12 DEF RestartFromRedis
  <2>4. cacheQueue' \in Seq(Tx) /\ Len(cacheQueue') <= MaxQueue
    BY <1>12, <2>1 DEF RestartFromRedis
  <2> QED BY <1>12, <2>2, <2>3, <2>4 DEF RestartFromRedis, Outage
<1>13. CASE UNCHANGED redisVars
  BY <1>13 DEF redisVars
<1> QED
  BY <1>1, <1>2, <1>4, <1>5, <1>6, <1>7, <1>8, <1>9, <1>10, <1>11, <1>12,
     <1>13 DEF RedisNext

\* The variables of the queues have their types (redis-cache.ts).
THEOREM RedisTypeCorrect == RedisSpec => []RedisTypeOK
<1>1. RedisInit => RedisTypeOK
  <2> SUFFICES ASSUME RedisInit PROVE RedisTypeOK
    OBVIOUS
  <2>1. <<>> \in Seq(Tx) /\ Len(<<>>) = 0
    OBVIOUS
  <2>2. /\ at \in [Caller -> Place] /\ toAdd \in [Caller -> Seq(Tx)]
        /\ toRemove \in [Caller -> Seq(Tx)] /\ failed \in [Caller -> Seq(Tx)]
    BY <2>1 DEF RedisInit, Place
  <2>3. cacheQueue \in Seq(Tx) /\ Len(cacheQueue) <= MaxQueue
    BY <2>1, RedisAssumption DEF RedisInit
  <2>4. pauseFlush \in BOOLEAN /\ connected \in BOOLEAN /\ strayed \in BOOLEAN
    BY DEF RedisInit
  <2>5. outages \in 0..MaxOutages
    BY RedisAssumption DEF RedisInit
  <2>6. pool \subseteq Tx /\ deleted \in Seq(Tx) /\ removeQueue \in Seq(Tx) /\ inRedis \subseteq Tx
    BY <2>1 DEF RedisInit
  <2> QED BY <2>2, <2>3, <2>4, <2>5, <2>6 DEF RedisTypeOK
<1> QED BY <1>1, RedisTypeStep, PTL DEF RedisSpec

(***************************************************************************)
(* Nothing of the mempool is missing and nothing else stays                *)
(***************************************************************************)

LEMMA DeletedStep ==
    ASSUME RedisTypeOK, DeletedInv, [RedisNext]_redisVars
    PROVE  DeletedInv'
<1> USE DEF DeletedInv, RedisTypeOK, Goes, Caller
<1>1. ASSUME NEW t \in Tx, AddTransaction(t) PROVE DeletedInv'
  BY <1>1 DEF AddTransaction
<1>2. ASSUME NEW txs \in Lists(pool), EndRound(txs) \/ HandleMined(txs)
      PROVE  DeletedInv'
  BY <1>2 DEF EndRound, HandleMined, Delete
<1>3. ASSUME NEW c \in Caller, SkipFlush(c) \/ SendFlush(c) \/ FlushReply(c)
      PROVE  DeletedInv'
  BY <1>3 DEF SkipFlush, SendFlush, FlushReply
<1>4. ASSUME NEW c \in Caller, SendRemove(c) \/ SendNextSlice(c) \/ RemoveReply(c)
      PROVE  DeletedInv'
  BY <1>4 DEF SendRemove, SendNextSlice, RemoveReply
<1>5. CASE Disconnect \/ AbandonRound
  BY <1>5 DEF Disconnect, AbandonRound
<1>8. ASSUME NEW c \in Connections, OnConnected(c) PROVE DeletedInv'
  BY <1>8, RedisAssumption DEF OnConnected
<1>6. ASSUME NEW reached \in BOOLEAN, RestartFromRedis(reached) PROVE DeletedInv'
  BY <1>6 DEF RestartFromRedis
<1>7. CASE UNCHANGED redisVars
  BY <1>7 DEF redisVars
<1> QED BY <1>1, <1>2, <1>3, <1>4, <1>5, <1>6, <1>7, <1>8 DEF RedisNext

\* The part of the invariant that holds until a known defect has struck.
QueueInv == pool \subseteq inRedis \cup Waiting /\ FlushInv /\ LeavingInv

LEMMA SendFlushKeeps ==
    ASSUME RedisTypeOK, QueueInv, NEW c \in Caller, SendFlush(c), ~strayed'
    PROVE  QueueInv'
<1>1. /\ IsPrefixOf(Slice, cacheQueue) /\ RangeOf(Slice) \subseteq Waiting
      /\ Slice # <<>>
  BY SliceOfQueue, EmptyRange DEF RedisTypeOK, SendFlush
<1>2. \A d \in Caller \ {c} : ~Flushing(d)
  BY DEF SendFlush, Overlap, Flushing
<1>3. /\ inRedis \subseteq inRedis' /\ inRedis' \subseteq inRedis \cup RangeOf(Slice)
      /\ failed'[c] = <<>> => RangeOf(Slice) \subseteq inRedis'
      /\ \A d \in Caller \ {c} : failed'[d] = failed[d]
  <2>1. failed \in [Caller -> Seq(Tx)]
    BY DEF RedisTypeOK
  <2> QED BY <1>1, <2>1 DEF SendFlush
<1>4. /\ at[c] # "removeSent" /\ toAdd'[c] = Slice
      /\ \A d \in Caller \ {c} : at'[d] = at[d]
  BY DEF SendFlush, Goes, RedisTypeOK
<1>5. UNCHANGED <<pool, Waiting, cacheQueue, removeQueue, deleted, toRemove>>
  BY DEF SendFlush, Waiting
<1>6. (pool \subseteq inRedis \cup Waiting)'
  BY <1>3, <1>5 DEF QueueInv
<1>7. FlushInv'
  <2>1. \A d \in Caller : Flushing(d)' => d = c
    BY <1>2, <1>4 DEF Flushing
  <2> QED BY <1>1, <1>3, <1>4, <1>5, <2>1 DEF FlushInv
<1>8. LeavingInv'
  BY <1>1, <1>3, <1>4, <1>5 DEF QueueInv, LeavingInv, Leaving
<1> QED BY <1>6, <1>7, <1>8 DEF QueueInv

LEMMA FlushReplyKeeps ==
    ASSUME RedisTypeOK, QueueInv, NEW c \in Caller, FlushReply(c)
    PROVE  QueueInv'
<1>1. \A d \in Caller \ {c} : ~Flushing(d)
  BY DEF FlushReply, QueueInv, FlushInv, Flushing
<1>2. UNCHANGED <<pool, inRedis, removeQueue, deleted, toRemove>>
  BY DEF FlushReply
<1>3. /\ at[c] # "removeSent"
      /\ \A d \in Caller \ {c} : at'[d] = at[d] /\ failed'[d] = failed[d]
      /\ at'[c] \in {"idle", "remove"}
  BY DEF FlushReply, Goes, RedisTypeOK
<1>4. Waiting' \subseteq Waiting /\ Waiting \subseteq inRedis \cup Waiting'
  <2>1. CASE failed[c] = <<>>
    <3>1. toAdd[c] \in Seq(Tx) /\ cacheQueue \in Seq(Tx)
      BY DEF RedisTypeOK
    <3>2. IsPrefixOf(toAdd[c], cacheQueue) /\ RangeOf(toAdd[c]) \subseteq inRedis
      BY <2>1 DEF QueueInv, FlushInv, FlushReply, Flushing
    <3>3. cacheQueue' = Rest(toAdd[c], cacheQueue)
      BY <2>1 DEF FlushReply, Rest
    <3>4. /\ RangeOf(cacheQueue') \subseteq RangeOf(cacheQueue)
          /\ RangeOf(cacheQueue) \subseteq RangeOf(toAdd[c]) \cup RangeOf(cacheQueue')
      BY <3>1, <3>2, <3>3, CutSlice
    <3> QED BY <3>2, <3>4 DEF Waiting
  <2>2. CASE failed[c] # <<>>
    BY <2>2 DEF FlushReply, Waiting
  <2> QED BY <2>1, <2>2
<1>5. (pool \subseteq inRedis \cup Waiting)'
  BY <1>2, <1>4 DEF QueueInv
<1>6. FlushInv'
  <2>1. \A d \in Caller : ~Flushing(d)'
    BY <1>1, <1>3 DEF Flushing
  <2> QED BY <2>1 DEF FlushInv
<1>7. LeavingInv'
  BY <1>2, <1>3, <1>4 DEF QueueInv, LeavingInv, Leaving
<1> QED BY <1>5, <1>6, <1>7 DEF QueueInv

\* What sending a slice does: nothing of it was wanted, and what Redis still has of
\* the list is among the slices to come and the failures.
LEMMA SendSliceKeeps ==
    ASSUME RedisTypeOK, NEW c \in Caller, NEW list \in Seq(Tx), NEW failures \in Seq(Tx),
           SendSlice(c, list, failures), ~strayed'
    PROVE  \E gone \in SUBSET RangeOf(list) :
              /\ gone \cap (Waiting \cup pool) = {}
              /\ inRedis \ gone \subseteq inRedis' /\ inRedis' \subseteq inRedis
              /\ RangeOf(failures) \subseteq RangeOf(failed'[c])
              /\ gone \cap inRedis' \subseteq RangeOf(failed'[c])
              /\ RangeOf(list) \subseteq gone \cup RangeOf(toRemove'[c])
              /\ \A d \in Caller \ {c} :
                    failed'[d] = failed[d] /\ toRemove'[d] = toRemove[d]
<1> DEFINE slice == FirstOf(BatchSize, list)
<1>1. /\ slice \in Seq(Tx) /\ RangeOf(slice) \subseteq RangeOf(list)
      /\ RangeOf(list) \subseteq RangeOf(slice) \cup RangeOf(RestOf(BatchSize, list))
      /\ RangeOf(failures \o slice) = RangeOf(failures) \cup RangeOf(slice)
  BY FirstAndRest, ConcatRange, RedisAssumption
<1>2. RangeOf(slice) \cap (Waiting \cup pool) = {}
  BY DEF SendSlice, Late
<1>3. /\ toRemove'[c] = RestOf(BatchSize, list)
      /\ \A d \in Caller \ {c} :
            failed'[d] = failed[d] /\ toRemove'[d] = toRemove[d]
  BY DEF SendSlice, RedisTypeOK
<1>4. \/ failed'[c] = failures /\ inRedis' = inRedis \ RangeOf(slice)
      \/ /\ failed'[c] = failures \o slice
         /\ inRedis' \in {inRedis, inRedis \ RangeOf(slice)}
  BY DEF SendSlice, RedisTypeOK
<1> HIDE DEF slice
<1>5. /\ inRedis \ RangeOf(slice) \subseteq inRedis' /\ inRedis' \subseteq inRedis
      /\ RangeOf(failures) \subseteq RangeOf(failed'[c])
      /\ RangeOf(slice) \cap inRedis' \subseteq RangeOf(failed'[c])
  BY <1>1, <1>4
<1>6. RangeOf(list) \subseteq RangeOf(slice) \cup RangeOf(toRemove'[c])
  BY <1>1, <1>3
<1> QED BY <1>1, <1>2, <1>3, <1>5, <1>6

\* A flush under way is not disturbed by the removal of what does not wait.
LEMMA FlushUndisturbed ==
    ASSUME RedisTypeOK, FlushInv, UNCHANGED <<cacheQueue, toAdd>>,
           NEW gone, gone \cap Waiting = {}, inRedis \ gone \subseteq inRedis',
           \A d \in Caller : Flushing(d)' => Flushing(d) /\ failed'[d] = failed[d]
    PROVE  FlushInv'
<1>1. ASSUME NEW d \in Caller, Flushing(d)', failed'[d] = <<>>
      PROVE  RangeOf(toAdd[d]) \subseteq inRedis'
  <2>1. IsPrefixOf(toAdd[d], cacheQueue) /\ RangeOf(toAdd[d]) \subseteq inRedis
    BY <1>1 DEF FlushInv
  <2>2. toAdd[d] \in Seq(Tx) /\ cacheQueue \in Seq(Tx)
    BY DEF RedisTypeOK
  <2>3. RangeOf(toAdd[d]) \subseteq Waiting
    BY <2>1, <2>2, PrefixWaits
  <2> QED BY <2>1, <2>3
<1> QED BY <1>1 DEF FlushInv

LEMMA SendRemoveKeeps ==
    ASSUME RedisTypeOK, QueueInv, NEW c \in Caller, SendRemove(c), ~strayed'
    PROVE  QueueInv'
<1>1. UNCHANGED <<pool, cacheQueue, toAdd, Waiting>>
  BY DEF SendRemove, Waiting
<1>2. /\ at[c] = "remove" /\ at'[c] \in {"idle", "removeSent"}
      /\ \A d \in Caller \ {c} : at'[d] = at[d]
  BY DEF SendRemove, Goes, RedisTypeOK
<1>3. \A d \in Caller : Flushing(d)' => d # c /\ Flushing(d)
  BY <1>2 DEF Flushing
<1>4. /\ Removed(c) \in Seq(Tx) /\ <<>> \in Seq(Tx)
      /\ \A t \in RangeOf(removeQueue) \cup RangeOf(deleted) :
            t \in RangeOf(Removed(c)) \/ t \in RangeOf(deleted')
  <2>1. removeQueue \in Seq(Tx) /\ deleted \in Seq(Tx) /\ <<>> \in Seq(Tx)
    BY DEF RedisTypeOK
  <2>2. CASE c = "loop"
    BY <2>1, <2>2, ConcatRange DEF Removed
  <2>3. CASE c # "loop"
    <3>1. Removed(c) = removeQueue \o <<>> /\ deleted' = deleted
      BY <2>3 DEF SendRemove, Removed
    <3> QED BY <2>1, <3>1, ConcatRange
  <2> QED BY <2>2, <2>3
<1>5. CASE connected /\ Removed(c) # <<>>
  <2>1. SendSlice(c, Removed(c), <<>>) /\ at'[c] = "removeSent"
    BY <1>5 DEF SendRemove, Goes, RedisTypeOK
  <2>2. PICK gone \in SUBSET RangeOf(Removed(c)) :
              /\ gone \cap (Waiting \cup pool) = {}
              /\ inRedis \ gone \subseteq inRedis' /\ inRedis' \subseteq inRedis
              /\ gone \cap inRedis' \subseteq RangeOf(failed'[c])
              /\ RangeOf(Removed(c)) \subseteq gone \cup RangeOf(toRemove'[c])
              /\ \A d \in Caller \ {c} :
                    failed'[d] = failed[d] /\ toRemove'[d] = toRemove[d]
    BY <1>4, <2>1, SendSliceKeeps
  <2>3. (pool \subseteq inRedis \cup Waiting)'
    BY <1>1, <2>2 DEF QueueInv
  <2>4. FlushInv'
    BY <1>1, <1>3, <2>2, FlushUndisturbed DEF QueueInv
  <2>5. ASSUME NEW t \in (inRedis' \cup Waiting') \ pool'
        PROVE  Leaving(t)'
    <3>1. Leaving(t)
      BY <1>1, <2>2 DEF QueueInv, LeavingInv
    <3>2. CASE t \in RangeOf(Removed(c))
      <4>1. t \in gone => t \in inRedis'
        BY <1>1, <2>2
      <4>2. at'[c] = "removeSent" /\ t \in RangeOf(toRemove'[c]) \cup RangeOf(failed'[c])
        BY <2>1, <2>2, <3>2, <4>1
      <4> QED BY <4>2 DEF Leaving
    <3>3. CASE t \notin RangeOf(Removed(c))
      BY <1>2, <1>4, <2>2, <3>1, <3>3 DEF Leaving
    <3> QED BY <3>2, <3>3
  <2> QED BY <2>3, <2>4, <2>5 DEF QueueInv, LeavingInv
<1>6. CASE ~(connected /\ Removed(c) # <<>>)
  <2>1. UNCHANGED <<inRedis, failed, toRemove>> /\ removeQueue' = Removed(c)
    BY <1>6 DEF SendRemove
  <2>2. (pool \subseteq inRedis \cup Waiting)'
    BY <1>1, <2>1 DEF QueueInv
  <2>3. FlushInv'
    BY <1>1, <1>3, <2>1 DEF QueueInv, FlushInv
  <2>4. LeavingInv'
    BY <1>1, <1>2, <1>4, <2>1 DEF QueueInv, LeavingInv, Leaving
  <2> QED BY <2>2, <2>3, <2>4 DEF QueueInv
<1> QED BY <1>5, <1>6

LEMMA SendNextSliceKeeps ==
    ASSUME RedisTypeOK, QueueInv, NEW c \in Caller, SendNextSlice(c), ~strayed'
    PROVE  QueueInv'
<1>1. /\ UNCHANGED <<pool, cacheQueue, toAdd, Waiting, at, removeQueue, deleted>>
      /\ at[c] = "removeSent"
      /\ SendSlice(c, toRemove[c], failed[c])
  BY DEF SendNextSlice, Waiting
<1>2. toRemove[c] \in Seq(Tx) /\ failed[c] \in Seq(Tx)
  BY DEF RedisTypeOK
<1>3. PICK gone \in SUBSET RangeOf(toRemove[c]) :
            /\ gone \cap (Waiting \cup pool) = {}
            /\ inRedis \ gone \subseteq inRedis' /\ inRedis' \subseteq inRedis
            /\ RangeOf(failed[c]) \subseteq RangeOf(failed'[c])
            /\ gone \cap inRedis' \subseteq RangeOf(failed'[c])
            /\ RangeOf(toRemove[c]) \subseteq gone \cup RangeOf(toRemove'[c])
            /\ \A d \in Caller \ {c} :
                  failed'[d] = failed[d] /\ toRemove'[d] = toRemove[d]
  BY <1>1, <1>2, SendSliceKeeps
<1>4. \A d \in Caller : Flushing(d)' => d # c /\ Flushing(d)
  BY <1>1 DEF Flushing
<1>5. (pool \subseteq inRedis \cup Waiting)'
  BY <1>1, <1>3 DEF QueueInv
<1>6. FlushInv'
  BY <1>1, <1>3, <1>4, FlushUndisturbed DEF QueueInv
<1>7. LeavingInv'
  BY <1>1, <1>3 DEF QueueInv, LeavingInv, Leaving
<1> QED BY <1>5, <1>6, <1>7 DEF QueueInv

LEMMA AddTransactionKeeps ==
    ASSUME RedisTypeOK, QueueInv, NEW t \in Tx, AddTransaction(t)
    PROVE  QueueInv'
<1>1. cacheQueue \in Seq(Tx) /\ cacheQueue' = Append(cacheQueue, t)
  BY DEF RedisTypeOK, AddTransaction
<1>2. /\ RangeOf(cacheQueue') = RangeOf(cacheQueue) \cup {t}
      /\ \A s \in Seq(Tx) : IsPrefixOf(s, cacheQueue) => IsPrefixOf(s, cacheQueue')
  BY <1>1, AppendTx
<1>3. Waiting' = Waiting \cup {t}
  BY <1>2 DEF Waiting
<1>4. /\ pool' = pool \cup {t}
      /\ UNCHANGED <<inRedis, removeQueue, deleted, toAdd, toRemove, failed>>
  BY DEF AddTransaction
<1>5. /\ at["loop"] = "idle" /\ at'["loop"] \in {"idle", "add"}
      /\ \A d \in Caller \ {"loop"} : at'[d] = at[d]
  BY DEF AddTransaction, Goes, RedisTypeOK, Caller
<1>6. \A d \in Caller : Flushing(d)' => Flushing(d)
  BY <1>5 DEF Flushing
<1>7. FlushInv'
  <2>1. \A d \in Caller : toAdd[d] \in Seq(Tx)
    BY DEF RedisTypeOK
  <2> QED BY <1>2, <1>4, <1>6, <2>1 DEF QueueInv, FlushInv
<1>8. LeavingInv'
  BY <1>3, <1>4, <1>5 DEF QueueInv, LeavingInv, Leaving
<1> QED BY <1>3, <1>4, <1>7, <1>8 DEF QueueInv

LEMMA QueueStep ==
    ASSUME RedisTypeOK, DeletedInv, ~strayed => QueueInv, [RedisNext]_redisVars, ~strayed'
    PROVE  QueueInv'
<1>1. ~strayed /\ QueueInv
  <2>1. ~strayed
    BY DEF RedisNext, redisVars, AddTransaction, EndRound, HandleMined, Delete,
       SkipFlush, SendFlush, FlushReply, SendRemove, SendNextSlice, SendSlice,
       RemoveReply, Disconnect, OnConnected, AbandonRound, RestartFromRedis
  <2> QED BY <2>1
<1>2. ASSUME NEW txs \in Lists(pool), EndRound(txs) \/ HandleMined(txs)
      PROVE  QueueInv'
  <2>1. /\ pool' = pool \ RangeOf(txs) /\ RangeOf(deleted) = {} /\ deleted' = txs
        /\ UNCHANGED <<inRedis, cacheQueue, Waiting, removeQueue, toAdd, toRemove, failed>>
    BY <1>2, EmptyRange DEF EndRound, HandleMined, Delete, DeletedInv, Waiting
  <2>2. /\ at["loop"] = "idle" /\ at'["loop"] \in {"flush", "remove"}
        /\ \A d \in Caller \ {"loop"} : at'[d] = at[d]
    BY <1>2 DEF EndRound, HandleMined, Delete, Goes, RedisTypeOK, Caller
  <2>3. \A d \in Caller : Flushing(d)' => Flushing(d)
    BY <2>2 DEF Flushing
  <2>4. FlushInv'
    BY <1>1, <2>1, <2>3 DEF QueueInv, FlushInv
  <2>5. LeavingInv'
    BY <1>1, <2>1, <2>2 DEF QueueInv, LeavingInv, Leaving
  <2> QED BY <1>1, <2>1, <2>4, <2>5 DEF QueueInv
<1>3. ASSUME NEW c \in Caller, SkipFlush(c) \/ RemoveReply(c)
      PROVE  QueueInv'
  <2>1. /\ UNCHANGED <<pool, inRedis, cacheQueue, Waiting, deleted>>
        /\ RangeOf(removeQueue) \subseteq RangeOf(removeQueue')
        /\ at[c] = "removeSent" =>
              /\ RangeOf(failed[c]) \subseteq RangeOf(removeQueue')
              /\ RangeOf(toRemove[c]) = {}
    <3>1. removeQueue \in Seq(Tx) /\ failed[c] \in Seq(Tx)
      BY DEF RedisTypeOK
    <3> QED BY <1>3, <3>1, ConcatRange, EmptyRange DEF SkipFlush, RemoveReply, Waiting
  <2>2. /\ at'[c] \in {"idle", "remove"}
        /\ \A d \in Caller \ {c} :
              /\ at'[d] = at[d] /\ failed'[d] = failed[d]
              /\ toAdd'[d] = toAdd[d] /\ toRemove'[d] = toRemove[d]
    BY <1>3 DEF SkipFlush, RemoveReply, Goes, RedisTypeOK
  <2>3. \A d \in Caller : Flushing(d)' => d # c /\ Flushing(d)
    BY <2>2 DEF Flushing
  <2>4. FlushInv'
    BY <1>1, <2>1, <2>2, <2>3 DEF QueueInv, FlushInv
  <2>5. LeavingInv'
    BY <1>1, <2>1, <2>2 DEF QueueInv, LeavingInv, Leaving
  <2> QED BY <1>1, <2>1, <2>4, <2>5 DEF QueueInv
<1>4. ASSUME Disconnect \/ AbandonRound \/ \E c \in Connections : OnConnected(c)
      PROVE  QueueInv'
  <2>1. /\ UNCHANGED <<pool, inRedis, cacheQueue, Waiting, removeQueue, toAdd, toRemove, failed>>
        /\ deleted' = deleted
    BY <1>4 DEF Disconnect, OnConnected, AbandonRound, Lost, Waiting
  <2>2. \A d \in Caller :
           at'[d] = at[d] \/ (/\ at[d] \in {"idle", "flush", "remove"}
                              /\ at'[d] \in {"idle", "flush"})
    BY <1>4 DEF Disconnect, OnConnected, AbandonRound, Goes, RedisTypeOK
  <2>3. \A d \in Caller : Flushing(d)' => Flushing(d)
    BY <2>2 DEF Flushing
  <2>4. FlushInv'
    BY <1>1, <2>1, <2>3 DEF QueueInv, FlushInv
  <2>5. LeavingInv'
    BY <1>1, <2>1, <2>2 DEF QueueInv, LeavingInv, Leaving
  <2> QED BY <1>1, <2>1, <2>4, <2>5 DEF QueueInv
<1>5. ASSUME NEW reached \in BOOLEAN, RestartFromRedis(reached)
      PROVE  QueueInv'
  <2>1. pool' = inRedis' /\ Waiting' = {}
    BY <1>5, EmptyRange DEF RestartFromRedis, Waiting
  <2>2. \A d \in Caller : ~Flushing(d)'
    BY <1>5 DEF RestartFromRedis, Flushing
  <2> QED BY <2>1, <2>2 DEF QueueInv, FlushInv, LeavingInv
<1>6. CASE UNCHANGED redisVars
  <2>1. /\ UNCHANGED <<pool, inRedis, cacheQueue, Waiting, removeQueue, toAdd, toRemove, failed>>
        /\ UNCHANGED <<deleted, at>>
    BY <1>6 DEF redisVars, Waiting
  <2> QED BY <1>1, <2>1 DEF QueueInv, FlushInv, LeavingInv, Leaving, Flushing
<1> QED
  BY <1>1, <1>2, <1>3, <1>4, <1>5, <1>6, AddTransactionKeeps, SendFlushKeeps,
     FlushReplyKeeps, SendRemoveKeeps, SendNextSliceKeeps DEF RedisNext

LEMMA QueueInvariant == RedisSpec => [](DeletedInv /\ (~strayed => QueueInv))
<1>1. RedisInit => DeletedInv /\ (~strayed => QueueInv)
  BY EmptyRange DEF RedisInit, DeletedInv, QueueInv, FlushInv, LeavingInv, Flushing,
     Waiting, Caller
<1>2. /\ RedisTypeOK /\ DeletedInv /\ (~strayed => QueueInv)
      /\ [RedisNext]_redisVars
      => (DeletedInv /\ (~strayed => QueueInv))'
  BY DeletedStep, QueueStep
<1> QED BY <1>1, <1>2, RedisTypeCorrect, PTL DEF RedisSpec

\* Every transaction of the mempool is in Redis or waits to be written, whatever
\* commands fail, whenever the connection or the process is lost and however many
\* handlers of a new connection overlap (redis-cache.ts:160-218).
THEOREM NothingMissing == RedisSpec => []StoredOrQueued
<1>1. (~strayed => QueueInv) => StoredOrQueued
  BY DEF QueueInv, StoredOrQueued
<1> QED BY <1>1, QueueInvariant, PTL

\* What Redis has beyond the mempool is on its way out.
THEOREM NothingStays == RedisSpec => []LeftoversGo
<1>1. (~strayed => QueueInv) => LeftoversGo
  BY DEF QueueInv, LeavingInv, Leaving, LeftoversGo
<1> QED BY <1>1, QueueInvariant, PTL

-----------------------------------------------------------------------------
(* Indexer *)

\* Every variable keeps its type, whatever calls are in progress
\* (indexer.ts:25-30).
THEOREM TypeCorrect == Spec => []TypeOK
<1>1. Init => TypeOK
  BY DEF Init, TypeOK, TaskName, Stage, Step
<1>2. TypeOK /\ [Next]_vars => TypeOK'
  <2> SUFFICES ASSUME TypeOK, [Next]_vars
               PROVE  TypeOK'
    OBVIOUS
  <2> USE DEF TypeOK, Stage, Step, TaskName, runVars, taskVars, envVars
  <2>1. CASE Reindex \/ ReindexTimeout
    BY <2>1 DEF Reindex, ReindexTimeout
  <2>2. ASSUME NEW r \in Runs, StartRun(r)
        PROVE  TypeOK'
    BY <2>2 DEF StartRun
  <2>3. ASSUME NEW r \in Runs, RunStep(r)
        PROVE  TypeOK'
    <3>1. CASE NodeSynced(r)
      BY <3>1 DEF NodeSynced, Proceed
    <3>2. ASSUME NEW coinStatsSynced \in BOOLEAN,
                 IndexesListed(r, coinStatsSynced)
          PROVE  TypeOK'
      BY <3>2 DEF IndexesListed, Proceed, RunSingleTask, FirstAwait
    <3>3. CASE ChainValid(r)
      BY <3>3 DEF ChainValid, Proceed, RunSingleTask, FirstAwait
    <3>4. CASE FinishRun(r) \/ FailRun(r)
      BY <3>4 DEF FinishRun, FailRun, EndRun
    <3> QED BY <2>3, <3>1, <3>2, <3>3, <3>4 DEF RunStep
  <2>4. ASSUME NEW c \in Calls, CallStep(c)
        PROVE  TypeOK'
    <3>1. ASSUME NEW priceKnown \in BOOLEAN, PriceIdAnswered(c, priceKnown)
          PROVE  TypeOK'
      BY <3>1 DEF PriceIdAnswered, ScheduleSingleTask, Return
    <3>2. CASE PricesIndexed(c) \/ CoinStatsIndexed(c)
      BY <3>2 DEF PricesIndexed, CoinStatsIndexed, Return
    <3> QED BY <2>4, <3>1, <3>2 DEF CallStep
  <2>5. CASE FireScheduled
    BY <2>5 DEF FireScheduled, RunSingleTask, FirstAwait
  <2>6. ASSUME NEW priceKnown \in BOOLEAN, SaveBlockPrice(priceKnown)
        PROVE  TypeOK'
    BY <2>6 DEF SaveBlockPrice, ScheduleSingleTask
  <2>7. CASE UpdatePrices \/ UpdateMempool
    BY <2>7 DEF UpdatePrices, UpdateMempool
  <2>8. CASE UNCHANGED vars
    BY <2>8 DEF vars
  <2> QED BY <2>1, <2>2, <2>3, <2>4, <2>5, <2>6, <2>7, <2>8 DEF Next
<1> QED BY <1>1, <1>2, PTL DEF Spec

-----------------------------------------------------------------------------
\* The two halves of FlagsExact.
OneRun ==
    /\ \A r, s \in Runs : run[r] # "idle" /\ run[s] # "idle" => r = s
    /\ indexerRunning <=> \E r \in Runs : run[r] # "idle"

OneCall(task) ==
    /\ \A c, d \in Working(task) : c = d
    /\ tasksRunning[task] <=> Working(task) # {}

OneCallEach == \A task \in TaskName : OneCall(task)

\* runSingleTask keeps at most one call per task, whoever calls it.
LEMMA RunSingleTaskKeepsOne ==
  ASSUME TypeOK, OneCallEach,
         NEW task \in TaskName, RunSingleTask(task)
  PROVE  OneCallEach'
<1> SUFFICES ASSUME NEW t \in TaskName
             PROVE  OneCall(t)'
  BY DEF OneCallEach
<1> USE DEF OneCallEach, OneCall, Working, TaskName
<1>1. CASE tasksRunning[task] /\ UNCHANGED <<tasksRunning, call>>
  BY <1>1
<1>2. ASSUME ~tasksRunning[task],
             tasksRunning' = [tasksRunning EXCEPT ![task] = TRUE],
             NEW c \in Calls, call[c] = "idle",
             call' = [call EXCEPT ![c] = FirstAwait(task)]
      PROVE  OneCall(t)'
  <2>1. call' \in [Calls -> Step]
    BY <1>2 DEF TypeOK, FirstAwait, Step
  <2>2. CASE t = task
    <3>1. Working(t) = {}
      BY <1>2, <2>2
    <3>2. Working(t)' = {c}
      BY <1>2, <2>1, <2>2, <3>1 DEF TypeOK, FirstAwait
    <3>3. tasksRunning'[t]
      BY <1>2, <2>2 DEF TypeOK
    <3> QED BY <3>2, <3>3
  <2>3. CASE t # task
    <3>1. Working(t)' = Working(t)
      BY <1>2, <2>1, <2>3 DEF TypeOK, FirstAwait
    <3>2. tasksRunning'[t] = tasksRunning[t]
      BY <1>2, <2>3 DEF TypeOK
    <3> QED BY <3>1, <3>2
  <2> QED BY <2>2, <2>3
<1> QED BY <1>1, <1>2 DEF RunSingleTask

\* A call that returns leaves none of its task.
LEMMA ReturnKeepsOne ==
  ASSUME TypeOK, OneCallEach,
         NEW task \in TaskName, NEW c \in Working(task), Return(c, task)
  PROVE  OneCallEach'
<1> SUFFICES ASSUME NEW t \in TaskName
             PROVE  OneCall(t)'
  BY DEF OneCallEach
<1> USE DEF OneCallEach, OneCall, Working, TaskName, Return
<1>1. call' \in [Calls -> Step] /\ c \in Calls
  BY DEF TypeOK, Step
<1>2. CASE t = task
  <2>1. Working(t)' = {}
    BY <1>1, <1>2 DEF TypeOK
  <2>2. ~tasksRunning'[t]
    BY <1>2 DEF TypeOK
  <2> QED BY <2>1, <2>2
<1>3. CASE t # task
  <2>1. Working(t)' = Working(t)
    BY <1>1, <1>3 DEF TypeOK
  <2>2. tasksRunning'[t] = tasksRunning[t]
    BY <1>3 DEF TypeOK
  <2> QED BY <2>1, <2>2
<1> QED BY <1>2, <1>3

\* Each step of a task keeps at most one call per task.
LEMMA StepKeepsOneCall ==
  ASSUME TypeOK, OneCallEach, [Next]_vars
  PROVE  OneCallEach'
<1> USE DEF runVars, taskVars, envVars
<1>0. ASSUME UNCHANGED <<tasksRunning, call>>
      PROVE  OneCallEach'
  BY <1>0 DEF OneCallEach, OneCall, Working
<1>1. CASE Reindex \/ ReindexTimeout \/ UpdatePrices \/ UpdateMempool
  BY <1>0, <1>1 DEF Reindex, ReindexTimeout, UpdatePrices, UpdateMempool
<1>2. ASSUME NEW r \in Runs, StartRun(r) \/ RunStep(r)
      PROVE  OneCallEach'
  <2>1. CASE StartRun(r) \/ NodeSynced(r) \/ FinishRun(r) \/ FailRun(r)
    BY <1>0, <2>1 DEF StartRun, NodeSynced, FinishRun, FailRun
  <2>2. ASSUME NEW coinStatsSynced \in BOOLEAN,
               IndexesListed(r, coinStatsSynced)
        PROVE  OneCallEach'
    BY <1>0, <2>2, RunSingleTaskKeepsOne DEF IndexesListed, TaskName
  <2>3. CASE ChainValid(r)
    BY <2>3, RunSingleTaskKeepsOne DEF ChainValid, TaskName
  <2> QED BY <1>2, <2>1, <2>2, <2>3 DEF RunStep
<1>3. ASSUME NEW c \in Calls, CallStep(c)
      PROVE  OneCallEach'
  <2>1. ASSUME call[c] = "asking", call' = [call EXCEPT ![c] = "pricing"],
               UNCHANGED tasksRunning
        PROVE  OneCallEach'
    <3>1. \A task \in TaskName : Working(task)' = Working(task)
      BY <2>1 DEF Working, TypeOK, TaskName
    <3> QED BY <2>1, <3>1 DEF OneCallEach, OneCall
  <2>2. ASSUME call[c] \in {"asking", "pricing"}, Return(c, "blocksPrices")
        PROVE  OneCallEach'
    BY <2>2, ReturnKeepsOne DEF Working, TaskName
  <2>3. ASSUME call[c] = "counting", Return(c, "coinStatsIndex")
        PROVE  OneCallEach'
    BY <2>3, ReturnKeepsOne DEF Working, TaskName
  <2> QED BY <1>3, <2>1, <2>2, <2>3
          DEF CallStep, PriceIdAnswered, PricesIndexed, CoinStatsIndexed
<1>4. CASE FireScheduled
  BY <1>4, RunSingleTaskKeepsOne DEF FireScheduled, TaskName
<1>5. ASSUME NEW priceKnown \in BOOLEAN, SaveBlockPrice(priceKnown)
      PROVE  OneCallEach'
  BY <1>0, <1>5 DEF SaveBlockPrice
<1>6. CASE UNCHANGED vars
  BY <1>0, <1>6 DEF vars
<1> QED BY <1>1, <1>2, <1>3, <1>4, <1>5, <1>6 DEF Next

\* Each step keeps at most one run, and some run coming.
LEMMA StepKeepsOneRun ==
  ASSUME TypeOK, OneRun, NeverDormant, [Next]_vars
  PROVE  OneRun' /\ NeverDormant'
<1> USE DEF runVars, taskVars, envVars
<1>0. ASSUME UNCHANGED runVars
      PROVE  OneRun' /\ NeverDormant'
  BY <1>0 DEF OneRun, NeverDormant
<1>1. CASE Reindex \/ ReindexTimeout
  BY <1>1 DEF Reindex, ReindexTimeout, OneRun, NeverDormant
<1>2. ASSUME NEW r \in Runs, StartRun(r)
      PROVE  OneRun' /\ NeverDormant'
  BY <1>2 DEF StartRun, OneRun, NeverDormant, TypeOK
<1>3. ASSUME NEW r \in Runs, NEW from \in Stage \ {"idle"},
             NEW to \in Stage \ {"idle"}, Proceed(r, from, to)
      PROVE  OneRun' /\ NeverDormant'
  BY <1>3 DEF Proceed, OneRun, NeverDormant, TypeOK, Stage
<1>4. ASSUME NEW r \in Runs, NEW delay \in {"retry", "hourly"},
             run[r] # "idle", EndRun(r, delay)
      PROVE  OneRun' /\ NeverDormant'
  BY <1>4 DEF EndRun, OneRun, NeverDormant, TypeOK
<1>5. ASSUME NEW r \in Runs, RunStep(r)
      PROVE  OneRun' /\ NeverDormant'
  BY <1>3, <1>4, <1>5
     DEF RunStep, NodeSynced, IndexesListed, ChainValid, FinishRun, FailRun, Stage
<1>6. ASSUME NEW c \in Calls, CallStep(c)
      PROVE  OneRun' /\ NeverDormant'
  BY <1>0, <1>6 DEF CallStep, PriceIdAnswered, PricesIndexed, CoinStatsIndexed
<1>7. CASE FireScheduled \/ UpdatePrices \/ UpdateMempool
  BY <1>0, <1>7 DEF FireScheduled, UpdatePrices, UpdateMempool
<1>8. ASSUME NEW priceKnown \in BOOLEAN, SaveBlockPrice(priceKnown)
      PROVE  OneRun' /\ NeverDormant'
  BY <1>0, <1>8 DEF SaveBlockPrice
<1>9. CASE UNCHANGED vars
  BY <1>0, <1>9 DEF vars
<1> QED BY <1>1, <1>2, <1>5, <1>6, <1>7, <1>8, <1>9 DEF Next

\* The flags are exact and the indexer never dormant, in every state.
LEMMA SchedulingInvariant == Spec => [](OneRun /\ OneCallEach /\ NeverDormant)
<1>1. Init => OneRun /\ OneCallEach /\ NeverDormant
  BY DEF Init, OneRun, OneCallEach, OneCall, Working, TaskName, NeverDormant
<1>2. TypeOK /\ OneRun /\ OneCallEach /\ NeverDormant /\ [Next]_vars
        => (OneRun /\ OneCallEach /\ NeverDormant)'
  BY StepKeepsOneRun, StepKeepsOneCall
<1> QED BY <1>1, <1>2, TypeCorrect, PTL DEF Spec

\* No two calls of $run or of one task are ever in progress together, and no
\* flag stays set after the last call returned (indexer.ts:134, 167, 172, 236).
THEOREM FlagsAlwaysExact == Spec => []FlagsExact
<1>1. OneRun /\ OneCallEach => FlagsExact
  BY DEF OneRun, OneCallEach, OneCall, FlagsExact
<1> QED BY <1>1, SchedulingInvariant, PTL

\* A run is always wanted, in progress or planned (indexer.ts:80-97, 235-244).
THEOREM NeverGoesDormant == Spec => []NeverDormant
BY SchedulingInvariant, PTL

-----------------------------------------------------------------------------
(* Failover *)

\* The router has at least one host, and the loop asks each in turn.
LEMMA HostFacts ==
  /\ Len(Hosts) \in Nat \ {0} /\ DOMAIN Hosts = 1..Len(Hosts)
  /\ 1 \in DOMAIN Hosts /\ Host = {Hosts[i] : i \in DOMAIN Hosts} /\ Hosts[1] \in Host
<1>1. Hosts \in Seq(Host) /\ Hosts # <<>>
  BY FailoverAssumption DEF Host
<1>2. Len(Hosts) \in Nat \ {0} /\ DOMAIN Hosts = 1..Len(Hosts)
  BY <1>1, EmptySeq, LenProperties
<1>3. Host = {Hosts[i] : i \in DOMAIN Hosts}
  BY <1>1 DEF Host, ToSet
<1>4. 1 \in DOMAIN Hosts
  BY <1>2
<1> QED BY <1>2, <1>3, <1>4

\* The loop or a failed request has taken the host for bad.
Marked(h) == "yes" \in {unreachable[h], outOfSync[h]}

\* The active host is marked only when all are, or while the loop waits for the
\* versions of that host or of the one that is not.
MarkedOnlyMeanwhile ==
    Marked(activeHost) =>
        \A h \in Host :
            Marked(h) \/ (polling = "versions" /\ Hosts[polled] \in {activeHost, h})

RouterInv == FailoverTypeOK /\ MarkedOnlyMeanwhile

\* The first of a ranking is marked only when all are.
LEMMA FirstIsUnmarked ==
  ASSUME NEW down \in [Host -> Flag], NEW behind \in [Host -> Flag],
         NEW best \in Firsts(down, behind, Host)
  PROVE  /\ best \in Host
         /\ "yes" \in {down[best], behind[best]} =>
               \A h \in Host : "yes" \in {down[h], behind[h]}
BY DEF Firsts, Better, Bad

\* The first host takes the place of one that is bad.
LEMMA SwitchStep ==
  ASSUME FailoverTypeOK, Switch, NextHost,
         unreachable' \in [Host -> Flag], outOfSync' \in [Host -> Flag]
  PROVE  /\ activeHost' \in Host /\ hostFailures' \in [Host -> 0..MaxFailures]
         /\ MarkedOnlyMeanwhile'
<1>1. PICK best \in Firsts(unreachable', outOfSync', Host) :
          \/ activeHost' = best /\ hostFailures' = [hostFailures EXCEPT ![activeHost] = 0]
          \/ /\ "yes" \notin {unreachable'[activeHost], outOfSync'[activeHost]}
             /\ UNCHANGED <<activeHost, hostFailures>>
  BY DEF Switch
<1>2. /\ best \in Host
      /\ "yes" \in {unreachable'[best], outOfSync'[best]} =>
            \A x \in Host : "yes" \in {unreachable'[x], outOfSync'[x]}
  BY FirstIsUnmarked
<1>3. [hostFailures EXCEPT ![activeHost] = 0] \in [Host -> 0..MaxFailures]
  BY FailoverAssumption DEF FailoverTypeOK
<1>4. "yes" \in {unreachable'[activeHost'], outOfSync'[activeHost']} =>
          \A x \in Host : "yes" \in {unreachable'[x], outOfSync'[x]}
  BY <1>1, <1>2
<1> QED BY <1>1, <1>2, <1>3, <1>4 DEF MarkedOnlyMeanwhile, Marked, FailoverTypeOK

LEMMA NextHostStep ==
  ASSUME FailoverTypeOK, NextHost
  PROVE  polled' \in DOMAIN Hosts /\ polling' \in {"check", "versions", "rank"}
BY HostFacts DEF NextHost, FailoverTypeOK

\* Whatever is polled, sent, answered or fails, and however late.
LEMMA RouterStep ==
  ASSUME FailoverTypeOK, MarkedOnlyMeanwhile, FailoverNext
  PROVE  FailoverTypeOK' /\ MarkedOnlyMeanwhile'
<1>0. FailureLimit \in Nat /\ MaxFailures \in Nat /\ MaxChanges \in Nat /\ MaxHeight \in Nat
  BY FailoverAssumption
<1>1. ASSUME NEW h \in Host, HostChanges(h)
      PROVE  FailoverTypeOK' /\ MarkedOnlyMeanwhile'
  <2>1. up' \in [Host -> BOOLEAN] /\ height' \in [Host -> 0..MaxHeight]
    BY <1>1 DEF HostChanges, FailoverTypeOK
  <2>2. changes' \in 0..MaxChanges
    BY <1>0, <1>1 DEF HostChanges, FailoverTypeOK
  <2>3. MarkedOnlyMeanwhile'
    BY <1>1 DEF HostChanges, MarkedOnlyMeanwhile, Marked
  <2> QED BY <1>1, <2>1, <2>2, <2>3 DEF HostChanges, FailoverTypeOK
<1>2. ASSUME PollHost
      PROVE  FailoverTypeOK' /\ MarkedOnlyMeanwhile'
  <2> DEFINE h == Hosts[polled]
  <2>1. h \in Host
    BY HostFacts DEF FailoverTypeOK
  <2>2. /\ outOfSync' \in [Host -> Flag] /\ unreachable' \in [Host -> Flag]
        /\ latestHeight' \in [Host -> 0..MaxHeight]
    <3>1. \A b : FlagOf(b) \in Flag
      BY DEF FlagOf, Flag
    <3>2. latestHeight' \in [Host -> 0..MaxHeight]
      BY <1>2, <2>1 DEF PollHost, CheckHost, FailoverTypeOK
    <3> QED BY <1>2, <3>1, <3>2 DEF PollHost, CheckHost, FailoverTypeOK
  <2>3. UNCHANGED <<up, height, changes, fallbackHost, request, blamed>>
    BY <1>2 DEF PollHost
  <2>4. CASE Switch /\ NextHost
    BY <2>2, <2>3, <2>4, SwitchStep, NextHostStep DEF FailoverTypeOK
  <2>5. CASE /\ polling' = "versions"
             /\ UNCHANGED <<polled, activeHost, hostFailures>>
    <3>1. \A x \in Host \ {h} : Marked(x)' <=> Marked(x)
      BY <1>2 DEF PollHost, CheckHost, FailoverTypeOK, Marked
    <3>2. \A x \in Host : Marked(activeHost) => Marked(x)
      BY <1>2 DEF PollHost, MarkedOnlyMeanwhile
    <3>3. MarkedOnlyMeanwhile'
      BY <2>5, <3>1, <3>2 DEF MarkedOnlyMeanwhile, FailoverTypeOK
    <3> QED BY <2>2, <2>3, <2>5, <3>3 DEF FailoverTypeOK
  <2> QED BY <1>2, <2>4, <2>5 DEF PollHost
<1>6. ASSUME VersionsEnd
      PROVE  FailoverTypeOK' /\ MarkedOnlyMeanwhile'
  <2>1. /\ unreachable' \in [Host -> Flag] /\ outOfSync' \in [Host -> Flag]
        /\ UNCHANGED <<up, height, changes, latestHeight, fallbackHost, request, blamed>>
        /\ Switch /\ NextHost
    BY <1>6 DEF VersionsEnd, FailoverTypeOK
  <2> QED BY <2>1, SwitchStep, NextHostStep DEF FailoverTypeOK
<1>7. ASSUME UpdateFallback
      PROVE  FailoverTypeOK' /\ MarkedOnlyMeanwhile'
  <2>1. fallbackHost' \in Host
    <3>1. \A hosts : Firsts(unreachable, outOfSync, hosts) \subseteq hosts
      BY DEF Firsts
    <3> QED BY <1>7, <3>1 DEF UpdateFallback
  <2>2. MarkedOnlyMeanwhile'
    BY <1>7 DEF UpdateFallback, MarkedOnlyMeanwhile, Marked
  <2> QED BY <1>7, <2>1, <2>2, HostFacts DEF UpdateFallback, FailoverTypeOK
<1>3. ASSUME NEW r \in Request, SendRequest(r)
      PROVE  FailoverTypeOK' /\ MarkedOnlyMeanwhile'
  <2>1. request' \in [Request -> [sent : BOOLEAN, host : Host, retry : BOOLEAN]]
    BY <1>3 DEF SendRequest, SentTo, FailoverTypeOK
  <2>2. MarkedOnlyMeanwhile'
    BY <1>3 DEF SendRequest, MarkedOnlyMeanwhile, Marked
  <2> QED BY <1>3, <2>1, <2>2 DEF SendRequest, FailoverTypeOK
<1>4. ASSUME NEW r \in Request, AnswerRequest(r)
      PROVE  FailoverTypeOK' /\ MarkedOnlyMeanwhile'
  <2>0. request[r].host \in Host
    BY DEF FailoverTypeOK
  <2>1. request' \in [Request -> [sent : BOOLEAN, host : Host, retry : BOOLEAN]]
    BY <1>4, HostFacts DEF AnswerRequest, Idle, FailoverTypeOK
  <2>2. hostFailures' \in [Host -> 0..MaxFailures]
    BY <1>0, <1>4, <2>0 DEF AnswerRequest, FailoverTypeOK
  <2>3. MarkedOnlyMeanwhile'
    BY <1>4 DEF AnswerRequest, MarkedOnlyMeanwhile, Marked
  <2> QED BY <1>4, <2>1, <2>2, <2>3 DEF AnswerRequest, FailoverTypeOK
<1>8. ASSUME NEW r \in Request, RequestNotFound(r)
      PROVE  FailoverTypeOK' /\ MarkedOnlyMeanwhile'
  <2>1. request' \in [Request -> [sent : BOOLEAN, host : Host, retry : BOOLEAN]]
    BY <1>8, HostFacts DEF RequestNotFound, Idle, FailoverTypeOK
  <2>2. MarkedOnlyMeanwhile'
    BY <1>8 DEF RequestNotFound, MarkedOnlyMeanwhile, Marked
  <2> QED BY <1>8, <2>1, <2>2 DEF RequestNotFound, FailoverTypeOK
<1>5. ASSUME NEW r \in Request, FailRequest(r)
      PROVE  FailoverTypeOK' /\ MarkedOnlyMeanwhile'
  <2> DEFINE h == request[r].host
             counted == [hostFailures EXCEPT ![h] = IF @ = MaxFailures THEN @ ELSE @ + 1]
  <2>0. h \in Host /\ counted \in [Host -> 0..MaxFailures]
    BY <1>0 DEF FailoverTypeOK
  <2>1. changes' \in 0..MaxChanges
    <3>1. IF up[h] THEN changes < MaxChanges /\ changes' = changes + 1
          ELSE UNCHANGED changes
      BY <1>5 DEF FailRequest
    <3> QED BY <1>0, <3>1 DEF FailoverTypeOK
  <2>2. \/ /\ unreachable' = [unreachable EXCEPT ![activeHost] = "yes"]
           /\ hostFailures' = [counted EXCEPT ![activeHost] = 0]
           /\ activeHost' \in Firsts(unreachable', outOfSync, Host)
           /\ blamed' = (blamed \/ Blamed(h))
        \/ hostFailures' = counted /\ UNCHANGED <<unreachable, activeHost, blamed>>
    BY <1>5 DEF FailRequest
  <2>3. UNCHANGED <<up, height, polling, polled, outOfSync, latestHeight, fallbackHost>>
    BY <1>5 DEF FailRequest
  <2>4. \/ request' = [request EXCEPT ![r] = Idle]
        \/ \E to \in {activeHost', fallbackHost} :
              request' = [request EXCEPT ![r] = SentTo(to, FALSE)]
    BY <1>5 DEF FailRequest
  <2> HIDE DEF counted
  <2>5. /\ activeHost' \in Host /\ unreachable' \in [Host -> Flag]
        /\ hostFailures' \in [Host -> 0..MaxFailures] /\ blamed' \in BOOLEAN
        /\ MarkedOnlyMeanwhile'
    <3>1. CASE /\ unreachable' = [unreachable EXCEPT ![activeHost] = "yes"]
               /\ hostFailures' = [counted EXCEPT ![activeHost] = 0]
               /\ activeHost' \in Firsts(unreachable', outOfSync, Host)
               /\ blamed' = (blamed \/ Blamed(h))
      <4>1. unreachable' \in [Host -> Flag] /\ hostFailures' \in [Host -> 0..MaxFailures]
        BY <1>0, <2>0, <3>1 DEF FailoverTypeOK, Flag
      <4>2. outOfSync \in [Host -> Flag]
        BY DEF FailoverTypeOK
      <4>3. /\ activeHost' \in Host
            /\ "yes" \in {unreachable'[activeHost'], outOfSync[activeHost']} =>
                  \A x \in Host : "yes" \in {unreachable'[x], outOfSync[x]}
        BY <3>1, <4>1, <4>2, FirstIsUnmarked
      <4>4. blamed' \in BOOLEAN
        BY <3>1 DEF FailoverTypeOK
      <4> QED BY <2>3, <4>1, <4>3, <4>4 DEF MarkedOnlyMeanwhile, Marked
    <3>2. CASE hostFailures' = counted /\ UNCHANGED <<unreachable, activeHost, blamed>>
      BY <2>0, <2>3, <3>2 DEF FailoverTypeOK, MarkedOnlyMeanwhile, Marked
    <3> QED BY <2>2, <3>1, <3>2
  <2>6. request' \in [Request -> [sent : BOOLEAN, host : Host, retry : BOOLEAN]]
    <3>1. Idle \in [sent : BOOLEAN, host : Host, retry : BOOLEAN]
      BY HostFacts DEF Idle
    <3>2. \A to \in Host : SentTo(to, FALSE) \in [sent : BOOLEAN, host : Host, retry : BOOLEAN]
      BY DEF SentTo
    <3> QED BY <2>4, <2>5, <3>1, <3>2 DEF FailoverTypeOK
  <2> QED BY <2>1, <2>3, <2>5, <2>6 DEF FailoverTypeOK
<1> QED
  BY <1>1, <1>2, <1>3, <1>4, <1>5, <1>6, <1>7, <1>8
  DEF FailoverNext, PollHosts, RequestEnds

\* The invariant of the router, from the start on.
LEMMA RouterAlways == FailoverSpec => []RouterInv
<1>1. FailoverInit => RouterInv
  <2> SUFFICES ASSUME FailoverInit PROVE RouterInv
    OBVIOUS
  <2>0. MaxFailures \in Nat /\ MaxChanges \in Nat /\ MaxHeight \in Nat
    BY FailoverAssumption
  <2>1. FailoverTypeOK
    <3>1. Idle \in [sent : BOOLEAN, host : Host, retry : BOOLEAN]
      BY HostFacts DEF Idle
    <3>2. 0 \in 0..MaxHeight /\ 0 \in 0..MaxChanges /\ 0 \in 0..MaxFailures
      BY <2>0
    <3> QED BY <3>1, <3>2, HostFacts DEF FailoverInit, FailoverTypeOK, Flag
  <2>2. MarkedOnlyMeanwhile
    BY HostFacts DEF FailoverInit, MarkedOnlyMeanwhile, Marked
  <2> QED BY <2>1, <2>2 DEF RouterInv
<1>2. RouterInv /\ [FailoverNext]_failoverVars => RouterInv'
  <2> SUFFICES ASSUME RouterInv, [FailoverNext]_failoverVars PROVE RouterInv'
    OBVIOUS
  <2>1. CASE FailoverNext
    BY <2>1, RouterStep DEF RouterInv
  <2>2. CASE UNCHANGED failoverVars
    BY <2>2 DEF RouterInv, failoverVars, FailoverTypeOK, MarkedOnlyMeanwhile, Marked
  <2> QED BY <2>1, <2>2
<1> QED BY <1>1, <1>2, PTL DEF FailoverSpec

\* The variables of the router have their types, for any hosts and any number of
\* requests.
THEOREM FailoverTypeCorrect == FailoverSpec => []FailoverTypeOK
<1>1. RouterInv => FailoverTypeOK
  BY DEF RouterInv
<1> QED BY <1>1, RouterAlways, PTL

\* The router leaves a host that it has marked unreachable or out of sync while
\* another is not, whether the loop or a failed request has marked it: it stays
\* there only while the loop, having marked one of the two, waits for the versions
\* of that one (esplora-api.ts:117-190).
THEOREM LeavesMarkedHost == FailoverSpec => []MarkedOnlyMeanwhile
<1>1. RouterInv => MarkedOnlyMeanwhile
  BY DEF RouterInv
<1> QED BY <1>1, RouterAlways, PTL

=============================================================================
