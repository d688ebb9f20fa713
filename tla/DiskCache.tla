----------------------------- MODULE DiskCache ------------------------------
(***************************************************************************)
(* The disk cache (src/backend/src/api/disk-cache.ts) beside the main loop *)
(* (src/backend/src/index.ts, $updateBlocks of api/blocks.ts) that locks   *)
(* it.                                                                     *)
(*                                                                         *)
(* A save writes the mempool in chunks to temporary files, pausing before  *)
(* each of them while $updateBlocks holds the lock, then renames the files *)
(* one by one.  What the program knows is counted in generations: one more *)
(* for every block; a file holds the generation of the mempool it was      *)
(* written from.  The blocks, which go to the first file as they are when  *)
(* it is written and so may be newer than the mempool beside them, are     *)
(* left out.  The files of the replacement cache are one write.            *)
(***************************************************************************)
EXTENDS Integers, FiniteSets

CONSTANTS
    Chunks,         \* CHUNK_FILES
    MaxGeneration,  \* bound of the model: blocks handled
    MaxMishaps      \* bound of the model: failed writes, kills and signals

ASSUME DiskAssumption ==
    Chunks \in Nat \ {0} /\ MaxGeneration \in Nat /\ MaxMishaps \in Nat

VARIABLES
    loop,           \* the main loop: "idle", "updating", "returned"
    locks,          \* semaphore.locks
    generation,     \* what the program knows
    saver,          \* the save in progress, "idle" when there is none
    chunk,          \* the file it is at
    snapshot,       \* the generation of its copy of the mempool
    tmp,            \* the temporary files
    file,           \* the files a start reads
    torn,           \* history: a rename loop was cut short
    mishaps

diskVars == <<loop, locks, generation, saver, chunk, snapshot, tmp, file,
              torn, mishaps>>

Chunk == 0..Chunks - 1
Generation == 0..MaxGeneration

DiskTypeOK ==
    /\ loop \in {"idle", "updating", "returned"}
    /\ locks \in Nat
    /\ generation \in Generation
    /\ saver \in {"idle", "paused", "writing", "renaming", "rbf"}
    /\ chunk \in Chunk
    /\ snapshot \in Generation
    /\ tmp \in [Chunk -> Generation]
    /\ file \in [Chunk -> Generation]
    /\ torn \in BOOLEAN
    /\ mishaps \in 0..MaxMishaps

\* An earlier run has saved.
DiskInit ==
    /\ loop = "idle"
    /\ locks = 0
    /\ generation = 0
    /\ saver = "idle"
    /\ chunk = 0
    /\ snapshot = 0
    /\ tmp = [c \in Chunk |-> 0]
    /\ file = [c \in Chunk |-> 0]
    /\ torn = FALSE
    /\ mishaps = 0

isWritingCache == saver # "idle"

(***************************************************************************)
(* The main loop and the lock                                              *)
(***************************************************************************)

LockCache ==
    /\ loop = "idle"
    /\ loop' = "updating"
    /\ locks' = locks + 1
    /\ UNCHANGED <<generation, saver, chunk, snapshot, tmp, file, torn, mishaps>>

\* $yield, called before every chunk.
Yielded == IF locks > 0 THEN "paused" ELSE "writing"

\* A block has been handled; one of an interval's height starts a save.
HandleBlock ==
    /\ loop = "updating"
    /\ generation < MaxGeneration
    /\ generation' = generation + 1
    /\ \/ UNCHANGED <<saver, chunk, snapshot>>
       \/ /\ ~isWritingCache
          /\ snapshot' = generation'
          /\ chunk' = 0
          /\ saver' = Yielded
    /\ UNCHANGED <<loop, locks, tmp, file, torn, mishaps>>

\* Mutant: the paused save is resumed by the next save only.
UnlockSilently ==
    /\ locks' = IF locks > 0 THEN locks - 1 ELSE 0
    /\ saver' = saver

\* unlock: the last one resumes the paused save, whose write starts at once.
Unlock ==
    /\ locks' = IF locks > 0 THEN locks - 1 ELSE 0
    /\ saver' = IF locks' = 0 /\ saver = "paused" THEN "writing" ELSE saver

\* $updateBlocks returns or throws...
EndBlocks ==
    /\ loop = "updating"
    /\ loop' = "returned"
    /\ Unlock \/ UNCHANGED <<locks, saver>>
    /\ UNCHANGED <<generation, chunk, snapshot, tmp, file, torn, mishaps>>

\* ... and the main loop unlocks again in any case.
FinallyUnlock ==
    /\ loop = "returned"
    /\ loop' = "idle"
    /\ Unlock
    /\ UNCHANGED <<generation, chunk, snapshot, tmp, file, torn, mishaps>>

(***************************************************************************)
(* The save                                                                *)
(***************************************************************************)

\* The update of the mining pools saves outside of the main loop.
SavePools ==
    /\ ~isWritingCache
    /\ snapshot' = generation
    /\ chunk' = 0
    /\ saver' = Yielded
    /\ UNCHANGED <<loop, locks, generation, tmp, file, torn, mishaps>>

\* Mutant: the chunk replaces the file of the last save.
WriteChunkInPlace ==
    /\ saver = "writing"
    /\ tmp' = [tmp EXCEPT ![chunk] = snapshot]
    /\ file' = [file EXCEPT ![chunk] = snapshot]
    /\ IF chunk < Chunks - 1
       THEN chunk' = chunk + 1 /\ saver' = Yielded
       ELSE chunk' = 0 /\ saver' = "renaming"
    /\ UNCHANGED <<loop, locks, generation, snapshot, torn, mishaps>>

\* Mutant: one file too many is written.
WriteChunkPast ==
    /\ saver = "writing"
    /\ tmp' = [tmp EXCEPT ![chunk] = snapshot]
    /\ IF chunk < Chunks
       THEN chunk' = chunk + 1 /\ saver' = Yielded
       ELSE chunk' = 0 /\ saver' = "renaming"
    /\ UNCHANGED <<loop, locks, generation, snapshot, file, torn, mishaps>>

\* A chunk of the mempool is on the disk; before the next one the save yields
\* again.
WriteChunk ==
    /\ saver = "writing"
    /\ tmp' = [tmp EXCEPT ![chunk] = snapshot]
    /\ IF chunk < Chunks - 1
       THEN chunk' = chunk + 1 /\ saver' = Yielded
       ELSE chunk' = 0 /\ saver' = "renaming"
    /\ UNCHANGED <<loop, locks, generation, snapshot, file, torn, mishaps>>

\* The files are renamed one by one; nothing yields here.
RenameChunk ==
    /\ saver = "renaming"
    /\ file' = [file EXCEPT ![chunk] = tmp[chunk]]
    /\ IF chunk < Chunks - 1
       THEN chunk' = chunk + 1 /\ saver' = saver /\ torn' = torn
       ELSE chunk' = 0 /\ saver' = "rbf" /\ torn' = FALSE
    /\ UNCHANGED <<loop, locks, generation, snapshot, tmp, mishaps>>

\* The replacement cache is written and renamed; a failure changes nothing.
WriteRbf ==
    /\ saver = "rbf"
    /\ saver' = "idle"
    /\ UNCHANGED <<loop, locks, generation, chunk, snapshot, tmp, file, torn, mishaps>>

(***************************************************************************)
(* Failures, signals and kills                                             *)
(***************************************************************************)

CutShort == saver = "renaming" /\ chunk > 0

Mishap == mishaps < MaxMishaps /\ mishaps' = mishaps + 1

\* A write or a rename fails: the save goes on with the replacement cache.
FailWrite ==
    /\ Mishap
    /\ saver \in {"writing", "renaming"}
    /\ torn' = (torn \/ CutShort)
    /\ saver' = "rbf"
    /\ chunk' = 0
    /\ UNCHANGED <<loop, locks, generation, snapshot, tmp, file>>

Stopped ==
    /\ loop' = "idle"
    /\ locks' = 0
    /\ saver' = "idle"
    /\ chunk' = 0

\* SIGINT saves in one go unless a save is in progress, and exits.
Interrupt ==
    /\ Mishap
    /\ Stopped
    /\ IF isWritingCache
       THEN /\ torn' = (torn \/ CutShort)
            /\ UNCHANGED <<snapshot, tmp, file>>
       ELSE /\ torn' = FALSE
            /\ snapshot' = generation
            /\ tmp' = [c \in Chunk |-> generation]
            /\ file' = [c \in Chunk |-> generation]
    /\ UNCHANGED generation

Kill ==
    /\ Mishap
    /\ Stopped
    /\ torn' = (torn \/ CutShort)
    /\ UNCHANGED <<generation, snapshot, tmp, file>>

DiskLoop == LockCache \/ HandleBlock \/ EndBlocks \/ FinallyUnlock
DiskSave == WriteChunk \/ RenameChunk \/ WriteRbf
DiskNext == DiskLoop \/ SavePools \/ DiskSave \/ FailWrite \/ Interrupt \/ Kill

\* The main loop is started again after every round, $updateBlocks comes to an
\* end, and the file system answers.
DiskFairness ==
    /\ WF_diskVars(LockCache)
    /\ WF_diskVars(EndBlocks)
    /\ WF_diskVars(FinallyUnlock)
    /\ WF_diskVars(DiskSave)

DiskSpec == DiskInit /\ [][DiskNext]_diskVars /\ DiskFairness

(***************************************************************************)
(* Properties                                                              *)
(***************************************************************************)

\* A start reads the files of one save, whenever the process was stopped,
\* unless the stop or a failed rename fell between two renames and no save has
\* completed since.
WholeSave ==
    CutShort \/ torn \/ \A c, d \in Chunk : file[c] = file[d]

\* Every save ends: the lock and the pauses between the chunks leave no save
\* waiting for ever, which would also keep every later one from starting.
SaveEnds == isWritingCache ~> ~isWritingCache
=============================================================================
