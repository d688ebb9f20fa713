------------------------------- MODULE Blocks -------------------------------
(***************************************************************************)
(* How the backend follows the node's chain through reorganisations:       *)
(* $updateBlocks and $handleReorgs (src/backend/src/api/blocks.ts), the    *)
(* table of blocks (repositories/BlocksRepository.ts), the hourly indexer  *)
(* ($generateBlockDatabase, $validateChain) and the cache of orphans       *)
(* (api/chain-tips.ts).                                                    *)
(*                                                                         *)
(* Three actors write the table: the main loop, the indexer and the        *)
(* background task that indexes orphans.  An action is the code of one of  *)
(* them from one await to the next; awaits between which nothing of this   *)
(* state changes are one.  So are, by simplification, the requests and the *)
(* save of $indexBlock and of $indexBlockByHeight, and the reading of the  *)
(* table by $validateChain with the hashes it asks for below a block that  *)
(* the table does not have.  The node moves on between any two actions, a  *)
(* call of $updateBlocks and a run of the indexer may throw at any await,  *)
(* and the process may be killed.  A block stands for its hash; indexing   *)
(* is enabled.                                                             *)
(***************************************************************************)
EXTENDS Integers, Sequences, FiniteSets

CONSTANTS
    Block,          \* the blocks that are ever found
    Height,         \* block -> its height
    Prev,           \* block -> its previous block, None for the oldest
    None,
    InitialAmount,  \* INITIAL_BLOCKS_AMOUNT
    DiskInterval,   \* DISK_CACHE_BLOCK_INTERVAL
    MaxFailures     \* bound of the model: exceptions and kills

ASSUME BlocksAssumption ==
    /\ None \notin Block
    /\ Height \in [Block -> Nat]
    /\ Prev \in [Block -> Block \cup {None}]
    /\ \A b \in Block : Prev[b] # None => Height[b] = Height[Prev[b]] + 1
    \* One oldest block, no lower than a start without a list looks.
    /\ \E r \in Block : \A b \in Block : Prev[b] = None <=> b = r
    /\ \A b \in Block : Prev[b] = None => Height[b] = 0 \/ InitialAmount = 1
    /\ InitialAmount \in Nat \ {0}
    /\ DiskInterval \in Nat \ {0}
    /\ MaxFailures \in Nat

VARIABLES
    \* the node
    known,          \* the blocks it has
    active,         \* the tip of its best chain
    \* the database: "absent", or the stale flag of the block's row
    row,
    \* the memory of the backend
    blocks,         \* the list of recent blocks that clients are given
    indexingQueue,  \* orphans to be indexed in the background
    staleBlock,     \* the one whose canonical counterpart is looked up
    disk,           \* the list of blocks in the disk cache
    \* the call of $updateBlocks in progress
    await,          \* where it is
    blockHeightTip,
    currentBlockHeight,
    fastForwarded,
    block,          \* the block being handled
    blockStale,     \* it had left the best chain when it was fetched
    newBlocks,      \* the new branch, from the top down
    \* the run of the indexer in progress
    missing,        \* heights still to be indexed by $generateBlockDatabase
    validating,     \* where it is
    candidate,      \* the block it indexes, the tip it validates, else None
    fixes,          \* the updates $validateChain has decided on
    \* bound and history
    failures,
    clean           \* the database changed branches by $handleReorgs alone

nodeVars == <<known, active>>
orphanVars == <<indexingQueue, staleBlock>>
indexerVars == <<missing, validating, candidate, fixes>>
callVars == <<blockHeightTip, currentBlockHeight, fastForwarded, block,
              blockStale, newBlocks>>
vars == <<nodeVars, row, blocks, orphanVars, disk, await, callVars,
          indexerVars, failures, clean>>

Await == {"idle", "next", "fetch", "reorg", "index", "promote", "demote",
          "compare", "rebuild", "save", "saveDemote", "callbacks", "push"}

Validating == {"idle", "generate", "fetch", "save", "saveStale", "saveDemote",
               "read", "fix", "fixDemote"}

Fix == [height : Nat, canonical : Block \cup {None}]

TypeOK ==
    /\ known \subseteq Block
    /\ active \in known
    /\ row \in [Block -> {"absent", "canonical", "stale"}]
    /\ blocks \in Seq(Block)
    /\ Len(blocks) <= 4 * InitialAmount
    /\ indexingQueue \subseteq Block
    /\ staleBlock \in Block \cup {None}
    /\ disk \in Seq(Block)
    /\ await \in Await
    /\ blockHeightTip \in Int
    /\ currentBlockHeight \in Int
    /\ fastForwarded \in BOOLEAN
    /\ block \in Block \cup {None}
    /\ blockStale \in BOOLEAN
    /\ newBlocks \in Seq(Block)
    /\ missing \subseteq Nat
    /\ validating \in Validating
    /\ candidate \in Block \cup {None}
    /\ fixes \subseteq Fix
    /\ failures \in 0..MaxFailures
    /\ clean \in BOOLEAN

Roots == {b \in Block : Prev[b] = None}

\* The first start is over: the oldest block is indexed and in the list.
Init ==
    /\ active \in Roots
    /\ known = {active}
    /\ row = [b \in Block |-> IF b = active THEN "canonical" ELSE "absent"]
    /\ blocks = <<active>>
    /\ indexingQueue = {}
    /\ staleBlock = None
    /\ disk = <<>>
    /\ await = "idle"
    /\ blockHeightTip = 0
    /\ currentBlockHeight = 0
    /\ fastForwarded = FALSE
    /\ block = None
    /\ blockStale = FALSE
    /\ newBlocks = <<>>
    /\ missing = {}
    /\ validating = "idle"
    /\ candidate = None
    /\ fixes = {}
    /\ failures = 0
    /\ clean = TRUE

(***************************************************************************)
(* The node                                                                *)
(***************************************************************************)

Ancestors[b \in Block] ==
    {b} \cup IF Prev[b] = None THEN {} ELSE Ancestors[Prev[b]]

\* The block and its ancestors: a table, which TLC computes once.
Branch == [b \in Block |-> Ancestors[b]]

BestChain == Branch[active]
BlockAt(h) == CHOOSE b \in BestChain : Height[b] = h
Heights == {Height[b] : b \in BestChain}

\* A block arrives: the longest branch is the best, the first one in a tie.
NodeBlock(b) ==
    /\ b \notin known
    /\ Prev[b] \in known
    /\ known' = known \cup {b}
    /\ active' = IF Height[b] > Height[active] THEN b ELSE active
    /\ UNCHANGED <<row, blocks, orphanVars, disk, await, callVars,
                   indexerVars, failures, clean>>

(***************************************************************************)
(* The table of blocks                                                     *)
(***************************************************************************)

Canonical == {b \in Block : row[b] = "canonical"}
CanonicalAt(h) == {b \in Canonical : Height[b] = h}

\* The canonical blocks below a height are the ancestors of one of them.
OneBranchBelow(h) ==
    \A c, d \in Canonical :
        Height[c] <= Height[d] /\ Height[d] < h => c \in Branch[d]

\* The first statement of $setCanonicalBlockAtHeight...
Promoted(b) == [row EXCEPT ![b] = "canonical"]

\* ... and the second: every other block of that height is stale.
Demoted(table, b, h) ==
    [x \in Block |-> IF Height[x] = h /\ x # b /\ table[x] = "canonical"
                     THEN "stale" ELSE table[x]]

(***************************************************************************)
(* $updateBlocks                                                           *)
(***************************************************************************)

Last(s) == s[Len(s)]
Recent(s) == IF Len(s) <= 4 * InitialAmount THEN s
             ELSE SubSeq(s, Len(s) - 4 * InitialAmount + 1, Len(s))

\* Mutant: a retry goes on from the height the failed call had reached.
LastHandledKept ==
    IF blocks = <<>>
    THEN IF Height[active] < InitialAmount THEN -1
         ELSE Height[active] - InitialAmount
    ELSE IF currentBlockHeight > Height[Last(blocks)] THEN currentBlockHeight
    ELSE Height[Last(blocks)]

\* Where a call starts: below the tip at first, then at the cached list.
LastHandled ==
    IF blocks = <<>>
    THEN IF Height[active] < InitialAmount THEN -1
         ELSE Height[active] - InitialAmount
    ELSE Height[Last(blocks)]

FastForward == Height[active] - LastHandled > 2 * InitialAmount

\* A call that finds no new block changes nothing.
StartUpdate ==
    /\ await = "idle"
    /\ LastHandled < Height[active]
    /\ await' = "next"
    /\ blockHeightTip' = Height[active]
    /\ fastForwarded' = FastForward
    /\ currentBlockHeight' = IF FastForward
                             THEN Height[active] - InitialAmount
                             ELSE LastHandled
    /\ UNCHANGED <<nodeVars, row, blocks, orphanVars, disk, block, blockStale,
                   newBlocks, indexerVars, failures, clean>>

LocalsDropped ==
    /\ blockHeightTip' = 0
    /\ fastForwarded' = FALSE
    /\ block' = None
    /\ blockStale' = FALSE
    /\ newBlocks' = <<>>

\* The hash of the next height is asked for.
NextBlock ==
    /\ await = "next"
    /\ currentBlockHeight < blockHeightTip
    /\ currentBlockHeight' = IF currentBlockHeight = 0
                             THEN blockHeightTip
                             ELSE currentBlockHeight + 1
    /\ block' = BlockAt(currentBlockHeight')
    /\ await' = "fetch"
    /\ UNCHANGED <<nodeVars, row, blocks, orphanVars, disk, blockHeightTip,
                   fastForwarded, blockStale, newBlocks, indexerVars,
                   failures, clean>>

\* The block is fetched by its hash.
FetchBlock ==
    /\ await = "fetch"
    /\ blockStale' = (block \notin BestChain)
    /\ await' = IF fastForwarded THEN "save" ELSE "reorg"
    /\ UNCHANGED <<nodeVars, row, blocks, orphanVars, disk, blockHeightTip,
                   currentBlockHeight, fastForwarded, block, newBlocks,
                   indexerVars, failures, clean>>

EndUpdate ==
    /\ await = "next"
    /\ currentBlockHeight >= blockHeightTip
    /\ await' = "idle"
    /\ LocalsDropped
    /\ UNCHANGED <<nodeVars, row, blocks, orphanVars, disk, currentBlockHeight,
                   indexerVars, failures, clean>>

(***************************************************************************)
(* $handleReorgs                                                           *)
(***************************************************************************)

ForkTail == IF newBlocks = <<>> THEN block ELSE Last(newBlocks)

\* The table may answer with any canonical block of the height below.
Indexed == CanonicalAt(Height[ForkTail] - 1)
Diverges(indexed) == indexed # Prev[ForkTail]

\* A gap in the table ends the walk: a block further down may stay canonical.
GapAboveFork ==
    /\ Indexed = {}
    /\ \E b \in Canonical : Height[b] < Height[ForkTail] /\ b \notin Branch[ForkTail]

CompareWithTip ==
    /\ await = "reorg"
    /\ \/ /\ Indexed = {}
          /\ await' = "save"
       \/ \E indexed \in Indexed :
             await' = IF Diverges(indexed) THEN "index" ELSE "save"
    /\ clean' = (clean /\ ~GapAboveFork)
    /\ UNCHANGED <<nodeVars, row, blocks, orphanVars, disk, callVars,
                   indexerVars, failures>>

\* $indexBlock: fetched and saved unless the table has it.
IndexForkBlock ==
    LET b == Prev[ForkTail] IN
    /\ await = "index"
    /\ row' = IF row[b] # "absent" THEN row
              ELSE [row EXCEPT ![b] = IF b \in BestChain THEN "canonical"
                                      ELSE "stale"]
    /\ await' = "promote"
    /\ UNCHANGED <<nodeVars, blocks, orphanVars, disk, callVars, indexerVars,
                   failures, clean>>

PromoteForkBlock ==
    /\ await = "promote"
    /\ row' = Promoted(Prev[ForkTail])
    /\ await' = "demote"
    /\ UNCHANGED <<nodeVars, blocks, orphanVars, disk, callVars, indexerVars,
                   failures, clean>>

\* Mutant: the replaced block keeps its canonical flag.
DemoteReplacedNot ==
    /\ await = "demote"
    /\ row' = row
    /\ newBlocks' = Append(newBlocks, Prev[ForkTail])
    /\ await' = "compare"
    /\ UNCHANGED <<nodeVars, blocks, orphanVars, disk, blockHeightTip,
                   currentBlockHeight, fastForwarded, block, blockStale,
                   indexerVars, failures, clean>>

DemoteReplaced ==
    LET b == Prev[ForkTail] IN
    /\ await = "demote"
    /\ row' = Demoted(row, b, Height[b])
    /\ newBlocks' = Append(newBlocks, b)
    /\ await' = "compare"
    /\ UNCHANGED <<nodeVars, blocks, orphanVars, disk, blockHeightTip,
                   currentBlockHeight, fastForwarded, block, blockStale,
                   indexerVars, failures, clean>>

\* Mutant: only the block below the new one is compared.
CompareBelowOnce ==
    /\ await = "compare"
    /\ await' = "rebuild"
    /\ clean' = (clean /\ ~GapAboveFork)
    /\ UNCHANGED <<nodeVars, row, blocks, orphanVars, disk, callVars,
                   indexerVars, failures>>

\* The walk goes on down to the fork point.
CompareBelow ==
    /\ await = "compare"
    /\ \/ /\ Indexed = {}
          /\ await' = "rebuild"
       \/ \E indexed \in Indexed :
             await' = IF Diverges(indexed) THEN "index" ELSE "rebuild"
    /\ clean' = (clean /\ ~GapAboveFork)
    /\ UNCHANGED <<nodeVars, row, blocks, orphanVars, disk, callVars,
                   indexerVars, failures>>

-----------------------------------------------------------------------------
\* The block cache is rebuilt from the new branch down, as far as the blocks
\* are cached or in the table.
Reachable(b) ==
    /\ b \in Branch[ForkTail] \ {ForkTail}
    /\ \A x \in Branch[ForkTail] \ Branch[b] :
          x = ForkTail \/ row[x] # "absent" \/ \E i \in DOMAIN blocks : blocks[i] = x
    /\ row[b] # "absent" \/ \E i \in DOMAIN blocks : blocks[i] = b

\* Mutant: the new branch is put on top of the blocks that were cached.
RebuiltOnTop == blocks \o [i \in DOMAIN newBlocks |->
                              newBlocks[Len(newBlocks) + 1 - i]]

\* ... lowest first; newBlocks holds the part above the fork point.
Rebuilt ==
    LET kept == {b \in Block : Reachable(b)} \cup
                {newBlocks[i] : i \in DOMAIN newBlocks}
        lowest == CHOOSE b \in kept : \A x \in kept : Height[b] <= Height[x]
        at(h) == CHOOSE b \in kept : Height[b] = h
        below == Height[lowest] - 1
    IN  Recent([i \in 1..Height[newBlocks[1]] - below |-> at(below + i)])

Rebuild ==
    /\ await = "rebuild"
    /\ blocks' = Rebuilt
    /\ newBlocks' = <<>>
    /\ await' = "save"
    /\ UNCHANGED <<nodeVars, row, orphanVars, disk, blockHeightTip,
                   currentBlockHeight, fastForwarded, block, blockStale,
                   indexerVars, failures, clean>>

(***************************************************************************)
(* $updateBlocks: the block is saved, published and added to the list      *)
(***************************************************************************)

\* An INSERT leaves another canonical row of that height as it is.
Rivals(b) == CanonicalAt(Height[b]) \ {b}

\* What hides a reorganisation from the next comparison: a block that was
\* stale when it was fetched, a second canonical row of its height (the table
\* was ahead of the list), a fork that a fast-forward does not look for.
Hidden ==
    \/ blockStale
    \/ row[block] = "absent" /\ Rivals(block) # {}
    \/ fastForwarded /\ ~(Canonical \subseteq Branch[block])

SaveBlock ==
    /\ await = "save"
    /\ \/ /\ row[block] = "absent"
          /\ row' = [row EXCEPT ![block] = IF blockStale THEN "stale"
                                           ELSE "canonical"]
          /\ await' = "callbacks"
       \/ /\ row[block] # "absent" /\ blockStale
          /\ await' = "callbacks"
          /\ UNCHANGED row
       \/ /\ row[block] # "absent" /\ ~blockStale
          /\ row' = Promoted(block)
          /\ await' = "saveDemote"
    /\ clean' = (clean /\ ~Hidden)
    /\ UNCHANGED <<nodeVars, blocks, orphanVars, disk, callVars, indexerVars,
                   failures>>

SaveDemote ==
    /\ await = "saveDemote"
    /\ row' = Demoted(row, block, Height[block])
    /\ await' = "callbacks"
    /\ UNCHANGED <<nodeVars, blocks, orphanVars, disk, callVars, indexerVars,
                   failures, clean>>

\* An exception of either statement is only logged.
SaveFails ==
    /\ \/ await = "save" /\ row[block] # "absent" /\ ~blockStale
       \/ await = "saveDemote"
    /\ failures < MaxFailures
    /\ failures' = failures + 1
    /\ await' = "callbacks"
    /\ clean' = (clean /\ ~Hidden /\ row[block] = "canonical" /\ Rivals(block) = {})
    /\ UNCHANGED <<nodeVars, row, blocks, orphanVars, disk, callVars, indexerVars>>

\* updateOrphanedBlocks: the blocks of other branches are to be indexed. Which
\* of them were found before, blockCache knows: the table tells the same.
Orphans == {b \in known \ BestChain : row[b] = "absent"}

Callbacks ==
    /\ await = "callbacks"
    /\ indexingQueue' = IF currentBlockHeight >= blockHeightTip - 2
                        THEN indexingQueue \cup Orphans ELSE indexingQueue
    /\ await' = "push"
    /\ UNCHANGED <<nodeVars, row, blocks, staleBlock, disk, callVars,
                   indexerVars, failures, clean>>

PushBlock ==
    /\ await = "push"
    /\ blocks' = Recent(Append(blocks, block))
    /\ disk' = IF Height[block] % DiskInterval = 0 THEN blocks' ELSE disk
    /\ await' = "next"
    /\ UNCHANGED <<nodeVars, row, orphanVars, callVars, indexerVars, failures,
                   clean>>

(***************************************************************************)
(* The background: orphans and the hourly indexer                          *)
(***************************************************************************)

\* The walk down the new branch has begun.
Walking == await \in {"index", "promote", "demote", "compare", "rebuild"}
           \/ newBlocks # <<>>

\* Neither of them looks for reorganisations. What they save is harmless while
\* it lies below the list of blocks and no reorganisation is being handled.
Fits(b) == /\ ~Walking
           /\ blocks # <<>>
           /\ b \in Branch[Last(blocks)]

\* A block that has no place in the list, now or with the next one.
Foreign(b) == /\ ~Walking
              /\ b # block
              /\ blocks # <<>> => b \notin Branch[Last(blocks)]

\* What the background has written is harmless.
Harmless ==
    \A b \in Block :
        /\ row[b] # "canonical" /\ row'[b] = "canonical" => Fits(b)
        /\ row[b] = "canonical" /\ row'[b] # "canonical" => Foreign(b)

\* Saved as the stale block it was when it was found.
IndexOrphan(b) ==
    /\ b \in indexingQueue
    /\ staleBlock = None
    /\ indexingQueue' = indexingQueue \ {b}
    /\ staleBlock' = b
    /\ row' = IF row[b] = "absent" THEN [row EXCEPT ![b] = "stale"] ELSE row
    /\ UNCHANGED <<nodeVars, blocks, disk, await, callVars, indexerVars, failures, clean>>

\* $indexBlockByHeight for the block it competes with, unless a canonical block of
\* that height is in the table.
IndexCounterpart ==
    LET b == BlockAt(Height[staleBlock]) IN
    /\ staleBlock # None
    /\ row' = IF CanonicalAt(Height[b]) = {} /\ row[b] = "absent" THEN Promoted(b)
              ELSE row
    /\ staleBlock' = None
    /\ clean' = (clean /\ Harmless)
    /\ UNCHANGED <<nodeVars, blocks, indexingQueue, disk, await, callVars, indexerVars, failures>>

-----------------------------------------------------------------------------
\* Mutant: a chain without gaps is taken to be valid.
StartIndexerForGaps ==
    /\ validating = "idle"
    /\ missing' = {h \in Heights : CanonicalAt(h) = {}}
    /\ validating' = IF missing' = {} THEN "idle" ELSE "generate"
    /\ UNCHANGED <<nodeVars, row, blocks, orphanVars, disk, await, callVars,
                   candidate, fixes, failures, clean>>

StartIndexer ==
    /\ validating = "idle"
    /\ missing' = {h \in Heights : CanonicalAt(h) = {}}
    /\ validating' = "generate"
    /\ UNCHANGED <<nodeVars, row, blocks, orphanVars, disk, await, callVars,
                   candidate, fixes, failures, clean>>

\* $generateBlockDatabase: the hash at the next missing height is asked for...
IndexMissing(h) ==
    /\ validating = "generate"
    /\ h \in missing
    /\ \A x \in missing : h <= x
    /\ missing' = missing \ {h}
    /\ candidate' = BlockAt(h)
    /\ validating' = "fetch"
    /\ UNCHANGED <<nodeVars, row, blocks, orphanVars, disk, await, callVars,
                   fixes, failures, clean>>

\* ... then the block, which may have left the best chain meanwhile...
FetchMissing ==
    /\ validating = "fetch"
    /\ validating' = IF candidate \in BestChain THEN "save" ELSE "saveStale"
    /\ UNCHANGED <<nodeVars, row, blocks, orphanVars, disk, await, callVars,
                   missing, candidate, fixes, failures, clean>>

\* ... which is saved as it was, or made canonical if the table has it.
SaveMissing ==
    /\ validating \in {"save", "saveStale"}
    /\ \/ /\ row[candidate] = "absent"
          /\ row' = [row EXCEPT ![candidate] = IF validating = "save" THEN "canonical"
                                               ELSE "stale"]
          /\ validating' = "generate"
       \/ /\ row[candidate] # "absent" /\ validating = "saveStale"
          /\ validating' = "generate"
          /\ UNCHANGED row
       \/ /\ row[candidate] # "absent" /\ validating = "save"
          /\ row' = Promoted(candidate)
          /\ validating' = "saveDemote"
    /\ candidate' = IF validating' = "generate" THEN None ELSE candidate
    /\ clean' = (clean /\ Harmless)
    /\ UNCHANGED <<nodeVars, blocks, orphanVars, disk, await, callVars, missing,
                   fixes, failures>>

SaveMissingDemote ==
    /\ validating = "saveDemote"
    /\ row' = Demoted(row, candidate, Height[candidate])
    /\ candidate' = None
    /\ validating' = "generate"
    /\ clean' = (clean /\ Harmless)
    /\ UNCHANGED <<nodeVars, blocks, orphanVars, disk, await, callVars, missing,
                   fixes, failures>>

\* $validateChain asks for the tip, then reads the table.
ReadTip ==
    /\ validating = "generate"
    /\ missing = {}
    /\ candidate' = active
    /\ validating' = "read"
    /\ UNCHANGED <<nodeVars, row, blocks, orphanVars, disk, await, callVars,
                   missing, fixes, failures, clean>>

RowsAt(h) == {b \in Block : row[b] # "absent" /\ Height[b] = h}
AboveLowest(h) == \E b \in Block : row[b] # "absent" /\ Height[b] < h

\* From the tip down to the first block that the table does not have; below it
\* the node is asked again, whose best chain may be another one.
Walked(tip) ==
    LET gaps == {b \in Branch[tip] : row[b] = "absent"}
        below(b) == \E x \in gaps : Height[b] < Height[x]
    IN  {b \in Branch[tip] : ~below(b)} \cup {b \in BestChain : below(b)}

Corrections ==
    LET walked == {b \in Walked(candidate) : AboveLowest(Height[b])}
    IN  {[height |-> Height[b], canonical |-> b] :
            b \in {x \in walked : row[x] = "stale"}} \cup
        {[height |-> Height[b], canonical |-> None] :
            b \in {x \in walked : row[x] = "absent" /\ Cardinality(RowsAt(Height[x])) > 1}}

\* With the tip not in the table it gives up.
ReadTable ==
    /\ validating = "read"
    /\ fixes' = IF row[candidate] = "absent" THEN {} ELSE Corrections
    /\ candidate' = None
    /\ validating' = "fix"
    /\ UNCHANGED <<nodeVars, row, blocks, orphanVars, disk, await, callVars,
                   missing, failures, clean>>

\* The decided updates, from the top down, the two statements of each one after
\* the other. The main loop does not learn that one of its blocks is not canonical
\* any more.
NextFix(f) == f \in fixes /\ \A g \in fixes : g.height <= f.height

CorrectTable(f) ==
    /\ validating = "fix"
    /\ NextFix(f) /\ f.canonical # None
    /\ row' = Promoted(f.canonical)
    /\ validating' = "fixDemote"
    /\ clean' = (clean /\ Harmless)
    /\ UNCHANGED <<nodeVars, blocks, orphanVars, disk, await, callVars, missing,
                   candidate, fixes, failures>>

CorrectTableDemote(f) ==
    /\ NextFix(f)
    /\ validating = "fixDemote" \/ (validating = "fix" /\ f.canonical = None)
    /\ row' = Demoted(row, f.canonical, f.height)
    /\ fixes' = fixes \ {f}
    /\ validating' = "fix"
    /\ clean' = (clean /\ Harmless)
    /\ UNCHANGED <<nodeVars, blocks, orphanVars, disk, await, callVars, missing,
                   candidate, failures>>

EndIndexer ==
    /\ validating = "fix"
    /\ fixes = {}
    /\ validating' = "idle"
    /\ UNCHANGED <<nodeVars, row, blocks, orphanVars, disk, await, callVars,
                   missing, candidate, fixes, failures, clean>>

(***************************************************************************)
(* Failures                                                                *)
(***************************************************************************)

\* The canonical blocks are those of one branch. A kill between the two
\* statements leaves two of one height, one during a walk those of two branches.
OneBranch == OneBranchBelow(Height[active] + 1)

\* Without a list, or with one that ends at height 0, the next call goes to a
\* height that the list says nothing about.
ListIgnored == blocks = <<>> \/ Height[Last(blocks)] = 0

\* An exception ends the call; the next one starts over.
Throw ==
    /\ await \notin {"idle", "saveDemote"}
    /\ failures < MaxFailures
    /\ failures' = failures + 1
    /\ await' = "idle"
    /\ LocalsDropped
    /\ clean' = (clean /\ ~Walking /\ (ListIgnored => OneBranch))
    /\ UNCHANGED <<nodeVars, row, blocks, orphanVars, disk, currentBlockHeight,
                   indexerVars>>

\* An exception ends the run of the indexer, also between two statements.
IndexerThrows ==
    /\ validating # "idle"
    /\ failures < MaxFailures
    /\ failures' = failures + 1
    /\ missing' = {}
    /\ validating' = "idle"
    /\ candidate' = None
    /\ fixes' = {}
    /\ UNCHANGED <<nodeVars, row, blocks, orphanVars, disk, await, callVars, clean>>

\* The process is killed and started again, with the disk cache or without.
\* A list older than the last reorganisation does not fit the table.
Restart(list) ==
    /\ failures < MaxFailures
    /\ failures' = failures + 1
    /\ blocks' = list
    /\ indexingQueue' = {}
    /\ staleBlock' = None
    /\ await' = "idle"
    /\ currentBlockHeight' = 0
    /\ LocalsDropped
    /\ missing' = {}
    /\ validating' = "idle"
    /\ candidate' = None
    /\ fixes' = {}
    /\ clean' = /\ clean
                /\ OneBranch
                /\ \A i \in DOMAIN list : row[list[i]] = "canonical"
    /\ UNCHANGED <<nodeVars, row, disk>>

MainLoop ==
    \/ StartUpdate \/ NextBlock \/ FetchBlock \/ EndUpdate
    \/ CompareWithTip \/ IndexForkBlock \/ PromoteForkBlock
    \/ DemoteReplaced \/ CompareBelow \/ Rebuild
    \/ SaveBlock \/ SaveDemote \/ SaveFails \/ Callbacks \/ PushBlock

IndexOrphans == (\E b \in Block : IndexOrphan(b)) \/ IndexCounterpart

Indexer ==
    \/ StartIndexer
    \/ \E h \in missing : IndexMissing(h)
    \/ FetchMissing \/ SaveMissing \/ SaveMissingDemote
    \/ ReadTip \/ ReadTable
    \/ \E f \in fixes : CorrectTable(f) \/ CorrectTableDemote(f)
    \/ EndIndexer

Next ==
    \/ \E b \in Block : NodeBlock(b)
    \/ MainLoop
    \/ IndexOrphans
    \/ Indexer
    \/ Throw \/ IndexerThrows
    \/ \E list \in {<<>>, disk} : Restart(list)

Spec == Init /\ [][Next]_vars

(***************************************************************************)
(* Properties                                                              *)
(***************************************************************************)

\* The blocks that clients are given form one chain, except across the gap
\* that a fast-forward leaves.
ServedChain ==
    clean => \A i \in 1..Len(blocks) - 1 :
        /\ Height[blocks[i]] < Height[blocks[i + 1]]
        /\ Height[blocks[i]] + 1 = Height[blocks[i + 1]]
           => blocks[i] = Prev[blocks[i + 1]]

\* Between two calls the last block of the list is the canonical block of its
\* height in the table, which the next comparison relies on, and no block of
\* the list has a canonical rival.
MemoryMatchesTable ==
    clean /\ await = "idle" =>
        /\ \A i \in DOMAIN blocks : Rivals(blocks[i]) = {}
        /\ blocks # <<>> => row[Last(blocks)] = "canonical"

\* Caught up with the node, the table holds no canonical block of another branch.
TableOnBestChain ==
    clean /\ await = "idle" /\ blocks # <<>> /\ Last(blocks) = active
        => Canonical \subseteq BestChain

\* The list comes to end in the node's tip.
CatchesUp == <>[](blocks # <<>> /\ Last(blocks) = active)

\* The indexer gives every indexed block of the best chain its place back,
\* except at the lowest indexed height, which $validateChain stops short of.
StaleMarksHeal ==
    <>[](\A b \in BestChain : AboveLowest(Height[b]) => row[b] # "stale")

\* The main loop never stops: it is started again after every call.
FairSpec == Spec /\ WF_vars(MainLoop) /\ WF_vars(Indexer)
=============================================================================
