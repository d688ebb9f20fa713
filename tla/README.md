# TLA+ models of the ltcspace backend

The backend (`src/backend`) keeps a live picture of a Litecoin or Bitcoin node: its mempool, the history of
replacements (RBF), the projected blocks, the chain. It serves that picture to
web clients. Node.js runs its code on one thread, so a piece of code between
two `await`s is never interrupted. What is hard is what happens at the awaits:
the node goes on, timers fire, another caller enters the same function, a
request fails and the rest of a function is skipped.

This directory models the parts of the backend where that matters most, checks
them with TLC and proves the central invariants with TLAPS.

    tlc -workers 2 -config RbfCache_safety.cfg MCRbfCache.tla
    tlapm RbfCacheProofs.tla

`PROJECT.json` lists the components, the runs, the source lines behind each
definition, the hazards of the code and the properties that cover them.

## 1. The system

    node / esplora ──answers──▶ main loop (index.ts)
                                  │ $updateBlocks        │ $updateMempool
                                  ▼                      ▼
                              blocks.ts ──callback──▶ websocket-handler.ts ◀──callback── mempool.ts
                                  │                      │
                       reindex,   │                      ├─▶ rbf-cache.ts ──▶ redis-cache / disk-cache
                       schedule   ▼                      ├─▶ mempool-blocks.ts (templates, Rust or JS)
                              indexer.ts ──▶ database    └─▶ clients

| Component | State it keeps | Operations | What is hard | What makes it correct |
|---|---|---|---|---|
| Main loop `index.ts` | none between rounds | one round: list the mempool, update blocks, update the mempool, start the indexer | an exception ends the round anywhere; the node moves between two answers | a round never mixes answers that contradict each other |
| Mempool `api/mempool.ts` | `mempoolCache`, `spendMap`, `recentlyDeleted`, `inSync`, `mempoolProtection` | `$updateMempool`, `$reloadMempool`, `$setMempool`, spend-map updates | slices, cut-short updates, clear protection, callbacks after the fact | cache follows the node; spend map follows the cache |
| Blocks `api/blocks.ts` with `BlocksRepository` and `chain-tips.ts` | recent blocks and summaries, `currentBlockHeight`, the table of blocks | `$updateBlocks`, `$handleReorgs`, `$generateBlockDatabase`, `$validateChain`, `$indexOrphanedBlocks` | a block handled twice after an exception, reorganisations, three writers of one table | list of blocks is a chain; the table follows the best branch |
| Websocket handler | subscriptions, `mempoolSequence` | `$handleMempoolChange`, `handleNewBlock` | awaits between reading and changing the mempool | removals, replacements and confirmations told apart |
| RBF cache `api/rbf-cache.ts` | two inverse maps, `treeMap`, nested trees, `dirtyTrees`, expiries, Redis queue | `add`, `mined`, `evict`, `getRbfChanges`, `cleanup`, `dump`, `load` | three views of one forest, merges, expiry, restart | documented invariants; nothing leaks or is lost |
| Indexer `indexer.ts` | two flags, a timer, per-task flags and timers | `reindex`, `$run`, `runSingleTask`, `scheduleSingleTask` | overlapping calls, failures, timers | at most one run; never dormant |
| Block templates `rust/gbt`, `api/mempool-blocks.ts` | stack, queue, ancestors and scores of a run; uid maps | build all projected blocks; full and incremental updates | scores change while packages wait; the uid maps drift after a failure | parents first, limits kept, every transaction once |
| Pairing heap `utils/pairing-heap.ts` | linked nodes | add, pop, delete, change a priority | three links of each neighbour at every move | it is a priority queue |
| Redis cache `api/redis-cache.ts` | queues of writes and removals, `pauseFlush` | flush, remove, reconnect | concurrent flushes, lost replies, removals that overtake writes | nothing of the mempool is missing, nothing else stays |
| Disk cache `api/disk-cache.ts` | a lock count, one set of files | save in chunks, rename, `SIGINT` | the main loop's lock, stops between renames | a start reads one save; every save ends |
| Failover router `esplora-api.ts` | hosts, failures, active and fallback host | poll, elect, request | answers that come after a switch | ends at a good host |
| Promise limiter `utils/p-limit.ts` | a queue, a count | enqueue, start, end | microtasks and ends interleave | no call waits beside a free slot |
| Database pool | connections | queries, rollback | double release | – |
| Repositories, routes, statistics, lightning, wallets, frontend, deployment | the database, or none | queries, display | – | outside this project, see section 8 |

`PROJECT.json` has the full list, 32 components, each with its status.

## 2. The modules

| Module | Models | Role |
|---|---|---|
| `RbfVersions` | what readers of the RBF cache are promised | abstract specification: newest version and direct successor of each remembered transaction |
| `RbfCache` | `api/rbf-cache.ts`, in memory | implements `RbfVersions` |
| `RbfCacheProofs` | | theorems about `RbfCache` |
| `RbfRestart` | `dump`, `load`, `importTree`, `checkTrees`, and what Redis can have lost | extends `RbfCache` with crash and restart |
| `RbfRestartProofs` | | theorems about `RbfRestart` |
| `Indexer` | `indexer.ts` | runs, single tasks and timers |
| `Mempool` | main loop, `$updateMempool`, `$updateBlocks`, both websocket callbacks | the backend beside the node it follows |
| `MempoolProofs` | | theorems about what `Mempool` must not claim (no stale spend, no false removal) and what it must not miss (spends and replacements), and about `RbfMempool` |
| `RbfMempool` | the calls of both websocket callbacks into the RBF cache, what the audit reads of it | composes `Mempool` and `RbfCache` |
| `Blocks` | `$updateBlocks`, `$handleReorgs`, the table of blocks, the indexers that write it | the backend's chain beside the node's, which reorganises |
| `BlocksProofs` | | theorems about `Blocks` |
| `PLimit` | `utils/p-limit.ts` | the limiter |
| `DiskCache` | the save of `api/disk-cache.ts` and the lock of the main loop | a save beside the loop |
| `RedisQueue` | the queues of transactions in `api/redis-cache.ts` | Redis beside the mempool |
| `ServicesProofs` | | theorems about these three, `Indexer` and `Failover` |
| `Gbt` | `gbt()` of `rust/gbt/src/gbt.rs` with `audit_transaction.rs` | the projected blocks |
| `GbtProofs` | | theorems about `Gbt` |
| `Templates` | `$rustMakeBlockTemplates`, `$rustUpdateBlockTemplates` of `api/mempool-blocks.ts` with `rust/gbt/src/lib.rs` | the generator's copy of the mempool beside the mempool |
| `TemplatesProofs` | | theorems about `Templates` |
| `PriorityQueue` | what users of the heap are promised | abstract specification |
| `PairingHeap` | `utils/pairing-heap.ts` | implements `PriorityQueue` |
| `HeapProofs` | | theorems about `PairingHeap`, the refinement among them |
| `Failover` | `FailoverRouter` of `api/bitcoin/esplora-api.ts` | the router beside hosts that fail |
| `MCServices` | | chooses one of `PLimit`, `DiskCache`, `Gbt`, `Templates`, `PairingHeap`, `Failover` and `Indexer` at the start and runs it alone |
| `MCRedis` | | the same for `RbfRestart` and `RedisQueue` |
| `MC...` | | model values, symmetry sets and definitions for the `.cfg` files |

Definitions named `Mutant: ...` are variants of the definition that follows
them with a plausible bug in it. They are not part of any specification; for
each property one of them shows that the property would fail if the code had
that bug.

### RbfCache

A nested `RbfTree` object is kept flat: the set of its transactions and the
children of each. Fees, sizes and times are dropped. An expiry time is
abstracted to its being set, and `Cleanup(due)` finds any non-empty part of the
set overdue: this covers every order of the expiry times and the two ways they
are set (24 hours after an eviction or confirmation, or restored at a start).
`Versions(txid)` is what the recursion of `remove` visits, written as the least
set closed under `replaces` so that it can be proved about.

| Code | Action |
|---|---|
| `add` (121-186) | `Add(replaced, newTx)`; the filter of line 147 is `FirstReplaced` |
| `mined`, `setTreeMined` (188-203, 363-371) | `Mined` |
| `evict` (206-212) | `Evict` |
| `getRbfChanges` (280-296) | `GetRbfChanges` |
| `cleanup`, `remove` (315-346) | `Cleanup` |

`published` is not in the code: it is the copy a client has after
`getRbfChanges`, kept so that stale copies can be spoken of. The Redis queue of
the cache (`cacheQueue`) is not modelled here.

### RbfRestart

The crash is taken at the moment of the save, since nothing later survives it.
`stored` is what is read back. For Redis, `lost` transaction entries are
missing, likewise `lostTrees` and `lostExpiries`, and `stale` trees, absorbed by
a newer one, are still there, because a failed write or removal of each entry is
logged and forgotten. Entries of histories that were forgotten altogether may
stay behind as well; these are not modelled. `load` runs without
interruption until the requests of `checkTrees`; from there each answer
(`CheckConfirmed`, `CheckUnconfirmed`, `CheckMissing`) is a step and the
cleanup timer can fire between two of them. `intact` remembers that no restart
missed an entry or met a stale one.

### Indexer

`run[r]` and `call[c]` say at which await a call of `$run` or `runSingleTask`
is. A failure is possible at every await of `$run`. `retryPromised` is not in
the code: it remembers that a price could not be saved and a retry was
announced. `hasPriority` and `historyInserted` belong to the mempool and the
price updater and change freely.

### Mempool

The node is part of the state: `pool`, `blockOf` and `nodeHeight` change at any
moment, and `dropped` remembers what ever left its mempool unconfirmed. The
backend sees none of this but the answers. `await` is the await at which the
round of the main loop is:

| `await` | The round waits for | Next action |
|---|---|---|
| `poll` | the list of txids (`$getRawMempool`) | `ListMempool` |
| `tip` | the height of the tip | `ReadTip` |
| `block` | data of the next block, then what opens `handleNewBlock` | `StartBlock` |
| `inputs` | (internal) inputs of the block looked up in the spend map | `LookUpInput`, `AuditBlock` |
| `audit` | the templates for the audit | `ConfirmBlock` |
| `rest` | the new templates and the rest of `$updateBlocks` | `PushBlock` |
| `slice` | transactions of a slice of txids, or `getNextCandidates` and accelerations when no slice is left | `AddSlice`, `DeleteTransactions` |
| `templates` | the new templates in `$handleMempoolChange` | `MempoolChanged` |

`Throw` is an exception at an await. It can happen at `tip`, `block` and
`rest`; at `slice` only with the esplora backend, where a bulk request fails as
a whole (the other backends catch the failure of each transaction and go on,
which is `AddSlice` with some transactions not found). The templates catch
their own errors. An answer may lack any transaction asked for.

`newTransactions` that were added when an exception ended the round are never
given to the callback. `undisturbed` remembers that this has not happened and
that clear protection has not kept transactions that the node dropped; two
properties are limited to such executions; section 3 says what happens in the
others.

Simplifications: blocks form one chain; the inputs of a block are looked up in
any order; fee stands for both the fee and the fee rate; the mempool is not
loaded in bulk; no candidates from a second node; no accelerations.

### RbfMempool

Extends `Mempool` and instantiates `RbfCache`. The callbacks call the cache
without an await in between; here each call is a step. The sets `matches`, `sending`,
`gone` and `confirmed` are the calls still to be made, and nothing else runs
before they are empty.

| Code | Action |
|---|---|
| `$handleMempoolChange` after its templates (websocket-handler 598-620) | `UpdateSeen` |
| `handleRbfTransactions`, one `add` (mempool 529-536) | `AddReplacement` |
| `getRbfChanges`, then `evict` of what was deleted (623-637) | `ChangesSent`, `EvictDeleted` |
| `handleNewBlock` up to its first await, and `findMinedRbfTransactions` (1005-1023) | `BlockStarted`, `InputLookedUp` |
| the audit (1027-1041) and what it asks the cache (audit 50) | `BlockAudited`, `Excused` |
| confirmed transactions leave, `mined` (1097-1105) | `BlockConfirmed`, `MarkMined` |
| the ten-minute timer (rbf-cache 77) | `Cleaned` |
| all else, at an await | `Elsewhere` |

A call that returns early (`add` of a cached or once replaced transaction,
`evict` of an unknown one) is a step that changes no map. `audited` and `known`
are not in the code; they say which blocks `ConflictsExcused` is about. There
is no restart; `load` is in `RbfRestart`.

### Blocks

A block stands for its hash; `Prev` and `Height` are a tree of all blocks that
are ever found. The node (`known`, `active`) takes the first of the longest
branches. `row` is the table of blocks: no row, a canonical or a stale one. The
main loop's call is at `await`:

| `await` | Code (`blocks.ts`) | Action |
|---|---|---|
| `next`, `fetch` | hash and data of the next height (1032-1069) | `NextBlock`, `FetchBlock` |
| `reorg` | the table's block below (1240-1252) | `CompareWithTip` |
| `index`, `promote`, `demote`, `compare` | one turn of the walk down to the fork (1252-1268) | `IndexForkBlock`, `PromoteForkBlock`, `DemoteReplaced`, `CompareBelow` |
| `rebuild` | the list made anew from the branch (1270-1308) | `Rebuild` |
| `save`, `saveDemote` | `INSERT`, or the two `UPDATE`s of `$setCanonicalBlockAtHeight` | `SaveBlock`, `SaveDemote`, `SaveFails` |
| `callbacks`, `push` | orphans, callbacks, the list (1105-1178) | `Callbacks`, `PushBlock` |

Beside it run `$indexOrphanedBlocks` (`IndexOrphan`, `IndexCounterpart`) and the
hourly indexer, which write the same table. The indexer, started by `StartIndexer`, is at `validating`:

| `validating` | Code | Action |
|---|---|---|
| `generate`, `fetch`, `save` or `saveStale`, `saveDemote` | the hash at a missing height, the block, the `INSERT` or the two `UPDATE`s (`blocks.ts` 889-911) | `IndexMissing`, `FetchMissing`, `SaveMissing`, `SaveMissingDemote` |
| `generate`, `read` | `$validateChain`: the tip, then the table (`BlocksRepository.ts` 675-707) | `ReadTip`, `ReadTable` |
| `fix`, `fixDemote` | each correction, from the top down: two `UPDATE`s (716-728, 1202-1220) | `CorrectTable`, `CorrectTableDemote` |
| `fix` | no correction is left | `EndIndexer` |
| any | an exception | `IndexerThrows` |

The table is queried at another moment than it is used, as in the code. Two
groups of awaits are one step: the requests and the save of `$indexBlock` and
`$indexBlockByHeight`, and the reading of the table with the hashes that
`$validateChain` asks for below a block that the table does not have.
`clean` is a history variable: it turns false when something happens that the
code has no answer to, listed at the places that clear it (section 4). The
safety properties are about the executions in which it is true, the liveness
properties about all. Indexing is enabled without a limit; a tip moves only to
a higher block.

### The small components

They share no state. `MCServices` picks one of seven at the start (with
`Indexer` among them), `MCRedis` one of `RbfRestart` and `RedisQueue`, so that
one run explores each alone and adds up their states; the modules do not know
of it.

* `PLimit`: `checks` counts microtasks left behind by `enqueue`.
* `DiskCache`: knowledge is counted in generations, one for every block. A file
  holds the generation it was written from. `torn` remembers that a rename
  loop was cut short and no save has completed since. The blocks, which go to the
  first file as they are when it is written (`disk-cache.ts` 91), are left out:
  after a pause they can be newer than the mempool beside them.
* `RedisQueue`: the callers are the main loop and `$onConnected`, which begins
  again with every connection whether or not the one before has ended; each is
  at `at[c]`. A command takes effect when it is sent; its reply comes later, and a
  failed one may have been executed. A removal takes the queue and sends it slice
  by slice (`SendRemove`, `SendNextSlice`), each after the answer to the one
  before; what fails is queued again at the end (`RemoveReply`). `strayed`
  remembers the three things after
  which the code loses track: overlapping flushes, a removal that overtakes a
  queued write or a return, a round that ends between deletion and removal (or
  a start that cannot reach a filled Redis).
* `Gbt`: a turn of the loop is a step for the choice (`ChoosePackage`,
  `HoldPackage`, `NothingLeft`), one for each placed transaction
  (`PlaceTransaction`) and one for the look whether the block is full. Relatives are the
  least set closed under inputs, and the sorts are `InOrder`, which gives each member its
  rank, so that both can be reasoned about.
* `Templates`: `called` is the call of the generator that is awaited, with what it
  was given, and `block` is what `handleNewBlock` has still to do. A result is
  the set of its transactions (how they are put into blocks is `Gbt`). Slices,
  failed rounds, changes of the mempool and blocks with and without an audit are
  actions; any call may be refused or its thread panic (`Refuse`). `current`
  remembers that nothing changed since the last result, `parted` that a parent
  was added after its child since all uids were given last.
* `PairingHeap`: nodes with `child`, `prev` and `next` as functions, each operation
  one step. The two loops of `mergePairs` are recursive functions over the
  numbers of turns: at most as many as there are nodes in the first loop, as many as
  it left pairs in the second. The refinement maps the nodes reachable from the
  root, the least set closed under `child` and `next`, to the abstract set.
* `Failover`: the hosts move on their own; requests come back late. The polling
  loop is at `polling`: it marks a host by its answer (`PollHost`), with
  `MEMPOOL.OFFICIAL` it now and then awaits the versions of that host, and only then
  looks whether the active host is to be deposed (`VersionsEnd`). `updateFallback`
  comes after the last host. A 404 is an answer that counts nothing
  (`RequestNotFound`). Latencies
  only order hosts that are otherwise equal, so any of them may come first.
  `blamed` remembers that a host was deposed for failures of another.

## 3. What the runs show

| Run | Instance | States | Shows |
|---|---|---|---|
| `RbfCache_safety` | 4 transactions, 2 signal, symmetry | 62,613 | `TypeOK`; `DocumentedInvariants` (the five of the class comment); `ViewsAgree`; `FullRbfExact`; `ChangesAreDirty`; `ForgetsWholeExpiredTrees`; `ImplementsVersions` (refinement of `RbfVersions`) |
| `Redis_load` | 3 transactions, symmetry; 2 cached ones | 921,116 | after a restart from a complete copy the invariants hold again and `RestartKeepsHistory`; from a copy that lost entries or kept absorbed trees `ServedTreesDisjoint`; the queues: `StoredOrQueued`, `LeftoversGo` |
| `RbfRestart_redis` | 3 transactions | violation | the documented invariants fail after a restart from Redis with a lost entry (finding 1) |
| `Indexer_failure` | 2 runs, 3 calls | violation | a failed run is not always retried in ten seconds (finding 2) |
| `Indexer_retry` | same | violation | a scheduled retry may never be scheduled (finding 3) |
| `Mempool_rounds` | 3 transactions, 2 outpoints, 1 block, esplora | 2,534,337 | `TypeOK`; `SpendMapSound`; `SpendMapComplete`; `ConfirmedLeave`; `RemovedWereDropped`; `ReplacementsReported` |
| `Mempool_scalable` | 3 transactions of one outpoint, no block | violation | the lookup table of `findRbfTransactions` loses a replacement (finding 4) |
| `RbfMempool_rounds` | 2 versions of one payment, 1 block, esplora | 80,969 | `ConflictsExcused`; `CatchesUp`; `EverythingExpires` |
| `RbfMempool_return` | same, no block, no failures | violation | a live transaction is forgotten (finding 5) |
| `Blocks_reorg` | 6 blocks in two branches, 1 exception or kill | 4,371,354 | `TypeOK`; `ServedChain`; `MemoryMatchesTable`; `TableOnBestChain` |
| `Blocks_progress` | 5 blocks in two branches, 1 exception or kill | 371,746 | `CatchesUp`; `StaleMarksHeal` |
| `Services` | seven components, see below | 179,626 | `ServicesTypeOK`; limiter: `WorkConserving`, `EveryCallEnds`; disk: `WholeSave`, `SaveEnds`; templates: `BlocksCorrect` (`BlocksValid`, that is `ParentsFirst`, `WithinLimits` and `NothingTwice`, and `NothingLost`), `BlocksAreBuilt`, `TemplatesCurrent`; heap: `IsPriorityQueue` (refinement); router: `EndsAtAGoodHost`; indexer: `FlagsExact`, `NeverDormant`, `IndexerKeepsRunning` |

### Bounds, and why they are enough

* **RbfCache**: four transactions give a chain of four versions, a merge of
  three trees into one, two histories side by side, and a root over a merged
  tree over a chain. Two of them signal, so every subset of signalling and
  other replaced transactions occurs. Nothing depends on a number of
  transactions beyond these, and the proofs of section 5 remove the bound.
* **RbfRestart**: three transactions have the chain with a
  middle version, the case it is about. All signal in `RbfRestart`: only
  the full-RBF mark tells signals apart, and the import copies that mark.
  Every two transactions conflict, so the restored mempool has at most one,
  which may double-spend any number of cached roots. `RbfRestartProofs` covers any
  number of transactions and restarts.
* **RedisQueue**: 2 transactions, a flush limit of 2, removals in slices of one, two
  connections, 2 outages: one command can fail and the connection or the process
  go after it; with 3 outages both properties hold as well. The proofs remove
  these bounds.
* **Indexer**: two calls of `$run` are enough to overlap, three of
  `runSingleTask` for two tasks leave one to overlap with itself.
  `ServicesProofs` covers any number.
* **Mempool_rounds**: `a` and `c` are compatible, `b` conflicts with both and
  outbids only `a`: there are replacements, replaced replacements (a dropped
  transaction may return), double-spends by a block, and deletions of two
  updates (`Depth` 2 of the code's 10) so that an entry also falls out of
  `recentlyDeleted`. `ProtectAbove` is 1 instead of 20,000 and `MaxBlocks` 1.
  The proofs cover any depth, size and number of blocks for all of these
  properties, `ReplacementsReported` as long as the naive search is used.
* **RbfMempool**: two versions of one payment, either of which the block may
  confirm. `ProtectAbove` 0 lets the mempool shrink by more than a fifth with so few, so
  that clear protection acts. `Depth` is 1: a version deleted in an earlier
  update is not matched any more, the replacement is then unknown to the
  cache. Longer chains and merges are the matter of `RbfCache_safety`;
  `MempoolProofs` covers any transactions and any number of blocks for
  `ConflictsExcused`.
* **Mempool_scalable** has `NaiveBelow` 2 instead of 50, to reach the lookup
  table with few deletions; the condition on a thousand additions is left out,
  it only leads to the same table.

* **Blocks_reorg**: `r a2 a3` against `r b2 b3 b4`: a fork of two blocks, so the
  walk down takes two turns, a tie, and a longer branch that wins.
  `InitialAmount` 1 makes the list four blocks long and a fast-forward happens
  for a gap of three. One failure may be an exception at any await, a failed
  statement, or a kill with the list of an earlier save or none. `Blocks_progress`
  leaves out `b4`: the node changes from `a2` to `b3`, and the walk takes one
  turn; without failures both of its properties were checked with all six blocks
  as well (646,118 states). `BlocksProofs` covers
  every tree of blocks with one oldest block, every length of the list and any
  number of failures.
* **Services**: limiter, 4 calls with 2 slots, so that two wait. Disk, 3 files,
  3 blocks, 2 mishaps: a second save after a failed one. `Gbt`: 4 transactions with
  every graph of ancestors and every mixture of a cheap, small one and a dear, large one with a sigop, 3
  blocks of at most two large ones; `MaxTries` 0 so that a block closes after a
  package that did not fit. Packages are held back and put back when a block is
  closed, but here each fits into the last block, so `overflow` is empty in the
  end; with `MaxBlockWeight` 24 it is not, `NothingLost` holds there too, and
  `GbtProofs` covers all limits. `Templates`: 2 transactions, the second spends the
  first; `SparseAbove` 5 instead of 262,144, so that uids run out and all are given
  anew. With 3 transactions and 6 uids (78,870 states) the property holds as well; that instance
  is left out for the time it takes; `TemplatesProofs` covers any number. Heap: 4 nodes of 3 priorities, so ties and every
  shape of four nodes; `HeapProofs` covers any number of either. Router: 2 hosts, each of them up or down at the start, 2 requests, one failure
  tolerated, 2 changes of the hosts (a host comes back and the other fails). The limiter and `Gbt` come to an end, so this run does not
  check deadlock; what must not stop is said by its liveness properties.

### Fairness

* `Indexer`: requests are answered or fail (`WF` of a step of each call),
  timers fire, the mempool catches up. `StartRun` is strongly fair: the main
  loop comes round to `$run` for ever, and at some of these moments the
  mempool has no priority.
* `RbfMempool` (`Mempool` and `RbfCache` have none of their own): code after an
  answer runs (`CodeRuns`); timers go off, and the clock passes every expiry
  (`WF` of `Cleaned` with each transaction). Requests that can throw are strongly
  fair: they are repeated by every round, and a node that answers none of them
  for ever is not one that can be followed. A slice is answered in full
  again and again (`WholeSlice`). Nothing is assumed of the node's own steps:
  `CatchesUp` speaks of executions in which they end, `EverythingExpires` of those
  in which its mempool is empty in the end.
* `Blocks`: the main loop is started again after every round, also after an
  exception (`index.ts` 257-281), and the indexer's steps go on once started
  (`WF` of `MainLoop` and `Indexer`). Nothing of the node; it finds finitely many
  blocks.
* `PLimit`: microtasks run, calls end, since requests have timeouts.
* `DiskCache`: the main loop goes round, `$updateBlocks` ends and the file system
  answers. No fairness of blocks or saves.
* `Gbt`: the thread runs. `Failover`: the polling loop restarts itself whatever
  happens, and requests have timeouts (`WF` of `PollHosts` and of the end of each
  request). One timeout has no handler: that of `$updateHybridGitHash`
  (`esplora-api.ts` 280), which `node:https` only announces. A server that accepts
  that connection and never answers stops the polling; that it answers or fails
  is assumed. `RedisQueue` and `Templates` need none,
  their properties are safety.

### The properties that say most

* `MemoryMatchesTable` is what the detection of the next reorganisation relies
  on: it compares with the table, not with the list. `TableOnBestChain` says
  that the walk removed every block of the old branch. `CatchesUp` holds through
  every failure, also those after which the three safety properties do not.
* `StaleMarksHeal` is the indexer's promise against any state the other writers
  leave; it holds because the corrections are decided again every hour.
* `WholeSave` and `SaveEnds` need each other's mechanism: chunks go to temporary files
  because a save pauses for whole rounds of the main loop, and the pause ends
  because the loop unlocks in `finally` once more than it locks.
* `StoredOrQueued` and `LeftoversGo` are the two halves of agreement between
  Redis and the mempool. The first needs that a flush cuts off exactly what it
  sent, the second that failed removals are added to what was queued in the
  meantime ("concat instead of replace").
* `BlocksCorrect`: `BlocksValid` (parents first, limits kept, nothing twice) and `NothingLost` over
  every graph of four: ancestors and scores shrink while a package waits in the
  stack, the queue or the overflow. A transaction whose score has changed
  is left on the stack and queued as well; it is met twice, and must be placed or
  held back once. `mempool-blocks.ts` 342 adds up the lengths of the blocks and of
  `overflow` and discards the result when the sum is not the size of the mempool.
  `BlocksAreBuilt` adds that the run ends.
* `TemplatesCurrent`: the code compares numbers of transactions, not
  transactions, to see that the generator's copy has drifted. That is enough, because whatever
  fails, the copy never has a transaction that the mempool lacks: what leaves
  the mempool is told in the same call or the copy is thrown away. If unknown
  additions made up for unknown removals, the check would pass and clients
  would be shown blocks of another mempool.
* `EndsAtAGoodHost` speaks of all histories of counters and marks.

* `ViewsAgree` relates the nested trees, the maps and the key sets. It is what
  lets `add` re-parent whole trees by their roots and `remove` reach every
  version by following `replaces`.
* `ImplementsVersions` says that no sequence of additions, merges and expiries
  gives a transaction two successors, or a newest version that is not the end
  of its chain.
* `EverythingExpires`: `cleanup` drops the expiry of a replaced transaction, which
  then goes with the newest version or never. So every newest version must come
  to `evict` or `mined`, and the only way there is a round that ends, after those
  that failed with the transaction half removed.
* `ConflictsExcused` is the audit's promise that a block that double-spends
  projected transactions does not make them look censored. It needs the spend
  map to be complete, the replacements to be added before the audit, and the
  timer, which may fire during the audit, to leave the tree. It is about blocks
  handled for the first time in `undisturbed` executions and leaves out the two
  cases in which `add` does nothing (`known`, see section 4), and what an earlier
  block of the same round has double-spent (`FirstDoubleSpend`): its inputs left
  the spend map then, and a second block that double-spends it as well finds
  nothing. That case takes three transactions and two blocks; the run has
  neither, the attempt to prove the property showed it.
* `NeverDormant` and `IndexerKeepsRunning`: a flag, a timer and a running call clear
  each other; there is no interleaving in which all are off.
* `RemovedWereDropped` depends on the order of two requests. The list of txids
  is fetched before the height of the tip. If the tip then shows no new block,
  whatever the list lacks was dropped, not confirmed. If it shows one, the
  round does not use the list. Turned round, a confirmed transaction would be
  reported to clients as removed.
* `ConfirmedLeave` is the other half: no old list brings a confirmed
  transaction back, because a round that handled a block discards its list.
* `SpendMapSound` holds whatever fails; `SpendMapComplete` and
  `ReplacementsReported` only in `undisturbed` executions. In the others
  transactions are in the cached mempool that the spend map and the RBF cache
  were never told of, and stay so until they leave: a block that double-spends
  such a transaction does not mark it as replaced, it is deleted as if dropped.
  No comment or test of the code promises otherwise.
* `CatchesUp` needs `mempoolProtection` to be 2 for one whole update after its
  timer; if it went to 0 at once the protection would act again for ever, as
  the cached mempool is still too large.

## 4. Findings

1. **Links without transactions after a restart from Redis** (`RbfRestart_redis`,
   `rbf-cache.ts:519`). `importTree` links a node to its children before it finds
   that the node's transaction is missing, and returns. "Completeness" of the class
   comment fails. `ServedTreesDisjoint` shows that the
   trees given to clients stay disjoint even so.
2. **A failed run waits an hour** (`Indexer_failure`, `indexer.ts:91`). The log
   says "trying again in 10 seconds", but a pending hourly timer, left by a run
   during which `reindex()` was called, makes `scheduleNextRun` ignore the
   request.
3. **A scheduled task is scheduled once per process** (`Indexer_retry`,
   `indexer.ts:121`). The handle of the timer is never reset after it has
   fired, so later requests are ignored as duplicates.
4. **The lookup table forgets versions** (`Mempool_scalable`, `common.ts:110`).
   The table has one deleted transaction per outpoint, and the oldest one wins.
   A payment replaced twice within ten updates has its second replacement
   matched to the first version, which the RBF cache skips as already replaced.

5. **A live transaction is forgotten** (`RbfMempool_return`, `rbf-cache.ts:209`). An
   expiry set when the newest version was evicted is not cleared when it comes
   back. A day later `cleanup` removes it with its prior versions, against
   "don't remove a transaction if a newer version remains in the mempool" (329).

Met while modelling, without a run of their own; the first five are excluded
by `clean`, the others by `strayed`, `torn`, `blamed`, `known` or `parted`, and each of these
conditions can be dropped from its property to see the counterexample:

* An exception in the walk of `$handleReorgs` leaves the new branch promoted in
  the table; the next call sees no divergence and the served list keeps blocks
  of the old branch until they fall out (`blocks.ts` 1253-1298).
* `$validateChain` promotes a branch in the table without the main loop
  noticing, with the same effect (`BlocksRepository.ts` 724-726).
* A block that left the best chain while it was fetched is saved stale but
  pushed to the list; a fast-forward does not look for reorganisations at all
  (`blocks.ts` 1067).
* `$setCanonicalBlockAtHeight` is two statements, and an `INSERT` demotes nobody:
  a kill or a failure leaves two canonical rows of one height.
* After a kill during a walk, or an exception while the list ends at the oldest
  block, the table can hold canonical blocks of two branches below the height
  where the next call goes on, and no walk passes there (`OneBranch`).
  `$validateChain` can likewise make a block canonical that lies on neither the
  list nor the block being saved (`Foreign`). Both take three branches; the run
  has two, and the proof of `BlocksTableOnBestChain` did not go through without
  these conditions.
* A list from the disk cache older than a switch of branches is not compared
  with the table.
* `BlocksRepository.ts` 719-721 announces to "mark any other blocks at this height as stale" when a
  block is not indexed, but asks for more than one row: a single wrong row
  stays canonical. With the tip not in the table, line 706 throws, and the
  function answers that the chain is valid (751-753).
* Two flushes at once each cut their count off the queue: transactions between
  the two cuts are never written (`redis-cache.ts` 177). A removal does not look
  at the queue of writes.
* A `SIGINT` during a save does not save (`disk-cache.ts` 46), and may fall between
  two renames.
* `addFailure` counts the failure of the host that was asked, but marks and
  replaces the active one (`esplora-api.ts` 242-247). Late failures of a deposed
  host depose a good one, which can repeat for ever: the warning names the
  active host (245), which may have answered all its requests.
* The polling loop awaits the versions of a host (`esplora-api.ts` 150) after it has
  marked it and before it looks for a better one: requests go on to an active
  host that is known to be out of sync, for as long as the answers take.

* `add` returns for a transaction of a block that is already cached, and for
  replaced transactions that were all replaced before (`rbf-cache.ts` 121-128).
  A double-spend by a block is then not linked to what it replaces, which the
  audit counts as censored. The same happens when a block is handled a second
  time, after the expiry of the history.
* An update looks up the inputs of added transactions only (`mempool-blocks.ts`
  317). A parent that enters after its child (it was not found in an earlier
  slice, or a reorganisation returned it) is not linked to it until all uids are
  given anew: until then the child may be projected before or without its
  parent.

## 5. What is proved

All theorems are about the specifications that TLC checks, for every value of
the constants that satisfies the named assumption of the module.

Assumptions: `ConstantsAssumption` (`undefined` is neither a txid nor a tree),
`MempoolAssumption` (finitely many transactions, each with inputs and a fee;
`Depth` is positive; `undefined` is not a txid), `RestartAssumption` (conflicts
are pairs of transactions), `LimitAssumption` (finitely
many calls, a positive limit), `DiskAssumption` (a positive number of files),
`RedisAssumption` (a positive flush limit and a positive size of slices; the main
loop is not a connection), `BlocksAssumption` (the blocks form
a tree with one oldest block, which has height 0 unless the list starts with a
single block; the lengths are positive), `TemplatesAssumption` (a finite mempool, each
transaction with parents in it), `GbtAssumption` (a transaction has a positive weight;
at least one block; the other amounts are numbers), `FailoverAssumption` (a list of
at least one host; the limits are numbers), `HeapAssumption` (finitely many elements;
they and the scores are positive integers), `CombinedAssumption` (what signals is a
transaction; `undefined` is no tree). `Indexer` needs none. `Txid` may be
infinite in `RbfCache`, `Tx` in `RedisQueue`.

**RbfCacheProofs.** `TypeCorrect`, then `AlwaysConsistent`, whose invariant
`Consistent` is the five documented invariants together with `TreesMatchMaps`,
`ReachedFromRoot`, `RootsAreNewest` and `NothingLeaks`. The five alone are not
inductive: `add` takes over the trees of what it replaces by their ids, which
is right only if a transaction that nothing replaced is the root of its tree,
and `remove` deletes what `replaces` reaches, which is right only if that is
the whole tree. The lemmas `AddEffect` and `CleanupForgetsTrees` say what the two
methods do under the invariant. From it follow `CacheUpholdsInvariants`,
`ViewsAlwaysAgree`, `FullRbfAlwaysExact`, `ChangesAlwaysDirty`, the action property
`OnlyExpiredTreesForgotten`, and `CacheImplementsVersions`: the step simulation
`AddImplementsReplace`, `CleanupImplementsForget`, stutter otherwise.

**MempoolProofs.** `TypeCorrect` and `AlwaysFollowing`. `Following` adds to
`SpendMapSound`, `ConfirmedLeave` and `RemovedWereDropped` what a round may
conclude from its answers, at each await:

* at `tip`, what the list lacks was dropped or confirmed, since all that is
  cached was once known to the node;
* at `slice`, it was dropped: the tip, read after the list, showed no block
  that was not handled, and transactions of handled blocks are not cached;
* at `tip`, `slice` and `templates`, no listed transaction is in a handled
  block;
* at `audit` the spend map, at `rest` the cache is free of the block's
  transactions.

A step of the node keeps all this because a transaction only moves from the
mempool to `dropped` or to a block above all handled ones.

In the second half of the module, `NothingEverMissed`, from which `SpendMapAlwaysComplete`
and `ReplacementsAlwaysReported` follow. `SpendMapComplete` is far from inductive: a
round adds transactions slices before the callback enters their spends, and in
between the callback deletes the spends of others. Two facts decide. The
mempool of the node has no conflicts, nor has its list, so what an
undisturbed update leaves in the cache is a part of one list and free of conflicts (`ConflictFree`):
a deletion never takes a spend from a transaction that stays. And a block
looks up all its inputs before it removes anything (`InputsOfBlock`), so what it
double-spends leaves the cache with its spends. `ReplacementsReported` follows
in executions in which at most `NaiveBelow` transactions are ever remembered as
deleted (`FewDeleted`): what was deleted in the same update is out of the cache
when the search runs (`DeletedFirst`), what was deleted earlier was matched with
everything seen since. Without that hypothesis it is false (finding 4).

**MempoolProofs**, the composition with the RBF cache. `FollowsMempool` and `CallsRbfCache`: each half of the
composition implements its own specification, so all theorems about `Mempool`
and `RbfCache` hold in it. The second needs that no transaction is matched with
itself (`MatchesTyped`). `ConflictsAlwaysExcused` is about both halves. Up to the
first block that double-spends a transaction the spend map has its inputs
(`EntriesKept`; `SpendMapComplete` says this between rounds only and excludes
transactions that a known block double-spends, handled or not). During the
block each of them is in one of three states, `AboutToJoin`: none of its inputs has
been looked up, or it is matched with a transaction of the block and not yet
replaced, or it lies in a tree whose root is in the block and does not expire.
When nothing is left to look up or to add only the last remains, and the timer
takes no such tree.

**RbfRestartProofs.** `AlwaysIntact`, then `RestartUpholdsInvariants`
and `HistorySurvives`. Between two turns of the
import the documented invariants hold for part of the maps only. The invariant `HalfImported`
says which: the maps hold what the copy has of the trees read back so far, and
nothing of the others; the copy itself satisfies what `Consistent` says of the
cache it was made from. So a tree's visit to its nodes is never cut short by
a node already in the cache, and meets each exactly once. After the import the
invariant is `Consistent` again, and the steps of `load` that follow are lemmas
of `RbfCacheProofs`. About copies with lost or stale entries these two say
nothing.

That is `ServedTreesAlwaysDisjoint`, for any copy without some entries of
transactions, trees and expiries and with any absorbed trees. A transaction that was not read
back may have links (finding 1), so the maps are not inverse and the links
leave their trees. The invariant `Served` keeps what survives: every served tree
has exactly the transactions `treeMap` gives it, `replacedBy` knows every link,
and whatever lies below the root of a served tree is replaced by a member of
that tree only. So what `cleanup` takes with a root is a whole tree or nothing
of it, and `importTree`, which stops at what is already there, enters a set that
no other tree has. `SalvagedCopy` says what the copy still guarantees: its links
are those of one forest, whichever entries are gone.

**BlocksProofs.** `BlocksInvariant`, from which `BlocksTypeOK`, `BlocksServedChain`,
`BlocksMemoryMatchesTable` and `BlocksTableOnBestChain` follow. `BInv` is `Shape`,
true in every execution, and `Tidy`, true while `clean` is. `Shape` orders what
is known, the heights of the list and the branch being walked (`newBlocks`).
`Tidy` says at each await where the canonical blocks lie: before a walk they
agree with the list as far up as it goes (`ListMatches`); during a walk those at
the heights already walked lie on the new branch (`WalkedOnBranch`), those below
on one branch, not yet known which (`OneBranchBelow`); after it all below the
block lie on its branch (`LowerOnBranch`). Inductions along a branch are done on sets: of the heights
at which a claim fails one is least (`LeastOf`, from the well-foundedness of
strict inclusion of finite sets), and the step is at that height.

**TemplatesProofs.** `TemplatesInvariant`, then `TemplatesTypeCorrect` and
`ResultsAlwaysCurrent`. The invariant says of each stage of a call what the
generator has: before an answer its copy may differ from the mempool, but only
by what the call itself tells it or by additions that a failed round forgot,
never by a transaction that has left (`CopyOfMempool`). A copy that is contained in
the mempool and has as many transactions is the mempool; so the comparison of
numbers decides. `RightLinks` is the same for the parents, as long as not
`parted`.

**GbtProofs.** `GbtAlwaysInvariant`, then `GbtTypeCorrect` and `BlocksAlwaysValid`, for any
number of transactions. `BlocksValid` speaks of what is in the blocks; the
invariant says why the next step keeps it. `PackageReady`: the parents of each
transaction of the package are in a block or earlier in the package, and none of its
own are in a block, or in it twice. The package is sorted by numbers of ancestors, so this rests on the ancestors being the
relatives that are in no block yet, at every moment: those of a parent are then
part of its child's, without the parent itself. `PackageFits`: what is left of
the package has room together with the block so far. The choice compares a sum
over the block with one over the package, in quarters of virtual size; the
block is charged the weights (`SumOfUnion`, `SumByFour`). That `Worse` and
`FewerAncestors` are strict orders (`WorseIsOrder`, by cross multiplication of fractions)
is what makes the stack, the best of the queue and the package exist at all. The
sums are recursive functions: `SumsExist` shows that their equation has a
solution, and what holds of them is proved as in `BlocksProofs`, by the least
uid at which it fails.

Then `AlwaysAccounted` and from it `NothingEverLost`, together `BlocksAlwaysCorrect`. `NothingLost` speaks of the end of a
run only; `Accounted` follows each transaction to it. `Somewhere`: it is in a block, in
the package, in the queue or held back, or it is on the stack and still has the
score by which it was sorted there (an entry with an old score is skipped). This
alone would allow it to be held back from the stack and again from the queue, and
so does the code, within one block: after a package was held back, a change of its score
queues it anew. `OneToken` and `HeldOnce` say when this is harmless: what has never changed has
one entry, on the stack or in `overflow`; and while a block is still empty, what was
held back is nowhere else. In the last block
everything fits, and every other one that has something in it is closed before the
choice runs dry, so a run that ends with something held back ends
with a block still empty (`NoneHeld`). The hypothesis on the margins, `MaxBlockWeight >= 3 * ReservedWeight`, holds for the
code's 4,000,000 and 4,000: without it an empty
block counts as full and the run ends with the stack not empty.

**HeapProofs.** `HeapAlwaysInvariant`, then `HeapTypeCorrect` and `HeapIsPriorityQueue`, the
refinement of `PriorityQueue`, for any finite set of elements and any scores.
The invariant is that every node inside has a parent and a position among its
siblings, neither of them stored, that fit the pointers: `child` is the first
child, `next` the next sibling, `prev` the previous sibling or the parent, and
parents are higher (`InPlace`, `FirstChild`); nodes outside have no pointers. In
the middle of an operation there are several such trees, so `Forest` has the
set of their roots as a parameter.

`AdoptForest`: melding two roots leaves one tree where there were two.
`UnlinkedForest`: a node that is cut out takes along what is below it.
`DropForest`: without it its children are roots, still linked to each other, and
this is where `mergePairs` begins. `PairsAll` carries through the first loop
which siblings are still to come (`Chain`, with a rank that falls along `next`, so that
as many turns as there are nodes reach its end); `MeldAllForest` goes through the
second. That these recursive functions have values at all is `StepsExist`. In the
end one tree remains. Its root is the highest node, since the highest has no
parent (`HighestIsTop`), and what is reached from the root is what is inside
(`ReachedIsInside`), since no chain of parents goes on for ever.

**ServicesProofs**, the indexer. `TypeCorrect`, `FlagsAlwaysExact` and `NeverGoesDormant` for any
number of calls in progress. Exclusion of two calls follows from the flag only
together with the converse (the flag is set exactly while a call is at an
await), which is why `FlagsExact` states both.

The limiter. `LimitTypeCorrect` and `LimiterWorks`. `WorkConserving` is not inductive:
that a check left behind will start a waiting call needs that there are as many
checks as calls that could start, and that no call is both queued and running.

The disk cache. `DiskTypeCorrect`, `SavesAreWhole` and `NoSaveWaitsAlone`. The invariant
says which temporary files belong to the save in progress: all below `chunk`
while it writes, all of them while it renames, and the files below `chunk` are
already renamed. `NoSaveWaitsAlone`, the safety part of `SaveEnds`, says that
a paused save always has a lock still to be released.

The Redis queues. `RedisTypeCorrect`, `NothingMissing` and `NothingStays`. While nothing
has strayed, at most one flush is in flight, however many connections there were, what it sent is a prefix of the
queue (writes are only appended behind it), and is in Redis unless it fails:
so cutting it off loses nothing. Whatever Redis holds or the queue has beyond
the mempool is on one of the ways out: just deleted, queued for removal, in a
slice that is not sent yet, or in one that fails. `deleted` is empty outside of the flush and the removal
that follow a deletion, which keeps a second deletion from overwriting it.

The router. `FailoverTypeCorrect` and `LeavesMarkedHost`, for any hosts and requests: while a
host is neither unreachable nor out of sync, the active host is marked only as
long as the loop awaits the versions of one of the two: of the active host, which
has just been marked, or of the other, whose mark has just been taken back. Whatever
requests fail meanwhile keeps this, since `addFailure` elects at once. This is
the part of `EndsAtAGoodHost` that needs no fairness; that the marks come to
agree with the hosts is liveness, and left to TLC.

## 6. What is only model-checked

* Liveness: `EverythingExpires`, `IndexerKeepsRunning`, both `CatchesUp`,
  `StaleMarksHeal`, `EveryCallEnds`, `SaveEnds`, `BlocksAreBuilt`, `EndsAtAGoodHost`.
* `ServicesTypeOK`, the types of the components of `MCServices` that are not
  running. The types of the limiter, the disk cache, `Gbt`, `Templates`, the
  heap, the router and the indexer are proved each for itself.
* `ReplacementsReported` after so many deletions that the table is used is refuted
  (finding 4), not proved.

## 7. Plan

In this order:

1. `RbfMempool` with a restart: `RbfRestart` beside the restored mempool
   (`$setMempool`), where `checkTrees` gives live transactions an expiry after a
   failed slice (`rbf-cache.ts` 570). Add `$reloadMempool` to `Mempool`.
2. `Templates` composed with `Gbt`; the JavaScript worker against `Gbt`; a callback
   left behind by an exception (`blocks.ts` 1107), whose call of the generator
   overlaps with one of the next round.
3. The replacement queues of `redis-cache.ts`, composed with `RbfRestart`.
4. `Database`: connection pool, rollback and double release.

## 8. What is not modelled, and why

* The parts of section 7 that are still planned.
* Repositories, migrations, statistics, replication, lightning, mining
  statistics: their state is in the database and each call is a query.
* REST routes, frontend, deployment: they display or configure.
* Most of the repository by size is the web client, and most of the backend
  is queries, routes and conversions; neither has state that interleaves, so
  the models cover a small share of all lines and a larger one of the code
  that runs between awaits.
* Accelerations and clusters in `Gbt`, the contents of chunks and the blocks in
  `DiskCache`, entries of forgotten histories that stay in Redis in `RbfRestart`,
  the prices, summaries and audits saved with a block in `Blocks`.
* CPFP, the scores of the audit, difficulty and fee arithmetic: pure functions
  of numbers.
* In the modelled parts: formatting and contents of messages, progress
  indicators, logging; within `$updateBlocks`, an exception of a database query
  while a callback is still running, which leaves that callback running into
  the next round.
