------------------------------ MODULE Indexer ------------------------------
(***************************************************************************)
(* The scheduling of the indexer, src/backend/src/indexer.ts: its hourly   *)
(* run, which reindex() brings forward, and the single tasks blocksPrices  *)
(* and coinStatsIndex, which run beside it and can be scheduled.           *)
(*                                                                         *)
(* Callers do not wait for $run and runSingleTask, so several calls can be *)
(* in progress, each at one of its awaits.  An action is the code from one *)
(* await to the next.  The cfgs of the module have indexing enabled; when  *)
(* it is not, $run, reindex and runSingleTask return at once.              *)
(***************************************************************************)
EXTENDS Naturals

CONSTANTS
    Runs,   \* calls of $run that may be in progress at once
    Calls   \* calls of runSingleTask that may be in progress at once

TaskName == {"blocksPrices", "coinStatsIndex"}

VARIABLES
    runIndexer,      \* an index run is wanted
    indexerRunning,  \* the guard of $run
    reindexTimeout,  \* "none", or the delay it was set with
    run,             \* run -> the await where it is: a Stage
    tasksRunning,    \* task -> the guard of runSingleTask
    tasksScheduled,  \* the handle of blocksPrices: "unset", "pending", "fired"
    call,            \* call -> the await where it is: a Step
    historyInserted, \* priceUpdater: the price history is complete
    hasPriority,     \* the mempool is behind and wants the node for itself
    retryPromised    \* a block's price is due to be tried again; the log says
                     \* "Trying again in 10 seconds"

runVars == <<runIndexer, indexerRunning, reindexTimeout, run>>
taskVars == <<tasksRunning, tasksScheduled, call, retryPromised>>
envVars == <<historyInserted, hasPriority>>
vars == <<runVars, taskVars, envVars>>

\* The awaits of $run: the price updater and the node's status, the list of
\* the node's indexes, $generateBlockDatabase, the tables filled from it.
Stage == {"idle", "status", "indexes", "chain", "tables"}

\* The awaits of runSingleTask: $getLatestPriceId and $indexBlockPrices of
\* blocksPrices, $indexCoinStatsIndex of coinStatsIndex.
Step == {"idle", "asking", "pricing", "counting"}

TypeOK ==
    /\ runIndexer \in BOOLEAN
    /\ indexerRunning \in BOOLEAN
    /\ reindexTimeout \in {"none", "retry", "hourly"}
    /\ run \in [Runs -> Stage]
    /\ tasksRunning \in [TaskName -> BOOLEAN]
    /\ tasksScheduled \in {"unset", "pending", "fired"}
    /\ call \in [Calls -> Step]
    /\ historyInserted \in BOOLEAN
    /\ hasPriority \in BOOLEAN
    /\ retryPromised \in BOOLEAN

Init ==
    /\ runIndexer = TRUE
    /\ indexerRunning = FALSE
    /\ reindexTimeout = "none"
    /\ run = [r \in Runs |-> "idle"]
    /\ tasksRunning = [task \in TaskName |-> FALSE]
    /\ tasksScheduled = "unset"
    /\ call = [c \in Calls |-> "idle"]
    /\ historyInserted = FALSE
    /\ hasPriority = TRUE
    /\ retryPromised = FALSE

(***************************************************************************)
(* The single tasks                                                        *)
(***************************************************************************)

FirstAwait(task) == IF task = "blocksPrices" THEN "asking" ELSE "counting"

\* Mutant: runSingleTask does not look at tasksRunning.
RunSingleTaskAnyway(task) ==
    /\ tasksRunning' = [tasksRunning EXCEPT ![task] = TRUE]
    /\ \E c \in Calls : call[c] = "idle"
                        /\ call' = [call EXCEPT ![c] = FirstAwait(task)]

\* runSingleTask, up to its first await: nothing if the task is running.
RunSingleTask(task) ==
    \/ tasksRunning[task] /\ UNCHANGED <<tasksRunning, call>>
    \/ /\ ~tasksRunning[task]
       /\ tasksRunning' = [tasksRunning EXCEPT ![task] = TRUE]
       /\ \E c \in Calls : call[c] = "idle"
                           /\ call' = [call EXCEPT ![c] = FirstAwait(task)]

\* scheduleSingleTask('blocksPrices'). No caller asks to replace, so it does
\* nothing when the handle is set, whether or not its timer has gone off.
ScheduleSingleTask ==
    /\ retryPromised' = TRUE
    /\ tasksScheduled' = IF tasksScheduled = "unset" THEN "pending"
                         ELSE tasksScheduled

\* The timer goes off. The callback's `finally` clears the timer that has
\* just fired, which changes nothing: the handle stays.
FireScheduled ==
    /\ tasksScheduled = "pending"
    /\ tasksScheduled' = "fired"
    /\ RunSingleTask("blocksPrices")
    /\ retryPromised' = FALSE
    /\ UNCHANGED <<runVars, envVars>>

Return(c, task) ==
    /\ call' = [call EXCEPT ![c] = "idle"]
    /\ tasksRunning' = [tasksRunning EXCEPT ![task] = FALSE]

\* $getLatestPriceId answers. priceKnown: it returned an id, or failed, which
\* leaves lastestPriceId undefined, not null.
PriceIdAnswered(c, priceKnown) ==
    /\ call[c] = "asking"
    /\ \/ /\ historyInserted /\ priceKnown
          /\ call' = [call EXCEPT ![c] = "pricing"]
          /\ UNCHANGED <<tasksRunning, tasksScheduled, retryPromised>>
       \/ /\ ~(historyInserted /\ priceKnown)
          /\ ScheduleSingleTask
          /\ Return(c, "blocksPrices")
    /\ UNCHANGED <<runVars, envVars>>

\* $indexBlockPrices catches its errors, the switch those of coinStatsIndex.
PricesIndexed(c) ==
    /\ call[c] = "pricing"
    /\ Return(c, "blocksPrices")
    /\ UNCHANGED <<runVars, envVars, tasksScheduled, retryPromised>>

CoinStatsIndexed(c) ==
    /\ call[c] = "counting"
    /\ Return(c, "coinStatsIndex")
    /\ UNCHANGED <<runVars, envVars, tasksScheduled, retryPromised>>

\* $updateBlocks saves the price of a new block, or schedules the task when
\* the price updater has not completed.
SaveBlockPrice(priceKnown) ==
    /\ ~(historyInserted /\ priceKnown)
    /\ ScheduleSingleTask
    /\ UNCHANGED <<runVars, envVars, tasksRunning, call>>

(***************************************************************************)
(* The index run                                                           *)
(***************************************************************************)

\* A reorganisation, or a chain that is far ahead.
Reindex ==
    /\ reindexTimeout' = "none"
    /\ runIndexer' = TRUE
    /\ UNCHANGED <<indexerRunning, run, taskVars, envVars>>

\* The timer of scheduleNextRun goes off.
ReindexTimeout ==
    /\ reindexTimeout # "none"
    /\ Reindex

\* The main loop calls $run after every mempool update.
StartRun(r) ==
    /\ runIndexer
    /\ ~indexerRunning
    /\ ~hasPriority
    /\ run[r] = "idle"
    /\ runIndexer' = FALSE
    /\ indexerRunning' = TRUE
    /\ run' = [run EXCEPT ![r] = "status"]
    /\ UNCHANGED <<reindexTimeout, taskVars, envVars>>

\* Mutant: the `finally` of $run is left out.
EndRunUnplanned(r, delay) ==
    /\ indexerRunning' = FALSE
    /\ run' = [run EXCEPT ![r] = "idle"]
    /\ UNCHANGED <<runIndexer, reindexTimeout>>

\* The `finally` of $run; scheduleNextRun ignores it if a run is planned.
EndRun(r, delay) ==
    /\ indexerRunning' = FALSE
    /\ run' = [run EXCEPT ![r] = "idle"]
    /\ reindexTimeout' = IF reindexTimeout = "none" THEN delay
                         ELSE reindexTimeout
    /\ UNCHANGED runIndexer

\* The node is not synced, a request throws, or the chain of block hashes is
\* invalid.
FailRun(r) ==
    /\ run[r] # "idle"
    /\ EndRun(r, "retry")
    /\ UNCHANGED <<taskVars, envVars>>

Proceed(r, from, to) ==
    /\ run[r] = from
    /\ run' = [run EXCEPT ![r] = to]
    /\ UNCHANGED <<runIndexer, indexerRunning, reindexTimeout>>

NodeSynced(r) ==
    /\ Proceed(r, "status", "indexes")
    /\ UNCHANGED <<taskVars, envVars>>

\* checkAvailableCoreIndexes.
IndexesListed(r, coinStatsSynced) ==
    /\ Proceed(r, "indexes", "chain")
    /\ IF coinStatsSynced THEN RunSingleTask("coinStatsIndex")
                          ELSE UNCHANGED <<tasksRunning, call>>
    /\ UNCHANGED <<tasksScheduled, retryPromised, envVars>>

ChainValid(r) ==
    /\ Proceed(r, "chain", "tables")
    /\ RunSingleTask("blocksPrices")
    /\ retryPromised' = FALSE
    /\ UNCHANGED <<tasksScheduled, envVars>>

FinishRun(r) ==
    /\ run[r] = "tables"
    /\ EndRun(r, "hourly")
    /\ UNCHANGED <<taskVars, envVars>>

\* The price updater completes the history, and checks it again once a day.
UpdatePrices ==
    /\ historyInserted' = ~historyInserted
    /\ UNCHANGED <<runVars, taskVars, hasPriority>>

\* The mempool falls behind, and catches up.
UpdateMempool ==
    /\ hasPriority' = ~hasPriority
    /\ UNCHANGED <<runVars, taskVars, historyInserted>>

(***************************************************************************)
(* Specification                                                           *)
(***************************************************************************)

RunStep(r) ==
    \/ NodeSynced(r)
    \/ \E coinStatsSynced \in BOOLEAN : IndexesListed(r, coinStatsSynced)
    \/ ChainValid(r)
    \/ FinishRun(r)
    \/ FailRun(r)

CallStep(c) ==
    \/ \E priceKnown \in BOOLEAN : PriceIdAnswered(c, priceKnown)
    \/ PricesIndexed(c)
    \/ CoinStatsIndexed(c)

Next ==
    \/ Reindex
    \/ ReindexTimeout
    \/ \E r \in Runs : StartRun(r) \/ RunStep(r)
    \/ \E c \in Calls : CallStep(c)
    \/ FireScheduled
    \/ \E priceKnown \in BOOLEAN : SaveBlockPrice(priceKnown)
    \/ UpdatePrices
    \/ UpdateMempool

Spec == Init /\ [][Next]_vars

\* Requests are answered, timers go off, the mempool catches up, and the main
\* loop comes round to $run again and again at moments when it has.
Fairness ==
    /\ \A r \in Runs : WF_vars(RunStep(r)) /\ SF_vars(StartRun(r))
    /\ \A c \in Calls : WF_vars(CallStep(c))
    /\ WF_vars(ReindexTimeout)
    /\ WF_vars(FireScheduled)
    /\ WF_vars(hasPriority /\ UpdateMempool)

FairSpec == Spec /\ Fairness

(***************************************************************************)
(* Properties                                                              *)
(***************************************************************************)

\* The calls of runSingleTask that are working on task.
Working(task) ==
    {c \in Calls : call[c] \in IF task = "blocksPrices"
                               THEN {"asking", "pricing"} ELSE {"counting"}}

\* The flags tell what is running: two calls of $run, started by different
\* rounds of the main loop, are never in progress together, nor two of one
\* task, whether $run, the timer or the node's index list started them
\* (indexer.ts:134 and 172), and a flag never stays set after the last call
\* returned, which would disable the run or the task for good.
FlagsExact ==
    /\ \A r, s \in Runs : run[r] # "idle" /\ run[s] # "idle" => r = s
    /\ indexerRunning <=> \E r \in Runs : run[r] # "idle"
    /\ \A task \in TaskName :
          /\ \A c, d \in Working(task) : c = d
          /\ tasksRunning[task] <=> Working(task) # {}

\* The indexer is never dormant: a run is wanted, in progress or planned,
\* through any sequence of reindex requests, timeouts and failing runs
\* (indexer.ts:80-97, 235-244).
NeverDormant == runIndexer \/ indexerRunning \/ reindexTimeout # "none"

\* "Indexer failed, trying again in 10 seconds" (indexer.ts:234, and 198 and
\* 210): when a run fails, the next one is planned with the short delay, also
\* if a reindex request arrived during an earlier run.
RetriesSoon ==
    [][\A r \in Runs :
         run[r] \in {"status", "indexes", "chain"} /\ run'[r] = "idle"
            => reindexTimeout' = "retry"]_vars

\* Indexing starts over for ever: no interleaving of reindex requests, runs
\* and timers stops it (indexer.ts:170-245).
KeepsRunning == []<>indexerRunning /\ []<>~indexerRunning

\* "Trying again in 10 seconds" (api/blocks.ts:1089): when the price of a
\* block could not be saved, a run of blocksPrices is scheduled and has not
\* yet taken place; "`false` ignores subsequent requests" only while the task
\* is scheduled (indexer.ts:99-106).
RetryIsScheduled == retryPromised => tasksScheduled = "pending"

=============================================================================
