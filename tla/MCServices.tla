----------------------------- MODULE MCServices -----------------------------
(***************************************************************************)
(* Model checking of seven components that share no state: a behaviour is  *)
(* one of one of them, chosen at the start.                                *)
(***************************************************************************)
EXTENDS PLimit, DiskCache, Gbt, Templates, PairingHeap, Failover, Indexer

VARIABLE component

CONSTANTS r1, r2, c1, c2, c3

\* A cheap transaction, and a dear one that is larger and has a sigop.
KindsDef == {[fee |-> 1, weight |-> 4, sigops |-> 0, order |-> 1],
             [fee |-> 6, weight |-> 20, sigops |-> 1, order |-> 0]}

ParentsDef == <<{}, {1}>>    \* 2 spends 1

\* The node's own server and one fallback.
HostsDef == <<"preferred", "fallback">>

AnyMempool == [t \in Uid |-> CHOOSE tx \in {m[1] : m \in Mempools} : tx.inputs = {}]

ServicesInit ==
    /\ component \in {"limit", "disk", "gbt", "templates", "heap", "router", "indexer"}
    /\ LimitInit /\ DiskInit /\ HeapInit /\ FailoverInit /\ Init
    /\ TemplatesInit /\ (component # "templates" => cached = {})
    /\ component # "router" => \A h \in Host : up[h]
    /\ IF component = "gbt" THEN mempool \in Mempools ELSE mempool = AnyMempool
    /\ GbtStart

\* All but the component that runs stand still.
Only(name) ==
    /\ component = name
    /\ UNCHANGED component
    /\ name # "limit" => UNCHANGED limitVars
    /\ name # "disk" => UNCHANGED diskVars
    /\ name # "gbt" => UNCHANGED gbtVars
    /\ name # "templates" => UNCHANGED templateVars
    /\ name # "heap" => UNCHANGED heapVars
    /\ name # "router" => UNCHANGED failoverVars
    /\ name # "indexer" => UNCHANGED vars

ServicesNext ==
    \/ Only("limit") /\ LimitNext
    \/ Only("disk") /\ DiskNext
    \/ Only("gbt") /\ GbtNext
    \/ Only("templates") /\ TemplatesNext
    \/ Only("heap") /\ HeapNext
    \/ Only("router") /\ FailoverNext
    \/ Only("indexer") /\ Next

servicesVars == <<component, limitVars, diskVars, gbtVars, templateVars, heapVars,
                  failoverVars, vars>>

(***************************************************************************)
(* The fairness of each module, for the behaviours that are of it          *)
(***************************************************************************)

LimitIsFair ==
    /\ WF_limitVars(component = "limit" /\ CheckQueue)
    /\ \A c \in Call : WF_limitVars(component = "limit" /\ FinishCall(c))

DiskIsFair ==
    /\ WF_diskVars(component = "disk" /\ LockCache)
    /\ WF_diskVars(component = "disk" /\ EndBlocks)
    /\ WF_diskVars(component = "disk" /\ FinallyUnlock)
    /\ WF_diskVars(component = "disk" /\ DiskSave)

GbtIsFair == WF_gbtVars(component = "gbt" /\ GbtNext)

FailoverIsFair ==
    /\ WF_failoverVars(component = "router" /\ PollHosts)
    /\ \A r \in Request : WF_failoverVars(component = "router" /\ RequestEnds(r))

IndexerIsFair ==
    /\ \A r \in Runs : /\ WF_vars(component = "indexer" /\ RunStep(r))
                       /\ SF_vars(component = "indexer" /\ StartRun(r))
    /\ \A c \in Calls : WF_vars(component = "indexer" /\ CallStep(c))
    /\ WF_vars(component = "indexer" /\ ReindexTimeout)
    /\ WF_vars(component = "indexer" /\ FireScheduled)
    /\ WF_vars(component = "indexer" /\ hasPriority /\ UpdateMempool)

ServicesSpec ==
    /\ ServicesInit /\ [][ServicesNext]_servicesVars
    /\ LimitIsFair /\ DiskIsFair /\ GbtIsFair /\ FailoverIsFair /\ IndexerIsFair

(***************************************************************************)
(* Properties that need the choice                                         *)
(***************************************************************************)

\* The variables of all seven have their types.
ServicesTypeOK ==
    /\ LimitTypeOK /\ DiskTypeOK /\ GbtTypeOK /\ TemplatesTypeOK
    /\ HeapTypeOK /\ FailoverTypeOK /\ TypeOK

\* The blocks are built to the end (gbt.rs) when they are what is run.
BlocksAreBuilt == component = "gbt" => BuildEnds

\* Indexing starts over for ever (indexer.ts:170-245) when it is what is run.
IndexerKeepsRunning == component = "indexer" => KeepsRunning
=============================================================================
