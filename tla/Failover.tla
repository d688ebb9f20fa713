------------------------------ MODULE Failover -------------------------------
(***************************************************************************)
(* The router in front of the Esplora hosts: FailoverRouter of             *)
(* src/backend/src/api/bitcoin/esplora-api.ts.                             *)
(*                                                                         *)
(* One loop asks the hosts for their heights in turn, while requests go to *)
(* the active host, come back and are counted, each at its own time, also  *)
(* while the loop waits for the versions of a host it has just marked.     *)
(* How fast a host is decides between hosts that are otherwise the same:   *)
(* any of them may be the fastest.                                         *)
(***************************************************************************)
EXTENDS Integers, SequencesExt

CONSTANTS
    Hosts,          \* hosts, the preferred one first
    Request,        \* bound of the model: requests in flight
    FailureLimit,   \* failures that change nothing: 5
    MaxFailures,    \* bound of the model: no more failures are counted
    MaxSlippage,    \* maxSlippage
    MaxHeight,      \* bound of the model: height of a host
    MaxChanges      \* bound of the model: changes of hosts, errors of good ones

ASSUME FailoverAssumption ==
    /\ Hosts \in Seq(ToSet(Hosts)) /\ Hosts # <<>> /\ FailureLimit \in Nat /\ MaxSlippage \in Nat
    /\ MaxFailures \in Nat /\ MaxFailures > FailureLimit
    /\ MaxHeight \in Nat /\ MaxChanges \in Nat

Host == ToSet(Hosts)

VARIABLES
    up,             \* whether a host answers
    height,         \* how far it is
    changes,        \* what has happened to the hosts so far
    polling,        \* where pollHosts is: it asks a host for its height, waits
                    \* for the versions of one that has answered, or has asked all
    polled,         \* the position of the host that is asked
    unreachable,    \* "unset" until it is set, else "yes" or "no"
    outOfSync,      \* the same
    latestHeight,   \* what the host has answered last, else 0
    hostFailures,
    activeHost,
    fallbackHost,
    request,        \* request -> where it has been sent, whether it may be retried
    blamed          \* history: see Blamed

failoverVars == <<up, height, changes, polling, polled, unreachable, outOfSync,
                  latestHeight, hostFailures, activeHost, fallbackHost, request, blamed>>

Flag == {"unset", "yes", "no"}
Idle == [sent |-> FALSE, host |-> Hosts[1], retry |-> FALSE]
SentTo(h, retry) == [sent |-> TRUE, host |-> h, retry |-> retry]

FailoverTypeOK ==
    /\ up \in [Host -> BOOLEAN] /\ height \in [Host -> 0..MaxHeight]
    /\ changes \in 0..MaxChanges
    /\ polling \in {"check", "versions", "rank"} /\ polled \in DOMAIN Hosts
    /\ unreachable \in [Host -> Flag] /\ outOfSync \in [Host -> Flag]
    /\ latestHeight \in [Host -> 0..MaxHeight]
    /\ hostFailures \in [Host -> 0..MaxFailures]
    /\ activeHost \in Host /\ fallbackHost \in Host
    /\ request \in [Request -> [sent : BOOLEAN, host : Host, retry : BOOLEAN]]
    /\ blamed \in BOOLEAN

FailoverInit ==
    /\ up \in [Host -> BOOLEAN]
    /\ height = [h \in Host |-> 0]
    /\ changes = 0
    /\ polling = "check" /\ polled = 1
    /\ unreachable = [h \in Host |-> "unset"]
    /\ outOfSync = [h \in Host |-> "unset"]
    /\ latestHeight = [h \in Host |-> 0]
    /\ hostFailures = [h \in Host |-> 0]
    /\ activeHost = Hosts[1]
    /\ fallbackHost = Hosts[1]
    /\ request = [r \in Request |-> Idle]
    /\ blamed = FALSE

(***************************************************************************)
(* The hosts                                                               *)
(***************************************************************************)

\* A host goes down, comes back, or moves to another height.
HostChanges(h) ==
    /\ changes < MaxChanges
    /\ changes' = changes + 1
    /\ \/ up' = [up EXCEPT ![h] = ~@] /\ UNCHANGED height
       \/ \E n \in (0..MaxHeight) \ {height[h]} :
             height' = [height EXCEPT ![h] = n] /\ UNCHANGED up
    /\ UNCHANGED <<polling, polled, unreachable, outOfSync, latestHeight,
                   hostFailures, activeHost, fallbackHost, request, blamed>>

(***************************************************************************)
(* sortHosts                                                               *)
(***************************************************************************)

preferred(h) == h = Hosts[1]

\* "a.unreachable || a.outOfSync", which is undefined before the first check.
Bad(down, behind, h) == IF down[h] = "yes" THEN "yes" ELSE behind[h]

\* The comparator has one answer whichever way round it is asked. It has two for
\* a host that is checked and good and one that is not checked: undefined and
\* false are different, and the one that is asked about first comes first.
Better(down, behind, a, b) ==
    \/ Bad(down, behind, a) # "yes" /\ Bad(down, behind, b) = "yes"
    \/ /\ Bad(down, behind, a) = Bad(down, behind, b)
       /\ preferred(a) /\ ~preferred(b)

\* The hosts that may be the first of the ranking.
Firsts(down, behind, hosts) ==
    {h \in hosts : \A other \in hosts \ {h} : ~Better(down, behind, other, h)}

(***************************************************************************)
(* pollHosts                                                               *)
(***************************************************************************)

Tip(h) == {height[h]} \cup
          {latestHeight[o] : o \in {x \in Host \ {h} :
                                      "yes" \notin {unreachable[x], outOfSync[x]}}}

Behind(h) == \E n \in Tip(h) : n - height[h] > MaxSlippage

FlagOf(b) == IF b THEN "yes" ELSE "no"

\* Mutant: a host that answers again is still taken for unreachable.
CheckHostOnce(h) ==
    /\ IF up[h]
       THEN /\ latestHeight' = [latestHeight EXCEPT ![h] = height[h]]
            /\ outOfSync' = [outOfSync EXCEPT ![h] = FlagOf(Behind(h))]
            /\ UNCHANGED unreachable
       ELSE /\ outOfSync' = [outOfSync EXCEPT ![h] = "yes"]
            /\ unreachable' = [unreachable EXCEPT ![h] = "yes"]
            /\ UNCHANGED latestHeight

CheckHost(h) ==
    /\ outOfSync' = [outOfSync EXCEPT ![h] = FlagOf(up[h] => Behind(h))]
    /\ unreachable' = [unreachable EXCEPT ![h] = FlagOf(~up[h])]
    /\ latestHeight' = IF up[h] THEN [latestHeight EXCEPT ![h] = height[h]]
                       ELSE latestHeight

\* The active host is deposed when it is bad, when a preferred host is better, or
\* when it is slow.
Switch ==
    \E best \in Firsts(unreachable', outOfSync', Host) :
        \/ /\ \/ "yes" \in {unreachable'[activeHost], outOfSync'[activeHost]}
              \/ best # activeHost /\ (preferred(best) \/ ~preferred(activeHost))
           /\ activeHost' = best
           /\ hostFailures' = [hostFailures EXCEPT ![activeHost] = 0]
        \/ /\ "yes" \notin {unreachable'[activeHost], outOfSync'[activeHost]}
           /\ best # activeHost => ~preferred(best)
           /\ UNCHANGED <<activeHost, hostFailures>>

\* To the next host, if there is one.
NextHost ==
    IF polled = Len(Hosts) THEN polling' = "rank" /\ UNCHANGED polled
    ELSE polling' = "check" /\ polled' = polled + 1

\* The answer about the height, or none: the host is marked.  Now and then the
\* loop also asks a host that has answered for its versions.
PollHost ==
    /\ polling = "check" /\ Len(Hosts) > 1
    /\ CheckHost(Hosts[polled])
    /\ \/ Switch /\ NextHost
       \/ /\ up[Hosts[polled]]
          /\ polling' = "versions"
          /\ UNCHANGED <<polled, activeHost, hostFailures>>
    /\ UNCHANGED <<up, height, changes, fallbackHost, request, blamed>>

\* They have been answered, or not: only now is a marked active host deposed.
VersionsEnd ==
    /\ polling = "versions"
    /\ UNCHANGED <<unreachable, outOfSync>>
    /\ Switch /\ NextHost
    /\ UNCHANGED <<up, height, changes, latestHeight, fallbackHost, request, blamed>>

\* updateFallback, after all hosts; the timer starts the loop again.
UpdateFallback ==
    /\ polling = "rank"
    /\ \E best \in Firsts(unreachable, outOfSync, Host) :
          IF best = activeHost
          THEN fallbackHost' \in Firsts(unreachable, outOfSync, Host \ {best})
          ELSE fallbackHost' = best
    /\ polling' = "check" /\ polled' = 1
    /\ UNCHANGED <<up, height, changes, unreachable, outOfSync, latestHeight,
                   hostFailures, activeHost, request, blamed>>

PollHosts == PollHost \/ VersionsEnd \/ UpdateFallback

(***************************************************************************)
(* $query                                                                  *)
(***************************************************************************)

SendRequest(r) ==
    /\ ~request[r].sent
    /\ request' = [request EXCEPT ![r] = SentTo(activeHost, TRUE)]
    /\ UNCHANGED <<up, height, changes, polling, polled, unreachable, outOfSync,
                   latestHeight, hostFailures, activeHost, fallbackHost, blamed>>

AnswerRequest(r) ==
    LET h == request[r].host
    IN
    /\ request[r].sent
    /\ up[h]
    /\ hostFailures' = [hostFailures EXCEPT ![h] = IF @ = 0 THEN 0 ELSE @ - 1]
    /\ request' = [request EXCEPT ![r] = Idle]
    /\ UNCHANGED <<up, height, changes, polling, polled, unreachable, outOfSync,
                   latestHeight, activeHost, fallbackHost, blamed>>

\* "Not found" is an error for the caller and neither counted nor retried.
RequestNotFound(r) ==
    /\ request[r].sent
    /\ up[request[r].host]
    /\ request' = [request EXCEPT ![r] = Idle]
    /\ UNCHANGED <<up, height, changes, polling, polled, unreachable, outOfSync,
                   latestHeight, hostFailures, activeHost, fallbackHost, blamed>>

\* A late failure of a host that has been deposed: the one that took its place is
\* marked unreachable, and when no other is left the first one comes back.
Blamed(h) == h # activeHost

\* addFailure, also for an error that a good host answers with: too many
\* failures of any host depose the active one. A refused connection is tried
\* once more on the host that comes of this.
FailRequest(r) ==
    LET h == request[r].host
        counted == [hostFailures EXCEPT ![h] = IF @ = MaxFailures THEN @ ELSE @ + 1]
    IN
    /\ request[r].sent
    /\ IF up[h] THEN changes < MaxChanges /\ changes' = changes + 1
       ELSE UNCHANGED changes
    /\ IF counted[h] > FailureLimit /\ Len(Hosts) > 1
       THEN /\ unreachable' = [unreachable EXCEPT ![activeHost] = "yes"]
            /\ hostFailures' = [counted EXCEPT ![activeHost] = 0]
            /\ activeHost' \in Firsts(unreachable', outOfSync, Host)
            /\ blamed' = (blamed \/ Blamed(h))
       ELSE hostFailures' = counted /\ UNCHANGED <<unreachable, activeHost, blamed>>
    /\ \/ request' = [request EXCEPT ![r] = Idle]
       \/ /\ ~up[h] /\ request[r].retry /\ Len(Hosts) > 1
          /\ request' = [request EXCEPT ![r] =
                SentTo(IF counted[h] > FailureLimit THEN activeHost' ELSE fallbackHost,
                       FALSE)]
    /\ UNCHANGED <<up, height, polling, polled, outOfSync, latestHeight, fallbackHost>>

RequestEnds(r) == AnswerRequest(r) \/ RequestNotFound(r) \/ FailRequest(r)

FailoverNext ==
    \/ \E h \in Host : HostChanges(h)
    \/ PollHosts
    \/ \E r \in Request : SendRequest(r) \/ RequestEnds(r)

\* The loop starts itself again whatever happens, and requests have timeouts,
\* but for the one of $updateHybridGitHash.
FailoverFairness ==
    /\ WF_failoverVars(PollHosts)
    /\ \A r \in Request : WF_failoverVars(RequestEnds(r))

FailoverSpec == FailoverInit /\ [][FailoverNext]_failoverVars /\ FailoverFairness

(***************************************************************************)
(* Properties                                                              *)
(***************************************************************************)

Good(h) == up[h] /\ \A o \in Host : up[o] => height[o] - height[h] <= MaxSlippage

\* Once the hosts stay as they are, the router comes to use one that answers and
\* keeps up, if there is one, and stays with such hosts, whatever was counted and
\* marked before, unless a host was deposed for the failures of another.
EndsAtAGoodHost ==
    <>[](~blamed /\ (\E h \in Host : up[h]) => Good(activeHost))
=============================================================================
