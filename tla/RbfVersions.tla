----------------------------- MODULE RbfVersions -----------------------------
(***************************************************************************)
(* What the RBF cache promises its readers, without saying how: for every  *)
(* transaction it remembers, which transaction replaced it directly and    *)
(* which one is the newest version of it now.  The readers are the         *)
(* websocket clients that track a transaction, the /replacements API and   *)
(* the block audit; getReplacedBy and getRbfTree of                        *)
(* src/backend/src/api/rbf-cache.ts answer them.                           *)
(***************************************************************************)
CONSTANTS
    Txid,
    None

VARIABLES
    newest,     \* remembered txid -> the newest version of it
    successor   \* remembered txid -> what replaced it directly, or None

Init ==
    /\ newest = [t \in Txid |-> None]
    /\ successor = [t \in Txid |-> None]

\* A transaction can be replaced while it is the newest version of itself,
\* remembered or not.
Replaceable(t) == newest[t] \in {None, t}

\* newTx replaces the transactions in old, and so every version behind them.
Replace(old, newTx) ==
    /\ newest[newTx] = None
    /\ old # {} /\ newTx \notin old
    /\ \A t \in old : Replaceable(t)
    /\ newest' = [t \in Txid |->
                    IF t \in old \cup {newTx} \/ newest[t] \in old
                    THEN newTx ELSE newest[t]]
    /\ successor' = [t \in Txid |->
                       IF t \in old THEN newTx ELSE successor[t]]

\* All the versions of the transactions in stale are forgotten together.
Forget(stale) ==
    /\ stale # {}
    /\ \A t \in stale : newest[t] = t
    /\ newest' = [t \in Txid |->
                    IF newest[t] \in stale THEN None ELSE newest[t]]
    /\ successor' = [t \in Txid |->
                       IF newest[t] \in stale THEN None ELSE successor[t]]

Next ==
    \/ \E newTx \in Txid : \E old \in SUBSET Txid : Replace(old, newTx)
    \/ \E stale \in SUBSET Txid : Forget(stale)

Spec == Init /\ [][Next]_<<newest, successor>>

=============================================================================
