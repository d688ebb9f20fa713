----------------------------- MODULE RbfMempool -----------------------------
(***************************************************************************)
(* The RBF cache (RbfCache) beside the mempool (Mempool), driven by the    *)
(* two callbacks of src/backend/src/api/websocket-handler.ts:              *)
(* $handleMempoolChange adds what it finds replaced and evicts what was    *)
(* deleted; handleNewBlock adds what the block double-spends, has the      *)
(* block audited and marks what it confirms.  The cleanup timer fires at   *)
(* the awaits in between.                                                  *)
(*                                                                         *)
(* A callback makes its calls without interruption.  Each call is a step   *)
(* here, and nothing else runs while calls are left; nor does the node     *)
(* move, as its steps commute with them.                                   *)
(***************************************************************************)
EXTENDS Mempool

CONSTANT Signals    \* the transactions that signal replaceability

VARIABLES
    \* the RBF cache
    replacedBy, replaces, rbfTrees, dirtyTrees, treeMap, txs, expiring,
    published,
    \* calls that the running callback has still to make
    matches,    \* pairs <<replaced, by>> for add()
    sending,    \* getRbfChanges()
    gone,       \* txids for evict()
    confirmed,  \* txids for mined()
    \* about the block that is being handled
    audited,    \* the height of the last block that was audited
    known       \* what add() will skip: transactions of the block that are
                \* cached, and transactions that were replaced before

Rbf == INSTANCE RbfCache

\* undefined is neither a txid nor a tree.
ASSUME CombinedAssumption ==
    /\ Signals \subseteq Txid
    /\ None \notin Rbf!RbfTree

rbfVars == <<replacedBy, replaces, rbfTrees, dirtyTrees, treeMap, txs,
             expiring, published>>
callVars == <<matches, sending, gone, confirmed>>
blockVars == <<audited, known>>
allVars == <<vars, rbfVars, callVars, blockVars>>

CombinedInit ==
    /\ Init
    /\ Rbf!Init
    /\ matches = {}
    /\ sending = FALSE
    /\ gone = {}
    /\ confirmed = {}
    /\ audited = 0
    /\ known = {}

\* The backend waits. At "inputs" it is in the middle of a callback.
AtAwait ==
    /\ await # "inputs"
    /\ matches = {} /\ ~sending /\ gone = {} /\ confirmed = {}

\* The steps that leave the RBF cache alone.
Elsewhere ==
    /\ AtAwait
    /\ \/ NodeStep \/ ListMempool \/ ReadTip \/ Throw \/ PushBlock
       \/ Slices \/ DeleteTransactions \/ ProtectionEnds
    /\ UNCHANGED <<rbfVars, callVars, blockVars>>

-----------------------------------------------------------------------------
\* handleRbfTransactions calls add() for each replacing transaction, which
\* returns early if it is cached or if all it replaced were replaced before.
Replaced(t) == {d \in Txid : <<d, t>> \in matches}

AddReplacement(t) ==
    /\ await = "inputs" => spent = {}
    /\ Replaced(t) # {}
    /\ \/ Rbf!Add(Replaced(t), t)
       \/ /\ t \in txs \/ Rbf!FirstReplaced(Replaced(t)) = {}
          /\ UNCHANGED rbfVars
    /\ matches' = {p \in matches : p[2] # t}
    /\ UNCHANGED <<vars, sending, gone, confirmed, blockVars>>

\* $handleMempoolChange after its templates: first the replacements...
UpdateSeen ==
    /\ AtAwait
    /\ MempoolChanged
    /\ matches' = Matches
    /\ sending' = TRUE
    /\ gone' = recentlyDeleted[1]
    /\ UNCHANGED <<rbfVars, confirmed, blockVars>>

\* ... then the changes for the clients...
ChangesSent ==
    /\ matches = {} /\ sending
    /\ \/ Rbf!GetRbfChanges
       \/ dirtyTrees = {} /\ UNCHANGED rbfVars
    /\ sending' = FALSE
    /\ UNCHANGED <<vars, matches, gone, confirmed, blockVars>>

\* ... then the evictions.
EvictDeleted(t) ==
    /\ ~sending
    /\ t \in gone
    /\ \/ Rbf!Evict(t)
       \/ t \notin txs \ expiring /\ UNCHANGED rbfVars
    /\ gone' = gone \ {t}
    /\ UNCHANGED <<vars, matches, sending, confirmed, blockVars>>

-----------------------------------------------------------------------------
BlockStarted ==
    /\ AtAwait
    /\ StartBlock
    /\ known' = {t \in txs : t \in Block \/ replacedBy[t] # None}
    /\ UNCHANGED <<rbfVars, callVars, audited>>

\* findMinedRbfTransactions goes through the whole block before the first of
\* its matches is added.
InputLookedUp(o) ==
    /\ LookUpInput(o)
    /\ matches' = matches \cup
          {p \in ({spendMap[o]} \ (Block \cup {None})) \X Block :
              o \in Spends[p[2]]}
    /\ UNCHANGED <<rbfVars, sending, gone, confirmed, blockVars>>

\* Mutant: the block is audited before its replacements are added.
BlockAuditedFirst ==
    /\ AuditBlock
    /\ UNCHANGED <<rbfVars, callVars, blockVars>>

BlockAudited ==
    /\ matches = {}
    /\ AuditBlock
    /\ UNCHANGED <<rbfVars, callVars, blockVars>>

\* The audit counts t, projected but not in the block, as a replacement
\* rather than as censored.
Excused(t) == \E id \in Rbf!TreeOf(t) :
    rbfTrees[id].fullRbf \/ rbfTrees[id].txs \cap Block # {}

BlockConfirmed ==
    /\ AtAwait
    /\ ConfirmBlock
    /\ confirmed' = Block \cap txs
    /\ audited' = currentBlockHeight + 1
    /\ known' = {}
    /\ UNCHANGED <<rbfVars, matches, sending, gone>>

MarkMined(t) ==
    /\ t \in confirmed
    /\ Rbf!Mined(t)
    /\ confirmed' = confirmed \ {t}
    /\ UNCHANGED <<vars, matches, sending, gone, blockVars>>

\* The ten-minute timer.
Cleaned(due) ==
    /\ AtAwait
    /\ Rbf!Cleanup(due)
    /\ UNCHANGED <<vars, callVars, blockVars>>

-----------------------------------------------------------------------------
CombinedNext ==
    \/ Elsewhere
    \/ UpdateSeen
    \/ ChangesSent
    \/ BlockStarted
    \/ \E o \in Outpoint : InputLookedUp(o)
    \/ BlockAudited
    \/ BlockConfirmed
    \/ \E t \in Txid : AddReplacement(t) \/ EvictDeleted(t) \/ MarkMined(t)
    \/ \E due \in SUBSET expiring : Cleaned(due)

\* What runs without a request of the main loop: it is somewhere in it, or at
\* a request.
CodeRuns ==
    \/ Elsewhere /\ (ListMempool \/ DeleteTransactions)
    \/ UpdateSeen \/ ChangesSent
    \/ \E o \in Outpoint : InputLookedUp(o)
    \/ BlockAudited \/ BlockConfirmed
    \/ \E t \in Txid : AddReplacement(t) \/ EvictDeleted(t) \/ MarkMined(t)

\* A slice is answered in full.
WholeSlice == \E slice \in SUBSET remaining : AddSlice(slice, slice, FALSE)

\* The main loop goes on, timers go off, and a request that is repeated for
\* ever is answered again and again.
CombinedFairness ==
    /\ WF_allVars(CodeRuns)
    /\ WF_allVars(Elsewhere /\ ProtectionEnds)
    /\ SF_allVars(Elsewhere /\ ReadTip)
    /\ SF_allVars(BlockStarted)
    /\ SF_allVars(Elsewhere /\ PushBlock)
    /\ SF_allVars(Elsewhere /\ WholeSlice)
    /\ \A t \in Txid :
          WF_allVars(\E due \in SUBSET expiring : t \in due /\ Cleaned(due))

CombinedSpec == CombinedInit /\ [][CombinedNext]_allVars
CombinedFairSpec == CombinedSpec /\ CombinedFairness

-----------------------------------------------------------------------------
\* If the node's mempool stops changing, the cached one comes to equal it and
\* stays so, whichever requests fail, slices are cut short or deletions are
\* suspended on the way (mempool.ts:198-430, index.ts:224-290).
CatchesUp == <>[][FALSE]_nodeVars => <>[](mempoolCache = pool)

\* No history stays for ever: when the node's mempool is empty for good, the
\* RBF cache is empty again and again. Every newest version that leaves is
\* given to evict() or mined(), whichever rounds fail, and dropping the expiry
\* of a replaced transaction (rbf-cache.ts:319) strands nothing.
EverythingExpires == <>[](pool = {}) => []<>(txs = {})

\* No block that was handled before double-spends t: its inputs left the spend
\* map with the first that did, while it may stay cached for a second one.
FirstDoubleSpend(t) == \A u \in Conflicts(t) : blockOf[u] \notin 1..currentBlockHeight

\* A block that double-spends projected transactions does not make them look
\* censored: "allow missing transactions which ... conflict with any
\* transaction in the mined block" (audit.ts:49). The spend map has every
\* such conflict, add() puts the two in one tree, and nothing takes the tree
\* away during the audit. Not for what add() skips, nor for what a block handled
\* in the same round has double-spent already, nor when a block is handled a
\* second time.
ConflictsExcused ==
    undisturbed /\ await = "audit" /\ audited <= currentBlockHeight =>
       \A t \in mempoolCache \ Block :
          LET against == Conflicts(t) \cap Block IN
          /\ against # {} /\ FirstDoubleSpend(t)
          /\ known \cap ({t} \cup against) = {}
          => Excused(t)

\* "don't remove a transaction if a newer version remains in the mempool"
\* (rbf-cache.ts:329): a replaced transaction is forgotten only when the
\* newest version is out of the mempool.
NewerVersionsKeep ==
    [][\A t \in txs \ txs' :
          treeMap[t] # t => treeMap[t] \notin mempoolCache]_allVars

=============================================================================
