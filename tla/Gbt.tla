-------------------------------- MODULE Gbt ---------------------------------
(***************************************************************************)
(* The projected blocks of the mempool: gbt() of                           *)
(* src/rust/gbt/src/gbt.rs with the scores of audit_transaction.rs.        *)
(*                                                                         *)
(* A package is a transaction with its ancestors that are in no block yet. *)
(* The best package is taken from a stack sorted once by score or from a   *)
(* queue of the transactions whose score has changed since, put into the   *)
(* block if it fits, else held back until the block is closed.  A turn of  *)
(* the loop is a step for the choice, one for each transaction of the      *)
(* package and one for the look whether the block is full.  Rates and      *)
(* clusters, which the loop only reports, are left out.                    *)
(***************************************************************************)
EXTENDS Integers, SequencesExt

CONSTANTS
    MaxUid,         \* the uids are 1..MaxUid
    Kinds,          \* the fee, weight, sigops and order a transaction may have
    ReservedWeight, \* BLOCK_RESERVED_WEIGHT, also the margin of a block
    MaxBlockWeight, \* max_block_weight
    BlockSigops,    \* BLOCK_SIGOPS less BLOCK_RESERVED_SIGOPS
    MaxBlocks,      \* max_blocks
    MaxTries        \* packages that may fail in a row: 1000

ASSUME GbtAssumption ==
    /\ MaxUid \in Nat /\ MaxBlocks \in Nat \ {0} /\ MaxTries \in Nat
    /\ Kinds \subseteq [fee : Nat, weight : Nat \ {0}, sigops : Nat, order : Nat]
    /\ MaxBlockWeight \in Nat /\ ReservedWeight \in Nat /\ BlockSigops \in Nat

Uid == 1..MaxUid

VARIABLES
    mempool,        \* uid -> its kind and its inputs, the same for all of a run
    turn,           \* "choose", "place", "check" or "done"
    stack,          \* mempool_stack, the best at the end
    score,          \* uid -> the rate by which it is chosen
    queue,          \* modified: transactions whose score has changed
    ancestors,      \* uid -> its ancestors that are in no block yet
    used,
    modified,       \* uids that have been moved to the queue
    package,        \* what is still to be put into the block
    transactions,   \* the block being filled
    overflow,       \* packages that did not fit into it
    failures,
    blocks          \* the blocks that are full

gbtVars == <<mempool, turn, stack, queue, ancestors, score, used, modified, package,
             transactions, overflow, failures, blocks>>

GbtTypeOK ==
    /\ turn \in {"choose", "place", "check", "done"}
    /\ stack \in Seq(Uid)
    /\ queue \subseteq Uid /\ used \subseteq Uid /\ modified \subseteq Uid
    /\ ancestors \in [Uid -> SUBSET Uid]
    /\ score \in [Uid -> Nat \X (Nat \ {0})]
    /\ package \in Seq(Uid) /\ transactions \in Seq(Uid) /\ overflow \in Seq(Uid)
    /\ failures \in Nat
    /\ blocks \in Seq(Seq(Uid))

(***************************************************************************)
(* Sums and orders                                                         *)
(***************************************************************************)

\* Over uids, which are numbers (a fold of the set is far slower in a run): the
\* sums of f over those that are at most t.
PartialSums(f, uids) ==
    LET sum[t \in 0..MaxUid] ==
            IF t = 0 THEN 0 ELSE sum[t - 1] + (IF t \in uids THEN f[t] ELSE 0)
    IN  sum

SumOver(f, uids) == PartialSums(f, uids)[MaxUid]

\* The members of a set by a relation that puts one of any two before the other.
InOrder(set, before) ==
    [i \in 1..Cardinality(set) |->
        CHOOSE x \in set : Cardinality({y \in set : <<y, x>> \in before}) = i - 1]

(***************************************************************************)
(* Scores                                                                  *)
(***************************************************************************)

Fee == [t \in Uid |-> mempool[t].fee]
Weight == [t \in Uid |-> mempool[t].weight]
Sigops == [t \in Uid |-> mempool[t].sigops]
Vsize == [t \in Uid |->
             LET size == (Weight[t] + 3) \div 4
                 sigops == 5 * Sigops[t]
             IN  IF size < sigops THEN sigops ELSE size]

Package(anc, t) == anc[t] \cup {t}
PackageFee(anc, t) == SumOver(Fee, Package(anc, t))
PackageVsize(anc, t) == SumOver(Vsize, Package(anc, t))
PackageSigops(t) == SumOver(Sigops, Package(ancestors, t))

\* A fee rate is a fraction <<fee, vsize>>.
Lower(a, b) == a[1] * b[2] < b[1] * a[2]

\* calc_new_score: the lower one of its own rate and the rate of its package.
ScoreAfter(anc, t) ==
    LET own == <<Fee[t], Vsize[t]>>
        joint == <<PackageFee(anc, t), PackageVsize(anc, t)>>
    IN  IF Lower(joint, own) THEN joint ELSE own

\* partial_cmp_uid_score: the lower order (of a part of the txid) wins a tie,
\* then the lower uid.
Worse(a, b) ==
    \/ Lower(score[a], score[b])
    \/ /\ ~Lower(score[b], score[a])
       /\ \/ mempool[b].order < mempool[a].order
          \/ mempool[b].order = mempool[a].order /\ b < a

WorseFirst == {p \in Uid \X Uid : Worse(p[1], p[2])}

(***************************************************************************)
(* The start: any small mempool, its relatives and the sorted stack        *)
(***************************************************************************)

\* set_relatives: with its inputs a transaction has theirs. Parents are numbered
\* before their children; which of two equals comes first is for the order to say.
Closed(pool, uids) == \A t \in uids : pool[t].inputs \subseteq uids

RelativesIn(pool) ==
    [t \in Uid |-> {a \in Uid : \A uids \in SUBSET Uid :
                       pool[t].inputs \subseteq uids /\ Closed(pool, uids) => a \in uids}]

Spends == {inputs \in [Uid -> SUBSET Uid] : \A t \in Uid : inputs[t] \subseteq 1..t - 1}

Mempools == {[t \in Uid |-> [inputs |-> inputs[t],
                             fee |-> kind[t].fee, weight |-> kind[t].weight,
                             sigops |-> kind[t].sigops, order |-> kind[t].order]] :
                inputs \in Spends, kind \in [Uid -> Kinds]}

\* What gbt() sets up for its mempool.
GbtStart ==
    /\ turn = "choose"
    /\ ancestors = RelativesIn(mempool)
    /\ score = [t \in Uid |-> ScoreAfter(ancestors, t)]
    /\ stack = InOrder(Uid, WorseFirst)
    /\ queue = {} /\ used = {} /\ modified = {}
    /\ package = <<>> /\ transactions = <<>> /\ overflow = <<>> /\ blocks = <<>>
    /\ failures = 0

GbtInit == mempool \in Mempools /\ GbtStart

(***************************************************************************)
(* The choice                                                              *)
(***************************************************************************)

\* next_valid_from_stack and next_valid_from_queue drop what is not valid.
OnStack == {i \in DOMAIN stack : stack[i] \notin used \cup modified}
TopOfStack == CHOOSE i \in OnStack : \A j \in OnStack : j <= i
ValidStack == IF OnStack = {} THEN <<>> ELSE SubSeq(stack, 1, TopOfStack)

InQueue == queue \ used
BestInQueue == CHOOSE t \in InQueue : \A x \in InQueue \ {t} : Worse(x, t)
ValidQueue == {t \in queue : InQueue # {} /\ (t = BestInQueue \/ Worse(t, BestInQueue))}

\* The queue wins where the two are the same.
FromStack == /\ OnStack # {}
             /\ InQueue # {} => Worse(BestInQueue, stack[TopOfStack])
NextTx == IF FromStack THEN stack[TopOfStack] ELSE BestInQueue

RestOfStack == IF FromStack THEN Front(ValidStack) ELSE ValidStack
RestOfQueue == IF FromStack THEN ValidQueue ELSE ValidQueue \ {NextTx}

WeightOf(txs) == SumOver(Weight, ToSet(txs))
SigopsOf(txs) == SumOver(Sigops, ToSet(txs))

\* The last block takes everything.
Fits(t) ==
    \/ Len(blocks) >= MaxBlocks - 1
    \/ /\ ReservedWeight + WeightOf(transactions) + 4 * PackageVsize(ancestors, t)
             < MaxBlockWeight - ReservedWeight
       /\ SigopsOf(transactions) + PackageSigops(t) <= BlockSigops

HoldPackage ==
    /\ turn = "choose"
    /\ OnStack # {} \/ InQueue # {}
    /\ ~Fits(NextTx)
    /\ stack' = RestOfStack
    /\ queue' = RestOfQueue
    /\ overflow' = Append(overflow, NextTx)
    /\ failures' = failures + 1
    /\ turn' = "check"
    /\ UNCHANGED <<mempool, ancestors, score, used, modified, package,
                   transactions, blocks>>

FewerAncestors(a, b) ==
    LET n(t) == Cardinality(ancestors[t])
    IN  \/ n(a) < n(b)
        \/ n(a) = n(b) /\ mempool[a].order < mempool[b].order
        \/ n(a) = n(b) /\ mempool[a].order = mempool[b].order /\ a < b

FewestFirst == {p \in Uid \X Uid : FewerAncestors(p[1], p[2])}

\* Mutant: the package in the order of tx-selection-worker.ts before it turns it.
PackageSeqChildFirst(t) ==
    <<t>> \o InOrder(ancestors[t], {<<p[2], p[1]>> : p \in FewestFirst})

\* The package by ascending number of ancestors, its transaction last.
PackageSeq(t) == Append(InOrder(ancestors[t], FewestFirst), t)

ChoosePackage ==
    /\ turn = "choose"
    /\ OnStack # {} \/ InQueue # {}
    /\ Fits(NextTx)
    /\ stack' = RestOfStack
    /\ queue' = RestOfQueue
    /\ package' = PackageSeq(NextTx)
    /\ failures' = 0
    /\ turn' = "place"
    /\ UNCHANGED <<mempool, ancestors, score, used, modified, transactions,
                   overflow, blocks>>

\* The transaction is no ancestor any more (update_descendants), and whose score
\* changes by that goes to the queue.
PlaceTransaction ==
    LET root == Head(package)
        changed == {t \in Uid : \/ Lower(score'[t], score[t])
                                \/ Lower(score[t], score'[t])}
    IN
    /\ turn = "place"
    /\ transactions' = Append(transactions, root)
    /\ used' = used \cup {root}
    /\ ancestors' = [t \in Uid |-> ancestors[t] \ {root}]
    /\ score' = [t \in Uid |-> IF root \in ancestors[t]
                              THEN ScoreAfter(ancestors', t) ELSE score[t]]
    /\ modified' = modified \cup changed
    /\ queue' = queue \cup changed
    /\ package' = Tail(package)
    /\ turn' = IF package' = <<>> THEN "check" ELSE "place"
    /\ UNCHANGED <<mempool, stack, overflow, failures, blocks>>

NothingLeft ==
    /\ turn = "choose"
    /\ stack # <<>> \/ queue # {}
    /\ OnStack = {} /\ InQueue = {}
    /\ stack' = <<>> /\ queue' = {}
    /\ turn' = "check"
    /\ UNCHANGED <<mempool, ancestors, score, used, modified, package, transactions,
                   overflow, failures, blocks>>

(***************************************************************************)
(* The end of a turn                                                       *)
(***************************************************************************)

Full == /\ \/ /\ failures > MaxTries
              /\ ReservedWeight + WeightOf(transactions)
                    > MaxBlockWeight - 2 * ReservedWeight
           \/ stack = <<>> /\ queue = {}
        /\ Len(blocks) < MaxBlocks - 1

ContinueBlock ==
    /\ turn = "check"
    /\ ~Full
    /\ turn' = "choose"
    /\ UNCHANGED <<mempool, stack, queue, ancestors, score, used, modified, package,
                   transactions, overflow, failures, blocks>>

\* Mutant: what was held back is forgotten.
CloseBlockForgetting ==
    /\ turn = "check"
    /\ Full /\ transactions # <<>>
    /\ blocks' = Append(blocks, transactions)
    /\ transactions' = <<>>
    /\ overflow' = <<>>
    /\ failures' = 0
    /\ turn' = "choose"
    /\ UNCHANGED <<mempool, stack, queue, ancestors, score, used, modified, package>>

\* What was held back competes for the next block: in the queue if its score
\* has changed, else on top of the stack, the best last.
HeldUnmodified ==
    LET held == {i \in DOMAIN overflow : overflow[i] \notin modified}
        last == InOrder(held, {p \in held \X held : p[1] > p[2]})
    IN  [i \in DOMAIN last |-> overflow[last[i]]]

CloseBlock ==
    /\ turn = "check"
    /\ Full /\ transactions # <<>>
    /\ blocks' = Append(blocks, transactions)
    /\ transactions' = <<>>
    /\ stack' = stack \o HeldUnmodified
    /\ queue' = queue \cup (ToSet(overflow) \cap modified)
    /\ overflow' = <<>>
    /\ failures' = 0
    /\ turn' = "choose"
    /\ UNCHANGED <<mempool, ancestors, score, used, modified, package>>

\* Mutant: the loop goes on when there is nothing left to choose from.
FinishEmpty ==
    /\ turn = "check" /\ Full /\ transactions = <<>>
    /\ turn' = "done"
    /\ UNCHANGED <<mempool, stack, queue, ancestors, score, used, modified, package,
                   transactions, overflow, failures, blocks>>

\* An empty block is never closed: what was held back stays in overflow.
Finish ==
    /\ \/ turn = "check" /\ Full /\ transactions = <<>>
       \/ turn = "choose" /\ stack = <<>> /\ queue = {}
    /\ turn' = "done"
    /\ blocks' = IF transactions = <<>> THEN blocks ELSE Append(blocks, transactions)
    /\ transactions' = <<>>
    /\ UNCHANGED <<mempool, stack, queue, ancestors, score, used, modified, package,
                   overflow, failures>>

GbtNext ==
    \/ HoldPackage \/ ChoosePackage \/ PlaceTransaction \/ NothingLeft
    \/ ContinueBlock \/ CloseBlock \/ Finish

\* The thread runs until it is done.
GbtFairness == WF_gbtVars(GbtNext)

GbtSpec == GbtInit /\ [][GbtNext]_gbtVars /\ GbtFairness

(***************************************************************************)
(* Properties                                                              *)
(***************************************************************************)

AllBlocks == IF transactions = <<>> THEN blocks ELSE Append(blocks, transactions)

Before(a, b) == a[1] < b[1] \/ (a[1] = b[1] /\ a[2] < b[2])
Places == UNION {{<<i, j>> : j \in DOMAIN AllBlocks[i]} : i \in DOMAIN AllBlocks}
At(p) == AllBlocks[p[1]][p[2]]

\* No block holds a transaction before its parent, in the same block or in a
\* later one.
ParentsFirst ==
    \A p \in Places : \A parent \in mempool[At(p)].inputs :
        \E q \in Places : At(q) = parent /\ Before(q, p)

\* All blocks but the last keep to the limits of weight and of sigops.
WithinLimits ==
    \A i \in DOMAIN AllBlocks : i < MaxBlocks =>
        /\ 2 * ReservedWeight + WeightOf(AllBlocks[i]) < MaxBlockWeight
        /\ SigopsOf(AllBlocks[i]) <= BlockSigops

\* No transaction is put into two blocks, or twice into one: once as an ancestor
\* and once for itself.
NothingTwice == \A p, q \in Places : At(p) = At(q) => p = q

\* The projected blocks are valid blocks, at every moment of their making: a
\* package keeps to all three while others take its members, or while it is held
\* back for a later block.
BlocksValid == ParentsFirst /\ WithinLimits /\ NothingTwice

\* However often a transaction is held back, put back or moved from the stack to the
\* queue: when the run has ended it is in a block or was held back once, else
\* mempool-blocks.ts:344 takes the result for out of sync and throws it away.  (The
\* margins leave room for a first package.)
NothingLost ==
    LET placed == {At(p) : p \in Places}
    IN  turn = "done" /\ MaxBlockWeight >= 3 * ReservedWeight =>
            /\ placed \cup ToSet(overflow) = Uid
            /\ placed \cap ToSet(overflow) = {}
            /\ \A i, j \in DOMAIN overflow : overflow[i] = overflow[j] => i = j

\* What clients are shown: valid blocks at every moment, and in the end all of the
\* mempool.
BlocksCorrect == BlocksValid /\ NothingLost

\* The run ends.
BuildEnds == <>(turn = "done")
=============================================================================
