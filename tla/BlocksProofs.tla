---------------------------- MODULE BlocksProofs ----------------------------
(***************************************************************************)
(* Proofs about Blocks.                                                    *)
(*                                                                         *)
(* The inductive invariant BInv has two halves.  Shape holds of every      *)
(* state: what is in the table, in the list and in the branch being walked *)
(* down, whatever went wrong before.  Tidy holds as long as clean does: at *)
(* every await it says which canonical blocks lie on which branch.         *)
(***************************************************************************)
EXTENDS Blocks, FiniteSetTheorems, TLAPS

(***************************************************************************)
(* The invariant                                                           *)
(***************************************************************************)

Root == CHOOSE r \in Block : Prev[r] = None

Tip == Last(blocks)

Increasing(list) ==
    \A i, j \in DOMAIN list : i < j => Height[list[i]] < Height[list[j]]

WalkAwaits == {"index", "promote", "demote", "compare", "rebuild"}

\* The main loop has asked for a block and not yet put it in the list.
Handling == await \notin {"idle", "next"}

TableShape ==
    /\ \A b \in known : /\ Height[b] <= Height[active]
                        /\ Prev[b] # None => Prev[b] \in known
    /\ \A b \in Block : row[b] # "absent" => b \in known
    /\ indexingQueue \subseteq known
    /\ staleBlock # None => staleBlock \in known
    /\ missing \subseteq Heights
    /\ candidate \in known \cup {None}
    /\ validating = "read" => candidate # None
    /\ \A f \in fixes : f.canonical # None => f.canonical \in known

ListShape ==
    /\ Increasing(blocks)
    /\ Increasing(disk)
    /\ Len(disk) <= 4 * InitialAmount

CallShape ==
    /\ blockHeightTip <= Height[active]
    /\ await = "next" =>
          /\ currentBlockHeight >= Height[Root] - 1
          /\ blocks # <<>> =>
                /\ currentBlockHeight >= Height[Tip]
                /\ ~fastForwarded => currentBlockHeight = Height[Tip]
    /\ Handling =>
          /\ block \in known
          /\ currentBlockHeight = Height[block]
          /\ blocks # <<>> =>
                /\ Height[Tip] < Height[block]
                /\ ~fastForwarded => \/ Height[block] = Height[Tip] + 1
                                     \/ Height[Tip] = 0

WalkShape ==
    /\ await \notin WalkAwaits => newBlocks = <<>>
    /\ await \in WalkAwaits \cup {"reorg"} => ~fastForwarded
    /\ await \in {"compare", "rebuild"} => newBlocks # <<>>
    /\ await \in {"index", "promote", "demote"} => Prev[ForkTail] \in Block
    /\ \A i \in DOMAIN newBlocks :
          /\ newBlocks[i] \in Branch[block]
          /\ Height[newBlocks[i]] = Height[block] - i

Shape == TypeOK /\ TableShape /\ ListShape /\ CallShape /\ WalkShape

\* The list is a part of one branch.
ListChain == \A i \in DOMAIN blocks : blocks[i] \in Branch[Tip]

\* The table agrees with the list as far up as the list goes.
ListMatches ==
    blocks # <<>> =>
        /\ row[Tip] = "canonical"
        /\ \A c \in Canonical : Height[c] <= Height[Tip] => c \in Branch[Tip]

\* The table agrees with the block being handled everywhere below it.
LowerOnBranch ==
    \A c \in Canonical : Height[c] < Height[block] => c \in Branch[block]

\* Down to the lowest block compared the table has the new branch.
WalkedOnBranch ==
    /\ \A c \in Canonical : 
          Height[ForkTail] <= Height[c] /\ Height[c] < Height[block]
             => c \in Branch[block]
    /\ \A i \in DOMAIN newBlocks : row[newBlocks[i]] = "canonical"

Tidy ==
    /\ ListChain
    /\ await \notin WalkAwaits => ListMatches
    /\ await \in {"idle", "next", "fetch", "reorg"} /\ ListIgnored => OneBranch
    /\ await \in WalkAwaits => WalkedOnBranch
    /\ await \in {"index", "compare", "rebuild"} => OneBranchBelow(Height[ForkTail])
    /\ await \in {"promote", "demote"} => OneBranchBelow(Height[ForkTail] - 1)
    /\ await = "demote" => row[Prev[ForkTail]] = "canonical"
    /\ await = "rebuild" => LowerOnBranch
    /\ await = "save" /\ ~fastForwarded => LowerOnBranch
    /\ await \in {"saveDemote", "callbacks", "push"} =>
          LowerOnBranch /\ row[block] = "canonical"
    /\ await \in {"callbacks", "push"} => Rivals(block) = {}
    /\ \/ await = "save" /\ ~fastForwarded
       \/ await \in {"saveDemote", "callbacks", "push"}
       => (Height[block] = 0 => OneBranch)

BInv == Shape /\ (clean => Tidy)

(***************************************************************************)
(* Branches                                                                *)
(***************************************************************************)

LEMMA LeastOf ==
  ASSUME NEW S, S \subseteq Nat, S # {}
  PROVE  \E m \in S : \A n \in S : m <= n
<1> DEFINE T == {0..n : n \in S}
<1>1. \A n \in S : 0..n \in FiniteSubsetsOf(Nat)
  <2>1. ASSUME NEW n \in S PROVE 0..n \in FiniteSubsetsOf(Nat)
    <3>1. 0..n \in SUBSET Nat
      OBVIOUS
    <3>2. IsFiniteSet(0..n)
      BY FS_Interval
    <3> QED BY <3>1, <3>2 DEF FiniteSubsetsOf
  <2> QED BY <2>1
<1>2. T \subseteq FiniteSubsetsOf(Nat) /\ T # {}
  BY <1>1
<1>3. PICK x \in T : \A y \in T : <<y, x>> \notin StrictSubsetOrdering(Nat)
  <2> HIDE DEF T
  <2> QED BY <1>2, FS_StrictSubsetOrderingWellFounded, WFMin
<1>4. PICK m \in S : x = 0..m
  OBVIOUS
<1>5. ASSUME NEW n \in S, n < m PROVE FALSE
  <2>1. 0..n \subseteq 0..m /\ m \in 0..m /\ m \notin 0..n
    BY <1>5
  <2>2. 0..n \in SUBSET Nat /\ 0..m \in SUBSET Nat
    OBVIOUS
  <2>3. <<0..n, 0..m>> \in StrictSubsetOrdering(Nat)
    BY <2>1, <2>2, <1>1 DEF StrictSubsetOrdering
  <2> QED BY <2>3, <1>3, <1>4
<1> QED BY <1>5

\* What holds of a block whenever it holds of the previous one, or there is none.
LEMMA AlongChain ==
  ASSUME NEW G, \A b \in Block : (Prev[b] = None \/ Prev[b] \in G) => b \in G
  PROVE  Block \subseteq G
<1> SUFFICES ASSUME NEW a \in Block, a \notin G PROVE FALSE
  OBVIOUS
<1> DEFINE S == {Height[b] : b \in Block \ G}
<1>1. S \subseteq Nat /\ S # {}
  BY BlocksAssumption
<1>2. PICK m \in S : \A n \in S : m <= n
  <2> HIDE DEF S
  <2> QED BY <1>1, LeastOf
<1>3. PICK b \in Block \ G : Height[b] = m
  OBVIOUS
<1>4. Prev[b] \in Block \ G /\ Height[b] = Height[Prev[b]] + 1
  BY BlocksAssumption
<1>5. Height[Prev[b]] \in S
  BY <1>4
<1> QED BY <1>2, <1>3, <1>4, <1>5, BlocksAssumption

Closed(S) == \A y \in S : Prev[y] = None \/ Prev[y] \in S
Least(b) == {x \in Block : \A S \in SUBSET Block : b \in S /\ Closed(S) => x \in S}

LEMMA LeastUnfolds ==
  ASSUME NEW b \in Block
  PROVE  Least(b) = {b} \cup IF Prev[b] = None THEN {} ELSE Least(Prev[b])
<1> DEFINE p == Prev[b]
<1>1. p \in Block \cup {None}
  BY BlocksAssumption
<1>2. CASE p = None
  <2>1. {b} \in SUBSET Block /\ Closed({b})
    BY <1>2 DEF Closed
  <2> QED BY <2>1, <1>2 DEF Least
<1>3. CASE p \in Block
  <2> DEFINE S == {b} \cup Least(p)
  <2>1. p \in Least(p) /\ Least(p) \subseteq Block
    BY <1>3 DEF Least
  <2>2. Closed(Least(p))
    <3> SUFFICES ASSUME NEW y \in Least(p), Prev[y] # None PROVE Prev[y] \in Least(p)
      BY DEF Closed
    <3>1. Prev[y] \in Block
      BY <2>1, BlocksAssumption
    <3> QED BY <3>1 DEF Least, Closed
  <2>3. S \in SUBSET Block /\ Closed(S)
    BY <2>1, <2>2 DEF Closed
  <2>4. Least(b) \subseteq S
    BY <2>3 DEF Least
  <2>5. ASSUME NEW R \in SUBSET Block, b \in R, Closed(R) PROVE S \subseteq R
    <3>1. p \in R
      BY <1>3, <2>5, BlocksAssumption DEF Closed
    <3> QED BY <3>1, <2>5 DEF Least
  <2>6. S \subseteq Least(b)
    BY <2>3, <2>5 DEF Least
  <2> QED BY <2>4, <2>6, <1>3, BlocksAssumption
<1> QED BY <1>1, <1>2, <1>3

\* The recursive definition has a solution, so Branch satisfies it.
LEMMA BranchUnfolds ==
  ASSUME NEW b \in Block
  PROVE  Branch[b] = {b} \cup IF Prev[b] = None THEN {} ELSE Branch[Prev[b]]
<1> DEFINE P(f) == f = [x \in Block |->
                            {x} \cup IF Prev[x] = None THEN {} ELSE f[Prev[x]]]
           f0 == [x \in Block |-> Least(x)]
<1>1. \A x \in Block : Prev[x] = None \/ Prev[x] \in Block
  BY BlocksAssumption
<1>2. P(f0)
  BY <1>1, LeastUnfolds
<1>3. Ancestors = CHOOSE f : P(f)
  BY DEF Ancestors
<1>4. P(Ancestors)
  <2> HIDE DEF P, f0
  <2> QED BY <1>2, <1>3
<1>5. Prev[b] = None \/ Prev[b] \in Block
  BY <1>1
<1>6. Ancestors[b] = {b} \cup IF Prev[b] = None THEN {} ELSE Ancestors[Prev[b]]
  BY <1>4
<1> QED BY <1>5, <1>6 DEF Branch

LEMMA BranchSelf ==
  ASSUME NEW b \in Block
  PROVE  b \in Branch[b] /\ (Prev[b] # None => Branch[Prev[b]] \subseteq Branch[b])
BY BranchUnfolds

\* A set that holds the previous block of each of its blocks holds whole branches.
LEMMA BranchInClosed ==
  ASSUME NEW S, \A y \in S : Prev[y] # None => Prev[y] \in S
  PROVE  \A b \in Block : b \in S => Branch[b] \subseteq S
<1> DEFINE G == {b \in Block : b \in S => Branch[b] \subseteq S}
<1>1. ASSUME NEW b \in Block, Prev[b] = None \/ Prev[b] \in G PROVE b \in G
  BY <1>1, BranchUnfolds
<1>2. Block \subseteq G
  <2> HIDE DEF G
  <2> QED BY <1>1, AlongChain
<1> QED BY <1>2

LEMMA BranchInBlock ==
  ASSUME NEW b \in Block
  PROVE  Branch[b] \subseteq Block
<1>1. \A y \in Block : Prev[y] # None => Prev[y] \in Block
  BY BlocksAssumption
<1> QED BY <1>1, BranchInClosed

LEMMA BranchTransitive ==
  ASSUME NEW b \in Block, NEW x \in Branch[b]
  PROVE  Branch[x] \subseteq Branch[b]
<1> DEFINE G == {a \in Block : \A y \in Branch[a] : Branch[y] \subseteq Branch[a]}
<1>1. ASSUME NEW a \in Block, Prev[a] = None \/ Prev[a] \in G PROVE a \in G
  BY <1>1, BranchUnfolds
<1>2. Block \subseteq G
  <2> HIDE DEF G
  <2> QED BY <1>1, AlongChain
<1> QED BY <1>2

\* An ancestor is lower: a branch has at most one block of a height.
LEMMA BranchLower ==
  ASSUME NEW b \in Block, NEW x \in Branch[b]
  PROVE  Height[x] <= Height[b] /\ (Height[x] = Height[b] => x = b)
<1> DEFINE G == {a \in Block : \A y \in Branch[a] :
                    y = a \/ Height[y] < Height[a]}
<1>1. ASSUME NEW a \in Block, Prev[a] = None \/ Prev[a] \in G PROVE a \in G
  <2> SUFFICES ASSUME NEW y \in Branch[a], y # a PROVE Height[y] < Height[a]
    OBVIOUS
  <2>1. Prev[a] # None /\ y \in Branch[Prev[a]]
    BY BranchUnfolds
  <2>2. y = Prev[a] \/ Height[y] < Height[Prev[a]]
    BY <1>1, <2>1
  <2>3. Prev[a] \in Block /\ Height[a] = Height[Prev[a]] + 1 /\ y \in Block
    BY <2>1, BranchInBlock, BlocksAssumption
  <2> QED BY <2>2, <2>3, BlocksAssumption
<1>2. Block \subseteq G
  <2> HIDE DEF G
  <2> QED BY <1>1, AlongChain
<1>3. x \in Block
  BY BranchInBlock
<1> QED BY <1>2, <1>3, BlocksAssumption

\* Of two blocks of a branch the lower one is an ancestor of the other.
LEMMA BranchLinear ==
  ASSUME NEW b \in Block, NEW x \in Branch[b], NEW y \in Branch[b],
         Height[x] <= Height[y]
  PROVE  x \in Branch[y]
<1> DEFINE G == {a \in Block : \A u, v \in Branch[a] :
                    Height[u] <= Height[v] => u \in Branch[v]}
<1>1. ASSUME NEW a \in Block, Prev[a] = None \/ Prev[a] \in G PROVE a \in G
  <2> SUFFICES ASSUME NEW u \in Branch[a], NEW v \in Branch[a],
                      Height[u] <= Height[v]
               PROVE  u \in Branch[v]
    OBVIOUS
  <2>1. CASE v = a
    BY <2>1
  <2>2. CASE v # a
    <3>1. Prev[a] # None /\ v \in Branch[Prev[a]]
      BY <2>2, BranchUnfolds
    <3>2. Prev[a] \in Block /\ Height[a] = Height[Prev[a]] + 1
      BY <3>1, BlocksAssumption
    <3>3. Height[v] <= Height[Prev[a]]
      BY <3>1, <3>2, BranchLower
    <3>4. v \in Block
      BY BranchInBlock
    <3>5. u # a
      BY <3>2, <3>3, <3>4, BlocksAssumption
    <3>6. u \in Branch[Prev[a]]
      BY <3>5, BranchUnfolds
    <3> QED BY <1>1, <3>1, <3>6
  <2> QED BY <2>1, <2>2
<1>2. Block \subseteq G
  <2> HIDE DEF G
  <2> QED BY <1>1, AlongChain
<1> QED BY <1>2

LEMMA RootUnique ==
  /\ Root \in Block /\ Prev[Root] = None
  /\ \A b \in Block : Prev[b] = None => b = Root
  /\ Height[Root] \in Nat
  /\ Height[Root] = 0 \/ InitialAmount = 1
BY BlocksAssumption DEF Root

LEMMA RootInBranch ==
  ASSUME NEW b \in Block
  PROVE  Root \in Branch[b] /\ Height[Root] <= Height[b]
<1> DEFINE G == {a \in Block : Root \in Branch[a]}
<1>1. ASSUME NEW a \in Block, Prev[a] = None \/ Prev[a] \in G PROVE a \in G
  BY <1>1, BranchUnfolds, RootUnique
<1>2. Block \subseteq G
  <2> HIDE DEF G
  <2> QED BY <1>1, AlongChain
<1> QED BY <1>2, BranchLower

\* A branch has a block of every height from the oldest block's to its tip's.
LEMMA BranchFull ==
  ASSUME NEW b \in Block, NEW h \in Int, Height[Root] <= h, h <= Height[b]
  PROVE  \E x \in Branch[b] : Height[x] = h
<1> DEFINE G == {a \in Block : \A i \in Int : Height[Root] <= i /\ i <= Height[a]
                    => \E x \in Branch[a] : Height[x] = i}
<1>1. ASSUME NEW a \in Block, Prev[a] = None \/ Prev[a] \in G PROVE a \in G
  <2> SUFFICES ASSUME NEW i \in Int, Height[Root] <= i, i <= Height[a]
               PROVE  \E x \in Branch[a] : Height[x] = i
    OBVIOUS
  <2>1. CASE i = Height[a]
    BY <2>1, BranchSelf
  <2>2. CASE i # Height[a]
    <3>1. Prev[a] # None
      BY <2>2, RootUnique, BlocksAssumption
    <3>2. Prev[a] \in Block /\ Height[a] = Height[Prev[a]] + 1
      BY <3>1, BlocksAssumption
    <3>3. i <= Height[Prev[a]]
      BY <2>2, <3>2, BlocksAssumption
    <3> QED BY <1>1, <3>1, <3>3, BranchSelf
  <2> QED BY <2>1, <2>2
<1>2. Block \subseteq G
  <2> HIDE DEF G
  <2> QED BY <1>1, AlongChain
<1> QED BY <1>2

(***************************************************************************)
(* The node's chain and the branch being walked down                       *)
(***************************************************************************)

LEMMA ConstantTypes ==
  /\ InitialAmount \in Nat /\ InitialAmount >= 1
  /\ \A b \in Block : /\ Height[b] \in Nat
                      /\ Prev[b] \in Block \cup {None}
                      /\ Prev[b] # None => /\ Prev[b] \in Block
                                           /\ Height[b] = Height[Prev[b]] + 1
  /\ None \notin Block
BY BlocksAssumption

LEMMA KnownBranches ==
  ASSUME Shape, NEW b \in known
  PROVE  Branch[b] \subseteq known
BY BranchInClosed DEF Shape, TypeOK, TableShape

\* The heights of a branch are those from the oldest block's to its tip's.
LEMMA BranchHeights ==
  ASSUME NEW b \in Block
  PROVE  {Height[x] : x \in Branch[b]} = Height[Root] .. Height[b]
<1>1. ASSUME NEW h \in Height[Root] .. Height[b]
      PROVE  h \in {Height[x] : x \in Branch[b]}
  <2>1. h \in Int /\ Height[Root] <= h /\ h <= Height[b]
    BY RootUnique, ConstantTypes
  <2> QED BY <2>1, BranchFull
<1>2. ASSUME NEW x \in Branch[b] PROVE Height[x] \in Height[Root] .. Height[b]
  <2>1. x \in Block /\ Height[x] <= Height[b]
    BY BranchLower, BranchInBlock
  <2> QED BY <2>1, RootInBranch, RootUnique, ConstantTypes
<1> QED BY <1>1, <1>2

LEMMA BestChainShape ==
  ASSUME Shape
  PROVE  /\ BestChain \subseteq known
         /\ active \in BestChain
         /\ Heights = Height[Root] .. Height[active]
         /\ \A h \in Int : Height[Root] <= h /\ h <= Height[active]
               => BlockAt(h) \in BestChain /\ Height[BlockAt(h)] = h
<1>1. active \in known /\ known \subseteq Block
  BY DEF Shape, TypeOK
<1>2. BestChain \subseteq known /\ active \in BestChain
  BY <1>1, KnownBranches, BranchSelf DEF BestChain
<1>3. ASSUME NEW h \in Int, Height[Root] <= h, h <= Height[active]
      PROVE  BlockAt(h) \in BestChain /\ Height[BlockAt(h)] = h
  <2>1. \E x \in BestChain : Height[x] = h
    BY <1>1, <1>3, BranchFull DEF BestChain
  <2> QED BY <2>1 DEF BlockAt
<1> QED BY <1>1, <1>2, <1>3, BranchHeights DEF Heights, BestChain

LEMMA ForkTailShape ==
  ASSUME Shape, Handling
  PROVE  /\ block \in Block
         /\ ForkTail \in Branch[block] /\ ForkTail \in Block
         /\ Height[ForkTail] = Height[block] - Len(newBlocks)
         /\ ForkTail \in known
<1>1. block \in Block /\ newBlocks \in Seq(Block) /\ block \in known
  BY DEF Shape, TypeOK, CallShape
<1>2. ForkTail \in Branch[block] /\ Height[ForkTail] = Height[block] - Len(newBlocks)
  <2>1. CASE newBlocks = <<>>
    BY <1>1, <2>1, BranchSelf, ConstantTypes DEF ForkTail
  <2>2. CASE newBlocks # <<>>
    <3>1. Len(newBlocks) \in DOMAIN newBlocks
      BY <1>1, <2>2
    <3> QED BY <3>1, <2>2 DEF ForkTail, Last, Shape, WalkShape
  <2> QED BY <2>1, <2>2
<1> QED BY <1>1, <1>2, BranchInBlock, KnownBranches

\* The recent part of a list is the end of it.
LEMMA RecentShape ==
  ASSUME NEW s \in Seq(Block)
  PROVE  /\ Recent(s) \in Seq(Block)
         /\ Len(Recent(s)) <= 4 * InitialAmount
         /\ s # <<>> => Recent(s) # <<>> /\ Last(Recent(s)) = Last(s)
         /\ \E k \in Nat : \A i \in DOMAIN Recent(s) :
               i + k \in DOMAIN s /\ Recent(s)[i] = s[i + k]
<1> DEFINE n == 4 * InitialAmount
<1>1. n \in Nat /\ n >= 1 /\ Len(s) \in Nat
  BY ConstantTypes
<1>2. CASE Len(s) <= n
  <2>1. Recent(s) = s
    BY <1>2 DEF Recent
  <2>2. \A i \in DOMAIN s : i + 0 \in DOMAIN s /\ s[i] = s[i + 0]
    OBVIOUS
  <2> QED BY <2>1, <2>2, <1>1, <1>2
<1>3. CASE Len(s) > n
  <2> DEFINE k == Len(s) - n
  <2>1. Recent(s) = SubSeq(s, k + 1, Len(s)) /\ k \in Nat
    BY <1>1, <1>3 DEF Recent
  <2>2. /\ Recent(s) \in Seq(Block)
        /\ Len(Recent(s)) = n
        /\ \A i \in 1..n : Recent(s)[i] = s[i + k]
    BY <2>1, <1>1, <1>3
  <2>3. Recent(s) # <<>> /\ Last(Recent(s)) = Last(s)
    BY <2>2, <1>1, <1>3 DEF Last
  <2>4. \A i \in DOMAIN Recent(s) : i + k \in DOMAIN s /\ Recent(s)[i] = s[i + k]
    BY <2>2, <1>1, <1>3
  <2>5. \E j \in Nat : \A i \in DOMAIN Recent(s) :
            i + j \in DOMAIN s /\ Recent(s)[i] = s[i + j]
    <3> HIDE DEF k
    <3> QED BY <2>1, <2>4
  <2>6. Len(Recent(s)) <= 4 * InitialAmount
    BY <2>2, <1>1
  <2> QED BY <2>2, <2>3, <2>5, <2>6
<1> QED BY <1>1, <1>2, <1>3

LEMMA RecentIncreasing ==
  ASSUME NEW s \in Seq(Block), Increasing(s)
  PROVE  Increasing(Recent(s))
<1>1. PICK k \in Nat : \A i \in DOMAIN Recent(s) :
               i + k \in DOMAIN s /\ Recent(s)[i] = s[i + k]
  BY RecentShape
<1>2. DOMAIN Recent(s) \subseteq Nat
  BY RecentShape
<1> QED BY <1>1, <1>2 DEF Increasing

LEMMA IncreasingLast ==
  ASSUME NEW s \in Seq(Block), Increasing(s), NEW i \in DOMAIN s
  PROVE  /\ Last(s) \in Block /\ s[i] \in Block
         /\ Height[s[i]] <= Height[Last(s)]
<1>1. Len(s) \in DOMAIN s /\ i <= Len(s)
  OBVIOUS
<1>2. s[i] \in Block /\ s[Len(s)] \in Block
  BY <1>1
<1>3. CASE i = Len(s)
  BY <1>2, <1>3, ConstantTypes DEF Last
<1>4. CASE i < Len(s)
  BY <1>1, <1>2, <1>4, ConstantTypes DEF Last, Increasing
<1> QED BY <1>1, <1>3, <1>4

(***************************************************************************)
(* Rebuild                                                                 *)
(***************************************************************************)

Kept == {b \in Block : Reachable(b)} \cup {newBlocks[i] : i \in DOMAIN newBlocks}

\* What is kept reaches from the new branch's top down without a gap.
LEMMA KeptFull ==
  ASSUME Shape, await = "rebuild",
         NEW low \in Kept, \A x \in Kept : Height[low] <= Height[x],
         NEW h \in Int, Height[low] <= h, h <= Height[newBlocks[1]]
  PROVE  \E x \in Kept : Height[x] = h
<1>1. /\ newBlocks \in Seq(Block) /\ newBlocks # <<>> /\ Handling
      /\ \A i \in DOMAIN newBlocks : newBlocks[i] \in Branch[block]
                                     /\ Height[newBlocks[i]] = Height[block] - i
  BY DEF Shape, TypeOK, WalkShape, Handling
<1>2. /\ block \in Block /\ ForkTail \in Branch[block] /\ ForkTail \in Block
      /\ Height[ForkTail] = Height[block] - Len(newBlocks)
  BY <1>1, ForkTailShape
<1>3. Height[newBlocks[1]] = Height[block] - 1 /\ newBlocks[1] \in Block
  BY <1>1
<1>4. CASE h >= Height[ForkTail]
  <2> DEFINE i == Height[block] - h
  <2>1. i \in DOMAIN newBlocks
    BY <1>1, <1>2, <1>3, <1>4, ConstantTypes
  <2> QED BY <2>1, <1>1, <1>2, ConstantTypes DEF Kept
<1>5. CASE h < Height[ForkTail]
  <2>1. low \in Block /\ Reachable(low)
    <3>1. \A j \in DOMAIN newBlocks : Height[newBlocks[j]] >= Height[ForkTail]
      BY <1>1, <1>2, ConstantTypes
    <3>2. low \in Block
      BY <1>1 DEF Kept
    <3> QED BY <3>1, <3>2, <1>2, <1>5, ConstantTypes DEF Kept
  <2>2. low \in Branch[ForkTail]
    BY <2>1 DEF Reachable
  <2>3. Height[Root] <= h
    BY <2>1, RootInBranch, RootUnique, ConstantTypes
  <2>4. PICK x \in Branch[ForkTail] : Height[x] = h
    BY <2>3, <1>2, <1>5, BranchFull, ConstantTypes
  <2>5. x \in Block /\ x # ForkTail
    BY <2>4, <1>2, <1>5, BranchInBlock, ConstantTypes
  <2>6. low \in Branch[x] /\ Branch[low] \subseteq Branch[x]
    BY <2>2, <2>4, <2>5, <1>2, BranchLinear, BranchTransitive
  <2>7. row[x] # "absent" \/ \E i \in DOMAIN blocks : blocks[i] = x
    <3>1. CASE x = low
      BY <3>1, <2>1 DEF Reachable
    <3>2. CASE x # low
      <4>1. x \notin Branch[low]
        BY <3>2, <2>1, <2>4, <2>5, <2>6, BranchLower, ConstantTypes
      <4> QED BY <4>1, <2>1, <2>4, <2>5 DEF Reachable
    <3> QED BY <3>1, <3>2
  <2>8. Reachable(x)
    BY <2>1, <2>4, <2>5, <2>6, <2>7 DEF Reachable
  <2> QED BY <2>4, <2>5, <2>8 DEF Kept
<1> QED BY <1>2, <1>4, <1>5, ConstantTypes

LEMMA RebuiltShape ==
  ASSUME Shape, await = "rebuild"
  PROVE  /\ Rebuilt \in Seq(Block)
         /\ Len(Rebuilt) <= 4 * InitialAmount
         /\ Rebuilt # <<>> /\ Last(Rebuilt) = newBlocks[1]
         /\ Increasing(Rebuilt)
         /\ \A i \in DOMAIN Rebuilt : Rebuilt[i] \in Branch[newBlocks[1]]
<1> DEFINE top == newBlocks[1]
           lowest == CHOOSE b \in Kept : \A x \in Kept : Height[b] <= Height[x]
           at(h) == CHOOSE b \in Kept : Height[b] = h
           below == Height[lowest] - 1
           n == Height[top] - below
           s == [i \in 1..n |-> at(below + i)]
<1>1. Rebuilt = Recent(s)
  BY DEF Rebuilt, Kept
<1>2. /\ newBlocks \in Seq(Block) /\ newBlocks # <<>> /\ Handling
      /\ \A i \in DOMAIN newBlocks : newBlocks[i] \in Branch[block]
                                     /\ Height[newBlocks[i]] = Height[block] - i
  BY DEF Shape, TypeOK, WalkShape, Handling
<1>3. /\ block \in Block /\ ForkTail \in Branch[block] /\ ForkTail \in Block
      /\ Height[ForkTail] = Height[block] - Len(newBlocks)
  BY <1>2, ForkTailShape
<1>4. top \in Kept /\ top \in Block /\ top \in Branch[block]
  BY <1>2 DEF Kept
<1>5. Kept \subseteq Branch[top]
  <2>1. ASSUME NEW i \in DOMAIN newBlocks PROVE newBlocks[i] \in Branch[top]
    <3>1. /\ newBlocks[i] \in Branch[block] /\ Height[newBlocks[i]] = Height[block] - i
          /\ Height[top] = Height[block] - 1 /\ i >= 1 /\ i \in Int
      BY <1>2
    <3> QED BY <3>1, <1>3, <1>4, BranchLinear, ConstantTypes
  <2>2. ForkTail \in Branch[top]
    BY <2>1, <1>2 DEF ForkTail, Last
  <2>3. ASSUME NEW b \in Block, Reachable(b) PROVE b \in Branch[top]
    BY <2>2, <2>3, <1>4, BranchTransitive DEF Reachable
  <2> QED BY <2>1, <2>3 DEF Kept
<1>6. Kept \subseteq Block
  BY <1>4, <1>5, BranchInBlock
<1>7. \E b \in Kept : \A x \in Kept : Height[b] <= Height[x]
  <2> DEFINE S == {Height[b] : b \in Kept}
  <2>1. S \subseteq Nat /\ S # {}
    BY <1>4, <1>6, ConstantTypes
  <2>2. PICK m \in S : \A k \in S : m <= k
    <3> HIDE DEF S
    <3> QED BY <2>1, LeastOf
  <2> QED BY <2>2
<1>8. lowest \in Kept /\ \A x \in Kept : Height[lowest] <= Height[x]
  BY <1>7
<1>9. below \in Int /\ n \in Nat /\ n >= 1 /\ below + n = Height[top]
  <2>1. Height[lowest] \in Nat /\ Height[top] \in Nat /\ Height[lowest] <= Height[top]
    BY <1>4, <1>6, <1>8, ConstantTypes
  <2> HIDE DEF lowest
  <2> QED BY <2>1
<1>10. ASSUME NEW h \in Int, Height[lowest] <= h, h <= Height[top]
       PROVE  at(h) \in Kept /\ Height[at(h)] = h
  <2> HIDE DEF lowest
  <2>1. \E x \in Kept : Height[x] = h
    BY <1>8, <1>10, KeptFull
  <2> QED BY <2>1
<1> HIDE DEF lowest
<1>11. \A i \in 1..n : s[i] \in Kept /\ Height[s[i]] = below + i
  <2> SUFFICES ASSUME NEW i \in 1..n
               PROVE  at(below + i) \in Kept /\ Height[at(below + i)] = below + i
    OBVIOUS
  <2>1. below + i \in Int /\ Height[lowest] <= below + i /\ below + i <= Height[top]
    BY <1>4, <1>6, <1>8, <1>9, ConstantTypes
  <2> HIDE DEF at, below, n
  <2> QED BY <2>1, <1>10
<1> HIDE DEF at
<1>12. s \in Seq(Block) /\ Len(s) = n /\ DOMAIN s = 1..n /\ s # <<>>
  BY <1>6, <1>9, <1>11
<1>13. Last(s) = top
  <2>1. s[n] \in Kept /\ Height[s[n]] = Height[top]
    BY <1>9, <1>11
  <2> QED BY <2>1, <1>4, <1>5, <1>12, BranchLower DEF Last
<1> HIDE DEF s, n, below
<1>14. Increasing(s)
  BY <1>9, <1>11, <1>12 DEF Increasing
<1>15. PICK k \in Nat : \A i \in DOMAIN Recent(s) :
               i + k \in DOMAIN s /\ Recent(s)[i] = s[i + k]
  BY <1>12, RecentShape
<1>16. \A i \in DOMAIN Recent(s) : Recent(s)[i] \in Branch[top]
  BY <1>15, <1>11, <1>12, <1>5
<1> QED BY <1>1, <1>12, <1>13, <1>14, <1>16, RecentShape, RecentIncreasing

(***************************************************************************)
(* Shape is inductive                                                      *)
(***************************************************************************)

\* With a block of the height below in the table the walk has where to go.
LEMMA IndexedShape ==
  ASSUME Shape, Handling, Indexed # {}
  PROVE  Prev[ForkTail] \in Block
<1>1. PICK c \in Block : Height[c] = Height[ForkTail] - 1
  BY DEF Indexed, CanonicalAt, Canonical
<1>2. ForkTail \in Block
  BY ForkTailShape
<1>3. Height[Root] <= Height[c]
  BY RootInBranch
<1> QED BY <1>1, <1>2, <1>3, RootUnique, ConstantTypes

LEMMA InitShape == Init => Shape
<1> SUFFICES ASSUME Init PROVE Shape
  OBVIOUS
<1>1. active \in Block /\ Prev[active] = None /\ active = Root
  BY RootUnique DEF Init, Roots
<1>2. TypeOK
  <2>1. blocks \in Seq(Block) /\ Len(blocks) = 1 /\ disk \in Seq(Block) /\ newBlocks \in Seq(Block)
    BY <1>1 DEF Init
  <2>2. Len(blocks) <= 4 * InitialAmount
    BY <2>1, ConstantTypes
  <2>3. failures \in 0..MaxFailures
    BY BlocksAssumption DEF Init
  <2>4. row \in [Block -> {"absent", "canonical", "stale"}]
    BY DEF Init
  <2>5. /\ known \subseteq Block /\ active \in known /\ indexingQueue \subseteq Block
        /\ staleBlock \in Block \cup {None} /\ block \in Block \cup {None}
        /\ missing \subseteq Nat /\ fixes \subseteq Fix
    BY <1>1 DEF Init
  <2>6. /\ await \in Await /\ validating \in Validating
        /\ candidate \in Block \cup {None}
        /\ blockHeightTip \in Int /\ currentBlockHeight \in Int
    BY DEF Init, Await, Validating
  <2>7. fastForwarded \in BOOLEAN /\ blockStale \in BOOLEAN /\ clean \in BOOLEAN
    BY Zenon DEF Init
  <2> QED BY <2>1, <2>2, <2>3, <2>4, <2>5, <2>6, <2>7 DEF TypeOK
<1>3. TableShape
  BY <1>1, ConstantTypes DEF Init, TableShape
<1>4. ListShape
  BY <1>1, ConstantTypes DEF Init, ListShape, Increasing
<1>5. CallShape
  BY <1>1, ConstantTypes DEF Init, CallShape, Handling
<1>6. WalkShape
  BY DEF Init, WalkShape, WalkAwaits
<1> QED BY <1>2, <1>3, <1>4, <1>5, <1>6 DEF Shape

LEMMA ShapeStutter ==
  ASSUME Shape, UNCHANGED vars
  PROVE  Shape'
<1> USE DEF vars, nodeVars, orphanVars, indexerVars, callVars
<1>1. TypeOK'
  BY DEF Shape, TypeOK
<1>2. TableShape'
  BY DEF Shape, TableShape, Heights, BestChain
<1>3. ListShape'
  BY DEF Shape, ListShape, Increasing
<1>4. CallShape'
  BY DEF Shape, CallShape, Handling, Tip
<1>5. WalkShape'
  BY DEF Shape, WalkShape, ForkTail
<1> QED BY <1>1, <1>2, <1>3, <1>4, <1>5 DEF Shape

LEMMA ShapeNodeBlock ==
  ASSUME Shape, NEW b \in Block, NodeBlock(b)
  PROVE  Shape'
<1> USE DEF NodeBlock, orphanVars, indexerVars, callVars
<1>1. TypeOK'
  BY DEF Shape, TypeOK
<1>2. active \in Block /\ active' \in Block /\ known \subseteq Block
  BY DEF Shape, TypeOK
<1>3. Height[active] <= Height[active'] /\ Height[b] <= Height[active']
  BY <1>2, ConstantTypes
<1>4. Heights \subseteq Heights'
  <2>1. Heights = Height[Root] .. Height[active]
    BY <1>2, BranchHeights DEF Heights, BestChain
  <2>2. Heights' = Height[Root] .. Height[active']
    BY <1>2, BranchHeights DEF Heights, BestChain
  <2>3. Height[Root] \in Int /\ Height[active] \in Int /\ Height[active'] \in Int
    BY <1>2, RootUnique, ConstantTypes
  <2> QED BY <2>1, <2>2, <2>3, <1>3
<1>5. \A x \in known' : Height[x] <= Height[active'] /\ (Prev[x] # None => Prev[x] \in known')
  BY <1>2, <1>3, ConstantTypes DEF Shape, TableShape
<1>6. TableShape'
  BY <1>4, <1>5 DEF Shape, TableShape
<1>7. ListShape'
  BY DEF Shape, ListShape, Increasing
<1>8. CallShape'
  BY <1>2, <1>3, ConstantTypes DEF Shape, TypeOK, CallShape, Handling, Tip
<1>9. WalkShape'
  BY DEF Shape, WalkShape, ForkTail
<1> QED BY <1>1, <1>6, <1>7, <1>8, <1>9 DEF Shape

LEMMA TipShape ==
  ASSUME Shape, blocks # <<>>
  PROVE  Tip \in Block /\ Height[Root] <= Height[Tip] /\ Height[Tip] \in Nat
<1>1. Tip \in Block
  BY DEF Tip, Last, Shape, TypeOK
<1> QED BY <1>1, RootInBranch, ConstantTypes

LEMMA ShapeStartUpdate ==
  ASSUME Shape, StartUpdate
  PROVE  Shape'
<1> USE DEF StartUpdate, nodeVars, orphanVars, indexerVars
<1>1. active \in Block /\ Height[active] \in Nat /\ Height[Root] <= Height[active]
  BY RootInBranch, ConstantTypes DEF Shape, TypeOK
<1>2. InitialAmount \in Nat /\ InitialAmount >= 1 /\ Height[Root] \in Nat
      /\ (Height[Root] = 0 \/ InitialAmount = 1)
  BY RootUnique, ConstantTypes
<1>3. CASE blocks = <<>>
  <2>1. LastHandled \in Int /\ LastHandled >= Height[Root] - 1 /\ ~FastForward
    BY <1>1, <1>2, <1>3 DEF LastHandled, FastForward
  <2>2. /\ currentBlockHeight' \in Int /\ currentBlockHeight' >= Height[Root] - 1
        /\ fastForwarded' \in BOOLEAN
    BY <2>1 DEF FastForward
  <2> QED
    <3>1. TypeOK'
      BY <1>1, <2>1, <2>2 DEF Shape, TypeOK, Await
    <3>2. TableShape'
      BY DEF Shape, TableShape, Heights, BestChain
    <3>3. ListShape'
      BY DEF Shape, ListShape, Increasing
    <3>4. CallShape'
      BY <1>1, <1>3, <2>2 DEF Shape, CallShape, Handling
    <3>5. WalkShape'
      BY DEF Shape, WalkShape, WalkAwaits
    <3> QED BY <3>1, <3>2, <3>3, <3>4, <3>5 DEF Shape
<1>4. CASE blocks # <<>>
  <2>1. /\ Height[Tip] \in Nat /\ Height[Root] <= Height[Tip]
        /\ LastHandled = Height[Tip]
    BY <1>4, TipShape DEF LastHandled, Tip
  <2>2. /\ currentBlockHeight' \in Int /\ currentBlockHeight' >= Height[Tip]
        /\ ~fastForwarded' => currentBlockHeight' = Height[Tip]
        /\ fastForwarded' \in BOOLEAN
    <3>1. FastForward \in BOOLEAN
      BY DEF FastForward
    <3>2. fastForwarded' \in BOOLEAN /\ (fastForwarded' <=> FastForward)
      BY <3>1
    <3>3. CASE FastForward
      <4>1. Height[active] - Height[Tip] > 2 * InitialAmount
        BY <2>1, <3>3 DEF FastForward
      <4>2. currentBlockHeight' = Height[active] - InitialAmount
        BY <3>3
      <4>3. /\ Height[active] - InitialAmount \in Int
            /\ Height[active] - InitialAmount >= Height[Tip]
        BY <1>1, <1>2, <2>1, <4>1
      <4> QED BY <3>2, <3>3, <4>2, <4>3
    <3>4. CASE ~FastForward
      <4>1. currentBlockHeight' = Height[Tip]
        BY <2>1, <3>4
      <4>2. Height[Tip] \in Int /\ Height[Tip] >= Height[Tip]
        BY <2>1
      <4> QED BY <3>2, <4>1, <4>2
    <3> QED BY <3>3, <3>4
  <2> QED
    <3>1. TypeOK'
      BY <1>1, <2>1, <2>2 DEF Shape, TypeOK, Await
    <3>2. TableShape'
      BY DEF Shape, TableShape, Heights, BestChain
    <3>3. ListShape'
      BY DEF Shape, ListShape, Increasing
    <3>4. CallShape'
      BY <1>1, <1>2, <2>1, <2>2 DEF Shape, CallShape, Handling, Tip
    <3>5. WalkShape'
      BY DEF Shape, WalkShape, WalkAwaits
    <3> QED BY <3>1, <3>2, <3>3, <3>4, <3>5 DEF Shape
<1> QED BY <1>3, <1>4

LEMMA ShapeNextBlock ==
  ASSUME Shape, NextBlock
  PROVE  Shape'
<1> USE DEF NextBlock, nodeVars, orphanVars, indexerVars
<1>1. active \in Block /\ Height[active] \in Nat /\ Height[Root] \in Nat
  BY RootUnique, ConstantTypes DEF Shape, TypeOK
<1>2. /\ currentBlockHeight \in Int /\ blockHeightTip \in Int
      /\ blockHeightTip <= Height[active]
      /\ currentBlockHeight >= Height[Root] - 1
  BY DEF Shape, TypeOK, CallShape
<1>3. /\ currentBlockHeight' \in Int /\ currentBlockHeight' > currentBlockHeight
      /\ Height[Root] <= currentBlockHeight' /\ currentBlockHeight' <= Height[active]
      /\ currentBlockHeight = 0 \/ currentBlockHeight' = currentBlockHeight + 1
  BY <1>1, <1>2
<1>4. block' \in BestChain /\ Height[block'] = currentBlockHeight'
  BY <1>3, BestChainShape
<1>5. block' \in known /\ block' \in Block
  BY <1>4, BestChainShape DEF Shape, TypeOK
<1>6. TypeOK'
  BY <1>3, <1>5 DEF Shape, TypeOK, Await
<1>7. TableShape'
  BY DEF Shape, TableShape, Heights, BestChain
<1>8. ListShape'
  BY DEF Shape, ListShape, Increasing
<1>9. CallShape'
  <2>1. CASE blocks = <<>>
    BY <1>2, <1>4, <1>5, <2>1 DEF Shape, CallShape, Handling
  <2>2. CASE blocks # <<>>
    <3>1. Height[Tip] \in Nat /\ Tip' = Tip
      BY <2>2, TipShape DEF Tip
    <3>2. /\ Height[Tip] <= currentBlockHeight
          /\ ~fastForwarded => currentBlockHeight = Height[Tip]
      BY <2>2, <3>1, <1>2 DEF Shape, CallShape
    <3>3. /\ Height[Tip] < Height[block']
          /\ ~fastForwarded => Height[block'] = Height[Tip] + 1 \/ Height[Tip] = 0
      BY <1>2, <1>3, <1>4, <3>1, <3>2
    <3> QED BY <1>2, <1>4, <1>5, <3>1, <3>3 DEF Shape, CallShape, Handling
  <2> QED BY <2>1, <2>2
<1>10. WalkShape'
  BY DEF Shape, WalkShape, WalkAwaits
<1> QED BY <1>6, <1>7, <1>8, <1>9, <1>10 DEF Shape

\* The steps of the main loop that change nothing but where it is, its flags
\* and, in the table, the marks of rows and the rows of known blocks.
LEMMA ShapeHandling ==
  ASSUME Shape, Handling, await' \in Await,
         UNCHANGED <<nodeVars, blocks, disk, blockHeightTip, currentBlockHeight,
                     fastForwarded, block, staleBlock, indexerVars>>,
         row' \in [Block -> {"absent", "canonical", "stale"}],
         \A b \in Block : row'[b] # "absent" => b \in known,
         indexingQueue' \subseteq known,
         blockStale' \in BOOLEAN, failures' \in 0..MaxFailures, clean' \in BOOLEAN,
         newBlocks' \in Seq(Block), Handling', WalkShape'
  PROVE  Shape'
<1> USE DEF nodeVars, indexerVars
<1>1. TypeOK'
  BY DEF Shape, TypeOK
<1>2. TableShape'
  BY DEF Shape, TableShape, Heights, BestChain
<1>3. ListShape'
  BY DEF Shape, ListShape, Increasing
<1>4. CallShape'
  BY DEF Shape, CallShape, Handling, Tip
<1> QED BY <1>1, <1>2, <1>3, <1>4 DEF Shape

LEMMA ShapeFetchBlock ==
  ASSUME Shape, FetchBlock
  PROVE  Shape'
<1> USE DEF FetchBlock, nodeVars, orphanVars, indexerVars
<1>1. Handling /\ Handling' /\ await' \in Await
  BY DEF Handling, Await
<1>2. WalkShape'
  BY DEF Shape, WalkShape, WalkAwaits
<1>3. /\ row' \in [Block -> {"absent", "canonical", "stale"}]
      /\ \A b \in Block : row'[b] # "absent" => b \in known
      /\ indexingQueue' \subseteq known /\ failures' \in 0..MaxFailures
      /\ clean' \in BOOLEAN /\ newBlocks' \in Seq(Block) /\ blockStale' \in BOOLEAN
  BY DEF Shape, TypeOK, TableShape
<1> QED BY <1>1, <1>2, <1>3, ShapeHandling

LEMMA ShapeCompare ==
  ASSUME Shape, CompareWithTip \/ CompareBelow
  PROVE  Shape'
<1> USE DEF CompareWithTip, CompareBelow, nodeVars, orphanVars, indexerVars, callVars
<1>1. Handling /\ Handling' /\ await' \in Await
  BY DEF Handling, Await
<1>2. WalkShape'
  <2>1. await' \in {"save", "index", "rebuild"}
    OBVIOUS
  <2>2. await' = "index" => Prev[ForkTail] \in Block
    BY <1>1, IndexedShape
  <2>3. await' = "save" => newBlocks = <<>>
    BY DEF Shape, WalkShape, WalkAwaits
  <2>4. await' = "rebuild" => newBlocks # <<>>
    BY DEF Shape, WalkShape
  <2>5. ~fastForwarded
    BY DEF Shape, WalkShape, WalkAwaits
  <2> QED BY <2>1, <2>2, <2>3, <2>4, <2>5 DEF Shape, WalkShape, WalkAwaits, ForkTail
<1>3. /\ row' \in [Block -> {"absent", "canonical", "stale"}]
      /\ \A b \in Block : row'[b] # "absent" => b \in known
      /\ indexingQueue' \subseteq known /\ failures' \in 0..MaxFailures
      /\ clean' \in BOOLEAN /\ newBlocks' \in Seq(Block) /\ blockStale' \in BOOLEAN
  BY DEF Shape, TypeOK, TableShape
<1> QED BY <1>1, <1>2, <1>3, ShapeHandling

\* The blocks below the lowest one compared are known.
LEMMA WalkedShape ==
  ASSUME Shape, await \in {"index", "promote", "demote"}
  PROVE  /\ Handling /\ Prev[ForkTail] \in known /\ Prev[ForkTail] \in Block
         /\ Prev[ForkTail] \in Branch[block]
         /\ Height[Prev[ForkTail]] = Height[ForkTail] - 1
<1>1. Handling /\ Prev[ForkTail] \in Block
  BY DEF Handling, Shape, WalkShape
<1>2. ForkTail \in known /\ ForkTail \in Block /\ ForkTail \in Branch[block] /\ block \in Block
  BY <1>1, ForkTailShape
<1>3. Prev[ForkTail] \in Branch[ForkTail]
  BY <1>1, <1>2, BranchSelf, ConstantTypes
<1>4. Height[Prev[ForkTail]] = Height[ForkTail] - 1
  BY <1>1, <1>2, ConstantTypes
<1> QED BY <1>1, <1>2, <1>3, <1>4, KnownBranches, BranchTransitive

LEMMA ShapeWalk ==
  ASSUME Shape, IndexForkBlock \/ PromoteForkBlock \/ DemoteReplaced
  PROVE  Shape'
<1> USE DEF IndexForkBlock, PromoteForkBlock, DemoteReplaced, nodeVars,
            orphanVars, indexerVars, callVars
<1>1. Handling /\ Handling' /\ await' \in Await
  BY DEF Handling, Await
<1>2. /\ Prev[ForkTail] \in known /\ Prev[ForkTail] \in Block
      /\ Prev[ForkTail] \in Branch[block]
      /\ Height[Prev[ForkTail]] = Height[ForkTail] - 1
  BY WalkedShape
<1>3. /\ ForkTail \in Block /\ block \in Block
      /\ Height[ForkTail] = Height[block] - Len(newBlocks)
  BY <1>1, ForkTailShape
<1>4. ~fastForwarded
  BY DEF Shape, WalkShape, WalkAwaits
<1>5. /\ row \in [Block -> {"absent", "canonical", "stale"}]
      /\ \A b \in Block : row[b] # "absent" => b \in known
      /\ newBlocks \in Seq(Block)
  BY DEF Shape, TypeOK, TableShape
<1>6. newBlocks' \in Seq(Block)
  BY <1>2, <1>5
<1>7. WalkShape'
  <2>1. CASE UNCHANGED newBlocks
    BY <1>2, <1>4, <2>1 DEF Shape, WalkShape, WalkAwaits, ForkTail
  <2>2. CASE newBlocks' = Append(newBlocks, Prev[ForkTail]) /\ await' = "compare"
    <3>1. ASSUME NEW i \in DOMAIN newBlocks'
          PROVE  newBlocks'[i] \in Branch[block] /\ Height[newBlocks'[i]] = Height[block] - i
      <4>1. \/ i \in DOMAIN newBlocks /\ newBlocks'[i] = newBlocks[i]
            \/ i = Len(newBlocks) + 1 /\ newBlocks'[i] = Prev[ForkTail]
        BY <2>2, <1>2, <1>5
      <4> QED BY <4>1, <1>2, <1>3, <1>5, ConstantTypes DEF Shape, WalkShape
    <3>2. newBlocks' # <<>> /\ UNCHANGED <<block, fastForwarded>>
      BY <2>2, <1>5
    <3> QED BY <3>1, <3>2, <2>2, <1>4 DEF WalkShape, WalkAwaits
  <2> QED BY <2>1, <2>2
<1>8. /\ row' \in [Block -> {"absent", "canonical", "stale"}]
      /\ \A b \in Block : row'[b] # "absent" => b \in known
  BY <1>2, <1>5 DEF Promoted, Demoted
<1>9. /\ indexingQueue' \subseteq known /\ failures' \in 0..MaxFailures
      /\ clean' \in BOOLEAN /\ blockStale' \in BOOLEAN
  BY DEF Shape, TypeOK, TableShape
<1> QED BY <1>1, <1>6, <1>7, <1>8, <1>9, ShapeHandling

LEMMA ShapeRebuild ==
  ASSUME Shape, Rebuild
  PROVE  Shape'
<1> USE DEF Rebuild, nodeVars, orphanVars, indexerVars
<1>1. /\ newBlocks \in Seq(Block) /\ newBlocks # <<>>
      /\ newBlocks[1] \in Block /\ Height[newBlocks[1]] = Height[block] - 1
      /\ block \in Block
  BY DEF Shape, TypeOK, WalkShape, CallShape, Handling
<1>2. /\ blocks' \in Seq(Block) /\ Len(blocks') <= 4 * InitialAmount
      /\ blocks' # <<>> /\ Tip' = newBlocks[1]
      /\ Increasing(blocks')
  BY RebuiltShape DEF Tip
<1>3. TypeOK'
  BY <1>2 DEF Shape, TypeOK, Await
<1>4. TableShape'
  BY DEF Shape, TableShape, Heights, BestChain
<1>5. ListShape'
  BY <1>2 DEF Shape, ListShape, Increasing
<1>6. Height[Tip'] < Height[block] /\ Height[block] = Height[Tip'] + 1
  BY <1>1, <1>2, ConstantTypes
<1>7. CallShape'
  BY <1>6 DEF Shape, CallShape, Handling
<1>8. WalkShape'
  BY DEF WalkShape, WalkAwaits
<1> QED BY <1>3, <1>4, <1>5, <1>7, <1>8 DEF Shape

LEMMA ShapeSave ==
  ASSUME Shape, SaveBlock \/ SaveDemote \/ SaveFails \/ Callbacks
  PROVE  Shape'
<1> USE DEF SaveBlock, SaveDemote, SaveFails, Callbacks, nodeVars, orphanVars,
            indexerVars, callVars
<1>1. Handling /\ Handling' /\ await' \in Await
  BY DEF Handling, Await
<1>2. /\ row \in [Block -> {"absent", "canonical", "stale"}]
      /\ \A b \in Block : row[b] # "absent" => b \in known
      /\ newBlocks \in Seq(Block) /\ block \in known /\ block \in Block
      /\ blockStale \in BOOLEAN
  BY <1>1 DEF Shape, TypeOK, TableShape, CallShape
<1>3. WalkShape'
  BY DEF Shape, WalkShape, WalkAwaits
<1>4. /\ row' \in [Block -> {"absent", "canonical", "stale"}]
      /\ \A b \in Block : row'[b] # "absent" => b \in known
  BY <1>2 DEF Promoted, Demoted
<1>5. indexingQueue' \subseteq known
  BY DEF Shape, TableShape, Orphans
<1>6. failures' \in 0..MaxFailures
  <2>1. failures \in 0..MaxFailures /\ failures' \in {failures, failures + 1}
        /\ (failures' = failures + 1 => failures < MaxFailures)
    BY DEF Shape, TypeOK
  <2> HIDE DEF SaveBlock, SaveDemote, SaveFails, Callbacks
  <2> QED BY <2>1, BlocksAssumption
<1>7. clean' \in BOOLEAN
  BY DEF Shape, TypeOK
<1> QED BY <1>1, <1>2, <1>3, <1>4, <1>5, <1>6, <1>7, ShapeHandling

LEMMA IncreasingAppend ==
  ASSUME NEW s \in Seq(Block), Increasing(s), NEW b \in Block,
         s # <<>> => Height[Last(s)] < Height[b]
  PROVE  Increasing(Append(s, b))
<1> SUFFICES ASSUME NEW i \in DOMAIN Append(s, b), NEW j \in DOMAIN Append(s, b), i < j
             PROVE  Height[Append(s, b)[i]] < Height[Append(s, b)[j]]
  BY DEF Increasing
<1>1. i \in DOMAIN s /\ Append(s, b)[i] = s[i] /\ s # <<>>
  OBVIOUS
<1>2. CASE j \in DOMAIN s
  BY <1>1, <1>2 DEF Increasing
<1>3. CASE j \notin DOMAIN s
  <2>1. Append(s, b)[j] = b
    BY <1>3
  <2>2. Height[s[i]] <= Height[Last(s)] /\ s[i] \in Block /\ Last(s) \in Block
    BY <1>1, IncreasingLast
  <2> QED BY <1>1, <2>1, <2>2, ConstantTypes
<1> QED BY <1>2, <1>3

LEMMA PushedList ==
  ASSUME Shape, PushBlock
  PROVE  /\ block \in Block /\ block \in known
         /\ blocks' \in Seq(Block) /\ Len(blocks') <= 4 * InitialAmount
         /\ blocks' # <<>> /\ Tip' = block
         /\ Increasing(blocks')
<1> DEFINE s == Append(blocks, block)
<1>1. /\ block \in Block /\ block \in known /\ blocks \in Seq(Block)
      /\ Increasing(blocks)
      /\ blocks # <<>> => Height[Last(blocks)] < Height[block]
  BY DEF Shape, TypeOK, ListShape, CallShape, Handling, PushBlock, Tip
<1>2. s \in Seq(Block) /\ s # <<>> /\ Last(s) = block
  <2>1. s \in Seq(Block) /\ Len(s) = Len(blocks) + 1 /\ s[Len(blocks) + 1] = block
    BY <1>1
  <2>2. Len(s) # 0
    BY <1>1, <2>1
  <2> QED BY <2>1, <2>2 DEF Last
<1>3. Increasing(s)
  BY <1>1, IncreasingAppend
<1>4. blocks' = Recent(s)
  BY DEF PushBlock
<1> HIDE DEF s
<1> QED BY <1>1, <1>2, <1>3, <1>4, RecentShape, RecentIncreasing DEF Tip

LEMMA ShapePushBlock ==
  ASSUME Shape, PushBlock
  PROVE  Shape'
<1> USE DEF PushBlock, nodeVars, orphanVars, indexerVars, callVars
<1>1. /\ block \in Block /\ block \in known
      /\ blocks' \in Seq(Block) /\ Len(blocks') <= 4 * InitialAmount
      /\ blocks' # <<>> /\ Tip' = block
      /\ Increasing(blocks')
  BY PushedList
<1>2. TypeOK'
  <2> HIDE DEF PushBlock
  <2>1. disk' \in Seq(Block)
    BY <1>1 DEF PushBlock, Shape, TypeOK
  <2> QED BY <1>1, <2>1 DEF PushBlock, Shape, TypeOK, Await
<1>3. TableShape'
  BY DEF Shape, TableShape, Heights, BestChain
<1>4. ListShape'
  BY <1>1 DEF Shape, ListShape, Increasing
<1>5. CallShape'
  <2>1. currentBlockHeight = Height[block] /\ Height[block] >= Height[Root] - 1
    BY <1>1, RootInBranch, RootUnique, ConstantTypes DEF Shape, CallShape, Handling
  <2> QED BY <1>1, <2>1, ConstantTypes DEF Shape, CallShape, Handling
<1>6. WalkShape'
  BY DEF Shape, WalkShape, WalkAwaits
<1> QED BY <1>2, <1>3, <1>4, <1>5, <1>6 DEF Shape

\* A call that ends, by itself or not, and a restart.
LEMMA ShapeIdle ==
  ASSUME Shape, await' = "idle", LocalsDropped,
         UNCHANGED <<nodeVars, row, disk>>,
         NEW list \in {blocks, <<>>, disk}, blocks' = list,
         currentBlockHeight' \in {currentBlockHeight, 0},
         indexingQueue' \in {indexingQueue, {}}, staleBlock' \in {staleBlock, None},
         missing' \in {missing, {}}, fixes' \in {fixes, {}},
         validating' \in {validating, "idle"}, candidate' \in {candidate, None},
         validating' = "read" => candidate' # None,
         failures' \in 0..MaxFailures, clean' \in BOOLEAN
  PROVE  Shape'
<1> USE DEF LocalsDropped, nodeVars
<1>1. blocks' \in Seq(Block) /\ Len(blocks') <= 4 * InitialAmount /\ Increasing(blocks')
  <2>1. CASE list = <<>>
    BY <2>1, ConstantTypes DEF Increasing
  <2>2. CASE list # <<>>
    BY <2>2 DEF Shape, TypeOK, ListShape
  <2> QED BY <2>1, <2>2
<1>2. TypeOK'
  <2>1. /\ known' \subseteq Block /\ active' \in known'
        /\ row' \in [Block -> {"absent", "canonical", "stale"}]
        /\ disk' \in Seq(Block) /\ newBlocks' \in Seq(Block)
    BY DEF Shape, TypeOK
  <2>2. indexingQueue' \subseteq Block /\ staleBlock' \in Block \cup {None}
    BY DEF Shape, TypeOK
  <2>3. missing' \subseteq Nat /\ fixes' \subseteq Fix
    BY DEF Shape, TypeOK
  <2>4. currentBlockHeight' \in Int /\ blockHeightTip' \in Int
    BY DEF Shape, TypeOK
  <2>5. validating' \in Validating /\ candidate' \in Block \cup {None}
    BY DEF Shape, TypeOK, Validating
  <2>6. block' \in Block \cup {None} /\ fastForwarded' \in BOOLEAN /\ blockStale' \in BOOLEAN
    OBVIOUS
  <2> QED BY <1>1, <2>1, <2>2, <2>3, <2>4, <2>5, <2>6 DEF TypeOK, Await
<1>3. TableShape'
  BY DEF Shape, TableShape, Heights, BestChain
<1>4. ListShape'
  BY <1>1 DEF Shape, ListShape, Increasing
<1>5. CallShape'
  BY ConstantTypes DEF Shape, TypeOK, CallShape, Handling
<1>6. WalkShape'
  BY DEF WalkShape, WalkAwaits
<1> QED BY <1>2, <1>3, <1>4, <1>5, <1>6 DEF Shape

LEMMA ShapeCallEnds ==
  ASSUME Shape, EndUpdate \/ Throw \/ \E list \in {<<>>, disk} : Restart(list)
  PROVE  Shape'
<1>1. failures \in 0..MaxFailures /\ clean \in BOOLEAN
      /\ (failures < MaxFailures => failures + 1 \in 0..MaxFailures)
      /\ (validating = "read" => candidate # None)
  BY BlocksAssumption DEF Shape, TypeOK, TableShape
<1>2. CASE EndUpdate
  BY <1>1, <1>2, ShapeIdle DEF EndUpdate, indexerVars, orphanVars
<1>3. CASE Throw
  BY <1>1, <1>3, ShapeIdle DEF Throw, indexerVars, orphanVars
<1>4. ASSUME NEW list \in {<<>>, disk}, Restart(list) PROVE Shape'
  BY <1>1, <1>4, ShapeIdle DEF Restart
<1> QED BY <1>2, <1>3, <1>4

\* The indexer and the background task touch the table and their own state.
LEMMA ShapeBackground ==
  ASSUME Shape,
         UNCHANGED <<nodeVars, blocks, disk, await, callVars>>,
         failures' \in 0..MaxFailures,
         row' \in [Block -> {"absent", "canonical", "stale"}],
         \A b \in Block : row'[b] # "absent" => b \in known,
         indexingQueue' \subseteq known, staleBlock' \in known \cup {None},
         missing' \subseteq Heights, fixes' \subseteq Fix,
         \A f \in fixes' : f.canonical # None => f.canonical \in known,
         validating' \in Validating, candidate' \in known \cup {None}, clean' \in BOOLEAN,
         validating' = "read" => candidate' # None
  PROVE  Shape'
<1> USE DEF nodeVars, callVars
<1>1. missing' \subseteq Nat
  <2>1. Heights \subseteq Nat
    BY BestChainShape, RootUnique
  <2> QED BY <2>1
<1>2. TypeOK'
  BY <1>1 DEF Shape, TypeOK
<1>3. TableShape'
  BY DEF Shape, TableShape, Heights, BestChain
<1>4. ListShape'
  BY DEF Shape, ListShape, Increasing
<1>5. CallShape'
  BY DEF Shape, CallShape, Handling, Tip
<1>6. WalkShape'
  BY DEF Shape, WalkShape, ForkTail
<1> QED BY <1>2, <1>3, <1>4, <1>5, <1>6 DEF Shape

LEMMA ShapeOrphans ==
  ASSUME Shape, IndexOrphans
  PROVE  Shape'
<1> USE DEF nodeVars, orphanVars, indexerVars, callVars
<1>1. /\ row \in [Block -> {"absent", "canonical", "stale"}]
      /\ \A b \in Block : row[b] # "absent" => b \in known
      /\ indexingQueue \subseteq known /\ staleBlock \in known \cup {None}
      /\ known \subseteq Block
  BY DEF Shape, TypeOK, TableShape
<1>2. /\ missing \subseteq Heights /\ fixes \subseteq Fix
      /\ \A f \in fixes : f.canonical # None => f.canonical \in known
      /\ validating \in Validating /\ candidate \in known \cup {None}
      /\ clean \in BOOLEAN /\ failures \in 0..MaxFailures
      /\ validating = "read" => candidate # None
  BY DEF Shape, TypeOK, TableShape
<1>3. CASE \E b \in Block : IndexOrphan(b)
  <2>1. PICK b \in Block : IndexOrphan(b)
    BY <1>3
  <2>2. /\ row' \in [Block -> {"absent", "canonical", "stale"}]
        /\ \A x \in Block : row'[x] # "absent" => x \in known
    BY <1>1, <2>1 DEF IndexOrphan
  <2> QED BY <1>1, <1>2, <2>1, <2>2, ShapeBackground DEF IndexOrphan
<1>4. CASE IndexCounterpart
  <2> DEFINE b == BlockAt(Height[staleBlock])
  <2>1. staleBlock \in known /\ staleBlock \in Block
    BY <1>1, <1>4 DEF IndexCounterpart
  <2>2. Height[Root] <= Height[staleBlock] /\ Height[staleBlock] <= Height[active]
        /\ Height[staleBlock] \in Int
    BY <2>1, RootInBranch, ConstantTypes DEF Shape, TableShape
  <2>3. b \in known /\ b \in Block
    BY <2>2, <1>1, BestChainShape
  <2>4. /\ row' \in [Block -> {"absent", "canonical", "stale"}]
        /\ \A x \in Block : row'[x] # "absent" => x \in known
        /\ clean' \in BOOLEAN
    BY <1>1, <1>2, <1>4, <2>3 DEF IndexCounterpart, Promoted
  <2> QED BY <1>1, <1>2, <1>4, <2>4, ShapeBackground DEF IndexCounterpart
<1> QED BY <1>3, <1>4 DEF IndexOrphans

LEMMA ShapeIndexer ==
  ASSUME Shape, Indexer
  PROVE  Shape'
<1> USE DEF nodeVars, orphanVars, indexerVars, callVars
<1>1. /\ row \in [Block -> {"absent", "canonical", "stale"}]
      /\ \A b \in Block : row[b] # "absent" => b \in known
      /\ indexingQueue \subseteq known /\ staleBlock \in known \cup {None}
      /\ known \subseteq Block
  BY DEF Shape, TypeOK, TableShape
<1>2. /\ missing \subseteq Heights /\ fixes \subseteq Fix
      /\ \A f \in fixes : f.canonical # None => f.canonical \in known
      /\ validating \in Validating /\ candidate \in known \cup {None}
      /\ clean \in BOOLEAN /\ failures \in 0..MaxFailures
      /\ validating = "read" => candidate # None
  BY DEF Shape, TypeOK, TableShape
<1>3. ASSUME NEW h \in Heights
      PROVE  BlockAt(h) \in known /\ BlockAt(h) \in Block /\ h \in Nat
  <2>1. Heights = Height[Root] .. Height[active] /\ active \in Block
    BY BestChainShape DEF Shape, TypeOK
  <2>2. h \in Int /\ Height[Root] <= h /\ h <= Height[active] /\ h \in Nat
    BY <2>1, RootUnique, ConstantTypes
  <2> QED BY <2>2, <1>1, BestChainShape
<1>4. CASE StartIndexer
  <2>1. missing' \subseteq Heights /\ validating' \in Validating
    BY <1>4 DEF StartIndexer, Validating
  <2> QED BY <1>1, <1>2, <1>4, <2>1, ShapeBackground DEF StartIndexer
<1>5. ASSUME NEW h \in missing, IndexMissing(h) PROVE Shape'
  <2>1. BlockAt(h) \in known
    BY <1>2, <1>3
  <2>2. /\ missing' \subseteq Heights /\ validating' \in Validating
        /\ candidate' \in known \cup {None}
    BY <1>2, <1>5, <2>1 DEF IndexMissing, Validating
  <2> QED BY <1>1, <1>2, <1>5, <2>2, ShapeBackground DEF IndexMissing
<1>9. CASE FetchMissing \/ ReadTip
  <2>1. /\ validating' \in Validating /\ candidate' \in known \cup {None}
        /\ validating' = "read" => candidate' # None
    BY <1>1, <1>2, <1>9, BlocksAssumption
    DEF FetchMissing, ReadTip, Validating, Shape, TypeOK
  <2> QED BY <1>1, <1>2, <1>9, <2>1, ShapeBackground DEF FetchMissing, ReadTip
<1>10. CASE SaveMissing \/ SaveMissingDemote
  <2>1. None \notin Block
    BY BlocksAssumption
  <2>2. /\ row' \in [Block -> {"absent", "canonical", "stale"}]
        /\ \A x \in Block : row'[x] # "absent" => x \in known
    BY <1>1, <1>2, <1>10, <2>1 DEF SaveMissing, SaveMissingDemote, Promoted, Demoted
  <2>3. /\ validating' \in Validating /\ candidate' \in known \cup {None}
        /\ clean' \in BOOLEAN
    BY <1>2, <1>10 DEF SaveMissing, SaveMissingDemote, Validating
  <2> QED BY <1>1, <1>2, <1>10, <2>2, <2>3, ShapeBackground
          DEF SaveMissing, SaveMissingDemote
<1>6. CASE ReadTable
  <2>1. \A b \in Walked(candidate) : b \in known /\ b \in Block
    <3>1. candidate \in Block => Branch[candidate] \subseteq known
      BY <1>2, BlocksAssumption, KnownBranches
    <3>2. BestChain \subseteq known
      BY BestChainShape
    <3>3. candidate \in Block
      BY <1>1, <1>2, <1>6 DEF ReadTable
    <3> QED BY <1>1, <3>1, <3>2, <3>3 DEF Walked
  <2>2. \A f \in fixes' : f \in Fix /\ (f.canonical # None => f.canonical \in known)
    BY <1>6, <2>1, ConstantTypes DEF ReadTable, Corrections, Fix
  <2>3. validating' \in Validating
    BY <1>6 DEF ReadTable, Validating
  <2> QED BY <1>1, <1>2, <1>6, <2>2, <2>3, ShapeBackground DEF ReadTable
<1>7. ASSUME NEW f \in fixes, CorrectTable(f) \/ CorrectTableDemote(f) PROVE Shape'
  <2>1. f.canonical # None => f.canonical \in known
    BY <1>2
  <2>2. /\ row' \in [Block -> {"absent", "canonical", "stale"}]
        /\ \A x \in Block : row'[x] # "absent" => x \in known
    BY <1>1, <1>7, <2>1 DEF CorrectTable, CorrectTableDemote, Promoted, Demoted
  <2>3. clean' \in BOOLEAN /\ validating' \in Validating /\ fixes' \subseteq fixes
    BY <1>2, <1>7 DEF CorrectTable, CorrectTableDemote, Validating
  <2> QED BY <1>1, <1>2, <1>7, <2>2, <2>3, ShapeBackground
          DEF CorrectTable, CorrectTableDemote
<1>8. CASE EndIndexer
  <2>1. validating' \in Validating
    BY <1>8 DEF EndIndexer, Validating
  <2> QED BY <1>1, <1>2, <1>8, <2>1, ShapeBackground DEF EndIndexer
<1> QED BY <1>4, <1>5, <1>6, <1>7, <1>8, <1>9, <1>10 DEF Indexer

LEMMA ShapeIndexerThrows ==
  ASSUME Shape, IndexerThrows
  PROVE  Shape'
<1> USE DEF IndexerThrows, nodeVars, orphanVars, callVars
<1>1. /\ row \in [Block -> {"absent", "canonical", "stale"}]
      /\ \A b \in Block : row[b] # "absent" => b \in known
      /\ indexingQueue \subseteq known /\ staleBlock \in known \cup {None}
      /\ clean \in BOOLEAN
  BY DEF Shape, TypeOK, TableShape
<1>2. failures' \in 0..MaxFailures
  BY BlocksAssumption DEF Shape, TypeOK
<1> QED BY <1>1, <1>2, ShapeBackground DEF Validating

LEMMA ShapeNext ==
  ASSUME Shape, [Next]_vars
  PROVE  Shape'
<1>1. CASE UNCHANGED vars
  BY <1>1, ShapeStutter
<1>2. CASE \E b \in Block : NodeBlock(b)
  BY <1>2, ShapeNodeBlock
<1>3. CASE MainLoop
  BY <1>3, ShapeStartUpdate, ShapeNextBlock, ShapeFetchBlock, ShapeCallEnds,
     ShapeCompare, ShapeWalk, ShapeRebuild, ShapeSave, ShapePushBlock DEF MainLoop
<1>4. CASE IndexOrphans
  BY <1>4, ShapeOrphans
<1>5. CASE Indexer
  BY <1>5, ShapeIndexer
<1>6. CASE Throw \/ \E list \in {<<>>, disk} : Restart(list)
  BY <1>6, ShapeCallEnds
<1>7. CASE IndexerThrows
  BY <1>7, ShapeIndexerThrows
<1> QED BY <1>1, <1>2, <1>3, <1>4, <1>5, <1>6, <1>7 DEF Next

(***************************************************************************)
(* Tidy is inductive                                                       *)
(***************************************************************************)

LEMMA CanonicalShape ==
  ASSUME Shape
  PROVE  /\ Canonical \subseteq Block /\ Canonical \subseteq known
         /\ \A c \in Canonical : Height[c] \in Nat /\ Height[c] <= Height[active]
         /\ \A b \in Block : b \in Canonical <=> row[b] = "canonical"
         /\ OneBranch <=> \A c, d \in Canonical : Height[c] <= Height[d] => c \in Branch[d]
<1>1. Canonical \subseteq Block /\ Canonical \subseteq known
  BY DEF Canonical, Shape, TableShape
<1>2. \A c \in Canonical : Height[c] \in Nat /\ Height[c] <= Height[active]
  BY <1>1, ConstantTypes DEF Shape, TableShape
<1>3. Height[active] \in Nat
  BY ConstantTypes DEF Shape, TypeOK
<1>4. OneBranch <=> \A c, d \in Canonical : Height[c] <= Height[d] => c \in Branch[d]
  BY <1>2, <1>3 DEF OneBranch, OneBranchBelow
<1> QED BY <1>1, <1>2, <1>4 DEF Canonical

\* At height 0 there is the oldest block alone.
LEMMA HeightZero ==
  ASSUME NEW b \in Block, Height[b] = 0
  PROVE  b = Root
BY RootUnique, ConstantTypes

\* The canonical blocks of one branch.
LEMMA OnOneBranch ==
  ASSUME Shape, NEW b \in Block, Canonical \subseteq Branch[b]
  PROVE  OneBranch
BY CanonicalShape, BranchLinear

\* A change of the table that spares the list and the block being handled, a
\* block of the node that arrives.
LEMMA TidyTable ==
  ASSUME Shape, Tidy, UNCHANGED <<blocks, await, block, fastForwarded, newBlocks>>,
         active' \in Block, Height[active] <= Height[active'],
         \A b \in Block : row[b] # "canonical" /\ row'[b] = "canonical" => Fits(b),
         \A b \in Block : row[b] = "canonical" /\ row'[b] # "canonical" =>
             /\ ~Walking
             /\ Handling => b # block
             /\ blocks # <<>> => b \notin Branch[Tip]
  PROVE  Tidy'
<1>1. /\ Canonical \subseteq Block /\ Canonical' \subseteq Block
      /\ \A b \in Block : b \in Canonical <=> row[b] = "canonical"
      /\ \A b \in Block : b \in Canonical' <=> row'[b] = "canonical"
  BY DEF Canonical
<1>2. Walking <=> await \in WalkAwaits
  BY DEF Walking, WalkAwaits, Shape, WalkShape
<1>3. ListChain'
  BY DEF Tidy, ListChain, Tip
<1>4. CASE await \in WalkAwaits
  <2>1. Canonical' = Canonical
    BY <1>1, <1>2, <1>4 DEF Fits
  <2>2. /\ WalkedOnBranch'
        /\ await \in {"index", "compare", "rebuild"} => OneBranchBelow(Height[ForkTail])'
        /\ await \in {"promote", "demote"} => OneBranchBelow(Height[ForkTail] - 1)'
        /\ await = "rebuild" => LowerOnBranch'
    <3>1. Handling /\ ForkTail' = ForkTail
      BY <1>4 DEF Handling, WalkAwaits, ForkTail
    <3>2. \A i \in DOMAIN newBlocks : newBlocks[i] \in Block
      BY DEF Shape, TypeOK
    <3> QED BY <2>1, <3>1, <3>2, <1>1, <1>4
            DEF Tidy, WalkedOnBranch, OneBranchBelow, LowerOnBranch
  <2>3. await = "demote" => row'[Prev[ForkTail]'] = "canonical"
    BY <2>1, <1>1, WalkedShape DEF Tidy, ForkTail
  <2> QED BY <1>3, <1>4, <2>2, <2>3 DEF Tidy, WalkAwaits, ForkTail
<1>5. CASE await \notin WalkAwaits
  <2>1. blocks # <<>> => /\ Tip \in Block /\ Height[Tip] \in Nat
                         /\ Tip \in Canonical /\ Tip \in Canonical'
                         /\ \A c \in Canonical' :
                               c \in Canonical \/ c \in Branch[Tip]
    BY <1>1, <1>5, TipShape, BranchSelf DEF Tidy, ListMatches, Fits, Tip
  <2>2. blocks = <<>> => Canonical' \subseteq Canonical
    BY <1>1 DEF Fits
  <2>3. ListMatches'
    BY <1>1, <1>5, <2>1 DEF Tidy, ListMatches, Tip
  <2>4. ListIgnored => Canonical' \subseteq Canonical
    <3>1. CASE blocks # <<>> /\ Height[Tip] = 0
      <4>1. ASSUME NEW c \in Canonical', c \in Branch[Tip] PROVE c = Tip
        BY <3>1, <4>1, <2>1, <1>1, BranchLower, ConstantTypes
      <4> QED BY <2>1, <3>1, <4>1
    <3> QED BY <2>2, <3>1 DEF ListIgnored, Tip
  <2>5. OneBranch /\ Canonical' \subseteq Canonical => OneBranch'
    <3>1. \A c, d \in Canonical : OneBranch /\ Height[c] <= Height[d] => c \in Branch[d]
      BY CanonicalShape
    <3> QED BY <3>1 DEF OneBranch, OneBranchBelow
  <2>6. Handling /\ LowerOnBranch => LowerOnBranch'
    <3> SUFFICES ASSUME Handling, LowerOnBranch, NEW c \in Canonical',
                        Height[c] < Height[block]
                 PROVE  c \in Branch[block]
      BY DEF LowerOnBranch
    <3>1. CASE c \in Canonical
      BY <3>1 DEF LowerOnBranch
    <3>2. CASE c \notin Canonical
      <4>1. blocks # <<>> /\ c \in Branch[Tip] /\ Tip \in Canonical
        BY <2>1, <2>2, <3>2
      <4>2. Tip \in Branch[block] /\ block \in Block
        BY <4>1 DEF LowerOnBranch, Shape, TypeOK, CallShape
      <4> QED BY <4>1, <4>2, BranchTransitive
    <3> QED BY <3>1, <3>2
  <2>7. Handling /\ row[block] = "canonical" => row'[block] = "canonical"
    <3>1. Handling => block \in Block
      BY DEF Shape, TypeOK, CallShape
    <3> QED BY <3>1
  <2>8. Handling /\ Rivals(block) = {} => Rivals(block)' = {}
    <3> SUFFICES ASSUME Handling, NEW c \in Canonical', Height[c] = Height[block],
                        c # block, c \notin Canonical
                 PROVE  FALSE
      BY DEF Rivals, CanonicalAt
    <3>1. blocks # <<>> /\ c \in Branch[Tip] /\ Tip \in Block
      BY <2>1, <2>2
    <3>2. Height[c] <= Height[Tip] /\ Height[Tip] < Height[block] /\ block \in Block
      BY <3>1, BranchLower DEF Shape, TypeOK, CallShape
    <3> QED BY <3>1, <3>2, ConstantTypes
  <2>9. Handling /\ Height[block] = 0 => blocks = <<>>
    BY TipShape DEF Shape, CallShape
  <2>10. Handling /\ Height[block] = 0 /\ OneBranch => OneBranch'
    BY <2>2, <2>5, <2>9
  <2>11. await \in {"save", "saveDemote", "callbacks", "push"} => Handling
    BY DEF Handling
  <2> QED BY <1>3, <1>5, <2>3, <2>4, <2>5, <2>6, <2>7, <2>8, <2>10, <2>11
          DEF Tidy, WalkAwaits, ListIgnored, ForkTail
<1> QED BY <1>4, <1>5

LEMMA TidyNode ==
  ASSUME Shape, clean => Tidy, NEW b \in Block, NodeBlock(b)
  PROVE  clean' => Tidy'
<1> SUFFICES ASSUME clean' PROVE Tidy'
  OBVIOUS
<1>1. active \in Block /\ active' \in Block /\ Height[active] <= Height[active']
  BY ConstantTypes DEF Shape, TypeOK, NodeBlock
<1> QED BY <1>1, TidyTable DEF NodeBlock, callVars

LEMMA TidyOrphans ==
  ASSUME Shape, clean => Tidy, IndexOrphans
  PROVE  clean' => Tidy'
<1> SUFFICES ASSUME clean' PROVE Tidy'
  OBVIOUS
<1> USE DEF nodeVars, callVars
<1>1. active \in Block /\ Height[active] <= Height[active] /\ known \subseteq Block
      /\ row \in [Block -> {"absent", "canonical", "stale"}]
  BY ConstantTypes DEF Shape, TypeOK
<1>2. ASSUME NEW b \in Block, IndexOrphan(b) PROVE Tidy'
  <2>1. \A x \in Block : row'[x] = "canonical" <=> row[x] = "canonical"
    BY <1>1, <1>2 DEF IndexOrphan
  <2> QED BY <1>1, <1>2, <2>1, TidyTable DEF IndexOrphan
<1>3. CASE IndexCounterpart
  BY <1>1, <1>3, TidyTable DEF IndexCounterpart, Harmless, Foreign, Tip
<1> QED BY <1>2, <1>3 DEF IndexOrphans

LEMMA TidyIndexer ==
  ASSUME Shape, clean => Tidy, Indexer \/ IndexerThrows
  PROVE  clean' => Tidy'
<1> SUFFICES ASSUME clean' PROVE Tidy'
  OBVIOUS
<1> USE DEF nodeVars, callVars
<1>1. active \in Block /\ Height[active] <= Height[active] /\ known \subseteq Block
  BY ConstantTypes DEF Shape, TypeOK
<1>2. CASE StartIndexer \/ FetchMissing \/ ReadTip \/ ReadTable \/ EndIndexer \/ IndexerThrows
  BY <1>1, <1>2, TidyTable
  DEF StartIndexer, FetchMissing, ReadTip, ReadTable, EndIndexer, IndexerThrows
<1>3. ASSUME NEW h \in missing, IndexMissing(h) PROVE Tidy'
  BY <1>1, <1>3, TidyTable DEF IndexMissing
<1>4. CASE SaveMissing \/ SaveMissingDemote
  <2>1. clean /\ Harmless
        /\ UNCHANGED <<blocks, await, block, fastForwarded, newBlocks, active>>
    BY <1>4 DEF SaveMissing, SaveMissingDemote
  <2> QED BY <1>1, <2>1, TidyTable DEF Harmless, Foreign, Tip
<1>5. ASSUME NEW f \in fixes, CorrectTable(f) \/ CorrectTableDemote(f) PROVE Tidy'
  <2>1. clean /\ Harmless
        /\ UNCHANGED <<blocks, await, block, fastForwarded, newBlocks, active>>
    BY <1>5 DEF CorrectTable, CorrectTableDemote
  <2> QED BY <1>1, <2>1, TidyTable DEF Harmless, Foreign, Tip
<1> QED BY <1>2, <1>3, <1>4, <1>5 DEF Indexer

\* What a comparison finds out when the walk ends there.
LEMMA ComparedLower ==
  ASSUME Shape, Handling, OneBranchBelow(Height[ForkTail]),
         (Indexed = {} /\ ~GapAboveFork) \/ Prev[ForkTail] \in Indexed
  PROVE  \A c \in Canonical : Height[c] < Height[ForkTail] => c \in Branch[ForkTail]
<1>1. ForkTail \in Block /\ Canonical \subseteq Block
  BY ForkTailShape, CanonicalShape
<1>2. CASE Indexed = {} /\ ~GapAboveFork
  BY <1>1, <1>2 DEF GapAboveFork
<1>3. CASE Prev[ForkTail] \in Indexed
  <2> DEFINE p == Prev[ForkTail]
  <2>1. p \in Canonical /\ Height[p] = Height[ForkTail] - 1 /\ p \in Block
    BY <1>1, <1>3 DEF Indexed, CanonicalAt
  <2>2. Branch[p] \subseteq Branch[ForkTail]
    BY <1>1, <2>1, BranchSelf, ConstantTypes
  <2>3. ASSUME NEW c \in Canonical, Height[c] < Height[ForkTail] PROVE c \in Branch[p]
    <3>1. Height[c] <= Height[p] /\ Height[p] < Height[ForkTail]
      BY <1>1, <2>1, <2>3, ConstantTypes
    <3> QED BY <2>1, <3>1 DEF OneBranchBelow
  <2> QED BY <2>2, <2>3
<1> QED BY <1>2, <1>3

LEMMA TidyCompareWithTip ==
  ASSUME Shape, clean => Tidy, CompareWithTip
  PROVE  clean' => Tidy'
<1> SUFFICES ASSUME clean' PROVE Tidy'
  OBVIOUS
<1> USE DEF CompareWithTip, nodeVars, callVars
<1>1. clean /\ Tidy /\ ~GapAboveFork /\ await = "reorg" /\ Handling
  BY DEF Handling
<1>2. ~fastForwarded /\ newBlocks = <<>> /\ ForkTail = block /\ block \in Block
  BY <1>1, ForkTailShape DEF Shape, WalkShape, WalkAwaits, ForkTail
<1>3. Canonical \subseteq Block /\ Canonical' = Canonical /\ Height[block] \in Nat
  BY <1>2, ConstantTypes DEF Canonical
<1>4. ListMatches /\ (ListIgnored => OneBranch) /\ ListChain
  BY <1>1 DEF Tidy, WalkAwaits
<1>5. OneBranchBelow(Height[block])
  <2>1. CASE ListIgnored
    BY <1>4, <2>1, CanonicalShape DEF OneBranchBelow
  <2>2. CASE ~ListIgnored
    <3>1. blocks # <<>> /\ Tip \in Block /\ Height[block] = Height[Tip] + 1
      BY <1>1, <1>2, <2>2, TipShape DEF ListIgnored, Tip, Shape, CallShape
    <3>2. \A c \in Canonical : Height[c] < Height[block] => c \in Branch[Tip]
      BY <1>3, <1>4, <3>1, ConstantTypes DEF ListMatches
    <3>3. ASSUME NEW c \in Canonical, NEW d \in Canonical, Height[c] <= Height[d],
                 Height[d] < Height[block]
          PROVE  c \in Branch[d]
      <4>1. Height[c] < Height[block]
        BY <1>3, <3>3, ConstantTypes
      <4> QED BY <3>1, <3>2, <3>3, <4>1, BranchLinear
    <3> QED BY <3>3 DEF OneBranchBelow
  <2> QED BY <2>1, <2>2
<1>6. ListMatches' /\ ListChain' /\ OneBranchBelow(Height[block])'
  BY <1>3, <1>4, <1>5 DEF ListMatches, ListChain, Tip, OneBranchBelow
<1>7. CASE await' = "save"
  <2>1. Indexed = {} \/ Prev[ForkTail] \in Indexed
    BY <1>7 DEF Diverges
  <2>2. LowerOnBranch
    BY <1>1, <1>2, <1>5, <2>1, ComparedLower DEF LowerOnBranch
  <2>3. LowerOnBranch'
    BY <1>3, <2>2 DEF LowerOnBranch
  <2>4. Height[block] = 0 => OneBranch
    <3>1. Height[block] = 0 => ListIgnored
      BY <1>1, TipShape DEF ListIgnored, Shape, CallShape
    <3> QED BY <1>4, <3>1
  <2>5. Height[block] = 0 => OneBranch'
    BY <1>3, <2>4 DEF OneBranch, OneBranchBelow
  <2> QED BY <1>6, <1>7, <2>3, <2>5 DEF Tidy, WalkAwaits
<1>8. CASE await' = "index"
  <2>1. WalkedOnBranch'
    BY <1>2, <1>3, ConstantTypes DEF WalkedOnBranch, ForkTail
  <2> QED BY <1>2, <1>6, <1>8, <2>1 DEF Tidy, WalkAwaits, ForkTail
<1> QED BY <1>7, <1>8

LEMMA TidyCompareBelow ==
  ASSUME Shape, clean => Tidy, CompareBelow
  PROVE  clean' => Tidy'
<1> SUFFICES ASSUME clean' PROVE Tidy'
  OBVIOUS
<1> USE DEF CompareBelow, nodeVars, callVars
<1>1. clean /\ Tidy /\ ~GapAboveFork /\ await = "compare" /\ Handling
  BY DEF Handling
<1>2. /\ block \in Block /\ ForkTail \in Block /\ ForkTail \in Branch[block]
      /\ ForkTail' = ForkTail
  BY <1>1, ForkTailShape DEF ForkTail
<1>3. Canonical \subseteq Block /\ Canonical' = Canonical
  BY DEF Canonical
<1>4. ListChain /\ WalkedOnBranch /\ OneBranchBelow(Height[ForkTail])
  BY <1>1 DEF Tidy, WalkAwaits
<1>5. ListChain' /\ WalkedOnBranch' /\ OneBranchBelow(Height[ForkTail])'
  BY <1>2, <1>3, <1>4 DEF ListChain, Tip, WalkedOnBranch, OneBranchBelow
<1>6. CASE await' = "rebuild"
  <2>1. Indexed = {} \/ Prev[ForkTail] \in Indexed
    BY <1>6 DEF Diverges
  <2>2. \A c \in Canonical : Height[c] < Height[ForkTail] => c \in Branch[ForkTail]
    BY <1>1, <1>4, <2>1, ComparedLower
  <2>3. ASSUME NEW c \in Canonical, Height[c] < Height[block] PROVE c \in Branch[block]
    <3>1. CASE Height[c] < Height[ForkTail]
      BY <1>2, <2>2, <3>1, BranchTransitive
    <3>2. CASE Height[ForkTail] <= Height[c]
      BY <1>4, <2>3, <3>2 DEF WalkedOnBranch
    <3> QED BY <1>2, <1>3, <3>1, <3>2, ConstantTypes
  <2>4. LowerOnBranch'
    BY <1>3, <2>3 DEF LowerOnBranch
  <2> QED BY <1>5, <1>6, <2>4 DEF Tidy, WalkAwaits
<1>7. CASE await' = "index"
  BY <1>5, <1>7 DEF Tidy, WalkAwaits
<1> QED BY <1>6, <1>7

LEMMA TidyIndexForkBlock ==
  ASSUME Shape, clean => Tidy, IndexForkBlock \/ PromoteForkBlock
  PROVE  clean' => Tidy'
<1> SUFFICES ASSUME clean' PROVE Tidy'
  OBVIOUS
<1> DEFINE p == Prev[ForkTail]
<1>1. /\ clean /\ Tidy /\ await \in {"index", "promote"}
      /\ UNCHANGED <<blocks, block, fastForwarded, newBlocks, active>>
      /\ await = "index" => await' = "promote"
      /\ await = "promote" => await' = "demote" /\ row' = Promoted(p)
      /\ row' \in {row, [row EXCEPT ![p] = "canonical"], [row EXCEPT ![p] = "stale"]}
      /\ row[p] # "absent" => row' \in {row, [row EXCEPT ![p] = "canonical"]}
  BY DEF IndexForkBlock, PromoteForkBlock, Promoted, nodeVars, callVars
<1>2. /\ Handling /\ p \in Block /\ Height[p] = Height[ForkTail] - 1
      /\ ForkTail \in Block /\ ForkTail' = ForkTail
      /\ Height[ForkTail] \in Nat
  BY <1>1, WalkedShape, ForkTailShape, ConstantTypes DEF ForkTail
<1>3. /\ Canonical \subseteq Block
      /\ \A b \in Block : b # p => row'[b] = row[b]
      /\ \A b \in Block : row[b] = "canonical" => row'[b] = "canonical"
  BY <1>1, <1>2 DEF Canonical, Shape, TypeOK
<1>4. \A c \in Canonical' : c \in Block /\ (c = p \/ c \in Canonical)
  BY <1>3 DEF Canonical
<1>5. ListChain /\ WalkedOnBranch /\ OneBranchBelow(Height[ForkTail] - 1)
  <2>1. OneBranchBelow(Height[ForkTail]) => OneBranchBelow(Height[ForkTail] - 1)
    BY <1>2, <1>3, ConstantTypes DEF OneBranchBelow
  <2> QED BY <1>1, <2>1 DEF Tidy, WalkAwaits
<1>6. ListChain'
  BY <1>1, <1>5 DEF ListChain, Tip
<1>7. OneBranchBelow(Height[ForkTail] - 1)'
  <2> SUFFICES ASSUME NEW c \in Canonical', NEW d \in Canonical',
                      Height[c] <= Height[d], Height[d] < Height[ForkTail] - 1
               PROVE  c \in Branch[d]
    BY <1>2 DEF OneBranchBelow
  <2>1. c # p /\ d # p
    BY <1>2, <1>4, ConstantTypes
  <2> QED BY <2>1, <1>4, <1>5 DEF OneBranchBelow
<1>8. WalkedOnBranch'
  <2>1. ASSUME NEW c \in Canonical', Height[ForkTail] <= Height[c],
               Height[c] < Height[block]
        PROVE  c \in Branch[block]
    <3>1. c # p
      BY <1>2, <2>1, ConstantTypes
    <3> QED BY <2>1, <3>1, <1>4, <1>5 DEF WalkedOnBranch
  <2>2. \A i \in DOMAIN newBlocks : newBlocks[i] \in Block
    BY DEF Shape, TypeOK
  <2> QED BY <1>1, <1>2, <1>3, <1>5, <2>1, <2>2 DEF WalkedOnBranch
<1>9. await' = "demote" => row'[Prev[ForkTail]'] = "canonical"
  BY <1>1, <1>2 DEF Promoted, Shape, TypeOK
<1> QED BY <1>1, <1>6, <1>7, <1>8, <1>9 DEF Tidy, WalkAwaits

LEMMA TidyDemoteReplaced ==
  ASSUME Shape, clean => Tidy, DemoteReplaced
  PROVE  clean' => Tidy'
<1> SUFFICES ASSUME clean' PROVE Tidy'
  OBVIOUS
<1> DEFINE p == Prev[ForkTail]
<1>1. /\ clean /\ Tidy /\ await = "demote" /\ await' = "compare"
      /\ UNCHANGED <<blocks, block, fastForwarded, active>>
      /\ row' = Demoted(row, p, Height[p]) /\ newBlocks' = Append(newBlocks, p)
  BY DEF DemoteReplaced, nodeVars
<1>2. /\ Handling /\ p \in Block /\ Height[p] = Height[ForkTail] - 1
      /\ p \in Branch[block] /\ block \in Block
      /\ ForkTail \in Block /\ Height[ForkTail] \in Nat /\ Height[p] \in Nat
      /\ Height[ForkTail] = Height[block] - Len(newBlocks)
  BY <1>1, WalkedShape, ForkTailShape, ConstantTypes
<1>3. /\ newBlocks \in Seq(Block) /\ newBlocks' # <<>>
      /\ ForkTail' = p
      /\ \A i \in DOMAIN newBlocks' :
            \/ i \in DOMAIN newBlocks /\ newBlocks'[i] = newBlocks[i]
            \/ newBlocks'[i] = p
  BY <1>1, <1>2 DEF ForkTail, Last, Shape, TypeOK
<1>4. \A b \in Block : /\ row'[b] = "canonical" <=>
                             row[b] = "canonical" /\ (Height[b] = Height[p] => b = p)
  BY <1>1 DEF Demoted
<1>5. \A c \in Canonical' : c \in Block /\ c \in Canonical /\ (Height[c] = Height[p] => c = p)
  BY <1>4 DEF Canonical
<1>6. ListChain /\ WalkedOnBranch /\ OneBranchBelow(Height[ForkTail] - 1) /\ row[p] = "canonical"
  BY <1>1 DEF Tidy, WalkAwaits
<1>7. ListChain'
  BY <1>1, <1>6 DEF ListChain, Tip
<1>8. OneBranchBelow(Height[ForkTail])'
  BY <1>2, <1>3, <1>5, <1>6 DEF OneBranchBelow
<1>9. WalkedOnBranch'
  <2>1. ASSUME NEW c \in Canonical', Height[p] <= Height[c], Height[c] < Height[block]
        PROVE  c \in Branch[block]
    <3>1. CASE Height[c] = Height[p]
      BY <1>2, <1>5, <3>1
    <3>2. CASE Height[c] # Height[p]
      <4>1. Height[ForkTail] <= Height[c]
        BY <1>2, <1>5, <2>1, <3>2, ConstantTypes
      <4> QED BY <4>1, <2>1, <1>5, <1>6 DEF WalkedOnBranch
    <3> QED BY <3>1, <3>2
  <2>2. ASSUME NEW i \in DOMAIN newBlocks' PROVE row'[newBlocks'[i]] = "canonical"
    <3>1. CASE newBlocks'[i] = p
      BY <3>1, <1>2, <1>4, <1>6
    <3>2. CASE i \in DOMAIN newBlocks /\ newBlocks'[i] = newBlocks[i]
      <4>1. Height[newBlocks[i]] = Height[block] - i /\ i <= Len(newBlocks)
            /\ newBlocks[i] \in Block /\ i \in Nat
        BY <1>3, <3>2 DEF Shape, WalkShape
      <4>2. Height[newBlocks[i]] # Height[p]
        BY <4>1, <1>2, <1>3, ConstantTypes
      <4> QED BY <3>2, <4>1, <4>2, <1>4, <1>6 DEF WalkedOnBranch
    <3> QED BY <1>3, <3>1, <3>2
  <2> QED BY <1>1, <1>3, <2>1, <2>2 DEF WalkedOnBranch
<1> QED BY <1>1, <1>7, <1>8, <1>9 DEF Tidy, WalkAwaits

LEMMA TidyRebuild ==
  ASSUME Shape, clean => Tidy, Rebuild
  PROVE  clean' => Tidy'
<1> SUFFICES ASSUME clean' PROVE Tidy'
  OBVIOUS
<1> USE DEF Rebuild, nodeVars
<1>1. /\ clean /\ Tidy /\ await = "rebuild" /\ Handling
      /\ LowerOnBranch /\ WalkedOnBranch
  BY DEF Handling, Tidy, WalkAwaits
<1>2. /\ newBlocks \in Seq(Block) /\ newBlocks # <<>>
      /\ newBlocks[1] \in Block /\ newBlocks[1] \in Branch[block]
      /\ Height[newBlocks[1]] = Height[block] - 1
      /\ row[newBlocks[1]] = "canonical"
      /\ block \in Block
  BY <1>1 DEF Shape, TypeOK, WalkShape, CallShape, WalkedOnBranch
<1>3. /\ blocks' # <<>> /\ Tip' = newBlocks[1]
      /\ \A i \in DOMAIN blocks' : blocks'[i] \in Branch[newBlocks[1]]
  BY RebuiltShape DEF Tip
<1>4. ListChain'
  BY <1>3 DEF ListChain
<1>5. Canonical' = Canonical /\ Canonical \subseteq Block
  BY DEF Canonical
<1>6. ListMatches'
  <2> SUFFICES ASSUME NEW c \in Canonical, Height[c] <= Height[newBlocks[1]]
               PROVE  c \in Branch[newBlocks[1]]
    BY <1>2, <1>3, <1>5 DEF ListMatches
  <2>1. c \in Branch[block]
    BY <1>1, <1>2, <1>5, ConstantTypes DEF LowerOnBranch
  <2> QED BY <2>1, <1>2, BranchLinear
<1>7. LowerOnBranch'
  BY <1>1, <1>5 DEF LowerOnBranch
<1>8. Height[block] # 0
  BY <1>2, ConstantTypes
<1> QED BY <1>4, <1>6, <1>7, <1>8 DEF Tidy, WalkAwaits

\* The list ends below the block that is handled, on its branch.
LEMMA TipBelowBlock ==
  ASSUME Shape, Handling, blocks # <<>>, ListMatches, LowerOnBranch
  PROVE  /\ Tip \in Block /\ block \in Block /\ Tip \in Branch[block]
         /\ Height[Tip] < Height[block] /\ Tip \in Canonical
BY TipShape DEF Shape, TypeOK, CallShape, ListMatches, LowerOnBranch, Canonical

LEMMA SaveLower ==
  ASSUME Shape, Tidy, await \in {"save", "saveDemote"}, ~Hidden
  PROVE  LowerOnBranch /\ (Height[block] = 0 => OneBranch)
<1>1. block \in Block
  BY DEF Shape, TypeOK, CallShape, Handling
<1>2. CASE await = "saveDemote" \/ ~fastForwarded
  BY <1>2 DEF Tidy
<1>3. CASE await = "save" /\ fastForwarded
  <2>1. Canonical \subseteq Branch[block]
    BY <1>3 DEF Hidden
  <2> QED BY <1>1, <2>1, OnOneBranch DEF LowerOnBranch
<1> QED BY <1>2, <1>3 DEF Shape, TypeOK

LEMMA TidySaveBlock ==
  ASSUME Shape, clean => Tidy, SaveBlock
  PROVE  clean' => Tidy'
<1> SUFFICES ASSUME clean' PROVE Tidy'
  OBVIOUS
<1> USE DEF SaveBlock, nodeVars, callVars
<1>1. clean /\ Tidy /\ ~Hidden /\ await = "save" /\ Handling /\ ~blockStale
  BY DEF Handling, Hidden
<1>2. /\ LowerOnBranch /\ (Height[block] = 0 => OneBranch)
      /\ ListChain /\ ListMatches /\ block \in Block /\ Height[block] \in Nat
  BY <1>1, SaveLower, ConstantTypes DEF Tidy, WalkAwaits, Shape, TypeOK, CallShape
<1>3. /\ row' = [row EXCEPT ![block] = "canonical"]
      /\ await' \in {"saveDemote", "callbacks"}
      /\ await' = "callbacks" => Rivals(block) = {}
  BY <1>1 DEF Promoted, Hidden
<1>4. /\ Canonical' = Canonical \cup {block} /\ Canonical \subseteq Block
      /\ row'[block] = "canonical"
      /\ \A b \in Block : row[b] = "canonical" => row'[b] = "canonical"
  BY <1>2, <1>3 DEF Canonical, Shape, TypeOK
<1>5. ListMatches'
  <2> SUFFICES ASSUME blocks # <<>> PROVE ListMatches'
    BY DEF ListMatches
  <2>1. Tip \in Block /\ Height[Tip] < Height[block]
    BY <1>1, <1>2, TipBelowBlock
  <2> QED BY <1>2, <1>4, <2>1, ConstantTypes DEF ListMatches, Tip
<1>6. LowerOnBranch'
  BY <1>2, <1>4 DEF LowerOnBranch
<1>7. await' = "callbacks" => Rivals(block)' = {}
  BY <1>3, <1>4 DEF Rivals, CanonicalAt
<1>8. Height[block] = 0 => OneBranch'
  <2> SUFFICES ASSUME Height[block] = 0, NEW c \in Canonical', NEW d \in Canonical',
                      Height[c] <= Height[d]
               PROVE  c \in Branch[d]
    BY DEF OneBranch, OneBranchBelow
  <2>1. c \in Block /\ d \in Block
    BY <1>2, <1>4
  <2>2. CASE c = block
    BY <2>1, <2>2, HeightZero, RootInBranch
  <2>3. CASE d = block
    <3>1. Height[c] = 0 /\ c = block
      BY <2>1, <2>3, HeightZero, ConstantTypes
    <3> QED BY <2>1, <2>3, <3>1, BranchSelf
  <2>4. CASE c \in Canonical /\ d \in Canonical
    BY <1>2, <2>4, CanonicalShape
  <2> QED BY <1>4, <2>2, <2>3, <2>4
<1>9. ListChain'
  BY <1>2 DEF ListChain, Tip
<1> QED BY <1>3, <1>4, <1>5, <1>6, <1>7, <1>8, <1>9 DEF Tidy, WalkAwaits

LEMMA TidySaveDemote ==
  ASSUME Shape, clean => Tidy, SaveDemote
  PROVE  clean' => Tidy'
<1> SUFFICES ASSUME clean' PROVE Tidy'
  OBVIOUS
<1> USE DEF SaveDemote, nodeVars, callVars
<1>1. clean /\ Tidy /\ await = "saveDemote" /\ Handling
  BY DEF Handling
<1>2. /\ LowerOnBranch /\ (Height[block] = 0 => OneBranch) /\ row[block] = "canonical"
      /\ ListChain /\ ListMatches /\ block \in Block /\ Height[block] \in Nat
  BY <1>1, ConstantTypes DEF Tidy, WalkAwaits, Shape, TypeOK, CallShape
<1>3. \A b \in Block : row'[b] = "canonical" <=>
          row[b] = "canonical" /\ (Height[b] = Height[block] => b = block)
  BY DEF Demoted
<1>4. /\ Canonical' \subseteq Canonical
      /\ \A c \in Canonical' : c \in Block /\ (Height[c] = Height[block] => c = block)
  BY <1>3 DEF Canonical
<1>5. ListMatches'
  <2> SUFFICES ASSUME blocks # <<>> PROVE ListMatches'
    BY DEF ListMatches
  <2>1. Tip \in Block /\ Height[Tip] < Height[block]
    BY <1>1, <1>2, TipBelowBlock
  <2> QED BY <1>2, <1>3, <1>4, <2>1, ConstantTypes DEF ListMatches, Tip
<1>6. LowerOnBranch' /\ row'[block] = "canonical" /\ Rivals(block)' = {}
  BY <1>2, <1>3, <1>4 DEF LowerOnBranch, Rivals, CanonicalAt
<1>7. Height[block] = 0 => OneBranch'
  BY <1>2, <1>4, CanonicalShape DEF OneBranch, OneBranchBelow
<1>8. ListChain'
  BY <1>2 DEF ListChain, Tip
<1> QED BY <1>5, <1>6, <1>7, <1>8 DEF Tidy, WalkAwaits

LEMMA TidySaveFails ==
  ASSUME Shape, clean => Tidy, SaveFails \/ Callbacks
  PROVE  clean' => Tidy'
<1> SUFFICES ASSUME clean' PROVE Tidy'
  OBVIOUS
<1> USE DEF SaveFails, Callbacks, nodeVars, callVars
<1>1. /\ clean /\ Tidy /\ await' \in {"callbacks", "push"}
      /\ await \in {"save", "saveDemote", "callbacks"} /\ Handling
  BY DEF Handling
<1>2. /\ LowerOnBranch /\ (Height[block] = 0 => OneBranch)
      /\ row[block] = "canonical" /\ Rivals(block) = {}
  <2>1. CASE SaveFails
    BY <1>1, <2>1, SaveLower
  <2>2. CASE Callbacks
    BY <1>1, <2>2 DEF Tidy
  <2> QED BY <2>1, <2>2
<1>3. ListChain /\ ListMatches
  BY <1>1 DEF Tidy, WalkAwaits
<1>4. UNCHANGED <<row, blocks, block, active>> /\ Canonical' = Canonical
  BY DEF Canonical
<1>5. /\ LowerOnBranch' /\ (Height[block'] = 0 => OneBranch')
      /\ row'[block'] = "canonical" /\ Rivals(block)' = {}
      /\ ListChain' /\ ListMatches'
  BY <1>2, <1>3, <1>4 DEF LowerOnBranch, OneBranch, OneBranchBelow, Rivals,
     CanonicalAt, ListChain, ListMatches, Tip
<1> QED BY <1>1, <1>5 DEF Tidy, WalkAwaits

LEMMA TidyPushBlock ==
  ASSUME Shape, clean => Tidy, PushBlock
  PROVE  clean' => Tidy'
<1> SUFFICES ASSUME clean' PROVE Tidy'
  OBVIOUS
<1>1. /\ clean /\ Tidy /\ await = "push" /\ await' = "next" /\ Handling
      /\ UNCHANGED <<row, active, block>>
      /\ blocks' = Recent(Append(blocks, block))
  BY DEF PushBlock, Handling, nodeVars, callVars
<1>2. /\ LowerOnBranch /\ (Height[block] = 0 => OneBranch)
      /\ row[block] = "canonical" /\ Rivals(block) = {}
      /\ ListChain /\ ListMatches
      /\ block \in Block /\ Height[block] \in Nat /\ blocks \in Seq(Block)
  BY <1>1, ConstantTypes DEF Tidy, WalkAwaits, Shape, TypeOK, CallShape
<1>3. blocks' # <<>> /\ Tip' = block
  BY PushedList
<1>4. ListChain'
  <2> DEFINE s == Append(blocks, block)
  <2>1. s \in Seq(Block)
    BY <1>2
  <2>2. ASSUME NEW j \in DOMAIN s PROVE s[j] \in Branch[block]
    <3>1. CASE j \in DOMAIN blocks
      <4>1. s[j] = blocks[j] /\ blocks # <<>>
        BY <1>2, <3>1
      <4>2. s[j] \in Branch[Tip]
        BY <1>2, <3>1, <4>1 DEF ListChain
      <4> QED BY <4>1, <4>2, <1>1, <1>2, TipBelowBlock, BranchTransitive
    <3>2. CASE j \notin DOMAIN blocks
      <4>1. s[j] = block
        BY <1>2, <3>2
      <4> QED BY <4>1, <1>2, BranchSelf
    <3> QED BY <3>1, <3>2
  <2> HIDE DEF s
  <2>3. PICK k \in Nat : \A i \in DOMAIN Recent(s) :
             i + k \in DOMAIN s /\ Recent(s)[i] = s[i + k]
    BY <2>1, RecentShape
  <2>4. blocks' = Recent(s)
    BY <1>1 DEF s
  <2> QED BY <1>3, <2>2, <2>3, <2>4 DEF ListChain
<1>5. Canonical' = Canonical /\ Canonical \subseteq Block
  BY <1>1 DEF Canonical
<1>6. ListMatches'
  <2> SUFFICES ASSUME NEW c \in Canonical, Height[c] <= Height[block]
               PROVE  c \in Branch[block]
    BY <1>1, <1>2, <1>3, <1>5 DEF ListMatches
  <2>1. CASE Height[c] < Height[block]
    BY <1>2, <2>1 DEF LowerOnBranch
  <2>2. CASE Height[c] = Height[block]
    BY <1>2, <2>2, BranchSelf DEF Rivals, CanonicalAt
  <2> QED BY <1>2, <1>5, <2>1, <2>2, ConstantTypes
<1>7. ListIgnored' => OneBranch'
  <2>1. ListIgnored' => Height[block] = 0
    BY <1>3 DEF ListIgnored, Tip
  <2> QED BY <1>1, <1>2, <1>5, <2>1 DEF OneBranch, OneBranchBelow
<1> QED BY <1>1, <1>4, <1>6, <1>7 DEF Tidy, WalkAwaits

\* The steps between two awaits that touch neither the list nor the table.
LEMMA TidyCall ==
  ASSUME Shape, clean => Tidy,
         StartUpdate \/ NextBlock \/ FetchBlock \/ EndUpdate \/ Throw
  PROVE  clean' => Tidy'
<1> SUFFICES ASSUME clean' PROVE Tidy'
  OBVIOUS
<1>1. /\ clean /\ UNCHANGED <<blocks, row, active>>
      /\ await \notin WalkAwaits
      /\ \/ await' \in {"idle", "next", "fetch", "reorg"}
            /\ (ListIgnored => OneBranch)
         \/ await' = "save" /\ fastForwarded'
  <2>1. CASE Throw
    BY <2>1 DEF Throw, Walking, WalkAwaits, nodeVars
  <2>2. CASE StartUpdate
    BY <2>2 DEF StartUpdate, WalkAwaits, Tidy, nodeVars
  <2>3. CASE NextBlock
    BY <2>3 DEF NextBlock, WalkAwaits, Tidy, nodeVars
  <2>4. CASE FetchBlock
    BY <2>4 DEF FetchBlock, WalkAwaits, Tidy, nodeVars
  <2>5. CASE EndUpdate
    BY <2>5 DEF EndUpdate, WalkAwaits, Tidy, nodeVars
  <2> QED BY <2>1, <2>2, <2>3, <2>4, <2>5
<1>2. ListChain /\ ListMatches
  BY <1>1 DEF Tidy
<1>3. ListChain' /\ ListMatches' /\ (ListIgnored' <=> ListIgnored)
      /\ (OneBranch => OneBranch')
  BY <1>1, <1>2 DEF ListChain, ListMatches, ListIgnored, OneBranch, OneBranchBelow,
     Tip, Canonical
<1> QED BY <1>1, <1>3 DEF Tidy, WalkAwaits

\* The disk cache may be older than the table: Restart asks for their agreement.
LEMMA TidyRestart ==
  ASSUME Shape, clean => Tidy, NEW list \in {<<>>, disk}, Restart(list)
  PROVE  clean' => Tidy'
<1> SUFFICES ASSUME clean' PROVE Tidy'
  OBVIOUS
<1>1. /\ OneBranch /\ blocks' = list /\ await' = "idle" /\ UNCHANGED <<row, active>>
      /\ \A i \in DOMAIN list : row[list[i]] = "canonical"
  BY DEF Restart, nodeVars
<1>2. list \in Seq(Block) /\ Increasing(list)
  <2>1. CASE list = <<>>
    BY <2>1 DEF Increasing
  <2>2. CASE list = disk
    BY <2>2 DEF Shape, TypeOK, ListShape
  <2> QED BY <2>1, <2>2
<1>3. Canonical' = Canonical
  BY <1>1 DEF Canonical
<1>4. OneBranch'
  BY <1>1, <1>3 DEF OneBranch, OneBranchBelow
<1>5. ASSUME list # <<>>
      PROVE  Last(list) \in Canonical
  <2>1. Len(list) \in DOMAIN list /\ list[Len(list)] \in Block
    BY <1>2, <1>5
  <2> QED BY <1>1, <2>1 DEF Last, Canonical
<1>6. ListMatches'
  BY <1>1, <1>3, <1>5, CanonicalShape DEF ListMatches, Tip
<1>7. ListChain'
  <2> SUFFICES ASSUME NEW i \in DOMAIN list PROVE list[i] \in Branch[Last(list)]
    BY <1>1 DEF ListChain, Tip
  <2>1. list[i] \in Canonical /\ Height[list[i]] <= Height[Last(list)] /\ list # <<>>
    BY <1>1, <1>2, IncreasingLast DEF Canonical
  <2> QED BY <1>1, <1>5, <2>1, CanonicalShape
<1> QED BY <1>1, <1>4, <1>6, <1>7 DEF Tidy, WalkAwaits

LEMMA TidyNext ==
  ASSUME Shape, clean => Tidy, [Next]_vars
  PROVE  clean' => Tidy'
<1>1. CASE UNCHANGED vars
  <2>1. active \in Block /\ Height[active] <= Height[active]
    BY ConstantTypes DEF Shape, TypeOK
  <2> QED BY <1>1, <2>1, TidyTable DEF vars, nodeVars, callVars
<1>2. CASE \E b \in Block : NodeBlock(b)
  BY <1>2, TidyNode
<1>3. CASE MainLoop
  BY <1>3, TidyCall, TidyCompareWithTip, TidyIndexForkBlock, TidyDemoteReplaced,
     TidyCompareBelow, TidyRebuild, TidySaveBlock, TidySaveDemote, TidySaveFails,
     TidyPushBlock DEF MainLoop
<1>4. CASE IndexOrphans
  BY <1>4, TidyOrphans
<1>5. CASE Indexer
  BY <1>5, TidyIndexer
<1>6. CASE Throw
  BY <1>6, TidyCall
<1>8. CASE IndexerThrows
  BY <1>8, TidyIndexer
<1>7. CASE \E list \in {<<>>, disk} : Restart(list)
  BY <1>7, TidyRestart
<1> QED BY <1>1, <1>2, <1>3, <1>4, <1>5, <1>6, <1>7, <1>8 DEF Next

LEMMA InitTidy == Init => Tidy
<1> SUFFICES ASSUME Init PROVE Tidy
  OBVIOUS
<1>1. active \in Block /\ active = Root /\ blocks = <<active>> /\ Tip = active
  BY RootUnique DEF Init, Roots, Tip, Last
<1>2. Canonical = {active} /\ row[active] = "canonical" /\ await = "idle"
  BY <1>1 DEF Canonical, Init
<1>3. ListChain /\ ListMatches /\ OneBranch
  BY <1>1, <1>2, BranchSelf DEF ListChain, ListMatches, OneBranch, OneBranchBelow
<1> QED BY <1>2, <1>3 DEF Tidy, WalkAwaits

(***************************************************************************)
(* The theorems                                                            *)
(***************************************************************************)

\* The inductive invariant: the list, the table and the branch being walked
\* fit together at every await of $updateBlocks and $handleReorgs.
THEOREM BlocksInvariant == Spec => []BInv
<1>1. Init => BInv
  BY InitShape, InitTidy DEF BInv
<1>2. BInv /\ [Next]_vars => BInv'
  BY ShapeNext, TidyNext DEF BInv
<1> QED BY <1>1, <1>2, PTL DEF Spec

\* $updateBlocks and the indexer keep their state in shape: in particular they
\* only ask for heights that the node's chain has.
THEOREM BlocksTypeOK == Spec => []TypeOK
<1>1. BInv => TypeOK
  BY DEF BInv, Shape
<1> QED BY <1>1, BlocksInvariant, PTL

\* The list that clients are given is one chain, for every tree of blocks.
THEOREM BlocksServedChain == Spec => []ServedChain
<1>1. ASSUME BInv, clean, NEW i \in 1..Len(blocks) - 1
      PROVE  /\ Height[blocks[i]] < Height[blocks[i + 1]]
             /\ Height[blocks[i]] + 1 = Height[blocks[i + 1]]
                => blocks[i] = Prev[blocks[i + 1]]
  <2>1. /\ blocks \in Seq(Block) /\ i \in DOMAIN blocks /\ i + 1 \in DOMAIN blocks
        /\ i < i + 1
    BY <1>1 DEF BInv, Shape, TypeOK
  <2> DEFINE a == blocks[i]
             b == blocks[i + 1]
  <2>2. a \in Block /\ b \in Block /\ Height[a] < Height[b]
    BY <1>1, <2>1 DEF BInv, Shape, ListShape, Increasing
  <2>3. Tip \in Block /\ a \in Branch[Tip] /\ b \in Branch[Tip]
    BY <1>1, <2>1, TipShape DEF BInv, Tidy, ListChain
  <2>4. a \in Branch[b]
    BY <2>2, <2>3, BranchLinear, ConstantTypes
  <2>5. Prev[b] # None /\ a \in Branch[Prev[b]]
    BY <2>2, <2>4, BranchUnfolds, ConstantTypes
  <2>6. Height[a] + 1 = Height[b] => a = Prev[b]
    BY <2>2, <2>5, BranchLower, ConstantTypes
  <2> QED BY <2>2, <2>6
<1>2. BInv => ServedChain
  BY <1>1 DEF ServedChain
<1> QED BY <1>2, BlocksInvariant, PTL

\* The list and the table agree between two calls, as the next comparison of
\* $handleReorgs takes for granted.
THEOREM BlocksMemoryMatchesTable == Spec => []MemoryMatchesTable
<1>1. ASSUME BInv, clean, await = "idle" 
      PROVE  /\ \A i \in DOMAIN blocks : Rivals(blocks[i]) = {}
             /\ blocks # <<>> => row[Last(blocks)] = "canonical"
  <2>1. ListMatches /\ ListChain /\ Increasing(blocks) /\ blocks \in Seq(Block)
    BY <1>1 DEF BInv, Shape, TypeOK, ListShape, Tidy, WalkAwaits
  <2>2. ASSUME NEW i \in DOMAIN blocks, NEW c \in Canonical,
               Height[c] = Height[blocks[i]]
        PROVE  c = blocks[i]
    <3>1. blocks # <<>> /\ blocks[i] \in Block /\ Tip \in Block
          /\ Height[blocks[i]] <= Height[Tip] /\ blocks[i] \in Branch[Tip]
      BY <2>1, IncreasingLast DEF ListChain, Tip
    <3>2. c \in Branch[Tip]
      BY <2>1, <2>2, <3>1 DEF ListMatches
    <3>3. c \in Branch[blocks[i]]
      BY <2>2, <3>1, <3>2, BranchLinear, ConstantTypes
    <3> QED BY <2>2, <3>1, <3>3, BranchLower
  <2> QED BY <2>1, <2>2 DEF Rivals, CanonicalAt, ListMatches, Tip
<1>2. BInv => MemoryMatchesTable
  BY <1>1 DEF MemoryMatchesTable
<1> QED BY <1>2, BlocksInvariant, PTL

\* Once the list ends in the node's tip no reorganisation has left a canonical
\* block of another branch behind, for every tree of blocks.
THEOREM BlocksTableOnBestChain == Spec => []TableOnBestChain
<1>1. ASSUME BInv, clean, await = "idle", blocks # <<>>, Last(blocks) = active
      PROVE  Canonical \subseteq BestChain
  <2>1. Tip = active /\ ListMatches /\ Shape
    BY <1>1 DEF BInv, Tidy, WalkAwaits, Tip
  <2> QED BY <1>1, <2>1, CanonicalShape DEF ListMatches, BestChain
<1>2. BInv => TableOnBestChain
  BY <1>1 DEF TableOnBestChain
<1> QED BY <1>2, BlocksInvariant, PTL
=============================================================================
