------------------------ MODULE ChainSelectionProofs ------------------------
(***************************************************************************)
(* The safety properties of ChainSelection, for every tree of blocks and   *)
(* every order in which their data comes: the search for the best chain    *)
(* walks over blocks with data only, no failed block is in the active      *)
(* chain, no good branch is lost from the candidates, which never run out, *)
(* and when a node without keys and operator comes to rest its tip has the *)
(* most work.                                                              *)
(***************************************************************************)
EXTENDS ChainSelection, OrderLemmas, FiniteSetTheorems

-----------------------------------------------------------------------------
(***************************************************************************)
(* The inductive invariant.                                                *)
(***************************************************************************)

Typed ==
    /\ [valid |-> valid, coming |-> coming, events |-> events] \in Scenarios
    /\ have \subseteq Blocks /\ failed \subseteq Blocks /\ passed \subseteq Nodes
    /\ sequenceId \in [Nodes -> Nat] /\ candidates \in Seq(Nodes)
    /\ tip \in Nodes /\ most \in Nodes /\ oldTip \in Nodes
    /\ op \in {"idle", "find", "step", "end"} /\ caller \in {"activate", "setlast"}

\* b and all the blocks before it are among the data h.
Complete(h, b) == \A a \in Blocks : OnBranch(a, b) => a \in h

\* Linked is what is complete, and what waits is all the rest.
Data ==
    /\ linked = {b \in Blocks : Complete(have, b)}
    /\ unlinked = {<<Parent[b], b>> : b \in have \ linked}
    /\ Complete(have, tip) /\ \A b \in passed : Complete(have, b)

DInv == Typed /\ Data

\* b and the blocks before it break no rule.
Clean(b) == \A a \in Blocks : OnBranch(a, b) => a \in valid

\* Unless the operator fails what he likes, failed is only what breaks a rule
\* or comes after it, and the tip does not.
Just == "invalidate" \notin events => Clean(tip) /\ \A b \in failed : ~Clean(b)

JInv == DInv /\ Just

\* Whoever walks up the chain knows that it did not fail: ActivateBestChain
\* looked at it, SetLastBlock relies on the rules.
Unfailed ==
    /\ good(tip)
    /\ caller = "setlast" => "setlast" \in events
    /\ caller = "activate" /\ op = "step" => good(most)

\* SetLastBlock does not look for failed blocks below the one it is given.
Apart == ~({"invalidate", "setlast"} \subseteq events)

FInv == JInv /\ (Apart => Unfailed)

Calm == {"invalidate", "wallet"} \cap events = {}

InOrder(o, c) == \A i, j \in 1..Len(c) : i < j => Less(o, c[i], c[j])

\* Reconsidered blocks are good again but not in the set.
Keeps(b) == Clean(b) \/ ("reconsider" \notin events /\ good(b))

\* Of the blocks to keep none is missing from some former tip on.
Kept ==
    \E w \in Range(candidates) :
        /\ Clean(w)
        /\ \A b \in linked \cup {0} :
              Keeps(b) /\ ~Less(order, b, w) => b \in Range(candidates)

Sound ==
    /\ wallet = {} /\ canMine = {} /\ mined = FALSE
    /\ InOrder(order, candidates) /\ Range(candidates) \subseteq linked \cup {0}
    /\ Kept

CandInv == JInv /\ (Calm => Sound)

\* The candidate that was chosen stays until it is the tip, or fails.
LeftInv == CandInv /\ (caller = "activate" /\ op = "step" => most \in Range(candidates))

NoneAbove(t) == \A b \in linked : good(b) => Height(b) <= Height(t)

\* Where nobody interferes, what was chosen is the best there is.
Settled ==
    /\ caller = "activate"
    /\ op # "idle" => activate
    /\ op = "idle" /\ ~activate => NoneAbove(tip)
    /\ op \in {"step", "end"} => NoneAbove(most)

Quiet == events \subseteq {"restart"}

BestInv == CandInv /\ (Quiet => Settled)

-----------------------------------------------------------------------------
(***************************************************************************)
(* The tree.                                                               *)
(***************************************************************************)

LEMMA Numbered ==
    /\ Len(Parent) \in Nat /\ 0 \in Nodes /\ Nodes \subseteq Nat /\ Nodes = Blocks \cup {0}
    /\ 0 \notin Blocks
    /\ \A b \in Blocks : b \in Nodes /\ Parent[b] \in Nodes /\ Parent[b] < b /\ b \in Nat \ {0}
  <1>1. Len(Parent) \in Nat
    BY SelectionAssumption, LenProperties
  <1> QED
    BY <1>1, SelectionAssumption DEF Nodes, Blocks

\* f is the sequence of the blocks before b, for every b up to n.
Rooted(f, n) ==
    /\ f \in [0..n -> Seq(Nodes)]
    /\ \A b \in 0..n : f[b] = IF b = 0 THEN <<0>> ELSE Append(f[Parent[b]], b)

LEMMA RootedExists ==
    ASSUME NEW n \in Nodes
    PROVE  \E f : Rooted(f, n)
  <1> DEFINE T == {m \in Nodes : ~(\E f : Rooted(f, m))}
  <1>1. SUFFICES ASSUME T # {} PROVE FALSE
    OBVIOUS
  <1>2. T \in SUBSET Nat
    BY Numbered
  <1>3. PICK m \in T : \A k \in T : m <= k
    BY <1>1, <1>2, Least
  <1>4. m \in Nodes /\ ~(\E f : Rooted(f, m)) /\ m \in Nat
    BY <1>2, <1>3
  <1>5. m # 0
    <2> DEFINE f == [b \in 0..0 |-> <<0>>]
    <2>1. 0..0 = {0}
      OBVIOUS
    <2>2. <<0>> \in Seq(Nodes)
      BY Numbered
    <2>3. Rooted(f, 0)
      BY <2>1, <2>2 DEF Rooted
    <2> QED
      BY <1>4, <2>3
  <1>6. m - 1 \in Nodes /\ m - 1 \notin T
    <2>1. m \in 0..Len(Parent) /\ Len(Parent) \in Nat
      BY <1>4, Numbered DEF Nodes
    <2>2. m - 1 \in Nodes /\ m - 1 < m
      BY <1>5, <2>1 DEF Nodes
    <2> QED
      BY <1>3, <1>4, <2>2
  <1>7. PICK f : Rooted(f, m - 1)
    BY <1>6
  <1> DEFINE g == [b \in 0..m |-> IF b = m THEN Append(f[Parent[m]], m) ELSE f[b]]
  <1>8. Parent[m] \in 0..(m - 1) /\ m \in Blocks
    <2>1. m \in Blocks
      BY <1>4, <1>5, Numbered
    <2>2. Parent[m] \in Nat /\ Parent[m] < m
      BY <2>1, Numbered
    <2> QED
      BY <1>4, <2>1, <2>2
  <1>9. Append(f[Parent[m]], m) \in Seq(Nodes)
    <2>1. f[Parent[m]] \in Seq(Nodes)
      BY <1>7, <1>8 DEF Rooted
    <2> QED
      BY <1>4, <2>1
  <1>10. \A b \in 0..m : b = m \/ b \in 0..(m - 1)
    BY <1>4, <1>5
  <1>11. g \in [0..m -> Seq(Nodes)]
    BY <1>7, <1>9, <1>10 DEF Rooted
  <1>12. ASSUME NEW b \in 0..m
         PROVE  g[b] = IF b = 0 THEN <<0>> ELSE Append(g[Parent[b]], b)
    <2>1. CASE b = m
      BY <1>4, <1>5, <1>8, <2>1
    <2>2. CASE b # m
      <3>1. b \in 0..(m - 1) /\ b \in Nodes
        BY <1>4, <1>10, <2>2, Numbered DEF Nodes
      <3>2. b # 0 => Parent[b] \in 0..m /\ Parent[b] # m
        <4>1. b # 0 => Parent[b] \in Nat /\ Parent[b] < b
          BY <3>1, Numbered
        <4> QED
          BY <1>4, <3>1, <4>1
      <3>3. f[b] = IF b = 0 THEN <<0>> ELSE Append(f[Parent[b]], b)
        BY <1>7, <3>1 DEF Rooted
      <3> QED
        BY <2>2, <3>2, <3>3
    <2> QED
      BY <2>1, <2>2
  <1>13. Rooted(g, m)
    BY <1>11, <1>12 DEF Rooted
  <1> QED
    BY <1>4, <1>13

LEMMA BranchIs ==
    /\ Branch \in [Nodes -> Seq(Nodes)]
    /\ Branch[0] = <<0>>
    /\ \A b \in Blocks : Branch[b] = Append(Branch[Parent[b]], b)
  <1> DEFINE F(f) == [b \in Nodes |-> IF b = 0 THEN <<0>> ELSE Append(f[Parent[b]], b)]
  <1>1. Len(Parent) \in Nodes /\ Nodes = 0..Len(Parent)
    BY Numbered DEF Nodes
  <1>2. PICK f : Rooted(f, Len(Parent))
    BY <1>1, RootedExists
  <1>3. f = F(f)
    BY <1>1, <1>2 DEF Rooted
  <1> DEFINE to == CHOOSE g : g = F(g)
  <1>4. Branch = F(Branch)
    <2>1. to = F(to)
      <3> HIDE DEF F
      <3> QED
        BY <1>3
    <2>2. Branch = [b \in Nodes |-> to[b]]
      BY DEF Branch
    <2>3. Branch = to
      <3> HIDE DEF to
      <3> QED
        BY <2>1, <2>2
    <2> HIDE DEF to
    <2> QED
      BY <2>1, <2>3
  <1> HIDE DEF F
  <1>5. \A b \in Nodes : Branch[b] = IF b = 0 THEN <<0>> ELSE Append(Branch[Parent[b]], b)
    BY <1>4 DEF F
  <1>6. \A b \in Nodes : Branch[b] \in Seq(Nodes)
    <2> DEFINE T == {b \in Nodes : Branch[b] \notin Seq(Nodes)}
    <2>1. SUFFICES ASSUME T # {} PROVE FALSE
      OBVIOUS
    <2>2. T \in SUBSET Nat
      BY Numbered
    <2>3. PICK m \in T : \A k \in T : m <= k
      BY <2>1, <2>2, Least
    <2>4. m # 0
      <3>1. <<0>> \in Seq(Nodes)
        BY Numbered
      <3> QED
        BY <1>5, <2>3, <3>1, Numbered
    <2>5. m \in Blocks /\ Parent[m] \in Nodes /\ Parent[m] < m /\ m \in Nat /\ Parent[m] \in Nat
      BY <2>3, <2>4, Numbered
    <2>6. Parent[m] \notin T
      BY <2>3, <2>5
    <2>7. Branch[Parent[m]] \in Seq(Nodes)
      BY <2>5, <2>6
    <2>8. Branch[m] = Append(Branch[Parent[m]], m) /\ m \in Nodes
      BY <1>5, <2>3, <2>4
    <2>9. Branch[m] \in Seq(Nodes)
      BY <2>7, <2>8, AppendProperties
    <2> QED
      BY <2>3, <2>9
  <1>7. Branch \in [Nodes -> Seq(Nodes)]
    <2>1. Branch = [b \in Nodes |-> Branch[b]]
      BY <1>4 DEF F
    <2> QED
      BY <1>6, <2>1
  <1> QED
    BY <1>5, <1>7, Numbered

\* What holds of genesis and with a block of those that follow it.
LEMMA TreeInduction ==
    ASSUME NEW S, 0 \in S, \A b \in Blocks : Parent[b] \in S => b \in S
    PROVE  Nodes \subseteq S
  <1> DEFINE T == Nodes \ S
  <1>1. SUFFICES ASSUME T # {} PROVE FALSE
    OBVIOUS
  <1>2. T \in SUBSET Nat
    BY Numbered
  <1>3. PICK m \in T : \A k \in T : m <= k
    BY <1>1, <1>2, Least
  <1>4. m \in Blocks /\ m \notin S /\ m \in Nat
    BY <1>2, <1>3, Numbered
  <1>5. Parent[m] \in Nodes /\ Parent[m] < m /\ Parent[m] \in Nat
    BY <1>4, Numbered
  <1>6. Parent[m] \notin T
    BY <1>3, <1>4, <1>5
  <1> QED
    BY <1>4, <1>5, <1>6

LEMMA Lengths ==
    \A b \in Nodes : /\ Branch[b] \in Seq(Nodes) /\ Len(Branch[b]) \in Nat \ {0}
                     /\ Height(b) = Len(Branch[b]) - 1 /\ Height(b) \in Nat
  <1>1. ASSUME NEW b \in Nodes PROVE Branch[b] \in Seq(Nodes) /\ Len(Branch[b]) \in Nat \ {0}
    <2>1. Branch[b] \in Seq(Nodes)
      BY BranchIs
    <2>2. CASE b = 0
      <3>1. Len(<<0>>) = 1
        OBVIOUS
      <3> QED
        BY <2>1, <2>2, <3>1, BranchIs
    <2>3. CASE b # 0
      <3>1. b \in Blocks /\ Parent[b] \in Nodes
        BY <2>3, Numbered
      <3>2. Branch[Parent[b]] \in Seq(Nodes) /\ Branch[b] = Append(Branch[Parent[b]], b)
        BY <3>1, BranchIs
      <3>3. Len(Branch[b]) = Len(Branch[Parent[b]]) + 1 /\ Len(Branch[Parent[b]]) \in Nat
        BY <3>2, AppendProperties, LenProperties
      <3> QED
        BY <2>1, <3>3
    <2> QED
      BY <2>2, <2>3
  <1>2. \A b \in Nodes : Height(b) = Len(Branch[b]) - 1
    BY DEF Height, Heights
  <1> QED
    BY <1>1, <1>2

\* The branch of a block is that of its parent and the block.
LEMMA Grown ==
    ASSUME NEW b \in Blocks
    PROVE  /\ Len(Branch[b]) = Len(Branch[Parent[b]]) + 1
           /\ Branch[b][Len(Branch[b])] = b
           /\ \A i \in 1..Len(Branch[Parent[b]]) : Branch[b][i] = Branch[Parent[b]][i]
           /\ Height(b) = Height(Parent[b]) + 1
  <1> DEFINE s == Branch[Parent[b]]
  <1>1. b \in Nodes /\ Parent[b] \in Nodes
    BY Numbered
  <1>2. s \in Seq(Nodes) /\ Branch[b] = Append(s, b)
    BY <1>1, BranchIs
  <1>3. Len(Branch[b]) = Len(s) + 1 /\ Branch[b][Len(s) + 1] = b
        /\ \A i \in 1..Len(s) : Branch[b][i] = s[i]
    <2> HIDE DEF s
    <2> QED
      BY <1>1, <1>2, AppendProperties
  <1>4. Height(b) = Height(Parent[b]) + 1
    <2>1. Len(Branch[b]) = Len(s) + 1
      BY <1>3
    <2>2. Height(b) = Len(Branch[b]) - 1
      BY <1>1, Lengths
    <2>3. Height(Parent[b]) = Len(s) - 1 /\ Len(s) \in Nat
      BY <1>1, Lengths
    <2> HIDE DEF s
    <2> QED
      BY <2>1, <2>2, <2>3
  <1> QED
    BY <1>3, <1>4

LEMMA Genesis ==
    /\ Height(0) = 0
    /\ \A a \in Nodes : OnBranch(a, 0) <=> a = 0
  <1>1. Branch[0] = <<0>> /\ 0 \in Nodes
    BY BranchIs, Numbered
  <1>2. Height(0) = 0
    <2>1. Len(Branch[0]) = 1
      BY <1>1
    <2>2. Height(0) = Len(Branch[0]) - 1
      BY <1>1, Lengths
    <2> QED
      BY <2>1, <2>2
  <1>3. ASSUME NEW a \in Nodes PROVE OnBranch(a, 0) <=> a = 0
    <2>1. OnBranch(a, 0) <=> \E i \in 1..Len(Branch[0]) : Branch[0][i] = a
      BY <1>1 DEF OnBranch, Ancestry
    <2> QED
      BY <1>1, <2>1
  <1> QED
    BY <1>2, <1>3

\* A block is not higher than its number.
LEMMA NotHigher == \A b \in Nodes : Height(b) <= b
  <1> DEFINE S == {b \in Nodes : Height(b) <= b}
  <1>1. 0 \in S
    BY Numbered, Genesis
  <1>2. ASSUME NEW b \in Blocks, Parent[b] \in S PROVE b \in S
    <2>1. Parent[b] < b /\ Parent[b] \in Nat /\ b \in Nat /\ b \in Nodes /\ Parent[b] \in Nodes
      BY Numbered
    <2>2. Height(b) = Height(Parent[b]) + 1 /\ Height(Parent[b]) <= Parent[b]
          /\ Height(Parent[b]) \in Nat
      BY <1>2, <2>1, Grown, Lengths
    <2> QED
      BY <2>1, <2>2
  <1>3. Nodes \subseteq S
    BY <1>1, <1>2, TreeInduction
  <1> QED
    BY <1>3

LEMMA Follows ==
    ASSUME NEW a \in Nodes, NEW b \in Blocks
    PROVE  OnBranch(a, b) <=> a = b \/ OnBranch(a, Parent[b])
  <1> DEFINE p == Parent[b]
  <1>1. b \in Nodes /\ p \in Nodes
    BY Numbered
  <1>2. /\ OnBranch(a, b) <=> \E i \in 1..Len(Branch[b]) : Branch[b][i] = a
        /\ OnBranch(a, p) <=> \E i \in 1..Len(Branch[p]) : Branch[p][i] = a
    BY <1>1 DEF OnBranch, Ancestry
  <1>3. /\ Len(Branch[b]) = Len(Branch[p]) + 1 /\ Branch[b][Len(Branch[b])] = b
        /\ \A i \in 1..Len(Branch[p]) : Branch[b][i] = Branch[p][i]
        /\ Len(Branch[p]) \in Nat
    BY <1>1, Grown, Lengths
  <1> HIDE DEF p
  <1> DEFINE s == Branch[b]
             t == Branch[p]
  <1>4. \A i \in 1..Len(s) : i \in 1..Len(t) \/ i = Len(s)
    BY <1>3
  <1>5. Len(s) \in 1..Len(s) /\ \A i \in 1..Len(t) : i \in 1..Len(s)
    BY <1>3
  <1> HIDE DEF s, t
  <1>6. (\E i \in 1..Len(s) : s[i] = a) <=> a = b \/ \E i \in 1..Len(t) : t[i] = a
    BY <1>3, <1>4, <1>5 DEF s, t
  <1> QED
    BY <1>2, <1>6 DEF p, s, t

LEMMA OnNodes == \A a, b : OnBranch(a, b) => a \in Nodes /\ b \in Nodes
  BY DEF OnBranch, Ancestry

LEMMA Itself == \A b \in Nodes : OnBranch(b, b) /\ OnBranch(0, b)
  <1> DEFINE S == {b \in Nodes : OnBranch(b, b) /\ OnBranch(0, b)}
  <1>1. 0 \in S
    BY Numbered, Genesis
  <1>2. ASSUME NEW b \in Blocks, Parent[b] \in S PROVE b \in S
    BY <1>2, Numbered, Follows
  <1>3. Nodes \subseteq S
    BY <1>1, <1>2, TreeInduction
  <1> QED
    BY <1>3

LEMMA Transitive ==
    ASSUME NEW a, NEW b, NEW c, OnBranch(a, b), OnBranch(b, c)
    PROVE  OnBranch(a, c)
  <1> DEFINE S == {d \in Nodes : OnBranch(b, d) => OnBranch(a, d)}
  <1>1. a \in Nodes /\ b \in Nodes /\ c \in Nodes
    BY OnNodes
  <1>2. 0 \in S
    BY <1>1, Numbered, Genesis
  <1>3. ASSUME NEW d \in Blocks, Parent[d] \in S PROVE d \in S
    BY <1>1, <1>3, Numbered, Follows
  <1>4. Nodes \subseteq S
    BY <1>2, <1>3, TreeInduction
  <1> QED
    BY <1>1, <1>4

LEMMA Lower ==
    ASSUME NEW a, NEW b, OnBranch(a, b)
    PROVE  /\ Height(a) <= Height(b) /\ Height(a) \in Nat /\ Height(b) \in Nat
           /\ Height(a) = Height(b) => a = b
  <1> DEFINE S == {d \in Nodes : OnBranch(a, d) => Height(a) <= Height(d)
                                                  /\ (Height(a) = Height(d) => a = d)}
  <1>1. a \in Nodes /\ b \in Nodes /\ Height(a) \in Nat /\ Height(b) \in Nat
    BY OnNodes, Lengths
  <1>2. 0 \in S
    BY <1>1, Numbered, Genesis
  <1>3. ASSUME NEW d \in Blocks, Parent[d] \in S PROVE d \in S
    <2>1. d \in Nodes /\ Parent[d] \in Nodes /\ Height(Parent[d]) \in Nat
          /\ Height(d) = Height(Parent[d]) + 1
      BY Numbered, Lengths, Grown
    <2>2. OnBranch(a, d) <=> a = d \/ OnBranch(a, Parent[d])
      BY <1>1, Follows
    <2> QED
      BY <1>1, <1>3, <2>1, <2>2
  <1>4. Nodes \subseteq S
    BY <1>2, <1>3, TreeInduction
  <1> QED
    BY <1>1, <1>4

LEMMA Comparable ==
    ASSUME NEW a, NEW b, NEW c, OnBranch(a, c), OnBranch(b, c)
    PROVE  OnBranch(a, b) \/ OnBranch(b, a)
  <1> DEFINE S == {d \in Nodes : OnBranch(a, d) /\ OnBranch(b, d) => OnBranch(a, b) \/ OnBranch(b, a)}
  <1>1. a \in Nodes /\ b \in Nodes /\ c \in Nodes
    BY OnNodes
  <1>2. 0 \in S
    BY <1>1, Numbered, Genesis
  <1>3. ASSUME NEW d \in Blocks, Parent[d] \in S PROVE d \in S
    <2>1. /\ OnBranch(a, d) <=> a = d \/ OnBranch(a, Parent[d])
          /\ OnBranch(b, d) <=> b = d \/ OnBranch(b, Parent[d])
      BY <1>1, Follows
    <2> QED
      BY <1>3, <2>1, Numbered
  <1>4. Nodes \subseteq S
    BY <1>2, <1>3, TreeInduction
  <1> QED
    BY <1>1, <1>4

\* The block at position i of a branch is the one of height i - 1, and the parent of the
\* next.
LEMMA Position ==
    ASSUME NEW c \in Nodes, NEW i \in 1..Len(Branch[c])
    PROVE  /\ OnBranch(Branch[c][i], c) /\ Height(Branch[c][i]) = i - 1
           /\ i > 1 => Branch[c][i] \in Blocks /\ Branch[c][i - 1] = Parent[Branch[c][i]]
  <1> DEFINE S == {d \in Nodes : \A j \in 1..Len(Branch[d]) :
                        /\ OnBranch(Branch[d][j], d) /\ Height(Branch[d][j]) = j - 1
                        /\ j > 1 => /\ Branch[d][j] \in Blocks
                                    /\ Branch[d][j - 1] = Parent[Branch[d][j]]}
  <1>1. 0 \in S
    <2>1. Branch[0] = <<0>> /\ 0 \in Nodes /\ Height(0) = 0 /\ OnBranch(0, 0)
      BY BranchIs, Numbered, Genesis
    <2>2. \A j \in 1..Len(Branch[0]) : j = 1 /\ Branch[0][j] = 0
      BY <2>1
    <2> QED
      BY <2>1, <2>2
  <1>2. ASSUME NEW d \in Blocks, Parent[d] \in S PROVE d \in S
    <2> DEFINE p == Parent[d]
               s == Branch[d]
               t == Branch[p]
    <2>1. d \in Nodes /\ p \in Nodes
      BY Numbered
    <2>2. /\ Len(s) = Len(t) + 1 /\ s[Len(s)] = d /\ Height(d) = Len(s) - 1
          /\ \A j \in 1..Len(t) : s[j] = t[j]
          /\ Len(t) \in Nat \ {0}
      BY <2>1, Grown, Lengths
    <2>3. \A j \in 1..Len(t) : /\ OnBranch(t[j], p) /\ Height(t[j]) = j - 1
                               /\ j > 1 => t[j] \in Blocks /\ t[j - 1] = Parent[t[j]]
      BY <1>2
    <2>4. t[Len(t)] = p
      <3>1. CASE p = 0
        BY <3>1, BranchIs
      <3>2. CASE p # 0
        BY <2>1, <3>2, Numbered, Grown
      <3> QED
        BY <3>1, <3>2
    <2> HIDE DEF p, s, t
    <2>5. SUFFICES ASSUME NEW j \in 1..Len(s)
                   PROVE  /\ OnBranch(s[j], d) /\ Height(s[j]) = j - 1
                          /\ j > 1 => s[j] \in Blocks /\ s[j - 1] = Parent[s[j]]
      BY <2>1 DEF s
    <2>6. CASE j \in 1..Len(t)
      <3>1. s[j] = t[j] /\ (j > 1 => j - 1 \in 1..Len(t) /\ s[j - 1] = t[j - 1])
        BY <2>2, <2>6
      <3>2. OnBranch(t[j], d)
        <4>1. OnBranch(t[j], p) /\ t[j] \in Nodes
          BY <2>3, <2>6, OnNodes
        <4> QED
          BY <4>1, Follows DEF p
      <3> QED
        BY <2>3, <2>6, <3>1, <3>2
    <2>7. CASE j = Len(s)
      <3>1. s[j] = d /\ OnBranch(d, d) /\ Height(d) = j - 1
        BY <2>1, <2>2, <2>7, Itself
      <3>2. s[j - 1] = p
        BY <2>2, <2>4, <2>7
      <3> QED
        BY <3>1, <3>2 DEF p
    <2> QED
      BY <2>2, <2>6, <2>7
  <1>3. Nodes \subseteq S
    BY <1>1, <1>2, TreeInduction
  <1> QED
    BY <1>3

-----------------------------------------------------------------------------
(***************************************************************************)
(* The order.                                                              *)
(***************************************************************************)

\* What the comparator reads is numbers.
Readable(o) == \A b \in Nodes : o.seq[b] \in Nat

LEMMA Strict ==
    ASSUME NEW o, Readable(o), NEW a \in Nodes, NEW b \in Nodes
    PROVE  /\ ~Less(o, a, a)
           /\ ~(Less(o, a, b) /\ Less(o, b, a))
           /\ a = b \/ Less(o, a, b) \/ Less(o, b, a)
  <1> DEFINE ha == Height(a)
             hb == Height(b)
             sa == o.seq[a]
             sb == o.seq[b]
  <1>1. ha \in Nat /\ hb \in Nat /\ sa \in Nat /\ sb \in Nat
    BY Lengths DEF Readable
  <1>2. a \in Nat /\ b \in Nat
    BY Numbered
  <1>3. /\ Less(o, a, b) <=> \/ ha < hb
                             \/ /\ ha = hb
                                /\ \/ a \notin o.can /\ b \in o.can
                                   \/ /\ a \in o.can <=> b \in o.can
                                      /\ sa > sb \/ (sa = sb /\ a > b)
        /\ Less(o, b, a) <=> \/ hb < ha
                             \/ /\ hb = ha
                                /\ \/ b \notin o.can /\ a \in o.can
                                   \/ /\ b \in o.can <=> a \in o.can
                                      /\ sb > sa \/ (sb = sa /\ b > a)
        /\ Less(o, a, a) <=> \/ ha < ha
                             \/ /\ ha = ha
                                /\ \/ a \notin o.can /\ a \in o.can
                                   \/ /\ a \in o.can <=> a \in o.can
                                      /\ sa > sa \/ (sa = sa /\ a > a)
    BY DEF Less
  <1> HIDE DEF ha, hb, sa, sb
  <1> QED
    BY <1>1, <1>2, <1>3

LEMMA Transits ==
    ASSUME NEW o, Readable(o), NEW a \in Nodes, NEW b \in Nodes, NEW c \in Nodes,
           Less(o, a, b), Less(o, b, c)
    PROVE  Less(o, a, c)
  <1> DEFINE ha == Height(a)
             hb == Height(b)
             hc == Height(c)
             sa == o.seq[a]
             sb == o.seq[b]
             sc == o.seq[c]
  <1>1. /\ ha \in Nat /\ hb \in Nat /\ hc \in Nat
        /\ sa \in Nat /\ sb \in Nat /\ sc \in Nat
    BY Lengths DEF Readable
  <1>2. a \in Nat /\ b \in Nat /\ c \in Nat
    BY Numbered
  <1>3. /\ \/ ha < hb
           \/ /\ ha = hb
              /\ \/ a \notin o.can /\ b \in o.can
                 \/ /\ a \in o.can <=> b \in o.can
                    /\ sa > sb \/ (sa = sb /\ a > b)
        /\ \/ hb < hc
           \/ /\ hb = hc
              /\ \/ b \notin o.can /\ c \in o.can
                 \/ /\ b \in o.can <=> c \in o.can
                    /\ sb > sc \/ (sb = sc /\ b > c)
        /\ Less(o, a, c) <=> \/ ha < hc
                             \/ /\ ha = hc
                                /\ \/ a \notin o.can /\ c \in o.can
                                   \/ /\ a \in o.can <=> c \in o.can
                                      /\ sa > sc \/ (sa = sc /\ a > c)
    BY DEF Less
  <1> HIDE DEF ha, hb, hc, sa, sb, sc
  <1> QED
    BY <1>1, <1>2, <1>3

\* A block that is not less is at least as high.
LEMMA NotLower ==
    ASSUME NEW o, NEW a \in Nodes, NEW b \in Nodes
    PROVE  /\ ~Less(o, a, b) => Height(b) <= Height(a)
           /\ Less(o, a, b) => Height(a) <= Height(b)
  <1>1. Height(a) \in Nat /\ Height(b) \in Nat
    BY Lengths
  <1>2. Height(a) < Height(b) => Less(o, a, b)
    BY DEF Less
  <1>3. Less(o, a, b) => Height(a) < Height(b) \/ Height(a) = Height(b)
    BY DEF Less
  <1> QED
    BY <1>1, <1>2, <1>3

\* A set of blocks has a last one.
LEMMA LastExists ==
    ASSUME NEW o, Readable(o), NEW s, s \subseteq Nodes, s # {}
    PROVE  Best(o, s) \in s /\ \A c \in s : c = Best(o, s) \/ Less(o, c, Best(o, s))
  <1> DEFINE n == Len(Parent)
             Latest(t, b) == b \in t /\ \A c \in t : c = b \/ Less(o, c, b)
             S == {m \in 0..n : \A t \in SUBSET (0..m) : t # {} => \E b : Latest(t, b)}
  <1>1. n \in Nat /\ Nodes = 0..n
    BY Numbered DEF Nodes
  <1>2. 0 \in S
    <2>1. ASSUME NEW t \in SUBSET (0..0), t # {} PROVE Latest(t, 0)
      <3>1. \A c \in t : c = 0
        OBVIOUS
      <3>2. 0 \in t
        BY <2>1, <3>1
      <3> QED
        BY <3>1, <3>2
    <2> HIDE DEF Latest
    <2> QED
      BY <1>1, <2>1
  <1>3. ASSUME NEW m \in 0..(n - 1), m \in S PROVE m + 1 \in S
    <2>1. SUFFICES ASSUME NEW t \in SUBSET (0..(m + 1)), t # {} PROVE \E b : Latest(t, b)
      BY <1>1
    <2> DEFINE u == t \ {m + 1}
    <2>2. u \in SUBSET (0..m) /\ m + 1 \in Nodes /\ 0..(m + 1) \subseteq Nodes
      BY <1>1
    <2>3. CASE u = {}
      <3>1. Latest(t, m + 1)
        BY <2>1, <2>3
      <3> HIDE DEF Latest
      <3> QED
        BY <3>1
    <2>4. CASE u # {} /\ m + 1 \notin t
      <3>1. u = t
        BY <2>4
      <3> HIDE DEF Latest
      <3> QED
        BY <1>3, <2>2, <2>4, <3>1
    <2>5. CASE u # {} /\ m + 1 \in t
      <3>1. PICK b : Latest(u, b)
        BY <1>3, <2>2, <2>5
      <3>2. b \in Nodes /\ b \in t /\ b # m + 1
        BY <2>2, <3>1
      <3>3. Less(o, b, m + 1) \/ Less(o, m + 1, b)
        BY <2>2, <3>2, Strict
      <3>4. CASE Less(o, m + 1, b)
        <4>1. Latest(t, b)
          BY <3>1, <3>4
        <4> HIDE DEF Latest
        <4> QED
          BY <4>1
      <3>5. CASE Less(o, b, m + 1)
        <4>1. ASSUME NEW c \in t PROVE c = m + 1 \/ Less(o, c, m + 1)
          <5>1. CASE c = m + 1
            BY <5>1
          <5>2. CASE c \in u
            <6>1. c = b \/ Less(o, c, b)
              BY <3>1, <5>2
            <6>2. c \in Nodes
              BY <2>2
            <6> QED
              BY <2>2, <3>2, <3>5, <6>1, <6>2, Transits
          <5> QED
            BY <5>1, <5>2
        <4>2. Latest(t, m + 1)
          BY <2>5, <4>1
        <4> HIDE DEF Latest
        <4> QED
          BY <4>2
      <3> QED
        BY <3>3, <3>4, <3>5
    <2> QED
      BY <2>3, <2>4, <2>5
  <1> HIDE DEF S
  <1>4. 0..n \subseteq S
    BY <1>1, <1>2, <1>3, Induction
  <1>5. \E b : Latest(s, b)
    <2>1. n \in 0..n /\ s \in SUBSET (0..n)
      BY <1>1
    <2>2. n \in S
      BY <1>4, <2>1
    <2> HIDE DEF Latest
    <2> QED
      BY <2>1, <2>2 DEF S
  <1> QED
    BY <1>5 DEF Best

-----------------------------------------------------------------------------
(***************************************************************************)
(* Lists of blocks.                                                        *)
(***************************************************************************)

LEMMA RangeIs ==
    ASSUME NEW c \in Seq(Nodes)
    PROVE  /\ Len(c) \in Nat /\ DOMAIN c = 1..Len(c)
           /\ \A i \in 1..Len(c) : c[i] \in Nodes /\ c[i] \in Range(c)
           /\ \A x : x \in Range(c) <=> \E i \in 1..Len(c) : x = c[i]
           /\ Range(c) \subseteq Nodes
  <1>1. Len(c) \in Nat /\ DOMAIN c = 1..Len(c)
    BY LenProperties
  <1>2. \A i \in 1..Len(c) : c[i] \in Nodes
    BY ElementOfSeq
  <1>3. Range(c) = {c[i] : i \in 1..Len(c)}
    BY <1>1 DEF Range
  <1> QED
    BY <1>1, <1>2, <1>3

LEMMA Joined ==
    ASSUME NEW c \in Seq(Nodes), NEW d \in Seq(Nodes)
    PROVE  c \o d \in Seq(Nodes) /\ Range(c \o d) = Range(c) \cup Range(d)
  BY ConcatProperties, RangeConcatenation

LEMMA Single ==
    ASSUME NEW b \in Nodes
    PROVE  <<b>> \in Seq(Nodes) /\ Range(<<b>>) = {b} /\ Len(<<b>>) = 1 /\ <<b>>[1] = b
  <1>1. <<b>> \in Seq(Nodes) /\ Len(<<b>>) = 1 /\ <<b>>[1] = b
    OBVIOUS
  <1>2. \A x : x \in Range(<<b>>) <=> \E i \in 1..1 : x = <<b>>[i]
    BY <1>1, RangeIs
  <1> QED
    BY <1>1, <1>2

LEMMA Empty == <<>> \in Seq(Nodes) /\ Range(<<>>) = {}
  <1>1. <<>> \in Seq(Nodes) /\ Len(<<>>) = 0
    BY EmptySeq
  <1>2. \A x : x \in Range(<<>>) <=> \E i \in 1..Len(<<>>) : x = <<>>[i]
    BY <1>1, RangeIs
  <1>3. 1..Len(<<>>) = {}
    BY <1>1
  <1> QED
    BY <1>1, <1>2, <1>3

\* f joins the lists item[1] to item[n].
Concats(f, n, item) == f[0] = <<>> /\ \A i \in 1..n : f[i] = f[i - 1] \o item[i]

LEMMA Concatenated ==
    ASSUME NEW n \in Nat, NEW item \in [1..n -> Seq(Nodes)]
    PROVE  /\ \E f \in [0..n -> Seq(Nodes)] : Concats(f, n, item)
           /\ \A f : Concats(f, n, item) =>
                 /\ f[n] \in Seq(Nodes)
                 /\ \A x : x \in Range(f[n]) <=> \E i \in 1..n : x \in Range(item[i])
  <1>1. \E f \in [0..n -> Seq(Nodes)] : Concats(f, n, item)
    <2> DEFINE grow == [i \in 1..n |-> [q \in Seq(Nodes) |-> q \o item[i]]]
    <2>1. grow \in [1..n -> [Seq(Nodes) -> Seq(Nodes)]]
      BY Joined
    <2>2. <<>> \in Seq(Nodes)
      BY Empty
    <2>3. PICK f \in [0..n -> Seq(Nodes)] : Recursive(f, n, <<>>, grow)
      <3> HIDE DEF grow
      <3> QED
        BY <2>1, <2>2, Recursion
    <2>4. \A i \in 1..n : i - 1 \in 0..n
      OBVIOUS
    <2>5. Concats(f, n, item)
      BY <2>3, <2>4 DEF Recursive, Concats
    <2> QED
      BY <2>5
  <1>2. ASSUME NEW f, Concats(f, n, item)
        PROVE  /\ f[n] \in Seq(Nodes)
               /\ \A x : x \in Range(f[n]) <=> \E i \in 1..n : x \in Range(item[i])
    <2> DEFINE S == {m \in 0..n : /\ f[m] \in Seq(Nodes)
                                  /\ \A x : x \in Range(f[m]) <=>
                                        \E i \in 1..m : x \in Range(item[i])}
    <2>1. 0 \in S
      <3>1. f[0] = <<>> /\ 0 \in 0..n
        BY <1>2 DEF Concats
      <3>2. 1..0 = {}
        OBVIOUS
      <3> QED
        BY <3>1, <3>2, Empty
    <2>2. ASSUME NEW m \in 0..(n - 1), m \in S PROVE m + 1 \in S
      <3>1. PICK k \in 1..n : k = m + 1
        OBVIOUS
      <3>2. f[k] = f[k - 1] \o item[k]
        BY <1>2 DEF Concats
      <3>3. k - 1 = m /\ k \in 0..n
        BY <3>1
      <3>4. f[k] \in Seq(Nodes) /\ Range(f[k]) = Range(f[m]) \cup Range(item[k])
        BY <2>2, <3>2, <3>3, Joined
      <3>5. \A i : i \in 1..k <=> i \in 1..m \/ i = k
        BY <3>1
      <3>6. k \in S
        BY <2>2, <3>3, <3>4, <3>5
      <3> QED
        BY <3>1, <3>6
    <2> HIDE DEF S
    <2>3. 0..n \subseteq S
      BY <2>1, <2>2, Induction
    <2>4. n \in S
      BY <2>3
    <2> QED
      BY <2>4 DEF S
  <1> QED
    BY <1>1, <1>2

LEMMA ListedIs ==
    ASSUME NEW s
    PROVE  Listed(s) \in Seq(Nodes) /\ Range(Listed(s)) = s \cap Blocks
  <1> DEFINE n == Len(Parent)
             Item(i) == IF i \in s THEN <<i>> ELSE <<>>
             F(f) == [i \in Nodes |-> IF i = 0 THEN <<>> ELSE f[i - 1] \o Item(i)]
             item == [i \in 1..n |-> Item(i)]
             sel == CHOOSE f : f = F(f)
  <1>1. n \in Nat /\ Nodes = 0..n /\ Blocks = 1..n
    BY Numbered DEF Nodes, Blocks
  <1>2. Listed(s) = sel[n]
    BY DEF Listed
  <1> HIDE DEF n
  <1>3. ASSUME NEW i \in 1..n PROVE item[i] \in Seq(Nodes) /\ Range(item[i]) = s \cap {i}
    <2>1. i \in Nodes
      BY <1>1
    <2>2. CASE i \in s
      <3>1. item[i] = <<i>> /\ s \cap {i} = {i}
        BY <2>2
      <3> QED
        BY <2>1, <3>1, Single
    <2>3. CASE i \notin s
      <3>1. item[i] = <<>> /\ s \cap {i} = {}
        BY <2>3
      <3> QED
        BY <3>1, Empty
    <2> QED
      BY <2>2, <2>3
  <1>4. item \in [1..n -> Seq(Nodes)]
    BY <1>3
  <1> HIDE DEF Item
  <1>5. ASSUME NEW f, f = F(f) PROVE Concats(f, n, item)
    <2>1. \A i \in Nodes : f[i] = IF i = 0 THEN <<>> ELSE f[i - 1] \o Item(i)
      BY <1>5
    <2>2. \A i \in 1..n : i \in Nodes /\ i # 0 /\ item[i] = Item(i)
      BY <1>1
    <2>3. 0 \in Nodes
      BY <1>1
    <2> HIDE DEF F, item
    <2> QED
      BY <2>1, <2>2, <2>3 DEF Concats
  <1>6. \E f : f = F(f)
    <2>1. PICK f \in [0..n -> Seq(Nodes)] : Concats(f, n, item)
      <3> HIDE DEF item
      <3> QED
        BY <1>1, <1>4, Concatenated
    <2>2. ASSUME NEW i \in Nodes
          PROVE  f[i] = IF i = 0 THEN <<>> ELSE f[i - 1] \o Item(i)
      <3>1. i = 0 \/ i \in 1..n
        BY <1>1
      <3>2. i \in 1..n => item[i] = Item(i) /\ i # 0
        BY <1>1
      <3> HIDE DEF item
      <3> QED
        BY <2>1, <3>1, <3>2 DEF Concats
    <2>3. f = F(f)
      BY <1>1, <2>1, <2>2
    <2> QED
      BY <2>3
  <1>7. sel = F(sel)
    <2> HIDE DEF F
    <2> QED
      BY <1>6
  <1>8. Concats(sel, n, item)
    <2> HIDE DEF sel, F, item
    <2> QED
      BY <1>5, <1>7
  <1> HIDE DEF sel, item
  <1>9. /\ sel[n] \in Seq(Nodes)
        /\ \A x : x \in Range(sel[n]) <=> \E i \in 1..n : x \in Range(item[i])
    BY <1>1, <1>4, <1>8, Concatenated
  <1>10. \A x : x \in Range(sel[n]) <=> x \in s \cap Blocks
    <2>1. ASSUME NEW i \in 1..n, NEW x PROVE x \in Range(item[i]) <=> x \in s /\ x = i
      BY <1>3
    <2>2. ASSUME NEW x \in Range(sel[n]) PROVE x \in s \cap Blocks
      <3>1. PICK i \in 1..n : x \in Range(item[i])
        BY <1>9
      <3> QED
        BY <1>1, <2>1, <3>1
    <2>3. ASSUME NEW x \in s \cap Blocks PROVE x \in Range(sel[n])
      <3>1. x \in 1..n
        BY <1>1
      <3>2. x \in Range(item[x])
        BY <2>1, <3>1
      <3> QED
        BY <1>9, <3>1, <3>2
    <2> QED
      BY <2>2, <2>3
  <1> QED
    BY <1>2, <1>9, <1>10

LEMMA ByHeightIs ==
    ASSUME NEW s, s \subseteq Blocks
    PROVE  ByHeight(s) \in Seq(Nodes) /\ Range(ByHeight(s)) = s
  <1> DEFINE n == Len(Parent)
             Item(h) == Listed({b \in s : Height(b) = h})
             F(f) == [h \in Nodes |-> IF h = 0 THEN <<>> ELSE f[h - 1] \o Item(h)]
             item == [h \in 1..n |-> Item(h)]
             sel == CHOOSE f : f = F(f)
  <1>1. n \in Nat /\ Nodes = 0..n /\ Blocks = 1..n
    BY Numbered DEF Nodes, Blocks
  <1>2. ByHeight(s) = sel[n]
    BY DEF ByHeight
  <1>a. \A b \in s : Height(b) \in 1..n
    <2>1. ASSUME NEW b \in s PROVE Height(b) \in 1..n
      <3>1. b \in Nodes /\ b \in Blocks /\ Parent[b] \in Nodes
        BY Numbered
      <3>2. Height(b) = Height(Parent[b]) + 1 /\ Height(Parent[b]) \in Nat
        BY <3>1, Grown, Lengths
      <3>3. Height(b) <= b /\ b <= n
        BY <1>1, <3>1, NotHigher
      <3> QED
        BY <1>1, <3>2, <3>3
    <2> QED
      BY <2>1
  <1> HIDE DEF n
  <1>3. ASSUME NEW h \in 1..n
        PROVE  item[h] \in Seq(Nodes) /\ Range(item[h]) = {b \in s : Height(b) = h}
    <2>1. {b \in s : Height(b) = h} \cap Blocks = {b \in s : Height(b) = h}
      OBVIOUS
    <2> QED
      BY <2>1, ListedIs
  <1>4. item \in [1..n -> Seq(Nodes)]
    <2>1. \A h \in 1..n : Item(h) \in Seq(Nodes)
      BY ListedIs
    <2> HIDE DEF Item
    <2> QED
      BY <2>1
  <1> HIDE DEF Item
  <1>5. ASSUME NEW f, f = F(f) PROVE Concats(f, n, item)
    <2>1. \A h \in Nodes : f[h] = IF h = 0 THEN <<>> ELSE f[h - 1] \o Item(h)
      BY <1>5
    <2>2. \A h \in 1..n : h \in Nodes /\ h # 0 /\ item[h] = Item(h)
      BY <1>1
    <2>3. 0 \in Nodes
      BY <1>1
    <2> HIDE DEF F, item
    <2> QED
      BY <2>1, <2>2, <2>3 DEF Concats
  <1>6. \E f : f = F(f)
    <2>1. PICK f \in [0..n -> Seq(Nodes)] : Concats(f, n, item)
      <3> HIDE DEF item
      <3> QED
        BY <1>1, <1>4, Concatenated
    <2>2. ASSUME NEW h \in Nodes
          PROVE  f[h] = IF h = 0 THEN <<>> ELSE f[h - 1] \o Item(h)
      <3>1. h = 0 \/ h \in 1..n
        BY <1>1
      <3>2. h \in 1..n => item[h] = Item(h) /\ h # 0
        BY <1>1
      <3> HIDE DEF item
      <3> QED
        BY <2>1, <3>1, <3>2 DEF Concats
    <2>3. f = F(f)
      BY <1>1, <2>1, <2>2
    <2> QED
      BY <2>3
  <1>7. sel = F(sel)
    <2> HIDE DEF F
    <2> QED
      BY <1>6
  <1>8. Concats(sel, n, item)
    <2> HIDE DEF sel, F, item
    <2> QED
      BY <1>5, <1>7
  <1> HIDE DEF sel, item
  <1>9. /\ sel[n] \in Seq(Nodes)
        /\ \A x : x \in Range(sel[n]) <=> \E h \in 1..n : x \in Range(item[h])
    <2> HIDE DEF n
    <2>1. \A f : Concats(f, n, item) =>
                    /\ f[n] \in Seq(Nodes)
                    /\ \A x : x \in Range(f[n]) <=> \E h \in 1..n : x \in Range(item[h])
      BY <1>1, <1>4, Concatenated
    <2> QED
      BY <1>8, <2>1
  <1>10. \A x : x \in Range(sel[n]) <=> x \in s
    BY <1>a, <1>3, <1>9
  <1> QED
    BY <1>2, <1>9, <1>10

-----------------------------------------------------------------------------
(***************************************************************************)
(* The set: as long as the sequence is in order, erase and insert do what  *)
(* they do of a set, and it stays in order.  Whatever its order, they take *)
(* only from it and add only what is inserted.                             *)
(***************************************************************************)

\* d is c without the elements l to h.
IsCut(d, c, l, h) ==
    /\ d \in Seq(Nodes) /\ Len(d) = l - 1 + Len(c) - h
    /\ \A i \in 1..Len(d) : d[i] = IF i < l THEN c[i] ELSE c[i - l + 1 + h]

LEMMA Cut ==
    ASSUME NEW c \in Seq(Nodes), NEW l \in 1..Len(c), NEW h \in l..Len(c)
    PROVE  IsCut(SubSeq(c, 1, l - 1) \o SubSeq(c, h + 1, Len(c)), c, l, h)
  <1> DEFINE s == SubSeq(c, 1, l - 1)
             t == SubSeq(c, h + 1, Len(c))
             n == Len(c)
  <1>1. n \in Nat /\ l \in 1..n /\ h \in l..n /\ l \in Int /\ h \in Int
    BY RangeIs
  <1>2. \A i \in 1..n : c[i] \in Nodes
    BY RangeIs
  <1>3. /\ s \in Seq(Nodes) /\ Len(s) = l - 1
        /\ \A i \in 1..(l - 1) : s[i] = c[i]
    <2>1. l - 1 \in Int /\ 1 \in Int /\ \A i \in 1..(l - 1) : c[i] \in Nodes
      BY <1>1, <1>2
    <2>2. /\ s \in Seq(Nodes)
          /\ Len(s) = IF 1 <= l - 1 THEN l - 1 - 1 + 1 ELSE 0
          /\ \A i \in 1..(l - 1 - 1 + 1) : s[i] = c[1 + i - 1]
      BY <2>1, SubSeqProperties
    <2> QED
      BY <1>1, <2>2
  <1>4. /\ t \in Seq(Nodes) /\ Len(t) = n - h
        /\ \A i \in 1..(n - h) : t[i] = c[i + h]
    <2>1. h + 1 \in Int /\ n \in Int /\ \A i \in (h + 1)..n : c[i] \in Nodes
      BY <1>1, <1>2
    <2>2. /\ t \in Seq(Nodes)
          /\ Len(t) = IF h + 1 <= n THEN n - (h + 1) + 1 ELSE 0
          /\ \A i \in 1..(n - (h + 1) + 1) : t[i] = c[h + 1 + i - 1]
      BY <2>1, SubSeqProperties
    <2>3. Len(t) = n - h
      BY <1>1, <2>2
    <2>4. ASSUME NEW i \in 1..(n - h) PROVE t[i] = c[i + h]
      <3>1. i \in 1..(n - (h + 1) + 1) /\ h + 1 + i - 1 = i + h
        BY <1>1
      <3> HIDE DEF t
      <3>2. t[i] = c[h + 1 + i - 1]
        BY <2>2, <3>1
      <3> QED
        BY <3>1, <3>2
    <2> QED
      BY <2>2, <2>3, <2>4
  <1> HIDE DEF s, t, n
  <1>5. /\ s \o t \in Seq(Nodes) /\ Len(s \o t) = l - 1 + n - h
        /\ \A i \in 1..(l - 1 + n - h) :
              (s \o t)[i] = IF i <= l - 1 THEN s[i] ELSE t[i - (l - 1)]
    <2>1. /\ s \o t \in Seq(Nodes) /\ Len(s \o t) = Len(s) + Len(t)
          /\ \A i \in 1..(Len(s) + Len(t)) :
                (s \o t)[i] = IF i <= Len(s) THEN s[i] ELSE t[i - Len(s)]
      BY <1>3, <1>4, ConcatProperties
    <2>2. Len(s) + Len(t) = l - 1 + n - h /\ Len(s) = l - 1
      BY <1>1, <1>3, <1>4
    <2> QED
      BY <2>1, <2>2
  <1>6. ASSUME NEW i \in 1..(l - 1 + n - h)
        PROVE  (s \o t)[i] = IF i < l THEN c[i] ELSE c[i - l + 1 + h]
    <2>1. CASE i < l
      <3>1. i \in 1..(l - 1) /\ i <= l - 1
        BY <1>1, <2>1
      <3> QED
        BY <1>3, <1>5, <2>1, <3>1
    <2>2. CASE ~(i < l)
      <3>1. i - (l - 1) \in 1..(n - h) /\ ~(i <= l - 1) /\ i - (l - 1) + h = i - l + 1 + h
        BY <1>1, <2>2
      <3> QED
        BY <1>4, <1>5, <2>2, <3>1
    <2> QED
      BY <2>1, <2>2
  <1>7. IsCut(s \o t, c, l, h)
    BY <1>5, <1>6 DEF IsCut, n
  <1> QED
    BY <1>7 DEF s, t, n

\* d is c with b after the element p.
IsPut(d, c, p, b) ==
    /\ d \in Seq(Nodes) /\ Len(d) = Len(c) + 1
    /\ \A i \in 1..Len(d) : d[i] = IF i <= p THEN c[i] ELSE IF i = p + 1 THEN b ELSE c[i - 1]

LEMMA Put ==
    ASSUME NEW c \in Seq(Nodes), NEW b \in Nodes, NEW p \in 0..Len(c)
    PROVE  IsPut(InsertAt(c, p + 1, b), c, p, b)
  <1> DEFINE d == InsertAt(c, p + 1, b)
             s == SubSeq(c, 1, p)
             t == SubSeq(c, p + 1, Len(c))
             u == s \o <<b>>
             n == Len(c)
  <1>1. n \in Nat /\ p \in 0..n /\ p \in Int
    BY RangeIs
  <1>2. \A i \in 1..n : c[i] \in Nodes
    BY RangeIs
  <1>3. /\ s \in Seq(Nodes) /\ Len(s) = p
        /\ \A i \in 1..p : s[i] = c[i]
    BY PrefixOf
  <1>4. /\ t \in Seq(Nodes) /\ Len(t) = n - p
        /\ \A i \in 1..(n - p) : t[i] = c[i + p]
    <2>1. p + 1 \in Int /\ n \in Int /\ \A i \in (p + 1)..n : c[i] \in Nodes
      BY <1>1, <1>2
    <2>2. /\ t \in Seq(Nodes)
          /\ Len(t) = IF p + 1 <= n THEN n - (p + 1) + 1 ELSE 0
          /\ \A i \in 1..(n - (p + 1) + 1) : t[i] = c[p + 1 + i - 1]
      BY <2>1, SubSeqProperties
    <2>3. Len(t) = n - p
      BY <1>1, <2>2
    <2>4. ASSUME NEW i \in 1..(n - p) PROVE t[i] = c[i + p]
      <3>1. i \in 1..(n - (p + 1) + 1) /\ p + 1 + i - 1 = i + p
        BY <1>1
      <3> HIDE DEF t
      <3>2. t[i] = c[p + 1 + i - 1]
        BY <2>2, <3>1
      <3> QED
        BY <3>1, <3>2
    <2> QED
      BY <2>2, <2>3, <2>4
  <1>5. d = u \o t
    <2>1. PICK q \in Nat : q = p + 1
      BY <1>1
    <2>2. InsertAt(c, q, b) = SubSeq(c, 1, q - 1) \o <<b>> \o SubSeq(c, q, Len(c))
      BY DEF InsertAt
    <2>3. q - 1 = p
      BY <1>1, <2>1
    <2> QED
      BY <2>1, <2>2, <2>3
  <1> HIDE DEF s, t, n
  <1>6. /\ u \in Seq(Nodes) /\ Len(u) = p + 1
        /\ \A i \in 1..(p + 1) : u[i] = IF i <= p THEN c[i] ELSE b
    <2>1. <<b>> \in Seq(Nodes) /\ Len(<<b>>) = 1 /\ <<b>>[1] = b
      BY Single
    <2>2. /\ u \in Seq(Nodes) /\ Len(u) = Len(s) + Len(<<b>>)
          /\ \A i \in 1..(Len(s) + Len(<<b>>)) : u[i] = IF i <= Len(s) THEN s[i] ELSE <<b>>[i - Len(s)]
      BY <1>3, <2>1, ConcatProperties
    <2>3. Len(s) = p /\ Len(s) + Len(<<b>>) = p + 1
      BY <1>3, <2>1
    <2>4. \A i \in 1..(p + 1) : IF i <= p THEN i \in 1..p ELSE i - p = 1
      BY <1>1
    <2> QED
      BY <1>3, <2>1, <2>2, <2>3, <2>4
  <1> HIDE DEF u
  <1>7. /\ u \o t \in Seq(Nodes) /\ Len(u \o t) = n + 1
        /\ \A i \in 1..(n + 1) : (u \o t)[i] = IF i <= p + 1 THEN u[i] ELSE t[i - (p + 1)]
    <2>1. /\ u \o t \in Seq(Nodes) /\ Len(u \o t) = Len(u) + Len(t)
          /\ \A i \in 1..(Len(u) + Len(t)) :
                (u \o t)[i] = IF i <= Len(u) THEN u[i] ELSE t[i - Len(u)]
      BY <1>4, <1>6, ConcatProperties
    <2>2. Len(u) + Len(t) = n + 1 /\ Len(u) = p + 1
      BY <1>1, <1>4, <1>6
    <2> QED
      BY <2>1, <2>2
  <1>8. ASSUME NEW i \in 1..(n + 1)
        PROVE  (u \o t)[i] = IF i <= p THEN c[i] ELSE IF i = p + 1 THEN b ELSE c[i - 1]
    <2>1. CASE i <= p + 1
      <3>1. i \in 1..(p + 1) /\ (i <= p \/ i = p + 1) /\ (i = p + 1 => ~(i <= p))
        BY <1>1, <2>1
      <3> QED
        BY <1>6, <1>7, <2>1, <3>1
    <2>2. CASE ~(i <= p + 1)
      <3>1. /\ i - (p + 1) \in 1..(n - p) /\ ~(i <= p) /\ i # p + 1
            /\ i - (p + 1) + p = i - 1
        BY <1>1, <2>2
      <3> QED
        BY <1>4, <1>7, <2>2, <3>1
    <2> QED
      BY <2>1, <2>2
  <1>9. d \in Seq(Nodes) /\ Len(d) = n + 1
    BY <1>5, <1>7
  <1>10. \A i \in 1..(n + 1) :
            d[i] = IF i <= p THEN c[i] ELSE IF i = p + 1 THEN b ELSE c[i - 1]
    BY <1>5, <1>8
  <1> HIDE DEF d
  <1>11. IsPut(d, c, p, b)
    BY <1>9, <1>10 DEF n, IsPut
  <1> QED
    BY <1>11 DEF d

\* d is what a search for b leaves of c.
Left(o, c, b, d) ==
    \E i \in 1..Len(c) : \E l \in 1..i : \E h \in i..Len(c) :
        /\ c[i] = b /\ (l < i => ~Less(o, c[l], b)) /\ (h > i => ~Less(o, b, c[h]))
        /\ d = SubSeq(c, 1, l - 1) \o SubSeq(c, h + 1, Len(c))

\* The search for b may fail.
Missed(o, c, b) == ~(\E i \in 1..Len(c) : c[i] = b /\ Found(o, c, i))

LEMMA EraseOutcomes ==
    ASSUME NEW o, NEW c, NEW b, NEW d \in Erase(o, c, b)
    PROVE  (d = c /\ Missed(o, c, b)) \/ Left(o, c, b, d)
  <1> DEFINE at == {i \in 1..Len(c) : c[i] = b}
             lows(i) == {j \in 1..i : j < i => ~Less(o, c[j], b)}
             highs(i) == {j \in i..Len(c) : j > i => ~Less(o, b, c[j])}
             Rest(l, h) == SubSeq(c, 1, l - 1) \o SubSeq(c, h + 1, Len(c))
             Rests(i) == {Rest(l, h) : l \in lows(i), h \in highs(i)}
             taken == UNION {Rests(i) : i \in at}
             missed == IF \E i \in at : Found(o, c, i) THEN {} ELSE {c}
  <1>1. Erase(o, c, b) = taken \cup missed
    BY DEF Erase
  <1>2. CASE d \in missed
    <2>1. d = c /\ ~(\E i \in at : Found(o, c, i))
      <3> HIDE DEF at
      <3> QED
        BY <1>2
    <2>2. Missed(o, c, b)
      BY <2>1 DEF Missed
    <2> QED
      BY <2>1, <2>2
  <1>3. CASE d \in taken
    <2>1. PICK i \in at : d \in Rests(i)
      <3> HIDE DEF at, Rests
      <3> QED
        BY <1>3
    <2>2. PICK l \in lows(i), h \in highs(i) : d = Rest(l, h)
      <3> HIDE DEF lows, highs, Rest
      <3>1. \E l \in lows(i) : \E h \in highs(i) : d = Rest(l, h)
        BY <2>1
      <3> QED
        BY <3>1
    <2>3. /\ i \in 1..Len(c) /\ l \in 1..i /\ h \in i..Len(c) /\ c[i] = b
          /\ (l < i => ~Less(o, c[l], b)) /\ (h > i => ~Less(o, b, c[h]))
      OBVIOUS
    <2> HIDE DEF at, lows, highs
    <2> QED
      BY <2>2, <2>3 DEF Rest, Left
  <1> HIDE DEF taken, missed
  <1>4. d \in taken \/ d \in missed
    BY <1>1
  <1> QED
    BY <1>2, <1>3, <1>4

LEMMA InsertOutcomes ==
    ASSUME NEW o, NEW c, NEW b, NEW d \in Insert(o, c, b)
    PROVE  \/ d = c /\ \E i \in 1..Len(c) : c[i] = b
           \/ /\ ~(\E i \in 1..Len(c) : c[i] = b /\ Found(o, c, i))
              /\ \E p \in 0..Len(c) : /\ p > 0 => Less(o, c[p], b)
                                      /\ p < Len(c) => Less(o, b, c[p + 1])
                                      /\ d = InsertAt(c, p + 1, b)
  BY DEF Insert

LEMMA Erased ==
    ASSUME NEW o, NEW c \in Seq(Nodes), NEW b, NEW d \in Erase(o, c, b)
    PROVE  d \in Seq(Nodes) /\ Range(d) \subseteq Range(c)
  <1>1. CASE d = c
    BY <1>1
  <1>2. CASE d # c
    <2>0. Left(o, c, b, d)
      BY <1>2, EraseOutcomes
    <2>a. PICK i \in 1..Len(c) : \E l \in 1..i : \E h \in i..Len(c) :
              d = SubSeq(c, 1, l - 1) \o SubSeq(c, h + 1, Len(c))
      BY <2>0 DEF Left
    <2>1. PICK l \in 1..i, h \in i..Len(c) :
              d = SubSeq(c, 1, l - 1) \o SubSeq(c, h + 1, Len(c))
      BY <2>a
    <2>2. Len(c) \in Nat /\ i \in 1..Len(c)
      BY RangeIs
    <2>3. l \in 1..Len(c) /\ h \in l..Len(c)
      BY <2>2
    <2>4. /\ d \in Seq(Nodes) /\ Len(d) = l - 1 + Len(c) - h
          /\ \A k \in 1..Len(d) : d[k] = IF k < l THEN c[k] ELSE c[k - l + 1 + h]
      BY <2>1, <2>3, Cut DEF IsCut
    <2>5. ASSUME NEW x \in Range(d) PROVE x \in Range(c)
      <3>1. PICK k \in 1..Len(d) : x = d[k]
        BY <2>4, RangeIs
      <3>2. k \in Nat /\ l \in Nat /\ h \in Nat
        BY <2>2, <2>3, <2>4
      <3>3. k < l => k \in 1..Len(c)
        BY <2>2, <2>3, <3>2, <2>4
      <3>4. ~(k < l) => k - l + 1 + h \in 1..Len(c)
        BY <2>2, <2>3, <3>2, <2>4
      <3>5. x = IF k < l THEN c[k] ELSE c[k - l + 1 + h]
        BY <2>4, <3>1
      <3> QED
        BY <3>3, <3>4, <3>5, RangeIs
    <2> QED
      BY <2>4, <2>5
  <1> QED
    BY <1>1, <1>2

LEMMA Inserted ==
    ASSUME NEW o, NEW c \in Seq(Nodes), NEW b \in Nodes, NEW d \in Insert(o, c, b)
    PROVE  d \in Seq(Nodes) /\ Range(d) \subseteq Range(c) \cup {b}
  <1>1. CASE d = c
    BY <1>1
  <1>2. CASE d # c
    <2>1. PICK p \in 0..Len(c) : d = InsertAt(c, p + 1, b)
      BY <1>2, InsertOutcomes
    <2>2. Len(c) \in Nat
      BY RangeIs
    <2>3. /\ d \in Seq(Nodes) /\ Len(d) = Len(c) + 1
          /\ \A k \in 1..Len(d) :
                d[k] = IF k <= p THEN c[k] ELSE IF k = p + 1 THEN b ELSE c[k - 1]
      BY <2>1, Put DEF IsPut
    <2>4. ASSUME NEW x \in Range(d) PROVE x \in Range(c) \cup {b}
      <3>1. PICK k \in 1..Len(d) : x = d[k]
        BY <2>3, RangeIs
      <3>2. k \in Nat
        BY <2>2, <2>3
      <3>3. k <= p => k \in 1..Len(c)
        BY <2>2, <3>2
      <3>4. ~(k <= p) /\ k # p + 1 => k - 1 \in 1..Len(c)
        BY <2>2, <2>3, <3>2
      <3>5. x = IF k <= p THEN c[k] ELSE IF k = p + 1 THEN b ELSE c[k - 1]
        BY <2>3, <3>1
      <3> QED
        BY <3>3, <3>4, <3>5, RangeIs
    <2> QED
      BY <2>3, <2>4
  <1> QED
    BY <1>1, <1>2

LEMMA ErasedInOrder ==
    ASSUME NEW o, Readable(o), NEW c \in Seq(Nodes), InOrder(o, c), NEW b \in Nodes,
           NEW d \in Erase(o, c, b)
    PROVE  InOrder(o, d) /\ Range(d) = Range(c) \ {b}
  <1>1. Len(c) \in Nat /\ \A i \in 1..Len(c) : c[i] \in Nodes /\ i \in Nat
    BY RangeIs
  <1>2. \A i, j \in 1..Len(c) : i < j => Less(o, c[i], c[j]) /\ ~Less(o, c[j], c[i]) /\ c[i] # c[j]
    BY <1>1, Strict DEF InOrder
  <1>3. \A i \in 1..Len(c) : Found(o, c, i)
    BY <1>2 DEF Found
  <1>4. CASE \A i \in 1..Len(c) : c[i] # b
    <2>1. d = c
      <3>1. ~Left(o, c, b, d)
        BY <1>4 DEF Left
      <3> QED
        BY <3>1, EraseOutcomes
    <2>2. b \notin Range(c)
      BY <1>4, RangeIs
    <2> QED
      BY <2>1, <2>2
  <1>5. CASE \E i \in 1..Len(c) : c[i] = b
    <2>0. Left(o, c, b, d)
      <3>1. ~Missed(o, c, b)
        BY <1>3, <1>5 DEF Missed
      <3> QED
        BY <3>1, EraseOutcomes
    <2>a. PICK i \in 1..Len(c) : \E l \in 1..i : \E h \in i..Len(c) :
              /\ c[i] = b /\ (l < i => ~Less(o, c[l], b)) /\ (h > i => ~Less(o, b, c[h]))
              /\ d = SubSeq(c, 1, l - 1) \o SubSeq(c, h + 1, Len(c))
      BY <2>0 DEF Left
    <2>1. PICK l \in 1..i, h \in i..Len(c) :
              /\ c[i] = b /\ (l < i => ~Less(o, c[l], b)) /\ (h > i => ~Less(o, b, c[h]))
              /\ d = SubSeq(c, 1, l - 1) \o SubSeq(c, h + 1, Len(c))
      BY <2>a
    <2>2. l \in 1..Len(c) /\ h \in 1..Len(c) /\ i \in Nat /\ l \in Nat /\ h \in Nat
      BY <1>1
    <2>3. l = i /\ h = i
      <3>1. ~(l < i)
        BY <1>2, <2>1, <2>2
      <3>2. ~(i < h)
        BY <1>2, <2>1, <2>2
      <3> QED
        BY <2>2, <3>1, <3>2
    <2>4. /\ d \in Seq(Nodes) /\ Len(d) = i - 1 + Len(c) - i
          /\ \A k \in 1..Len(d) : d[k] = IF k < i THEN c[k] ELSE c[k - i + 1 + i]
      <3>1. i \in i..Len(c)
        BY <1>1
      <3>2. d = SubSeq(c, 1, i - 1) \o SubSeq(c, i + 1, Len(c))
        BY <2>1, <2>3
      <3>3. IsCut(d, c, i, i)
        BY <3>1, <3>2, Cut
      <3> QED
        BY <3>3 DEF IsCut
    <2>5. Len(d) = Len(c) - 1 /\ Len(d) \in Nat
      BY <1>1, <2>2, <2>4
    <2>6. ASSUME NEW k \in 1..Len(d)
          PROVE  d[k] = IF k < i THEN c[k] ELSE c[k + 1]
      <3>1. k - i + 1 + i = k + 1
        BY <2>2, <2>5
      <3> QED
        BY <2>4, <3>1
    <2>7. InOrder(o, d)
      <3>1. SUFFICES ASSUME NEW k \in 1..Len(d), NEW m \in 1..Len(d), k < m
                     PROVE  Less(o, d[k], d[m])
        BY DEF InOrder
      <3>2. k \in 1..Len(c) /\ k + 1 \in 1..Len(c) /\ m \in 1..Len(c) /\ m + 1 \in 1..Len(c)
        BY <1>1, <2>5
      <3>3. /\ k < m + 1 /\ k + 1 < m + 1
            /\ m < i => k < i
        BY <2>2, <2>5, <3>1
      <3> QED
        BY <1>2, <2>6, <3>1, <3>2, <3>3
    <2>8. ASSUME NEW x \in Range(d) PROVE x \in Range(c) /\ x # b
      <3>1. PICK k \in 1..Len(d) : x = d[k]
        BY <2>4, RangeIs
      <3>2. k \in 1..Len(c) /\ k + 1 \in 1..Len(c)
        BY <1>1, <2>5
      <3>3. k < i \/ i < k + 1
        BY <2>2, <2>5
      <3>4. CASE k < i
        <4>1. x = c[k]
          BY <2>6, <3>1, <3>4
        <4> QED
          BY <1>2, <2>1, <3>2, <3>4, <4>1, RangeIs
      <3>5. CASE ~(k < i)
        <4>1. x = c[k + 1]
          BY <2>6, <3>1, <3>5
        <4>2. c[i] # c[k + 1]
          BY <1>2, <3>2, <3>3, <3>5
        <4> QED
          BY <2>1, <3>2, <4>1, <4>2, RangeIs
      <3> QED
        BY <3>4, <3>5
    <2>9. ASSUME NEW x \in Range(c), x # b PROVE x \in Range(d)
      <3>1. PICK k \in 1..Len(c) : x = c[k]
        BY RangeIs
      <3>2. k # i /\ k \in Nat
        BY <1>1, <2>1, <2>9, <3>1
      <3>3. CASE k < i
        <4>1. k \in 1..Len(d)
          BY <2>2, <2>5, <3>2, <3>3
        <4>2. d[k] = x
          BY <2>6, <3>1, <3>3, <4>1
        <4> QED
          BY <2>4, <4>1, <4>2, RangeIs
      <3>4. CASE ~(k < i)
        <4>1. PICK m \in 1..Len(d) : m + 1 = k /\ ~(m < i)
          <5>1. k - 1 \in 1..Len(d) /\ k - 1 + 1 = k /\ ~(k - 1 < i)
            BY <2>2, <2>5, <3>2, <3>4
          <5> QED
            BY <5>1
        <4>2. d[m] = x
          BY <2>6, <3>1, <4>1
        <4> QED
          BY <2>4, <4>1, <4>2, RangeIs
      <3> QED
        BY <3>3, <3>4
    <2> QED
      BY <2>7, <2>8, <2>9
  <1> QED
    BY <1>4, <1>5

LEMMA InsertedInOrder ==
    ASSUME NEW o, Readable(o), NEW c \in Seq(Nodes), InOrder(o, c), NEW b \in Nodes,
           NEW d \in Insert(o, c, b)
    PROVE  InOrder(o, d) /\ Range(d) = Range(c) \cup {b}
  <1>1. Len(c) \in Nat /\ \A i \in 1..Len(c) : c[i] \in Nodes /\ i \in Nat
    BY RangeIs
  <1>2. \A i, j \in 1..Len(c) : i < j => Less(o, c[i], c[j])
    BY DEF InOrder
  <1>3. \A i, j \in 1..Len(c) : i < j => ~Less(o, c[j], c[i])
    BY <1>1, <1>2, Strict
  <1>4. \A i \in 1..Len(c) : Found(o, c, i)
    BY <1>2, <1>3 DEF Found
  <1>5. CASE \E i \in 1..Len(c) : c[i] = b
    <2>1. d = c
      BY <1>4, <1>5, InsertOutcomes
    <2>2. b \in Range(c)
      BY <1>5, RangeIs
    <2> QED
      BY <2>1, <2>2
  <1>6. CASE \A i \in 1..Len(c) : c[i] # b
    <2>1. PICK p \in 0..Len(c) : /\ p > 0 => Less(o, c[p], b)
                                 /\ p < Len(c) => Less(o, b, c[p + 1])
                                 /\ d = InsertAt(c, p + 1, b)
      BY <1>6, InsertOutcomes
    <2>2. /\ d \in Seq(Nodes) /\ Len(d) = Len(c) + 1
          /\ \A k \in 1..Len(d) :
                d[k] = IF k <= p THEN c[k] ELSE IF k = p + 1 THEN b ELSE c[k - 1]
      BY <2>1, Put DEF IsPut
    <2>3. p \in Nat /\ Len(d) \in Nat /\ Len(d) = Len(c) + 1 /\ p <= Len(c)
      BY <1>1, <2>2
    <2>4. ASSUME NEW k \in 1..Len(c), k <= p PROVE Less(o, c[k], b)
      <3>1. p \in 1..Len(c) /\ p > 0 /\ (k = p \/ k < p)
        BY <1>1, <2>3, <2>4
      <3> QED
        BY <1>1, <1>2, <2>1, <3>1, Transits
    <2>5. ASSUME NEW k \in 1..Len(c), p < k PROVE Less(o, b, c[k])
      <3>1. p + 1 \in 1..Len(c) /\ p < Len(c) /\ (k = p + 1 \/ p + 1 < k)
        BY <1>1, <2>3, <2>5
      <3> QED
        BY <1>1, <1>2, <2>1, <3>1, Transits
    <2>6. InOrder(o, d)
      <3>1. SUFFICES ASSUME NEW k \in 1..Len(d), NEW m \in 1..Len(d), k < m
                     PROVE  Less(o, d[k], d[m])
        BY DEF InOrder
      <3>2. k \in Nat /\ m \in Nat /\ k \in 1..Len(c)
        BY <2>3, <3>1
      <3>3. CASE m <= p
        <4>1. k <= p /\ m \in 1..Len(c)
          BY <2>3, <3>1, <3>2, <3>3
        <4>2. d[k] = c[k] /\ d[m] = c[m]
          BY <2>2, <3>3, <4>1
        <4> QED
          BY <1>2, <3>1, <3>2, <4>1, <4>2
      <3>4. CASE m = p + 1
        <4>1. k <= p /\ ~(m <= p)
          BY <2>3, <3>1, <3>2, <3>4
        <4>2. d[k] = c[k] /\ d[m] = b
          BY <2>2, <3>4, <4>1
        <4> QED
          BY <2>4, <3>2, <4>1, <4>2
      <3>5. CASE m > p + 1 /\ k <= p
        <4>1. m - 1 \in 1..Len(c) /\ k < m - 1 /\ ~(m <= p) /\ m # p + 1
          BY <2>3, <3>1, <3>2, <3>5
        <4>2. d[k] = c[k] /\ d[m] = c[m - 1]
          BY <2>2, <3>5, <4>1
        <4> QED
          BY <1>2, <3>2, <4>1, <4>2
      <3>6. CASE m > p + 1 /\ k = p + 1
        <4>1. m - 1 \in 1..Len(c) /\ p < m - 1 /\ ~(m <= p) /\ m # p + 1 /\ ~(k <= p)
          BY <2>3, <3>1, <3>2, <3>6
        <4>2. d[k] = b /\ d[m] = c[m - 1]
          BY <2>2, <3>6, <4>1
        <4> QED
          BY <2>5, <4>1, <4>2
      <3>7. CASE m > p + 1 /\ k > p + 1
        <4>1. /\ m - 1 \in 1..Len(c) /\ k - 1 \in 1..Len(c) /\ k - 1 < m - 1
              /\ ~(m <= p) /\ m # p + 1 /\ ~(k <= p) /\ k # p + 1
          BY <2>3, <3>1, <3>2, <3>7
        <4>2. d[k] = c[k - 1] /\ d[m] = c[m - 1]
          BY <2>2, <4>1
        <4> QED
          BY <1>2, <4>1, <4>2
      <3>8. /\ m <= p \/ m = p + 1 \/ m > p + 1
            /\ k <= p \/ k = p + 1 \/ k > p + 1
        BY <2>3, <3>2
      <3> QED
        BY <3>3, <3>4, <3>5, <3>6, <3>7, <3>8
    <2>7. Range(d) \subseteq Range(c) \cup {b}
      BY Inserted
    <2>8. b \in Range(d)
      <3>1. p + 1 \in 1..Len(d) /\ ~(p + 1 <= p)
        BY <2>3
      <3>2. d[p + 1] = b
        BY <2>2, <3>1
      <3> QED
        BY <2>2, <3>1, <3>2, RangeIs
    <2>9. ASSUME NEW x \in Range(c) PROVE x \in Range(d)
      <3>1. PICK k \in 1..Len(c) : x = c[k]
        BY RangeIs
      <3>2. k \in Nat
        BY <1>1
      <3>3. CASE k <= p
        <4>1. k \in 1..Len(d)
          BY <2>3, <3>2
        <4>2. d[k] = x
          BY <2>2, <3>1, <3>3, <4>1
        <4> QED
          BY <2>2, <4>1, <4>2, RangeIs
      <3>4. CASE ~(k <= p)
        <4>1. PICK m \in 1..Len(d) : m - 1 = k /\ ~(m <= p) /\ m # p + 1
          <5>1. k + 1 \in 1..Len(d) /\ k + 1 - 1 = k /\ ~(k + 1 <= p) /\ k + 1 # p + 1
            BY <2>3, <3>2, <3>4
          <5> QED
            BY <5>1
        <4>2. d[m] = x
          BY <2>2, <3>1, <4>1
        <4> QED
          BY <2>2, <4>1, <4>2, RangeIs
      <3> QED
        BY <3>3, <3>4
    <2> QED
      BY <2>6, <2>7, <2>8, <2>9
  <1> QED
    BY <1>5, <1>6

\* What holds of c and of what each step makes of it holds of the result.
LEMMA EraseAll ==
    ASSUME NEW o, NEW c \in Seq(Nodes), NEW bs, Len(bs) \in Nat,
           NEW J, c \in J[0],
           \A n \in 1..Len(bs) : \A d \in Seq(Nodes) : d \in J[n - 1] =>
               Erase(o, d, bs[n]) \subseteq J[n],
           NEW e \in EraseEach(o, c, bs)
    PROVE  e \in Seq(Nodes) /\ e \in J[Len(bs)]
  <1> DEFINE N == Len(bs)
             Step(D, n) == UNION {Erase(o, d, bs[n]) : d \in D}
             F(f) == [n \in 0..N |-> IF n = 0 THEN {c} ELSE Step(f[n - 1], n)]
             T == SUBSET Seq(Nodes)
             rule == [n \in 1..N |-> [D \in T |-> Step(D, n)]]
             after == CHOOSE f : f = F(f)
  <1>1. EraseEach(o, c, bs) = after[N]
    BY DEF EraseEach
  <1>2. N \in Nat
    OBVIOUS
  <1>3. ASSUME NEW n \in 1..N, NEW D \in T PROVE Step(D, n) \in T
    <2>1. ASSUME NEW d \in D PROVE Erase(o, d, bs[n]) \subseteq Seq(Nodes)
      BY Erased
    <2> QED
      BY <2>1
  <1>4. ASSUME NEW n \in 1..N, NEW D, D \subseteq Seq(Nodes), D \subseteq J[n - 1]
        PROVE  Step(D, n) \subseteq J[n]
    <2>1. ASSUME NEW d \in D PROVE Erase(o, d, bs[n]) \subseteq J[n]
      BY <1>4
    <2> QED
      BY <2>1
  <1> HIDE DEF N, Step
  <1>5. rule \in [1..N -> [T -> T]]
    BY <1>3
  <1>6. PICK f \in [0..N -> T] : Recursive(f, N, {c}, rule)
    <2>1. {c} \in T
      OBVIOUS
    <2> HIDE DEF rule, T
    <2> QED
      BY <1>2, <1>5, <2>1, Recursion
  <1>7. ASSUME NEW n \in 0..N PROVE f[n] = IF n = 0 THEN {c} ELSE Step(f[n - 1], n)
    <2>1. CASE n = 0
      BY <1>6, <2>1 DEF Recursive
    <2>2. CASE n # 0
      <3>1. n \in 1..N /\ n - 1 \in 0..N
        BY <1>2, <2>2
      <3>2. f[n] = rule[n][f[n - 1]]
        BY <1>6, <3>1 DEF Recursive
      <3>3. f[n - 1] \in T
        BY <3>1
      <3> HIDE DEF T
      <3> QED
        BY <2>2, <3>1, <3>2, <3>3
    <2> QED
      BY <2>1, <2>2
  <1>8. f = F(f)
    BY <1>7
  <1>9. after = F(after)
    <2> HIDE DEF F
    <2> QED
      BY <1>8
  <1> HIDE DEF after
  <1> DEFINE S == {n \in 0..N : after[n] \subseteq Seq(Nodes) /\ after[n] \subseteq J[n]}
  <1>10. 0 \in S
    <2>1. 0 \in 0..N
      BY <1>2
    <2>2. after[0] = {c}
      BY <1>9, <2>1
    <2> QED
      BY <2>1, <2>2
  <1>11. ASSUME NEW m \in 0..(N - 1), m \in S PROVE m + 1 \in S
    <2>1. PICK n \in 1..N : n = m + 1
      BY <1>2
    <2>2. n - 1 = m /\ n \in 0..N /\ n # 0
      BY <1>2, <2>1
    <2>3. after[n] = Step(after[n - 1], n)
      BY <1>9, <2>2
    <2>4. after[n - 1] \subseteq Seq(Nodes) /\ after[n - 1] \subseteq J[n - 1]
      BY <1>11, <2>2
    <2>5. after[n] \subseteq Seq(Nodes) /\ after[n] \subseteq J[n]
      <3>1. Step(after[n - 1], n) \in SUBSET Seq(Nodes)
        BY <1>3, <2>4
      <3> QED
        BY <1>4, <2>3, <2>4, <3>1
    <2>6. n \in S
      BY <2>2, <2>5
    <2> QED
      BY <2>1, <2>6
  <1> HIDE DEF S
  <1>12. 0..N \subseteq S
    BY <1>2, <1>10, <1>11, Induction
  <1>13. N \in S
    BY <1>2, <1>12
  <1>14. e \in Seq(Nodes) /\ e \in J[N]
    BY <1>1, <1>13 DEF S
  <1> QED
    BY <1>14 DEF N

\* What holds of c and of what each step makes of it holds of the result.
LEMMA InsertAll ==
    ASSUME NEW o, NEW c \in Seq(Nodes), NEW bs, Len(bs) \in Nat, \A n \in 1..Len(bs) : bs[n] \in Nodes,
           NEW J, c \in J[0],
           \A n \in 1..Len(bs) : \A d \in Seq(Nodes) : d \in J[n - 1] =>
               Insert(o, d, bs[n]) \subseteq J[n],
           NEW e \in InsertEach(o, c, bs)
    PROVE  e \in Seq(Nodes) /\ e \in J[Len(bs)]
  <1> DEFINE N == Len(bs)
             Step(D, n) == UNION {Insert(o, d, bs[n]) : d \in D}
             F(f) == [n \in 0..N |-> IF n = 0 THEN {c} ELSE Step(f[n - 1], n)]
             T == SUBSET Seq(Nodes)
             rule == [n \in 1..N |-> [D \in T |-> Step(D, n)]]
             after == CHOOSE f : f = F(f)
  <1>1. InsertEach(o, c, bs) = after[N]
    BY DEF InsertEach
  <1>2. N \in Nat
    OBVIOUS
  <1>3. ASSUME NEW n \in 1..N, NEW D \in T PROVE Step(D, n) \in T
    <2>1. ASSUME NEW d \in D PROVE Insert(o, d, bs[n]) \subseteq Seq(Nodes)
      BY Inserted
    <2> QED
      BY <2>1
  <1>4. ASSUME NEW n \in 1..N, NEW D, D \subseteq Seq(Nodes), D \subseteq J[n - 1]
        PROVE  Step(D, n) \subseteq J[n]
    <2>1. ASSUME NEW d \in D PROVE Insert(o, d, bs[n]) \subseteq J[n]
      BY <1>4
    <2> QED
      BY <2>1
  <1> HIDE DEF N, Step
  <1>5. rule \in [1..N -> [T -> T]]
    BY <1>3
  <1>6. PICK f \in [0..N -> T] : Recursive(f, N, {c}, rule)
    <2>1. {c} \in T
      OBVIOUS
    <2> HIDE DEF rule, T
    <2> QED
      BY <1>2, <1>5, <2>1, Recursion
  <1>7. ASSUME NEW n \in 0..N PROVE f[n] = IF n = 0 THEN {c} ELSE Step(f[n - 1], n)
    <2>1. CASE n = 0
      BY <1>6, <2>1 DEF Recursive
    <2>2. CASE n # 0
      <3>1. n \in 1..N /\ n - 1 \in 0..N
        BY <1>2, <2>2
      <3>2. f[n] = rule[n][f[n - 1]]
        BY <1>6, <3>1 DEF Recursive
      <3>3. f[n - 1] \in T
        BY <3>1
      <3> HIDE DEF T
      <3> QED
        BY <2>2, <3>1, <3>2, <3>3
    <2> QED
      BY <2>1, <2>2
  <1>8. f = F(f)
    BY <1>7
  <1>9. after = F(after)
    <2> HIDE DEF F
    <2> QED
      BY <1>8
  <1> HIDE DEF after
  <1> DEFINE S == {n \in 0..N : after[n] \subseteq Seq(Nodes) /\ after[n] \subseteq J[n]}
  <1>10. 0 \in S
    <2>1. 0 \in 0..N
      BY <1>2
    <2>2. after[0] = {c}
      BY <1>9, <2>1
    <2> QED
      BY <2>1, <2>2
  <1>11. ASSUME NEW m \in 0..(N - 1), m \in S PROVE m + 1 \in S
    <2>1. PICK n \in 1..N : n = m + 1
      BY <1>2
    <2>2. n - 1 = m /\ n \in 0..N /\ n # 0
      BY <1>2, <2>1
    <2>3. after[n] = Step(after[n - 1], n)
      BY <1>9, <2>2
    <2>4. after[n - 1] \subseteq Seq(Nodes) /\ after[n - 1] \subseteq J[n - 1]
      BY <1>11, <2>2
    <2>5. after[n] \subseteq Seq(Nodes) /\ after[n] \subseteq J[n]
      <3>1. Step(after[n - 1], n) \in SUBSET Seq(Nodes)
        BY <1>3, <2>4
      <3> QED
        BY <1>4, <2>3, <2>4, <3>1
    <2>6. n \in S
      BY <2>2, <2>5
    <2> QED
      BY <2>1, <2>6
  <1> HIDE DEF S
  <1>12. 0..N \subseteq S
    BY <1>2, <1>10, <1>11, Induction
  <1>13. N \in S
    BY <1>2, <1>12
  <1>14. e \in Seq(Nodes) /\ e \in J[N]
    BY <1>1, <1>13 DEF S
  <1> QED
    BY <1>14 DEF N

LEMMA ErasedAll ==
    ASSUME NEW o, NEW c \in Seq(Nodes), NEW bs \in Seq(Nodes), NEW e \in EraseEach(o, c, bs)
    PROVE  /\ e \in Seq(Nodes) /\ Range(e) \subseteq Range(c)
           /\ Readable(o) /\ InOrder(o, c) =>
                 InOrder(o, e) /\ Range(e) = Range(c) \ Range(bs)
  <1>1. Len(bs) \in Nat
    BY RangeIs
  <1>2. e \in Seq(Nodes) /\ Range(e) \subseteq Range(c)
    <2> DEFINE J == [n \in 0..Len(bs) |-> {d \in Seq(Nodes) : Range(d) \subseteq Range(c)}]
    <2>1. c \in J[0]
      BY <1>1
    <2>2. ASSUME NEW n \in 1..Len(bs), NEW d \in Seq(Nodes), d \in J[n - 1]
          PROVE  Erase(o, d, bs[n]) \subseteq J[n]
      <3>1. n \in 0..Len(bs) /\ n - 1 \in 0..Len(bs)
        BY <1>1
      <3>2. \A f \in Erase(o, d, bs[n]) : f \in Seq(Nodes) /\ Range(f) \subseteq Range(d)
        BY Erased
      <3>3. Range(d) \subseteq Range(c)
        BY <2>2, <3>1
      <3> QED
        BY <3>1, <3>2, <3>3
    <2>3. Len(bs) \in 0..Len(bs)
      BY <1>1
    <2> HIDE DEF J
    <2>4. e \in J[Len(bs)]
      BY <1>1, <2>1, <2>2, EraseAll
    <2> QED
      BY <2>3, <2>4 DEF J
  <1>3. ASSUME Readable(o), InOrder(o, c)
        PROVE  InOrder(o, e) /\ Range(e) = Range(c) \ Range(bs)
    <2> DEFINE J == [n \in 0..Len(bs) |->
                        {d \in Seq(Nodes) : /\ InOrder(o, d)
                                            /\ \A x : x \in Range(d) <=>
                                                  /\ x \in Range(c)
                                                  /\ \A i \in 1..n : x # bs[i]}]
    <2>1. c \in J[0]
      BY <1>1, <1>3
    <2>2. ASSUME NEW n \in 1..Len(bs), NEW d \in Seq(Nodes), d \in J[n - 1]
          PROVE  Erase(o, d, bs[n]) \subseteq J[n]
      <3>1. n \in 0..Len(bs) /\ n - 1 \in 0..Len(bs)
        BY <1>1
      <3>2. /\ InOrder(o, d)
            /\ \A x : x \in Range(d) <=> x \in Range(c) /\ \A i \in 1..(n - 1) : x # bs[i]
        BY <2>2, <3>1
      <3>3. SUFFICES ASSUME NEW f \in Erase(o, d, bs[n]) PROVE f \in J[n]
        OBVIOUS
      <3>4. f \in Seq(Nodes)
        BY Erased
      <3>5. InOrder(o, f) /\ Range(f) = Range(d) \ {bs[n]}
        BY <1>3, <3>2, <3>4, ErasedInOrder
      <3>6. \A i : i \in 1..n <=> i \in 1..(n - 1) \/ i = n
        BY <1>1
      <3>7. \A x : x \in Range(f) <=> x \in Range(c) /\ \A i \in 1..n : x # bs[i]
        BY <3>2, <3>5, <3>6
      <3> QED
        BY <3>1, <3>4, <3>5, <3>7
    <2>3. Len(bs) \in 0..Len(bs)
      BY <1>1
    <2> HIDE DEF J
    <2>4. e \in J[Len(bs)]
      BY <1>1, <2>1, <2>2, EraseAll
    <2>5. /\ InOrder(o, e)
          /\ \A x : x \in Range(e) <=> x \in Range(c) /\ \A i \in 1..Len(bs) : x # bs[i]
      BY <2>3, <2>4 DEF J
    <2> QED
      BY <2>5, RangeIs
  <1> QED
    BY <1>2, <1>3

LEMMA InsertedAll ==
    ASSUME NEW o, NEW c \in Seq(Nodes), NEW bs \in Seq(Nodes), NEW e \in InsertEach(o, c, bs)
    PROVE  /\ e \in Seq(Nodes) /\ Range(e) \subseteq Range(c) \cup Range(bs)
           /\ Readable(o) /\ InOrder(o, c) =>
                 InOrder(o, e) /\ Range(e) = Range(c) \cup Range(bs)
  <1>1. Len(bs) \in Nat /\ \A n \in 1..Len(bs) : bs[n] \in Nodes /\ bs[n] \in Range(bs)
    BY RangeIs
  <1>2. e \in Seq(Nodes) /\ Range(e) \subseteq Range(c) \cup Range(bs)
    <2> DEFINE J == [n \in 0..Len(bs) |->
                        {d \in Seq(Nodes) : Range(d) \subseteq Range(c) \cup Range(bs)}]
    <2>1. c \in J[0]
      BY <1>1
    <2>2. ASSUME NEW n \in 1..Len(bs), NEW d \in Seq(Nodes), d \in J[n - 1]
          PROVE  Insert(o, d, bs[n]) \subseteq J[n]
      <3>1. n \in 0..Len(bs) /\ n - 1 \in 0..Len(bs)
        BY <1>1
      <3>2. \A f \in Insert(o, d, bs[n]) :
               f \in Seq(Nodes) /\ Range(f) \subseteq Range(d) \cup {bs[n]}
        BY <1>1, Inserted
      <3>3. Range(d) \subseteq Range(c) \cup Range(bs)
        BY <2>2, <3>1
      <3> QED
        BY <1>1, <3>1, <3>2, <3>3
    <2>3. Len(bs) \in 0..Len(bs)
      BY <1>1
    <2> HIDE DEF J
    <2>4. e \in J[Len(bs)]
      BY <1>1, <2>1, <2>2, InsertAll
    <2> QED
      BY <2>3, <2>4 DEF J
  <1>3. ASSUME Readable(o), InOrder(o, c)
        PROVE  InOrder(o, e) /\ Range(e) = Range(c) \cup Range(bs)
    <2> DEFINE J == [n \in 0..Len(bs) |->
                        {d \in Seq(Nodes) : /\ InOrder(o, d)
                                            /\ \A x : x \in Range(d) <=>
                                                  \/ x \in Range(c)
                                                  \/ \E i \in 1..n : x = bs[i]}]
    <2>1. c \in J[0]
      BY <1>1, <1>3
    <2>2. ASSUME NEW n \in 1..Len(bs), NEW d \in Seq(Nodes), d \in J[n - 1]
          PROVE  Insert(o, d, bs[n]) \subseteq J[n]
      <3>1. n \in 0..Len(bs) /\ n - 1 \in 0..Len(bs)
        BY <1>1
      <3>2. /\ InOrder(o, d)
            /\ \A x : x \in Range(d) <=> x \in Range(c) \/ \E i \in 1..(n - 1) : x = bs[i]
        BY <2>2, <3>1
      <3>3. SUFFICES ASSUME NEW f \in Insert(o, d, bs[n]) PROVE f \in J[n]
        OBVIOUS
      <3>4. f \in Seq(Nodes)
        BY <1>1, Inserted
      <3>5. InOrder(o, f) /\ Range(f) = Range(d) \cup {bs[n]}
        BY <1>1, <1>3, <3>2, <3>4, InsertedInOrder
      <3>6. \A i : i \in 1..n <=> i \in 1..(n - 1) \/ i = n
        BY <1>1
      <3>7. \A x : x \in Range(f) <=> x \in Range(c) \/ \E i \in 1..n : x = bs[i]
        BY <3>2, <3>5, <3>6
      <3> QED
        BY <3>1, <3>4, <3>5, <3>7
    <2>3. Len(bs) \in 0..Len(bs)
      BY <1>1
    <2> HIDE DEF J
    <2>4. e \in J[Len(bs)]
      BY <1>1, <2>1, <2>2, InsertAll
    <2>5. /\ InOrder(o, e)
          /\ \A x : x \in Range(e) <=> x \in Range(c) \/ \E i \in 1..Len(bs) : x = bs[i]
      BY <2>3, <2>4 DEF J
    <2> QED
      BY <2>5, RangeIs
  <1> QED
    BY <1>2, <1>3

LEMMA Pruned ==
    ASSUME NEW o, NEW c \in Seq(Nodes), NEW t
    PROVE  /\ Prune(o, c, t) \in Seq(Nodes) /\ Range(Prune(o, c, t)) \subseteq Range(c)
           /\ \A x \in Range(c) : ~Less(o, x, t) => x \in Range(Prune(o, c, t))
           /\ Readable(o) /\ InOrder(o, c) /\ t \in Nodes =>
                 /\ InOrder(o, Prune(o, c, t))
                 /\ Range(Prune(o, c, t)) = {x \in Range(c) : ~Less(o, x, t)}
  <1> DEFINE stop == {i \in 1..Len(c) : ~Less(o, c[i], t)}
             d == Prune(o, c, t)
  <1>1. Len(c) \in Nat /\ \A i \in 1..Len(c) : c[i] \in Nodes /\ i \in Nat
    BY RangeIs
  <1>2. CASE stop = {}
    <2>1. d = <<>>
      BY <1>2 DEF Prune
    <2>2. d \in Seq(Nodes) /\ Range(d) = {} /\ Len(d) = 0
      BY <2>1, Empty
    <2>3. InOrder(o, d)
      BY <2>2 DEF InOrder
    <2>4. \A x \in Range(c) : Less(o, x, t)
      BY <1>2, RangeIs
    <2> HIDE DEF d
    <2> QED
      BY <2>2, <2>3, <2>4 DEF d
  <1>3. CASE stop # {}
    <2> DEFINE f == CHOOSE i \in stop : \A j \in stop : i <= j
    <2>1. f \in stop /\ \A j \in stop : f <= j
      <3>1. \E i \in stop : \A j \in stop : i <= j
        <4>1. stop \in SUBSET Nat
          BY <1>1
        <4> HIDE DEF stop
        <4> QED
          BY <1>3, <4>1, Least
      <3> HIDE DEF stop
      <3> QED
        BY <3>1
    <2>2. d = SubSeq(c, f, Len(c))
      BY <1>3 DEF Prune
    <2> HIDE DEF f, d
    <2>3. f \in 1..Len(c) /\ f \in Nat /\ ~Less(o, c[f], t)
      BY <1>1, <2>1
    <2>4. /\ d \in Seq(Nodes) /\ Len(d) = Len(c) - f + 1
          /\ \A i \in 1..(Len(c) - f + 1) : d[i] = c[f + i - 1]
      <3>1. f \in Int /\ Len(c) \in Int /\ \A i \in f..Len(c) : c[i] \in Nodes
        BY <1>1, <2>3
      <3>2. /\ d \in Seq(Nodes)
            /\ Len(d) = IF f <= Len(c) THEN Len(c) - f + 1 ELSE 0
            /\ \A i \in 1..(Len(c) - f + 1) : d[i] = c[f + i - 1]
        BY <2>2, <3>1, SubSeqProperties
      <3> QED
        BY <1>1, <2>3, <3>2
    <2>5. ASSUME NEW x PROVE x \in Range(d) <=> \E i \in f..Len(c) : x = c[i]
      <3>1. ASSUME NEW k \in 1..Len(d) PROVE \E i \in f..Len(c) : d[k] = c[i]
        <4>1. f + k - 1 \in f..Len(c) /\ k \in 1..(Len(c) - f + 1)
          BY <1>1, <2>3, <2>4
        <4> QED
          BY <2>4, <4>1
      <3>2. ASSUME NEW i \in f..Len(c) PROVE \E k \in 1..Len(d) : d[k] = c[i]
        <4>1. PICK k \in 1..Len(d) : f + k - 1 = i
          <5>1. i - f + 1 \in 1..Len(d) /\ f + (i - f + 1) - 1 = i
            BY <1>1, <2>3, <2>4
          <5> QED
            BY <5>1
        <4>2. k \in 1..(Len(c) - f + 1)
          BY <2>4
        <4>3. d[k] = c[f + k - 1]
          BY <2>4, <4>2
        <4> QED
          BY <4>1, <4>3
      <3>3. x \in Range(d) <=> \E k \in 1..Len(d) : x = d[k]
        <4>1. d \in Seq(Nodes)
          BY <2>4
        <4> HIDE DEF d
        <4> QED
          BY <4>1, RangeIs
      <3> HIDE DEF d
      <3>4. ASSUME x \in Range(d) PROVE \E i \in f..Len(c) : x = c[i]
        BY <3>1, <3>3, <3>4
      <3>5. ASSUME NEW i \in f..Len(c), x = c[i] PROVE x \in Range(d)
        BY <3>2, <3>3, <3>5
      <3> QED
        BY <3>4, <3>5
    <2>6. \A i \in f..Len(c) : i \in 1..Len(c)
      BY <1>1, <2>3
    <2>7. Range(d) \subseteq Range(c)
      BY <2>5, <2>6, RangeIs
    <2>8. \A x \in Range(c) : ~Less(o, x, t) => x \in Range(d)
      <3>1. SUFFICES ASSUME NEW i \in 1..Len(c), ~Less(o, c[i], t) PROVE c[i] \in Range(d)
        BY RangeIs
      <3>2. i \in stop
        BY <3>1
      <3>3. f <= i
        BY <2>1, <3>2
      <3>4. i \in f..Len(c)
        BY <1>1, <2>3, <3>3
      <3> QED
        BY <2>5, <3>4
    <2>9. ASSUME Readable(o), InOrder(o, c), t \in Nodes
          PROVE  InOrder(o, d) /\ \A x : x \in Range(d) <=> x \in Range(c) /\ ~Less(o, x, t)
      <3>1. \A i, j \in 1..Len(c) : i < j => Less(o, c[i], c[j])
        BY <2>9 DEF InOrder
      <3>2. InOrder(o, d)
        <4>1. SUFFICES ASSUME NEW i \in 1..Len(d), NEW j \in 1..Len(d), i < j
                       PROVE  Less(o, d[i], d[j])
          BY DEF InOrder
        <4>2. i \in 1..(Len(c) - f + 1) /\ j \in 1..(Len(c) - f + 1)
          BY <2>4
        <4>3. d[i] = c[f + i - 1] /\ d[j] = c[f + j - 1]
          BY <2>4, <4>2
        <4>4. f + i - 1 \in 1..Len(c) /\ f + j - 1 \in 1..Len(c) /\ f + i - 1 < f + j - 1
          BY <1>1, <2>3, <4>1, <4>2
        <4> QED
          BY <3>1, <4>3, <4>4
      <3>3. ASSUME NEW i \in f..Len(c) PROVE ~Less(o, c[i], t)
        <4>1. i = f \/ (f < i /\ i \in 1..Len(c))
          BY <1>1, <2>3
        <4>2. CASE f < i /\ i \in 1..Len(c)
          <5>1. Less(o, c[f], c[i])
            BY <2>3, <3>1, <4>2
          <5> QED
            BY <1>1, <2>3, <2>9, <4>2, <5>1, Transits
        <4> QED
          BY <2>3, <4>1, <4>2
      <3>4. \A x : x \in Range(d) <=> x \in Range(c) /\ ~Less(o, x, t)
        BY <2>5, <2>6, <2>8, <3>3, RangeIs
      <3> QED
        BY <3>2, <3>4
    <2> QED
      BY <2>4, <2>7, <2>8, <2>9 DEF d
  <1> QED
    BY <1>2, <1>3

\* A list stays in order when nothing is changed that the comparator reads of it.
LEMMA SameOrder ==
    ASSUME NEW o, NEW p, o.can = p.can, NEW a, NEW b, o.seq[a] = p.seq[a], o.seq[b] = p.seq[b]
    PROVE  Less(o, a, b) <=> Less(p, a, b)
  BY DEF Less

LEMMA StaysInOrder ==
    ASSUME NEW o, NEW p, o.can = p.can, NEW c \in Seq(Nodes), InOrder(o, c),
           \A x \in Range(c) : o.seq[x] = p.seq[x]
    PROVE  InOrder(p, c)
  <1>1. \A i, j \in 1..Len(c) : Less(o, c[i], c[j]) <=> Less(p, c[i], c[j])
    <2>1. \A i \in 1..Len(c) : c[i] \in Range(c)
      BY RangeIs
    <2> QED
      BY <2>1, SameOrder
  <1> QED
    BY <1>1 DEF InOrder

LEMMA DownwardIs ==
    ASSUME NEW a, NEW b, OnBranch(a, b)
    PROVE  /\ Downward(b, a) \in Seq(Nodes)
           /\ \A x : x \in Range(Downward(b, a)) <=> OnBranch(x, b) /\ OnBranch(a, x)
  <1> DEFINE s == Branch[b]
             l == Height(a) + 1
             n == Len(s)
             t == SubSeq(s, l, n)
             d == Downward(b, a)
             m == n - l + 1
  <1>1. a \in Nodes /\ b \in Nodes
    BY OnNodes
  <1>2. /\ s \in Seq(Nodes) /\ n \in Nat /\ l \in Nat /\ l >= 1 /\ l <= n
        /\ Height(b) = n - 1
    <2>1. s \in Seq(Nodes) /\ n \in Nat \ {0} /\ Height(b) = n - 1 /\ Height(a) \in Nat
      BY <1>1, Lengths
    <2>2. Height(a) <= Height(b)
      BY Lower
    <2> HIDE DEF s, n
    <2> QED
      BY <2>1, <2>2
  <1>3. \A i \in 1..n : OnBranch(s[i], b) /\ Height(s[i]) = i - 1 /\ s[i] \in Nodes
    BY <1>1, Position, OnNodes
  <1>4. \A x : OnBranch(x, b) => \E i \in 1..n : s[i] = x
    BY DEF OnBranch, Ancestry
  <1> HIDE DEF s, n
  <1>5. /\ t \in Seq(Nodes) /\ Len(t) = m /\ m \in Nat
        /\ \A i \in 1..m : t[i] = s[l + i - 1]
    <2> HIDE DEF l
    <2>1. l \in Int /\ n \in Int /\ \A i \in l..n : s[i] \in Nodes
      BY <1>2, <1>3
    <2>2. /\ t \in Seq(Nodes) /\ Len(t) = IF l <= n THEN n - l + 1 ELSE 0
          /\ \A i \in 1..(n - l + 1) : t[i] = s[l + i - 1]
      BY <2>1, SubSeqProperties
    <2>3. m \in Nat
      BY <1>2
    <2> QED
      BY <1>2, <2>2, <2>3
  <1>6. d = [i \in 1..Len(t) |-> t[Len(t) - i + 1]]
    BY DEF Downward, Reverse, s, n
  <1> HIDE DEF t, l, d
  <1>7. ASSUME NEW i \in 1..m PROVE d[i] = s[n - i + 1] /\ n - i + 1 \in l..n
    <2>1. m - i + 1 \in 1..m /\ l + (m - i + 1) - 1 = n - i + 1 /\ n - i + 1 \in l..n
      BY <1>2, <1>5
    <2>2. d[i] = t[m - i + 1]
      BY <1>5, <1>6
    <2>3. t[m - i + 1] = s[l + (m - i + 1) - 1]
      BY <1>5, <2>1
    <2> QED
      BY <2>1, <2>2, <2>3
  <1>8. \A i \in l..n : i \in 1..n
    BY <1>2
  <1>9. d \in Seq(Nodes) /\ Len(d) = m
    <2>1. \A i \in 1..m : d[i] \in Nodes
      BY <1>3, <1>7, <1>8
    <2>2. d \in [1..m -> Nodes]
      BY <1>5, <1>6, <2>1
    <2> HIDE DEF m
    <2> QED
      BY <1>5, <2>2
  <1> HIDE DEF m
  <1>10. ASSUME NEW x \in Range(d) PROVE OnBranch(x, b) /\ OnBranch(a, x)
    <2>1. PICK k \in 1..m : x = d[k]
      BY <1>9, RangeIs
    <2>2. PICK i \in l..n : x = s[i]
      BY <1>7, <2>1
    <2>3. OnBranch(x, b) /\ Height(x) = i - 1 /\ i \in Nat
      BY <1>2, <1>3, <1>8, <2>2
    <2>4. Height(a) <= Height(x)
      BY <1>1, <1>2, <2>3, Lengths DEF l
    <2>5. OnBranch(x, a) => x = a
      <3>1. OnBranch(x, a) => Height(x) <= Height(a) /\ (Height(x) = Height(a) => x = a)
        BY Lower
      <3>2. Height(x) \in Nat /\ Height(a) \in Nat
        BY <1>1, <2>3, OnNodes, Lengths
      <3> QED
        BY <2>4, <3>1, <3>2
    <2>6. OnBranch(x, a) \/ OnBranch(a, x)
      BY <2>3, Comparable
    <2> QED
      BY <1>1, <2>3, <2>5, <2>6, Itself
  <1>11. ASSUME NEW x, OnBranch(x, b), OnBranch(a, x) PROVE x \in Range(d)
    <2>1. PICK i \in 1..n : s[i] = x
      BY <1>4, <1>11
    <2>2. Height(x) = i - 1 /\ Height(a) <= Height(x) /\ Height(a) \in Nat
      BY <1>3, <1>11, <2>1, Lower
    <2>3. i >= l
      BY <1>2, <2>2 DEF l
    <2>4. PICK k \in 1..m : n - k + 1 = i
      <3>1. n - i + 1 \in 1..m /\ n - (n - i + 1) + 1 = i
        BY <1>2, <2>3 DEF m
      <3> QED
        BY <3>1
    <2>5. d[k] = x
      BY <1>7, <2>1, <2>4
    <2> QED
      BY <1>9, <2>5, RangeIs
  <1> QED
    BY <1>9, <1>10, <1>11 DEF d

-----------------------------------------------------------------------------
(***************************************************************************)
(* The data of the blocks.                                                 *)
(***************************************************************************)

LEMMA MaxIsNumber ==
    ASSUME NEW f \in [Nodes -> Nat]
    PROVE  Max({f[b] : b \in Nodes}) \in Nat
  <1> DEFINE n == Len(Parent)
             S == {m \in 0..n : \E k \in Nat : \A i \in 0..m : f[i] <= k}
             T == {f[b] : b \in Nodes}
  <1>1. n \in Nat /\ Nodes = 0..n
    BY Numbered DEF Nodes
  <1> HIDE DEF n
  <1>2. 0 \in S
    <2>1. f[0] \in Nat /\ \A i \in 0..0 : f[i] <= f[0]
      <3>1. 0 \in Nodes
        BY <1>1
      <3>2. f[0] \in Nat /\ \A i \in 0..0 : i = 0
        BY <3>1
      <3> QED
        BY <3>2
    <2> QED
      BY <1>1, <2>1
  <1>3. ASSUME NEW m \in 0..(n - 1), m \in S PROVE m + 1 \in S
    <2>1. PICK k \in Nat : \A i \in 0..m : f[i] <= k
      BY <1>3
    <2>2. m + 1 \in Nodes /\ f[m + 1] \in Nat /\ m \in Nat
      BY <1>1
    <2>3. PICK q \in Nat : k <= q /\ f[m + 1] <= q
      <3>1. k + f[m + 1] \in Nat /\ k <= k + f[m + 1] /\ f[m + 1] <= k + f[m + 1]
        BY <2>2
      <3> QED
        BY <3>1
    <2>4. ASSUME NEW i \in 0..(m + 1) PROVE f[i] <= q
      <3>1. i \in 0..m \/ i = m + 1
        BY <2>2
      <3>2. i \in Nodes /\ f[i] \in Nat
        <4>1. i \in Nodes
          BY <1>1
        <4> QED
          BY <4>1
      <3>3. CASE i \in 0..m
        <4>1. f[i] <= k
          BY <2>1, <3>3
        <4> QED
          BY <2>3, <3>2, <4>1
      <3> QED
        BY <2>3, <3>1, <3>3
    <2> QED
      BY <1>1, <2>2, <2>4
  <1> HIDE DEF S
  <1>4. 0..n \subseteq S
    BY <1>1, <1>2, <1>3, Induction
  <1>5. PICK k \in Nat : \A i \in 0..n : f[i] <= k
    <2>1. n \in S
      BY <1>1, <1>4
    <2> QED
      BY <2>1 DEF S
  <1>6. T \in SUBSET (0..k) /\ T # {}
    <2>1. \A b \in Nodes : f[b] \in 0..k
      BY <1>1, <1>5
    <2> QED
      BY <2>1, Numbered
  <1> HIDE DEF T
  <1>7. PICK x \in T : \A y \in T : y <= x
    BY <1>6, Greatest
  <1>8. \E x1 \in T : \A y \in T : x1 >= y
    <2>1. \A y \in T : y \in Nat
      BY <1>6
    <2> QED
      BY <1>7, <2>1
  <1>9. Max(T) \in T
    BY <1>8 DEF Max
  <1> QED
    BY <1>6, <1>9 DEF T

LEMMA Shape ==
    ASSUME Typed
    PROVE  /\ valid \subseteq Blocks /\ coming \subseteq Blocks
           /\ [valid |-> valid, coming |-> coming, events |-> events].events = events
           /\ events \subseteq {"invalidate", "reconsider", "setlast", "wallet", "restart"}
  <1> DEFINE s == [valid |-> valid, coming |-> coming, events |-> events]
  <1>1. s \in [valid : SUBSET Blocks, coming : SUBSET Blocks, events :
                  SUBSET {"invalidate", "reconsider", "setlast", "wallet", "restart"}]
    BY SelectionAssumption DEF Typed
  <1>2. s.valid = valid /\ s.coming = coming /\ s.events = events
    OBVIOUS
  <1> HIDE DEF s
  <1>3. /\ s.valid \in SUBSET Blocks /\ s.coming \in SUBSET Blocks
        /\ s.events \in SUBSET {"invalidate", "reconsider", "setlast", "wallet", "restart"}
    BY <1>1
  <1> QED
    BY <1>2, <1>3 DEF s

\* The data of the blocks of a branch up to b, and of the parent's branch.
LEMMA CompleteParent ==
    ASSUME NEW h, NEW b \in Blocks
    PROVE  Complete(h, b) <=> b \in h /\ Complete(h, Parent[b])
  <1>1. b \in Nodes /\ Blocks \subseteq Nodes
    BY Numbered
  <1>2. \A a \in Blocks : OnBranch(a, b) <=> a = b \/ OnBranch(a, Parent[b])
    BY <1>1, Follows
  <1> QED
    BY <1>2 DEF Complete

LEMMA CompleteGenesis == \A h : Complete(h, 0)
  <1>1. \A a \in Blocks : ~OnBranch(a, 0)
    BY Numbered, Genesis
  <1> QED
    BY <1>1 DEF Complete

LEMMA CompleteBefore ==
    ASSUME NEW h, NEW b, Complete(h, b), NEW a, OnBranch(a, b)
    PROVE  Complete(h, a)
  BY Transitive DEF Complete

LEMMA CompleteMore ==
    ASSUME NEW h, NEW g, h \subseteq g, NEW b, Complete(h, b)
    PROVE  Complete(g, b)
  BY DEF Complete

\* The next block up the branch of the one to go to.
LEMMA NextIs ==
    ASSUME Typed, OnBranch(tip, most), tip # most
    PROVE  /\ next \in Blocks /\ Parent[next] = tip /\ OnBranch(next, most)
           /\ Height(next) = Height(tip) + 1 /\ Height(tip) \in Nat
  <1> DEFINE s == Branch[most]
             i == Height(tip) + 2
  <1>1. tip \in Nodes /\ most \in Nodes
    BY DEF Typed
  <1>2. /\ Height(tip) \in Nat /\ Height(most) \in Nat
        /\ Height(tip) <= Height(most) /\ Height(tip) # Height(most)
    BY Lower
  <1>3. Len(s) = Height(most) + 1
    BY <1>1, <1>2, Lengths
  <1>4. i \in 1..Len(s) /\ i - 1 \in 1..Len(s) /\ i > 1 /\ i - 1 - 1 = Height(tip)
        /\ i - 1 = Height(tip) + 1
    BY <1>2, <1>3
  <1> HIDE DEF s, i
  <1>5. /\ OnBranch(s[i], most) /\ Height(s[i]) = i - 1
        /\ s[i] \in Blocks /\ s[i - 1] = Parent[s[i]]
        /\ OnBranch(s[i - 1], most) /\ Height(s[i - 1]) = i - 1 - 1
    BY <1>1, <1>4, Position DEF s
  <1>6. s[i - 1] = tip
    <2>1. OnBranch(tip, s[i - 1]) \/ OnBranch(s[i - 1], tip)
      BY <1>5, Comparable
    <2> QED
      BY <1>4, <1>5, <2>1, Lower
  <1>7. next = s[i]
    BY DEF next, s, i
  <1> QED
    BY <1>2, <1>4, <1>5, <1>6, <1>7

\* What VerifyBlockMiner lets pass has its data.
LEMMA VerifiedComplete ==
    ASSUME NEW h, Complete(h, tip), tip \in Nodes, NEW c \in Nodes, NEW x \in Verified(c, h)
    PROVE  x \in Nodes /\ Complete(h, x)
  <1>1. ASSUME NEW b \in Nodes, \A a \in Above(b) : a \in h PROVE Complete(h, b)
    BY <1>1 DEF Above, Complete
  <1>2. CASE Above(c) = {}
    <2>1. x = c
      BY <1>2 DEF Verified
    <2> QED
      BY <1>1, <1>2, <2>1
  <1>3. CASE Above(c) # {}
    <2>1. x \in Above(c) /\ Above(x) \subseteq h
      BY <1>3 DEF Verified
    <2>2. x \in Nodes
      BY <2>1, Numbered DEF Above
    <2> QED
      BY <1>1, <2>1, <2>2
  <1> QED
    BY <1>2, <1>3

LEMMA CheckedComplete ==
    ASSUME DInv
    PROVE  checked \subseteq Nodes /\ \A b \in checked : Complete(have, b)
  <1>1. /\ passed \subseteq Nodes /\ tip \in Nodes /\ Complete(have, tip)
        /\ \A b \in passed : Complete(have, b)
    BY DEF DInv, Typed, Data
  <1>2. Range(candidates) \subseteq Nodes
    BY RangeIs DEF DInv, Typed
  <1>3. ASSUME NEW b \in checked PROVE b \in Nodes /\ Complete(have, b)
    <2>1. CASE b \in passed
      BY <1>1, <2>1
    <2>2. CASE b \notin passed
      <3>1. PICK c \in Range(candidates) : b \in Verified(c, have)
        BY <2>2 DEF checked, fresh
      <3> QED
        BY <1>1, <1>2, <3>1, VerifiedComplete
    <2> QED
      BY <2>1, <2>2
  <1> QED
    BY <1>3

LEMMA OrderReadable ==
    Typed => Readable(order)
  BY DEF Typed, Readable, order

\* The best of those that passed is one of them, and no other is after it.
LEMMA BestIs ==
    ASSUME DInv, Chosen # {}
    PROVE  /\ best \in Chosen /\ best \in Nodes /\ Complete(have, best)
           /\ \A c \in Chosen : c = best \/ Less(order, c, best)
  <1>1. Chosen \subseteq Nodes /\ \A b \in Chosen : Complete(have, b)
    BY CheckedComplete DEF Chosen
  <1>2. Readable(order)
    BY OrderReadable DEF DInv
  <1> QED
    BY <1>1, <1>2, LastExists DEF best

\* With its data come that of b and of the blocks that waited for it.
LEMMA FreedIs ==
    ASSUME DInv, NEW b \in Blocks, b \notin have, Complete(have, Parent[b]),
           NEW h, h = have \cup {b}
    PROVE  /\ b \in Freed(b) /\ Freed(b) \subseteq Blocks
           /\ linked \cup Freed(b) = {x \in Blocks : Complete(h, x)}
           /\ \A x \in Freed(b) : x \notin linked
  <1>1. b \in Nodes /\ Blocks \subseteq Nodes /\ Parent[b] \in Nodes
    BY Numbered
  <1>2. /\ linked = {x \in Blocks : Complete(have, x)}
        /\ unlinked = {<<Parent[x], x>> : x \in have \ linked}
        /\ have \subseteq Blocks
    BY DEF DInv, Typed, Data
  <1>3. b \in Freed(b)
    <2>1. OnBranch(b, b) /\ Height(b) \in Nat
      BY <1>1, Itself, Lengths
    <2>2. ~(\E i : i \in (Height(b) + 2)..(Height(b) + 1))
      BY <2>1
    <2> QED
      BY <2>1, <2>2 DEF Freed
  <1>4. ASSUME NEW c \in Freed(b) PROVE Complete(h, c) /\ c \notin linked
    <2>1. c \in Blocks /\ c \in Nodes /\ OnBranch(b, c)
          /\ \A i \in (Height(b) + 2)..(Height(c) + 1) :
                <<Branch[c][i - 1], Branch[c][i]>> \in unlinked
      BY <1>1 DEF Freed
    <2>2. ASSUME NEW a \in Blocks, OnBranch(a, c) PROVE a \in h
      <3>1. CASE OnBranch(a, b)
        <4>1. a = b \/ OnBranch(a, Parent[b])
          BY <1>1, <3>1, Follows
        <4> QED
          BY <4>1 DEF Complete
      <3>2. CASE ~OnBranch(a, b)
        <4>1. OnBranch(b, a)
          BY <2>1, <2>2, <3>2, Comparable
        <4>2. a # b
          BY <1>1, <3>2, Itself
        <4>3. /\ Height(b) \in Nat /\ Height(a) \in Nat /\ Height(c) \in Nat
              /\ Height(b) < Height(a) /\ Height(a) <= Height(c)
          <5>1. /\ Height(b) <= Height(a) /\ Height(b) \in Nat /\ Height(a) \in Nat
                /\ Height(b) # Height(a)
            BY <4>1, <4>2, Lower
          <5>2. Height(a) <= Height(c) /\ Height(c) \in Nat
            BY <2>2, Lower
          <5> QED
            BY <5>1, <5>2
        <4>4. PICK i \in 1..Len(Branch[c]) : Branch[c][i] = a
          BY <2>2 DEF OnBranch, Ancestry
        <4>5. Height(a) = i - 1
          BY <2>1, <4>4, Position
        <4>6. Len(Branch[c]) = Height(c) + 1
          BY <2>1, <4>3, Lengths
        <4>7. i \in (Height(b) + 2)..(Height(c) + 1)
          BY <4>3, <4>5, <4>6
        <4>8. <<Branch[c][i - 1], a>> \in unlinked
          BY <2>1, <4>4, <4>7
        <4>9. a \in have
          BY <1>2, <4>8
        <4> QED
          BY <4>9
      <3> QED
        BY <3>1, <3>2
    <2>3. Complete(h, c)
      BY <2>2 DEF Complete
    <2>4. c \notin linked
      BY <1>2, <2>1 DEF Complete
    <2> QED
      BY <2>3, <2>4
  <1>5. ASSUME NEW c \in Blocks, Complete(h, c), c \notin linked PROVE c \in Freed(b)
    <2>1. c \in Nodes /\ ~Complete(have, c)
      BY <1>1, <1>2, <1>5
    <2>2. OnBranch(b, c)
      BY <1>5, <2>1 DEF Complete
    <2>3. ASSUME NEW i \in (Height(b) + 2)..(Height(c) + 1)
          PROVE  <<Branch[c][i - 1], Branch[c][i]>> \in unlinked
      <3> DEFINE a == Branch[c][i]
      <3>1. Len(Branch[c]) = Height(c) + 1 /\ Height(c) \in Nat /\ Height(b) \in Nat
        BY <1>1, <2>1, Lengths
      <3>2. i \in 1..Len(Branch[c]) /\ i > 1 /\ i - 1 > Height(b)
        BY <3>1
      <3>3. /\ OnBranch(a, c) /\ Height(a) = i - 1
            /\ a \in Blocks /\ Branch[c][i - 1] = Parent[a]
        BY <2>1, <3>2, Position
      <3> HIDE DEF a
      <3>4. OnBranch(b, a) /\ a # b
        <4>1. OnBranch(a, b) => Height(a) <= Height(b)
          BY Lower
        <4>2. ~OnBranch(a, b)
          BY <3>1, <3>2, <3>3, <4>1
        <4>3. OnBranch(b, a)
          BY <2>2, <3>3, <4>2, Comparable
        <4> QED
          BY <1>1, <4>2, <4>3, Itself
      <3>5. a \in have
        BY <1>5, <3>3, <3>4 DEF Complete
      <3>6. a \notin linked
        BY <1>2, <3>4 DEF Complete
      <3>7. <<Parent[a], a>> \in unlinked
        BY <1>2, <3>5, <3>6
      <3> QED
        BY <3>3, <3>7 DEF a
    <2> QED
      BY <1>5, <2>2, <2>3 DEF Freed
  <1>6. ASSUME NEW c \in linked PROVE c \in Blocks /\ Complete(h, c)
    BY <1>2, CompleteMore
  <1>7. Freed(b) \subseteq Blocks
    BY DEF Freed
  <1> QED
    BY <1>3, <1>4, <1>5, <1>6, <1>7

LEMMA Waiting ==
    ASSUME NEW h, NEW g, g = {x \in Blocks : Complete(h, x)},
           NEW x \in Blocks, x \in h, Parent[x] \in g \/ Parent[x] = 0
    PROVE  x \in g
  <1>1. Complete(h, Parent[x])
    BY CompleteGenesis
  <1> QED
    BY <1>1, CompleteParent

LEMMA ReceiveData ==
    ASSUME DInv, NEW b \in Blocks, ReceiveBlock(b)
    PROVE  Data'
  <1>1. b \in Nodes /\ Blocks \subseteq Nodes /\ Parent[b] \in Nodes /\ 0 \notin Blocks
        /\ Nodes = Blocks \cup {0}
    BY Numbered
  <1>2. /\ linked = {x \in Blocks : Complete(have, x)}
        /\ unlinked = {<<Parent[x], x>> : x \in have \ linked}
        /\ have \subseteq Blocks /\ tip \in Nodes /\ passed \subseteq Nodes
        /\ Complete(have, tip) /\ \A x \in passed : Complete(have, x)
    BY DEF DInv, Typed, Data
  <1>3. /\ b \notin have /\ have' = have \cup {b} /\ tip' = tip
        /\ passed' = passed \cup Verified(b, have')
    BY DEF ReceiveBlock
  <1>4. Complete(have', tip')
    BY <1>2, <1>3, CompleteMore
  <1>5. ASSUME NEW x \in passed' PROVE Complete(have', x)
    <2>1. CASE x \in passed
      BY <1>2, <1>3, <2>1, CompleteMore
    <2>2. CASE x \in Verified(b, have')
      BY <1>1, <1>2, <1>3, <1>4, <2>2, VerifiedComplete
    <2> QED
      BY <1>3, <2>1, <2>2
  <1>6. Complete(have, Parent[b]) <=> Parent[b] = 0 \/ Parent[b] \in linked
    BY <1>1, <1>2, CompleteGenesis
  <1>7. /\ linked' = {x \in Blocks : Complete(have', x)}
        /\ unlinked' = {<<Parent[x], x>> : x \in have' \ linked'}
    <2>1. CASE Complete(have, Parent[b])
      <3>1. linked' = linked \cup Freed(b) /\ unlinked' = {p \in unlinked : p[1] \notin Freed(b)}
        BY <1>6, <2>1 DEF ReceiveBlock
      <3>2. b \in Freed(b) /\ linked' = {x \in Blocks : Complete(have', x)}
        BY <1>3, <2>1, <3>1, FreedIs
      <3>3. ASSUME NEW x \in have \ linked
            PROVE  x \notin linked' <=> Parent[x] \notin Freed(b)
        <4>1. x \in Blocks /\ x \in have' /\ Parent[x] \in Nodes
          BY <1>2, <1>3, Numbered
        <4>2. Parent[x] \in Freed(b) => x \in linked'
          <5>1. Parent[x] \in Freed(b) => Parent[x] \in linked'
            BY <3>1
          <5> QED
            BY <3>2, <4>1, <5>1, Waiting
        <4>3. x \in linked' => Parent[x] \in Freed(b)
          <5>1. SUFFICES ASSUME x \in linked' PROVE Parent[x] \in Freed(b)
            OBVIOUS
          <5>2. Complete(have', Parent[x])
            BY <3>2, <4>1, <5>1, CompleteParent
          <5>3. Parent[x] \in linked' \/ Parent[x] = 0
            BY <1>1, <3>2, <4>1, <5>2
          <5>4. Parent[x] \notin linked /\ Parent[x] # 0
            BY <1>2, <4>1, Waiting
          <5> QED
            BY <3>1, <5>3, <5>4
        <4> QED
          BY <4>2, <4>3
      <3>4. \A x \in have \ linked : <<Parent[x], x>>[1] = Parent[x]
        OBVIOUS
      <3>5. have' \ linked' = {x \in have \ linked : x \notin linked'}
        <4>1. b \in linked' /\ linked \subseteq linked'
          BY <3>1, <3>2
        <4> QED
          BY <1>3, <4>1
      <3>6. unlinked' = {<<Parent[x], x>> : x \in {y \in have \ linked : Parent[y] \notin Freed(b)}}
        BY <1>2, <3>1, <3>4
      <3>7. {y \in have \ linked : Parent[y] \notin Freed(b)} = have' \ linked'
        BY <3>3, <3>5
      <3> QED
        BY <3>2, <3>6, <3>7
    <2>2. CASE ~Complete(have, Parent[b])
      <3>1. linked' = linked /\ unlinked' = unlinked \cup {<<Parent[b], b>>}
        BY <1>6, <2>2 DEF ReceiveBlock
      <3>2. ASSUME NEW x \in Blocks, Complete(have', x) PROVE Complete(have, x)
        <4>1. ~OnBranch(b, x)
          <5>1. SUFFICES ASSUME OnBranch(b, x) PROVE FALSE
            OBVIOUS
          <5>2. Complete(have', b)
            BY <3>2, <5>1, CompleteBefore
          <5>3. Complete(have', Parent[b])
            BY <5>2, CompleteParent
          <5>4. ~OnBranch(b, Parent[b])
            <6>1. Height(b) = Height(Parent[b]) + 1 /\ Height(Parent[b]) \in Nat
              BY <1>1, Grown, Lengths
            <6>2. OnBranch(b, Parent[b]) => Height(b) <= Height(Parent[b])
              BY Lower
            <6> QED
              BY <6>1, <6>2
          <5>5. Complete(have, Parent[b])
            BY <1>3, <5>3, <5>4 DEF Complete
          <5> QED
            BY <2>2, <5>5
        <4> QED
          BY <1>3, <3>2, <4>1 DEF Complete
      <3>3. \A x \in Blocks : Complete(have', x) <=> Complete(have, x)
        BY <1>3, <3>2, CompleteMore
      <3>4. b \notin linked
        BY <1>1, <1>2, <1>3, Itself DEF Complete
      <3>5. have' \ linked' = (have \ linked) \cup {b}
        BY <1>3, <3>1, <3>4
      <3>6. unlinked' = {<<Parent[x], x>> : x \in have' \ linked'}
        BY <1>2, <3>1, <3>5
      <3> QED
        BY <1>2, <3>1, <3>3, <3>6
    <2> QED
      BY <2>1, <2>2
  <1> QED
    BY <1>4, <1>5, <1>7 DEF Data

LEMMA ReceiveTyped ==
    ASSUME DInv, NEW b \in Blocks, ReceiveBlock(b)
    PROVE  /\ Typed'
           /\ (Parent[b] = 0 \/ Parent[b] \in linked) =>
                 Freed(b) \subseteq Blocks /\ candidates' \in InsertEach(order', candidates, ByHeight(Freed(b)))
           /\ ~(Parent[b] = 0 \/ Parent[b] \in linked) => candidates' = candidates
           /\ \A c \in Nodes : c \notin linked' \ linked => sequenceId'[c] = sequenceId[c]
  <1>1. Typed
    BY DEF DInv
  <1>2. /\ tip' = tip /\ failed' = failed /\ most' = most /\ oldTip' = oldTip
        /\ op' = op /\ caller' = caller /\ scenario' = scenario
        /\ have' = have \cup {b} /\ passed' = passed \cup Verified(b, have')
    BY DEF ReceiveBlock, world, step
  <1>3. [valid |-> valid, coming |-> coming, events |-> events]' \in Scenarios
    BY <1>1, <1>2 DEF scenario, Typed
  <1>4. passed' \subseteq Nodes
    <2>1. Data'
      BY ReceiveData
    <2>2. /\ Complete(have', tip) /\ tip \in Nodes /\ b \in Nodes
      BY <1>1, <1>2, <2>1, Numbered DEF Data, Typed
    <2>3. Verified(b, have') \subseteq Nodes
      BY <2>2, VerifiedComplete
    <2> QED
      BY <1>1, <1>2, <2>3 DEF Typed
  <1>5. CASE Parent[b] = 0 \/ Parent[b] \in linked
    <2> DEFINE q == ByHeight(Freed(b))
    <2>1. Freed(b) \subseteq Blocks
      BY DEF Freed
    <2>2. q \in Seq(Nodes) /\ Range(q) = Freed(b)
      BY <2>1, ByHeightIs
    <2>3. /\ sequenceId' = [c \in Nodes |->
                IF c \in Freed(b)
                THEN NextId - 1 + (CHOOSE i \in 1..Len(q) : q[i] = c)
                ELSE sequenceId[c]]
          /\ candidates' \in InsertEach(order', candidates, q)
          /\ linked' = linked \cup Freed(b)
      BY <1>5 DEF ReceiveBlock
    <2> HIDE DEF q
    <2>4. candidates' \in Seq(Nodes)
      BY <1>1, <2>2, <2>3, InsertedAll DEF Typed
    <2>5. NextId - 1 \in Nat
      <3>1. Max({sequenceId[c] : c \in Nodes}) \in Nat
        BY <1>1, MaxIsNumber DEF Typed
      <3> QED
        BY <3>1 DEF NextId
    <2>6. \A c \in Freed(b) : (CHOOSE i \in 1..Len(q) : q[i] = c) \in 1..Len(q)
      BY <2>2, RangeIs
    <2>7. sequenceId' \in [Nodes -> Nat]
      <3>1. \A c \in Nodes : sequenceId'[c] \in Nat
        <4>1. SUFFICES ASSUME NEW c \in Nodes PROVE sequenceId'[c] \in Nat
          OBVIOUS
        <4>2. CASE c \in Freed(b)
          <5> DEFINE k == CHOOSE i \in 1..Len(q) : q[i] = c
          <5>1. k \in 1..Len(q)
            BY <2>6, <4>2
          <5>2. sequenceId'[c] = NextId - 1 + k
            BY <2>3, <4>2
          <5> HIDE DEF k
          <5>3. k \in Nat
            BY <2>2, <5>1, RangeIs
          <5> QED
            BY <2>5, <5>2, <5>3
        <4>3. CASE c \notin Freed(b)
          BY <1>1, <2>3, <4>3 DEF Typed
        <4> QED
          BY <4>2, <4>3
      <3> QED
        BY <2>3, <3>1
    <2>8. Typed'
      BY <1>1, <1>2, <1>3, <1>4, <2>4, <2>7 DEF Typed
    <2>9. \A c \in Nodes : c \notin linked' \ linked => sequenceId'[c] = sequenceId[c]
      <3>1. \A c \in Freed(b) : c \notin linked
        <4>1. Complete(have, Parent[b])
          <5>1. linked = {x \in Blocks : Complete(have, x)}
            BY DEF DInv, Data
          <5> QED
            BY <1>5, <5>1, CompleteGenesis
        <4>2. b \notin have
          BY DEF ReceiveBlock
        <4> QED
          BY <1>2, <4>1, <4>2, FreedIs
      <3> QED
        BY <2>3, <3>1
    <2> QED
      BY <1>5, <2>1, <2>3, <2>8, <2>9 DEF q
  <1>6. CASE ~(Parent[b] = 0 \/ Parent[b] \in linked)
    <2>1. sequenceId' = sequenceId /\ candidates' = candidates
      BY <1>6 DEF ReceiveBlock
    <2>2. Typed'
      BY <1>1, <1>2, <1>3, <1>4, <2>1 DEF Typed
    <2> QED
      BY <1>6, <2>1, <2>2
  <1> QED
    BY <1>5, <1>6

\* Where a block fails that leads to the best candidate.
LEMMA FailedAtIs ==
    ASSUME DInv, Chosen # {}, NEW x \in failedAt
    PROVE  /\ x \in Blocks /\ x \in Nodes /\ OnBranch(x, best) /\ ~OnBranch(x, tip)
           /\ x \in failed \cup rejected
  <1>1. x \in Above(best) \cap (failed \cup rejected)
    BY DEF failedAt
  <1> QED
    BY <1>1, Numbered DEF Above

\* It is searched for from above: where none is, there is none.
LEMMA NoneFailed ==
    ASSUME failedAt = {}, best \in Nodes
    PROVE  Above(best) \cap (failed \cup rejected) = {}
  <1> DEFINE bad == Above(best) \cap (failed \cup rejected)
             hs == {Height(a) : a \in bad}
  <1>1. SUFFICES ASSUME bad # {} PROVE FALSE
    OBVIOUS
  <1>2. Height(best) \in Nat
    BY Lengths
  <1>3. hs \in SUBSET (0..Height(best)) /\ hs # {}
    <2>1. ASSUME NEW a \in bad PROVE Height(a) \in 0..Height(best)
      <3>1. OnBranch(a, best)
        BY DEF Above
      <3>2. Height(a) <= Height(best) /\ Height(a) \in Nat
        BY <3>1, Lower
      <3> QED
        BY <1>2, <3>2
    <2> HIDE DEF bad
    <2> QED
      BY <1>1, <2>1
  <1>4. PICK h \in hs : \A g \in hs : g <= h
    <2> HIDE DEF hs
    <2> QED
      BY <1>2, <1>3, Greatest
  <1>5. PICK a \in bad : h = Height(a)
    <2> HIDE DEF bad
    <2> QED
      OBVIOUS
  <1>6. \A c \in bad : Height(c) <= Height(a)
    <2> HIDE DEF bad
    <2> QED
      BY <1>4, <1>5
  <1>7. a \in failedAt
    BY <1>6 DEF failedAt
  <1> QED
    BY <1>7

\* Which steps FindMostWorkChain may take.
LEMMA Findings ==
    ASSUME DInv, FindMostWorkChain
    PROVE  /\ passed' = checked /\ tip' = tip /\ caller' = caller /\ world' = world
           /\ arrived' = arrived /\ canMine' = canMine /\ op = "find"
           /\ \/ /\ Chosen = {} \/ (failedAt = {} /\ best = tip)
                 /\ op' = "idle" /\ activate' = FALSE /\ failed' = failed \cup rejected
                 /\ UNCHANGED <<candidates, most, mined, oldTip>>
              \/ /\ Chosen # {} /\ failedAt = {} /\ best # tip
                 /\ op' = "step" /\ most' = best /\ oldTip' = tip /\ mined' = (best \in canMine)
                 /\ failed' = failed \cup rejected
                 /\ UNCHANGED <<candidates, activate>>
              \/ /\ Chosen # {} /\ UNCHANGED <<op, activate, most, mined, oldTip>>
                 /\ \E x \in failedAt :
                       LET chain == {a \in Above(best) : Height(a) > Height(x)}
                       IN  /\ failed' = failed \cup rejected \cup chain
                           /\ candidates' \in EraseEach(order, candidates, Downward(best, x))
  BY DEF FindMostWorkChain

LEMMA InvalidateIs ==
    ASSUME DInv, NEW b \in Blocks, InvalidateBlock(b)
    PROVE  /\ candidates' \in Seq(Nodes) /\ op = "idle" /\ "invalidate" \in events
           /\ failed \subseteq failed' /\ failed' \subseteq Blocks
           /\ \A a \in failed' : a \in failed \/ OnBranch(b, a)
           /\ OnBranch(b, tip) => tip' = Parent[b]
           /\ ~OnBranch(b, tip) => tip' = tip /\ \A a \in failed' : a \in failed \/ a = b
           /\ world' = world /\ arrived' = arrived /\ passed' = passed /\ canMine' = canMine
           /\ op' = op /\ step' = step
  <1> DEFINE active == IF OnBranch(b, tip)
                       THEN {a \in Blocks : OnBranch(b, a) /\ OnBranch(a, tip)} ELSE {}
             give == {x \in Blocks : Eligible(x, failed') /\ Less(order, tip', x)}
             down == <<b>> \o (IF active = {} THEN <<>> ELSE Downward(tip, b))
             back == [i \in 1..Cardinality(give) |-> b]
  <1>1. /\ failed' = failed \cup {b} \cup active
        /\ tip' = IF active = {} THEN tip ELSE Parent[b]
        /\ \E c \in EraseEach(order, candidates, down) : candidates' \in InsertEach(order, c, back)
    BY DEF InvalidateBlock
  <1>2. /\ op = "idle" /\ "invalidate" \in events
        /\ world' = world /\ arrived' = arrived /\ passed' = passed /\ canMine' = canMine
        /\ op' = op /\ step' = step
    BY DEF InvalidateBlock, Call
  <1>3. b \in Nodes /\ failed \subseteq Blocks /\ candidates \in Seq(Nodes)
    BY Numbered DEF DInv, Typed
  <1>4. OnBranch(b, tip) <=> active # {}
    <2>1. OnBranch(b, b)
      BY <1>3, Itself
    <2> QED
      BY <2>1
  <1>5. active \subseteq Blocks /\ \A a \in active : OnBranch(b, a)
    OBVIOUS
  <1>6. ~OnBranch(b, tip) => active = {}
    OBVIOUS
  <1>7. down \in Seq(Nodes)
    <2>1. (IF active = {} THEN <<>> ELSE Downward(tip, b)) \in Seq(Nodes)
      <3>1. CASE active = {}
        BY <3>1, Empty
      <3>2. CASE active # {}
        BY <1>4, <3>2, DownwardIs
      <3> QED
        BY <3>1, <3>2
    <2> HIDE DEF active
    <2> QED
      BY <1>3, <2>1, Single, Joined
  <1>8. back \in Seq(Nodes)
    <2>1. IsFiniteSet(Blocks)
      BY Numbered, FS_Interval DEF Blocks
    <2>2. IsFiniteSet(give)
      BY <2>1, FS_Subset
    <2> HIDE DEF give
    <2>3. Cardinality(give) \in Nat
      BY <2>2, FS_CardinalityType
    <2> QED
      BY <1>3, <2>3
  <1> HIDE DEF active, down, back
  <1>9. candidates' \in Seq(Nodes)
    <2>1. PICK c \in EraseEach(order, candidates, down) : candidates' \in InsertEach(order, c, back)
      BY <1>1
    <2>2. c \in Seq(Nodes)
      BY <1>3, <1>7, <2>1, ErasedAll
    <2> QED
      BY <1>8, <2>1, <2>2, InsertedAll
  <1>10. \A a \in failed' : a \in failed \/ OnBranch(b, a)
    BY <1>1, <1>3, <1>5, Itself
  <1>11. failed \subseteq failed' /\ failed' \subseteq Blocks
    BY <1>1, <1>3, <1>5
  <1>12. OnBranch(b, tip) => tip' = Parent[b]
    BY <1>1, <1>4
  <1>13. ~OnBranch(b, tip) => tip' = tip /\ \A a \in failed' : a \in failed \/ a = b
    BY <1>1, <1>6
  <1> QED
    BY <1>2, <1>9, <1>10, <1>11, <1>12, <1>13

LEMMA FindTyped ==
    ASSUME DInv, FindMostWorkChain
    PROVE  Typed'
  <1>1. Typed
    BY DEF DInv
  <1>2. /\ passed' = checked /\ tip' = tip /\ caller' = caller /\ op = "find"
        /\ have' = have /\ sequenceId' = sequenceId /\ scenario' = scenario
    BY Findings DEF world, arrived
  <1>3. [valid |-> valid, coming |-> coming, events |-> events]' \in Scenarios
    BY <1>1, <1>2 DEF scenario, Typed
  <1>4. passed' \subseteq Nodes
    BY <1>2, CheckedComplete
  <1>5. failed \cup rejected \subseteq Blocks
    BY <1>1 DEF Typed, rejected
  <1>6. CASE Chosen = {} \/ (failedAt = {} /\ best = tip)
    <2>1. /\ op' = "idle" /\ failed' = failed \cup rejected
          /\ candidates' = candidates /\ most' = most /\ oldTip' = oldTip
      BY <1>6, Findings
    <2> QED
      BY <1>1, <1>2, <1>3, <1>4, <1>5, <2>1 DEF Typed
  <1>7. CASE Chosen # {} /\ failedAt = {} /\ best # tip
    <2>1. /\ op' = "step" /\ failed' = failed \cup rejected
          /\ candidates' = candidates /\ most' = best /\ oldTip' = tip
      BY <1>7, Findings
    <2>2. best \in Nodes
      BY <1>7, BestIs
    <2> QED
      BY <1>1, <1>2, <1>3, <1>4, <1>5, <2>1, <2>2 DEF Typed
  <1>8. CASE Chosen # {} /\ failedAt # {}
    <2>1. PICK x \in failedAt :
              /\ failed' = failed \cup rejected \cup {a \in Above(best) : Height(a) > Height(x)}
              /\ candidates' \in EraseEach(order, candidates, Downward(best, x))
      BY <1>8, Findings
    <2>2. op' = op /\ most' = most /\ oldTip' = oldTip
      BY <1>8, Findings
    <2>3. Above(best) \subseteq Blocks
      BY DEF Above
    <2>4. OnBranch(x, best)
      BY <1>8, FailedAtIs
    <2>5. Downward(best, x) \in Seq(Nodes)
      BY <2>4, DownwardIs
    <2>6. candidates' \in Seq(Nodes)
      BY <1>1, <2>1, <2>5, ErasedAll DEF Typed
    <2>7. failed' \subseteq Blocks
      BY <1>5, <2>1, <2>3
    <2> QED
      BY <1>1, <1>2, <1>3, <1>4, <2>2, <2>6, <2>7 DEF Typed
  <1> QED
    BY <1>6, <1>7, <1>8

LEMMA RestartTyped ==
    ASSUME DInv, Restart
    PROVE  /\ candidates' \in Seq(Nodes) /\ sequenceId' \in [Nodes -> Nat]
           /\ \E c \in InsertEach(order', <<0>>, ByHeight({b \in Blocks : Eligible(b, failed)})) :
                 candidates' = Prune(order', c, tip)
  <1> DEFINE s == {b \in Blocks : Eligible(b, failed)}
  <1>1. PICK c \in InsertEach(order', <<0>>, ByHeight(s)) : candidates' = Prune(order', c, tip)
    BY DEF Restart
  <1>2. ByHeight(s) \in Seq(Nodes)
    <2>1. s \subseteq Blocks
      OBVIOUS
    <2> QED
      BY <2>1, ByHeightIs
  <1>3. <<0>> \in Seq(Nodes)
    BY Numbered, Single
  <1> HIDE DEF s
  <1>4. c \in Seq(Nodes)
    BY <1>1, <1>2, <1>3, InsertedAll
  <1>5. candidates' \in Seq(Nodes)
    BY <1>1, <1>4, Pruned
  <1>6. sequenceId' \in [Nodes -> Nat]
    BY DEF Restart
  <1> QED
    BY <1>1, <1>5, <1>6 DEF s

LEMMA DInit == Init => DInv
  <1>1. SUFFICES ASSUME Init PROVE DInv
    OBVIOUS
  <1>2. <<0>> \in Seq(Nodes) /\ 0 \in Nodes /\ 0 \notin Blocks
    BY Single, Numbered
  <1>3. [valid |-> valid, coming |-> coming, events |-> events] \in Scenarios
    <2>1. PICK s \in Scenarios : valid = s.valid /\ coming = s.coming /\ events = s.events
      BY <1>1 DEF Init
    <2>2. s \in [valid : SUBSET Blocks, coming : SUBSET Blocks, events :
                    SUBSET {"invalidate", "reconsider", "setlast", "wallet", "restart"}]
      BY SelectionAssumption
    <2>3. s = [valid |-> s.valid, coming |-> s.coming, events |-> s.events]
      BY <2>2
    <2> QED
      BY <2>1, <2>3
  <1>4. sequenceId \in [Nodes -> Nat]
    BY <1>1 DEF Init
  <1>5. Typed
    BY <1>1, <1>2, <1>3, <1>4 DEF Init, Typed
  <1>6. \A b \in Blocks : ~Complete(have, b)
    <2>1. have = {}
      BY <1>1 DEF Init
    <2>2. \A b \in Blocks : OnBranch(b, b)
      BY Itself, Numbered
    <2> QED
      BY <2>1, <2>2 DEF Complete
  <1>7. Complete(have, 0)
    BY CompleteGenesis
  <1>8. Data
    BY <1>1, <1>6, <1>7 DEF Data, Init
  <1> QED
    BY <1>5, <1>8 DEF DInv

LEMMA DStep == DInv /\ [Next]_vars => DInv'
  <1>1. SUFFICES ASSUME DInv, [Next]_vars PROVE DInv'
    OBVIOUS
  <1>2. Typed /\ Data
    BY <1>1 DEF DInv
  <1>3. /\ tip \in Nodes /\ most \in Nodes /\ failed \subseteq Blocks /\ candidates \in Seq(Nodes)
        /\ Blocks \subseteq Nodes
    BY <1>2, Numbered DEF Typed
  <1>4. ASSUME UNCHANGED <<scenario, arrived, failed, passed, candidates, tip>>,
               most' \in Nodes, oldTip' \in Nodes,
               op' \in {"idle", "find", "step", "end"}, caller' \in {"activate", "setlast"}
        PROVE  DInv'
    <2>1. Typed'
      BY <1>2, <1>4 DEF Typed, scenario, arrived
    <2>2. Data'
      BY <1>2, <1>4 DEF Data, arrived
    <2> QED
      BY <2>1, <2>2 DEF DInv
  <1>5. ASSUME UNCHANGED <<scenario, arrived, failed, passed, candidates, tip, most, oldTip>>,
               op' \in {"idle", "find", "step", "end"}, caller' = caller \/ caller' = "activate"
        PROVE  DInv'
    BY <1>2, <1>4, <1>5 DEF Typed
  \* Data depends on have, linked, unlinked, tip and passed alone.
  <1>6. ASSUME UNCHANGED <<scenario, arrived, most, oldTip, caller>>,
               op' \in {"idle", "find", "step", "end"},
               failed' \subseteq Blocks, passed' = passed, candidates' \in Seq(Nodes),
               tip' \in Nodes, Complete(have, tip')
        PROVE  DInv'
    <2>1. Typed'
      BY <1>2, <1>6 DEF Typed, scenario, arrived
    <2>2. Data'
      BY <1>2, <1>6 DEF Data, arrived
    <2> QED
      BY <2>1, <2>2 DEF DInv
  <1>7. Complete(have, tip)
    BY <1>2 DEF Data
  <1>8. op \in {"idle", "find", "step", "end"}
    BY <1>2 DEF Typed
  <1>9. CASE StartIteration
    BY <1>5, <1>9 DEF StartIteration, world
  <1>10. CASE FindMostWorkChain
    <2>1. Typed'
      BY <1>1, <1>10, FindTyped
    <2>2. /\ tip' = tip /\ passed' = checked
          /\ have' = have /\ linked' = linked /\ unlinked' = unlinked
      BY <1>1, <1>10, Findings DEF arrived
    <2>3. \A b \in checked : Complete(have, b)
      BY <1>1, CheckedComplete
    <2>4. Data'
      BY <1>2, <2>2, <2>3 DEF Data
    <2> QED
      BY <2>1, <2>4 DEF DInv
  <1>11. CASE DisconnectTip
    <2>1. tip \in Blocks
      <3>1. tip # 0
        BY <1>3, <1>11, Itself DEF DisconnectTip
      <3> QED
        BY <1>3, <3>1, Numbered
    <2>2. tip' = Parent[tip] /\ Parent[tip] \in Nodes
      BY <1>11, <2>1, Numbered DEF DisconnectTip
    <2>3. Complete(have, tip')
      BY <1>7, <2>1, <2>2, CompleteParent
    <2> QED
      BY <1>3, <1>6, <1>8, <1>11, <2>2, <2>3 DEF DisconnectTip, world, step
  <1>12. CASE ConnectTip
    <2>1. /\ OnBranch(tip, most) /\ tip # most /\ next \in have /\ tip' = next
          /\ candidates' = Prune(order, candidates, next) /\ op' \in {"step", "end"}
      BY <1>12 DEF ConnectTip
    <2>2. next \in Blocks /\ Parent[next] = tip
      BY <1>2, <2>1, NextIs
    <2>3. Complete(have, tip') /\ tip' \in Nodes
      BY <1>3, <1>7, <2>1, <2>2, CompleteParent
    <2>4. candidates' \in Seq(Nodes)
      BY <1>3, <2>1, Pruned
    <2> QED
      BY <1>3, <1>6, <1>12, <2>1, <2>3, <2>4 DEF ConnectTip, world, step
  <1>13. CASE RejectBlock
    <2>1. /\ OnBranch(tip, most) /\ tip # most /\ failed' = failed \cup {next}
          /\ candidates' \in Erase(order, candidates, next)
      BY <1>13 DEF RejectBlock, InvalidBlockFound
    <2>2. next \in Blocks
      BY <1>2, <2>1, NextIs
    <2>3. candidates' \in Seq(Nodes)
      BY <1>3, <2>1, Erased
    <2> QED
      BY <1>3, <1>6, <1>7, <1>13, <2>1, <2>2, <2>3 DEF RejectBlock, world, step
  <1>14. CASE StepBack
    BY <1>5, <1>14 DEF StepBack, world, step
  <1>15. CASE EndIteration
    BY <1>5, <1>15 DEF EndIteration, world, step
  <1>16. CASE SetLastStep
    BY <1>2, <1>3, <1>4, <1>16 DEF SetLastStep, world, Typed
  <1>17. CASE SetLastFails
    BY <1>5, <1>17 DEF SetLastFails, world, step
  <1>18. CASE SetLastReturns
    <2>1. candidates' \in Insert(order, candidates, most)
      BY <1>18 DEF SetLastReturns
    <2>2. candidates' \in Seq(Nodes)
      BY <1>3, <2>1, Inserted
    <2> QED
      BY <1>3, <1>6, <1>7, <1>18, <2>2 DEF SetLastReturns, world, step
  <1>19. CASE Restart
    <2>1. candidates' \in Seq(Nodes) /\ sequenceId' \in [Nodes -> Nat]
      BY <1>1, <1>19, RestartTyped
    <2>2. /\ passed' = {} /\ unlinked' = {<<Parent[b], b>> : b \in have \ linked}
          /\ UNCHANGED <<scenario, have, linked, failed, tip, op, step>>
      BY <1>19 DEF Restart, world
    <2>3. Typed'
      BY <1>2, <2>1, <2>2 DEF Typed, scenario, step
    <2>4. Data'
      BY <1>2, <2>2 DEF Data
    <2> QED
      BY <2>3, <2>4 DEF DInv
  <1>20. ASSUME NEW b \in Blocks, ReceiveBlock(b) PROVE DInv'
    BY <1>1, <1>20, ReceiveTyped, ReceiveData DEF DInv
  <1>21. ASSUME NEW b \in Blocks, SetLastBlock(b) PROVE DInv'
    BY <1>2, <1>3, <1>4, <1>21 DEF SetLastBlock, world, Typed
  <1>22. ASSUME NEW b \in Blocks, InvalidateBlock(b) PROVE DInv'
    <2>1. /\ candidates' \in Seq(Nodes) /\ failed' \subseteq Blocks
          /\ OnBranch(b, tip) => tip' = Parent[b]
          /\ ~OnBranch(b, tip) => tip' = tip
          /\ UNCHANGED <<scenario, arrived, passed, op, step>>
      BY <1>1, <1>22, InvalidateIs DEF world
    <2>2. tip' \in Nodes /\ Complete(have, tip')
      <3>1. CASE OnBranch(b, tip)
        <4>1. Complete(have, b)
          BY <1>7, <3>1, CompleteBefore
        <4> QED
          BY <2>1, <3>1, <4>1, CompleteParent, Numbered
      <3>2. CASE ~OnBranch(b, tip)
        BY <1>3, <1>7, <2>1, <3>2
      <3> QED
        BY <3>1, <3>2
    <2> QED
      BY <1>6, <1>8, <2>1, <2>2 DEF step
  <1>23. ASSUME NEW b \in Blocks, ReconsiderBlock(b) PROVE DInv'
    <2> DEFINE below == {a \in failed : OnBranch(b, a)}
               s == {a \in below : Eligible(a, {}) /\ Less(order, tip, a)}
    <2>1. /\ candidates' \in InsertEach(order, candidates, Listed(s))
          /\ failed' = {a \in failed \ below : ~OnBranch(a, b)}
          /\ UNCHANGED <<scenario, arrived, passed, tip, op, step>>
      BY <1>23 DEF ReconsiderBlock, world
    <2>2. candidates' \in Seq(Nodes)
      <3>1. Listed(s) \in Seq(Nodes)
        BY ListedIs
      <3> HIDE DEF s
      <3> QED
        BY <1>3, <2>1, <3>1, InsertedAll
    <2>3. failed' \subseteq Blocks
      BY <1>3, <2>1
    <2> QED
      BY <1>3, <1>6, <1>7, <1>8, <2>1, <2>2, <2>3 DEF step
  <1>24. ASSUME NEW x \in Nodes, WalletChange(x) PROVE DInv'
    BY <1>5, <1>8, <1>24 DEF WalletChange, step
  <1>25. CASE UNCHANGED vars
    BY <1>5, <1>8, <1>25 DEF vars, world, step
  <1> QED
    BY <1>1, <1>9, <1>10, <1>11, <1>12, <1>13, <1>14, <1>15, <1>16, <1>17, <1>18, <1>19, <1>20,
       <1>21, <1>22, <1>23, <1>24, <1>25 DEF Next, Work

LEMMA DInvariant == Spec => []DInv
  BY DInit, DStep, PTL DEF Spec

LEMMA Walked == DInv => WalkedBlocksHaveData
  <1>1. SUFFICES ASSUME DInv, op = "find", Chosen # {} PROVE Asserted
    BY DEF WalkedBlocksHaveData
  <1>2. Complete(have, best)
    BY <1>1, BestIs
  <1>3. ASSUME NEW a \in Above(best) PROVE a \in linked
    <2>1. a \in Blocks /\ OnBranch(a, best)
      BY DEF Above
    <2>2. Complete(have, a)
      BY <1>2, <2>1, CompleteBefore
    <2> QED
      BY <1>1, <2>1, <2>2 DEF DInv, Data
  <1> QED
    BY <1>3 DEF Asserted

(* "assert(pindexTest->nStatus & BLOCK_HAVE_DATA)": whatever the tree, in       *)
(* whatever order the data comes and whatever the operator does, every block   *)
(* FindMostWorkChain walks over has its data, and so have the ones before it.  *)
THEOREM WalkIsOverData == Spec => []WalkedBlocksHaveData
  BY DInvariant, Walked, PTL

-----------------------------------------------------------------------------
(***************************************************************************)
(* What failed, and why.                                                   *)
(***************************************************************************)

LEMMA CleanBefore ==
    ASSUME NEW b, Clean(b), NEW a, OnBranch(a, b)
    PROVE  Clean(a)
  BY Transitive DEF Clean

LEMMA CleanParent ==
    ASSUME NEW b \in Blocks
    PROVE  Clean(b) <=> b \in valid /\ Clean(Parent[b])
  <1>1. b \in Nodes /\ Blocks \subseteq Nodes
    BY Numbered
  <1>2. \A a \in Blocks : OnBranch(a, b) <=> a = b \/ OnBranch(a, Parent[b])
    BY <1>1, Follows
  <1> QED
    BY <1>1, <1>2 DEF Clean

LEMMA CleanGenesis == Clean(0)
  <1>1. \A a \in Blocks : ~OnBranch(a, 0)
    BY Genesis, Numbered
  <1> QED
    BY <1>1 DEF Clean

LEMMA GoodBefore ==
    ASSUME NEW b, good(b), NEW a, OnBranch(a, b)
    PROVE  good(a)
  BY Transitive DEF good

LEMMA GoodGenesis == good(0)
  <1>1. \A a \in Blocks : ~OnBranch(a, 0)
    BY Genesis, Numbered
  <1> QED
    BY <1>1 DEF good

LEMMA CleanIsGood ==
    ASSUME \A x \in failed : ~Clean(x), NEW b, Clean(b)
    PROVE  good(b)
  BY CleanBefore DEF good

\* The search fails nothing but what comes after a failed block.
LEMMA FoundGuilty ==
    ASSUME DInv, FindMostWorkChain, \A x \in failed : ~Clean(x)
    PROVE  /\ \A x \in failed \cup rejected : ~Clean(x)
           /\ \A x \in failed' : ~Clean(x)
  <1>1. \A x \in failed \cup rejected : ~Clean(x)
    <2>1. ASSUME NEW c \in rejected PROVE ~Clean(c)
      <3>1. PICK a \in failed : OnBranch(a, c)
        BY DEF rejected, Above
      <3> QED
        BY <3>1, CleanBefore
    <2> QED
      BY <2>1
  <1>2. ASSUME NEW x \in failedAt, Chosen # {}, NEW a \in Above(best), Height(a) > Height(x)
        PROVE  ~Clean(a)
    <2>1. OnBranch(x, best) /\ x \in failed \cup rejected
      BY <1>2, FailedAtIs
    <2>2. OnBranch(a, best)
      BY DEF Above
    <2>3. OnBranch(x, a)
      <3>1. CASE OnBranch(a, x)
        <4>1. Height(a) <= Height(x) /\ Height(a) \in Nat /\ Height(x) \in Nat
          BY <3>1, Lower
        <4> QED
          BY <1>2, <4>1
      <3> QED
        BY <2>1, <2>2, <3>1, Comparable
    <2> QED
      BY <1>1, <2>1, <2>3, CleanBefore
  <1>3. \/ failed' = failed \cup rejected
        \/ /\ Chosen # {}
           /\ \E x \in failedAt :
                 failed' = failed \cup rejected \cup {a \in Above(best) : Height(a) > Height(x)}
    BY Findings
  <1>4. CASE failed' = failed \cup rejected
    BY <1>1, <1>4
  <1>5. ASSUME Chosen # {}, NEW x \in failedAt,
               failed' = failed \cup rejected \cup {a \in Above(best) : Height(a) > Height(x)}
        PROVE  \A y \in failed' : ~Clean(y)
    BY <1>1, <1>2, <1>5
  <1> QED
    BY <1>1, <1>3, <1>4, <1>5

LEMMA JInit == Init => JInv
  <1>1. SUFFICES ASSUME Init PROVE JInv
    OBVIOUS
  <1>2. tip = 0 /\ failed = {}
    BY <1>1 DEF Init
  <1> QED
    BY <1>1, <1>2, DInit, CleanGenesis DEF JInv, Just

LEMMA JStep == JInv /\ [Next]_vars => JInv'
  <1>1. SUFFICES ASSUME JInv, [Next]_vars PROVE Just'
    BY DStep DEF JInv
  <1>2. DInv /\ Just
    BY <1>1 DEF JInv
  <1>3. SUFFICES ASSUME "invalidate" \notin events'
                 PROVE  Clean(tip)' /\ \A b \in failed' : ~Clean(b)'
    BY DEF Just
  \* The rules stay what they are.
  <1>4. ASSUME UNCHANGED scenario, Clean(tip'), \A b \in failed' : ~Clean(b)
        PROVE  Clean(tip)' /\ \A b \in failed' : ~Clean(b)'
    BY <1>4 DEF scenario, Clean
  <1>5. ASSUME UNCHANGED scenario PROVE Clean(tip) /\ \A b \in failed : ~Clean(b)
    BY <1>2, <1>3, <1>5 DEF Just, scenario
  <1>6. ASSUME UNCHANGED scenario, tip' = tip, failed' \subseteq failed
        PROVE  Clean(tip)' /\ \A b \in failed' : ~Clean(b)'
    BY <1>4, <1>5, <1>6
  <1>7. tip \in Nodes /\ Nodes = Blocks \cup {0}
    BY <1>2, Numbered DEF DInv, Typed
  <1>8. CASE StartIteration
    BY <1>6, <1>8 DEF StartIteration, world
  <1>9. CASE FindMostWorkChain
    <2>1. UNCHANGED scenario /\ tip' = tip
      BY <1>2, <1>9, Findings DEF world
    <2>2. \A b \in failed' : ~Clean(b)
      BY <1>2, <1>5, <1>9, <2>1, FoundGuilty
    <2> QED
      BY <1>4, <1>5, <2>1, <2>2
  <1>10. CASE DisconnectTip
    <2>1. UNCHANGED scenario /\ tip' = Parent[tip] /\ failed' = failed /\ ~OnBranch(tip, most)
      BY <1>10 DEF DisconnectTip, world
    <2>2. tip \in Blocks
      BY <1>2, <1>7, <2>1, Itself DEF DInv, Typed
    <2>3. Clean(Parent[tip])
      BY <1>5, <2>1, <2>2, CleanParent
    <2> QED
      BY <1>4, <1>5, <2>1, <2>3
  <1>11. CASE ConnectTip
    <2>1. /\ UNCHANGED scenario /\ tip' = next /\ failed' = failed /\ next \in valid
          /\ OnBranch(tip, most) /\ tip # most
      BY <1>11 DEF ConnectTip, world
    <2>2. next \in Blocks /\ Parent[next] = tip
      BY <1>2, <2>1, NextIs DEF DInv
    <2>3. Clean(next)
      BY <1>5, <2>1, <2>2, CleanParent
    <2> QED
      BY <1>4, <1>5, <2>1, <2>3
  <1>12. CASE RejectBlock
    <2>1. /\ UNCHANGED scenario /\ tip' = tip /\ failed' = failed \cup {next} /\ next \notin valid
          /\ OnBranch(tip, most) /\ tip # most
      BY <1>12 DEF RejectBlock, world, InvalidBlockFound
    <2>2. next \in Blocks
      BY <1>2, <2>1, NextIs DEF DInv
    <2>3. ~Clean(next)
      BY <2>1, <2>2, CleanParent
    <2> QED
      BY <1>4, <1>5, <2>1, <2>3
  <1>13. CASE StepBack
    BY <1>6, <1>13 DEF StepBack, world
  <1>14. CASE EndIteration
    BY <1>6, <1>14 DEF EndIteration, world
  <1>15. CASE SetLastStep
    BY <1>6, <1>15 DEF SetLastStep, world
  <1>16. CASE SetLastFails
    BY <1>6, <1>16 DEF SetLastFails, world
  <1>17. CASE SetLastReturns
    BY <1>6, <1>17 DEF SetLastReturns, world
  <1>18. CASE Restart
    BY <1>6, <1>18 DEF Restart, world
  <1>19. ASSUME NEW b \in Blocks, ReceiveBlock(b)
         PROVE  Clean(tip)' /\ \A a \in failed' : ~Clean(a)'
    BY <1>6, <1>19 DEF ReceiveBlock, world
  <1>20. ASSUME NEW b \in Blocks, SetLastBlock(b)
         PROVE  Clean(tip)' /\ \A a \in failed' : ~Clean(a)'
    BY <1>6, <1>20 DEF SetLastBlock, world
  <1>21. ASSUME NEW b \in Blocks, InvalidateBlock(b)
         PROVE  FALSE
    BY <1>2, <1>3, <1>21, InvalidateIs DEF world, scenario
  <1>22. ASSUME NEW b \in Blocks, ReconsiderBlock(b)
         PROVE  Clean(tip)' /\ \A a \in failed' : ~Clean(a)'
    <2>1. UNCHANGED <<world, tip>> /\ failed' \subseteq failed
      BY <1>22 DEF ReconsiderBlock
    <2> QED
      BY <1>6, <2>1 DEF world
  <1>23. ASSUME NEW x \in Nodes, WalletChange(x)
         PROVE  Clean(tip)' /\ \A a \in failed' : ~Clean(a)'
    BY <1>6, <1>23 DEF WalletChange
  <1>24. CASE UNCHANGED vars
    BY <1>6, <1>24 DEF vars, world
  <1> QED
    BY <1>1, <1>8, <1>9, <1>10, <1>11, <1>12, <1>13, <1>14, <1>15, <1>16, <1>17, <1>18, <1>19,
       <1>20, <1>21, <1>22, <1>23, <1>24 DEF Next, Work

\* The search fails nothing in the active chain, and chooses nothing that failed.
LEMMA FoundGood ==
    ASSUME DInv, FindMostWorkChain, good(tip)
    PROVE  /\ \A a \in Blocks : OnBranch(a, tip) => a \notin failed'
           /\ op' = "step" => \A a \in Blocks : OnBranch(a, most') => a \notin failed'
  <1>1. ASSUME NEW a \in Blocks, OnBranch(a, tip) PROVE a \notin failed \cup rejected
    <2>1. a \notin failed
      BY <1>1 DEF good
    <2>2. ASSUME a \in rejected PROVE FALSE
      <3>1. PICK c \in Blocks : OnBranch(c, a) /\ ~OnBranch(c, tip)
        BY <2>2 DEF rejected, Above
      <3> QED
        BY <1>1, <3>1, Transitive
    <2> QED
      BY <2>1, <2>2
  <1>2. \A a \in Blocks : OnBranch(a, tip) => a \notin failed'
    <2>1. \/ failed' = failed \cup rejected
          \/ \E x \in failedAt :
                failed' = failed \cup rejected \cup {a \in Above(best) : Height(a) > Height(x)}
      BY Findings
    <2> QED
      BY <1>1, <2>1 DEF Above
  <1>3. ASSUME op' = "step" PROVE \A a \in Blocks : OnBranch(a, most') => a \notin failed'
    <2>1. /\ Chosen # {} /\ failedAt = {} /\ most' = best /\ failed' = failed \cup rejected
      BY <1>3, Findings
    <2>2. best \in Nodes
      BY <2>1, BestIs
    <2>3. Above(best) \cap (failed \cup rejected) = {}
      BY <2>1, <2>2, NoneFailed
    <2>4. ASSUME NEW a \in Blocks, OnBranch(a, best) PROVE a \notin failed'
      <3>1. CASE OnBranch(a, tip)
        BY <1>2, <3>1
      <3>2. CASE ~OnBranch(a, tip)
        BY <2>1, <2>3, <2>4, <3>2 DEF Above
      <3> QED
        BY <3>1, <3>2
    <2> QED
      BY <2>1, <2>4
  <1> QED
    BY <1>2, <1>3

LEMMA FInit == Init => FInv
  <1>1. SUFFICES ASSUME Init PROVE FInv
    OBVIOUS
  <1>2. tip = 0 /\ caller = "activate" /\ op = "idle"
    BY <1>1 DEF Init
  <1> QED
    BY <1>1, <1>2, JInit, GoodGenesis DEF FInv, Unfailed

LEMMA FStep == FInv /\ [Next]_vars => FInv'
  <1>1. SUFFICES ASSUME FInv, [Next]_vars PROVE (Apart => Unfailed)'
    BY JStep DEF FInv
  <1>2. SUFFICES ASSUME Apart' PROVE Unfailed'
    OBVIOUS
  <1>3. DInv /\ Just
    BY <1>1 DEF FInv, JInv
  <1>4. tip \in Nodes /\ most \in Nodes /\ Nodes = Blocks \cup {0}
    BY <1>3, Numbered DEF DInv, Typed
  <1>5. ASSUME UNCHANGED scenario
        PROVE  Apart /\ good(tip) /\ (caller = "setlast" => "setlast" \in events)
               /\ (caller = "activate" /\ op = "step" => good(most))
    BY <1>1, <1>2, <1>5 DEF FInv, Unfailed, Apart, scenario
  <1>6. ASSUME UNCHANGED scenario,
               \A a \in Blocks : OnBranch(a, tip') => a \notin failed',
               caller' = "setlast" => "setlast" \in events,
               caller' = "activate" /\ op' = "step" =>
                   \A a \in Blocks : OnBranch(a, most') => a \notin failed'
        PROVE  Unfailed'
    BY <1>6 DEF Unfailed, good, scenario
  \* A step that fails nothing, and neither climbs nor chooses.
  <1>7. ASSUME UNCHANGED scenario, tip' = tip, failed' \subseteq failed,
               caller' = caller \/ caller' = "activate" \/ "setlast" \in events,
               caller' = "activate" => op' # "step"
        PROVE  Unfailed'
    <2>1. \A a \in Blocks : OnBranch(a, tip') => a \notin failed'
      BY <1>5, <1>7 DEF good
    <2>2. caller' = "setlast" => "setlast" \in events
      BY <1>5, <1>7
    <2> QED
      BY <1>6, <1>7, <2>1, <2>2
  <1>8. CASE StartIteration
    BY <1>7, <1>8 DEF StartIteration, world
  <1>9. CASE FindMostWorkChain
    <2>1. UNCHANGED scenario /\ tip' = tip /\ caller' = caller
      BY <1>3, <1>9, Findings DEF world
    <2> QED
      BY <1>3, <1>5, <1>6, <1>9, <2>1, FoundGood
  <1>10. CASE DisconnectTip
    <2>1. /\ UNCHANGED <<scenario, failed, op, caller, most>> /\ tip' = Parent[tip]
          /\ ~OnBranch(tip, most)
      BY <1>10 DEF DisconnectTip, world, step
    <2>2. tip \in Blocks
      BY <1>4, <2>1, Itself
    <2>3. OnBranch(Parent[tip], tip)
      BY <2>2, Follows, Itself, Numbered
    <2>4. good(Parent[tip])
      BY <1>5, <2>1, <2>3, GoodBefore
    <2> QED
      BY <1>5, <1>6, <2>1, <2>4 DEF good
  <1>11. CASE ConnectTip
    <2>1. /\ UNCHANGED <<scenario, failed, caller, most>> /\ tip' = next /\ op = "step"
          /\ OnBranch(tip, most) /\ tip # most /\ next \in valid
      BY <1>11 DEF ConnectTip, world, step
    <2>2. next \in Blocks /\ Parent[next] = tip /\ OnBranch(next, most)
      BY <1>3, <2>1, NextIs DEF DInv
    <2>3. good(next)
      <3>1. CASE caller = "activate"
        BY <1>5, <2>1, <2>2, <3>1, GoodBefore
      <3>2. CASE caller = "setlast"
        <4>1. "invalidate" \notin events
          BY <1>5, <2>1, <3>2 DEF Apart
        <4>2. Clean(next)
          BY <1>3, <2>1, <2>2, <4>1, CleanParent DEF Just
        <4> QED
          BY <1>3, <4>1, <4>2, CleanIsGood DEF Just
      <3> QED
        BY <1>3, <3>1, <3>2 DEF DInv, Typed
    <2>4. caller' = "activate" => \A a \in Blocks : OnBranch(a, most') => a \notin failed'
      BY <1>5, <2>1 DEF good
    <2> QED
      BY <1>5, <1>6, <2>1, <2>3, <2>4 DEF good
  <1>12. CASE RejectBlock
    <2>1. /\ UNCHANGED <<scenario, tip, caller>> /\ failed' = failed \cup {next} /\ op' = "end"
          /\ OnBranch(tip, most) /\ tip # most
      BY <1>12 DEF RejectBlock, world, step, InvalidBlockFound
    <2>2. next \in Blocks /\ Height(next) = Height(tip) + 1 /\ Height(tip) \in Nat
      BY <1>3, <2>1, NextIs DEF DInv
    <2>3. ~OnBranch(next, tip)
      <3>1. SUFFICES ASSUME OnBranch(next, tip) PROVE FALSE
        OBVIOUS
      <3>2. Height(next) <= Height(tip)
        BY <3>1, Lower
      <3> QED
        BY <2>2, <3>2
    <2>4. \A a \in Blocks : OnBranch(a, tip') => a \notin failed'
      BY <1>5, <2>1, <2>3 DEF good
    <2> QED
      BY <1>5, <1>6, <2>1, <2>4
  <1>13. CASE StepBack
    BY <1>7, <1>13 DEF StepBack, world, step
  <1>14. CASE EndIteration
    BY <1>7, <1>14 DEF EndIteration, world, step
  <1>15. CASE SetLastStep
    BY <1>7, <1>15 DEF SetLastStep, world
  <1>16. CASE SetLastFails
    BY <1>7, <1>16 DEF SetLastFails, world, step
  <1>17. CASE SetLastReturns
    BY <1>7, <1>17 DEF SetLastReturns, world, step
  <1>18. CASE Restart
    BY <1>7, <1>18 DEF Restart, world, step
  <1>19. ASSUME NEW b \in Blocks, ReceiveBlock(b) PROVE Unfailed'
    BY <1>7, <1>19 DEF ReceiveBlock, world, step
  <1>20. ASSUME NEW b \in Blocks, SetLastBlock(b) PROVE Unfailed'
    BY <1>7, <1>20 DEF SetLastBlock, Call, world
  <1>21. ASSUME NEW b \in Blocks, InvalidateBlock(b) PROVE Unfailed'
    <2>1. /\ \A a \in failed' : a \in failed \/ OnBranch(b, a)
          /\ OnBranch(b, tip) => tip' = Parent[b]
          /\ ~OnBranch(b, tip) => tip' = tip /\ \A a \in failed' : a \in failed \/ a = b
          /\ UNCHANGED <<scenario, op, caller>> /\ op = "idle"
      BY <1>3, <1>21, InvalidateIs DEF world, step
    <2>2. b \in Nodes /\ Parent[b] \in Nodes
      BY Numbered
    <2>3. CASE OnBranch(b, tip)
      <3>1. OnBranch(Parent[b], b)
        BY <2>2, Follows, Itself
      <3>2. good(Parent[b])
        BY <1>5, <2>1, <2>3, <3>1, GoodBefore, Transitive
      <3>3. ~OnBranch(b, Parent[b])
        <4>1. SUFFICES ASSUME OnBranch(b, Parent[b]) PROVE FALSE
          OBVIOUS
        <4>2. Height(b) <= Height(Parent[b]) /\ Height(Parent[b]) \in Nat
          BY <4>1, Lower
        <4>3. Height(b) = Height(Parent[b]) + 1
          BY Grown
        <4> QED
          BY <4>2, <4>3
      <3>4. ASSUME NEW a \in Blocks, OnBranch(a, Parent[b]), a \in failed' PROVE FALSE
        <4>1. a \notin failed
          BY <3>2, <3>4 DEF good
        <4>2. OnBranch(b, a)
          BY <2>1, <3>4, <4>1
        <4> QED
          BY <3>3, <3>4, <4>2, Transitive
      <3> QED
        BY <1>5, <1>6, <2>1, <2>3, <3>4
    <2>4. CASE ~OnBranch(b, tip)
      <3>1. \A a \in Blocks : OnBranch(a, tip') => a \notin failed'
        BY <1>5, <2>1, <2>4 DEF good
      <3> QED
        BY <1>5, <1>6, <2>1, <3>1
    <2> QED
      BY <2>3, <2>4
  <1>22. ASSUME NEW b \in Blocks, ReconsiderBlock(b) PROVE Unfailed'
    <2>1. UNCHANGED <<scenario, tip, op, caller>> /\ failed' \subseteq failed /\ op = "idle"
      BY <1>22 DEF ReconsiderBlock, world, step, Call
    <2> QED
      BY <1>7, <2>1
  <1>23. ASSUME NEW x \in Nodes, WalletChange(x) PROVE Unfailed'
    <2>1. UNCHANGED <<scenario, failed, tip, op, caller, most>>
      BY <1>23 DEF WalletChange, step
    <2> QED
      BY <1>5, <1>6, <2>1 DEF good
  <1>24. CASE UNCHANGED vars
    <2>1. UNCHANGED <<scenario, failed, tip, op, caller, most>>
      BY <1>24 DEF vars, world, step
    <2> QED
      BY <1>5, <1>6, <2>1 DEF good
  <1> QED
    BY <1>1, <1>8, <1>9, <1>10, <1>11, <1>12, <1>13, <1>14, <1>15, <1>16, <1>17, <1>18, <1>19,
       <1>20, <1>21, <1>22, <1>23, <1>24 DEF Next, Work

\* Each conjunct of Unfailed the steps need; the first is the promise.
LEMMA NotFailed == FInv => ChainNotFailed
  BY DEF FInv, Unfailed, Apart, ChainNotFailed

(* No failed or invalidated block is in the active chain, whatever the tree,   *)
(* the order the data comes in and the blocks that break a rule, as long as    *)
(* the operator does not use both invalidateblock and setlastblock.            *)
THEOREM NoFailedBlockIsActive == Spec => []ChainNotFailed
  BY FInit, FStep, NotFailed, PTL DEF Spec

-----------------------------------------------------------------------------
(***************************************************************************)
(* The candidates of a node without keys whose operator does not fail      *)
(* blocks, and what is left of them for any other.                         *)
(***************************************************************************)

LEMMA CandInit == Init => CandInv
  <1>1. SUFFICES ASSUME Init PROVE CandInv
    OBVIOUS
  <1>2. /\ wallet = {} /\ canMine = {} /\ mined = FALSE /\ candidates = <<0>> /\ linked = {}
    BY <1>1 DEF Init
  <1>3. Range(candidates) = {0} /\ Len(candidates) = 1
    BY <1>2, Single, Numbered
  <1>4. InOrder(order, candidates)
    BY <1>3 DEF InOrder
  <1>5. Kept
    BY <1>2, <1>3, CleanGenesis DEF Kept
  <1> QED
    BY <1>1, <1>2, <1>3, <1>4, <1>5, JInit DEF CandInv, Sound

LEMMA LinkedIs ==
    ASSUME DInv, NEW b \in Nodes
    PROVE  /\ Complete(have, b) <=> b \in linked \cup {0}
           /\ linked \subseteq Blocks /\ linked \cup {0} \subseteq Nodes
  <1>1. Nodes = Blocks \cup {0}
    BY Numbered
  <1> QED
    BY <1>1, CompleteGenesis DEF DInv, Data

\* The tip is connected: what is worse leaves, the tip stays.
LEMMA PrunedKept ==
    ASSUME NEW o, Readable(o), NEW c \in Seq(Nodes), InOrder(o, c), NEW n \in Nodes, NEW w \in Range(c),
           NEW s, s \subseteq Nodes, n \in s,
           \A b \in s : ~Less(o, b, w) => b \in Range(c),
           NEW d, d = Prune(o, c, n)
    PROVE  /\ InOrder(o, d)
           /\ \E v \in Range(d) : /\ v \in {w, n}
                                  /\ \A b \in s : ~Less(o, b, v) => b \in Range(d)
  <1>1. InOrder(o, d) /\ Range(d) = {x \in Range(c) : ~Less(o, x, n)}
    BY Pruned
  <1>2. w \in Nodes /\ Range(c) \subseteq Nodes
    BY RangeIs
  <1>3. CASE ~Less(o, w, n)
    <2>1. w \in Range(d)
      BY <1>1, <1>3
    <2>2. ASSUME NEW b \in s, ~Less(o, b, w) PROVE b \in Range(d)
      <3>1. b \in Nodes /\ b \in Range(c)
        BY <2>2
      <3>2. ~Less(o, b, n)
        <4>1. w = n \/ Less(o, n, w)
          BY <1>2, <1>3, Strict
        <4> QED
          BY <1>2, <2>2, <3>1, <4>1, Transits
      <3> QED
        BY <1>1, <3>1, <3>2
    <2> QED
      BY <1>1, <2>1, <2>2
  <1>4. CASE Less(o, w, n)
    <2>1. ~Less(o, n, w) /\ ~Less(o, n, n)
      BY <1>2, <1>4, Strict
    <2>2. n \in Range(d)
      BY <1>1, <2>1
    <2>3. ASSUME NEW b \in s, ~Less(o, b, n) PROVE b \in Range(d)
      <3>1. b \in Nodes
        OBVIOUS
      <3>2. ~Less(o, b, w)
        BY <1>2, <1>4, <2>3, <3>1, Transits
      <3> QED
        BY <1>1, <2>3, <3>2
    <2> QED
      BY <1>1, <2>2, <2>3
  <1> QED
    BY <1>3, <1>4

LEMMA CandStep == CandInv /\ [Next]_vars => CandInv'
  <1>1. SUFFICES ASSUME CandInv, [Next]_vars, Calm' PROVE Sound'
    BY JStep DEF CandInv
  <1>2. DInv /\ Just /\ Typed
    BY <1>1 DEF CandInv, JInv, DInv
  <1>3. DInv'
    BY <1>1, <1>2, DStep
  <1>4. /\ tip \in Nodes /\ most \in Nodes /\ Nodes = Blocks \cup {0} /\ candidates \in Seq(Nodes)
        /\ 0 \notin Blocks
    BY <1>2, Numbered DEF Typed
  <1>5. Readable(order) /\ Readable(order')
    <2>1. \A b \in Nodes : sequenceId[b] \in Nat /\ sequenceId'[b] \in Nat
      BY <1>2, <1>3 DEF DInv, Typed
    <2> QED
      BY <2>1 DEF Readable, order
  <1>6. ASSUME UNCHANGED scenario
        PROVE  /\ "invalidate" \notin events /\ "wallet" \notin events
               /\ Sound /\ Clean(tip) /\ \A x \in failed : ~Clean(x)
    BY <1>1, <1>2, <1>6 DEF Calm, CandInv, Just, scenario
  \* what is to be kept after the step was to be kept before
  <1> DEFINE Stays(b) == \/ Clean(b)
                         \/ "reconsider" \notin events /\ \A a \in Blocks : OnBranch(a, b) => a \notin failed'
  <1>0. ASSUME failed \subseteq failed', NEW b, Stays(b) PROVE Keeps(b)
    BY <1>0 DEF Keeps, good
  <1>7. ASSUME UNCHANGED scenario, wallet' = {}, canMine' = {}, mined' = FALSE,
               InOrder(order', candidates'), Range(candidates') \subseteq linked' \cup {0},
               NEW w \in Range(candidates'), Clean(w),
               \A b \in linked' \cup {0} :
                   Stays(b) /\ ~Less(order', b, w) =>
                       b \in Range(candidates')
        PROVE  Sound'
    <2>1. Clean(w)'
      BY <1>7 DEF Clean, scenario
    <2>2. \A b : Keeps(b)' => Stays(b)
      BY <1>7 DEF Keeps, Clean, good, scenario
    <2>3. Kept'
      BY <1>7, <2>1, <2>2 DEF Kept
    <2> QED
      BY <1>7, <2>3 DEF Sound
  <1> HIDE DEF Stays
  <1>8. ASSUME Sound
        PROVE  \E w \in Range(candidates) :
                   /\ Clean(w)
                   /\ \A b \in linked \cup {0} : Keeps(b) /\ ~Less(order, b, w) => b \in Range(candidates)
    BY <1>8 DEF Sound, Kept
  \* A step that leaves the blocks and the candidates alone.
  <1>9. ASSUME UNCHANGED <<world, linked, sequenceId, candidates>>, failed \subseteq failed',
               canMine' \subseteq canMine, mined' => mined \/ canMine # {}, mined' \in BOOLEAN
        PROVE  Sound'
    <2>1. UNCHANGED scenario /\ wallet' = wallet
      BY <1>9 DEF world
    <2>2. Sound
      BY <1>6, <2>1
    <2>3. PICK w \in Range(candidates) :
              /\ Clean(w)
              /\ \A b \in linked \cup {0} : Keeps(b) /\ ~Less(order, b, w) => b \in Range(candidates)
      BY <1>8, <2>2
    <2>4. wallet' = {} /\ canMine' = {} /\ mined' = FALSE /\ order' = order
      BY <1>9, <2>1, <2>2 DEF Sound, order
    <2>5. InOrder(order', candidates') /\ Range(candidates') \subseteq linked' \cup {0}
      BY <1>9, <2>2, <2>4 DEF Sound
    <2>6. \A b \in linked' \cup {0} :
              Stays(b) /\ ~Less(order', b, w) =>
                  b \in Range(candidates')
      BY <1>9, <1>0, <2>3, <2>4
    <2>7. w \in Range(candidates')
      BY <1>9
    <2> QED
      BY <1>7, <2>1, <2>3, <2>4, <2>5, <2>6, <2>7
  \* A step that takes blocks out of the set that are failed after it and break
  \* a rule.
  <1>10. ASSUME UNCHANGED <<world, linked, sequenceId, canMine, mined>>, failed \subseteq failed',
                NEW out, InOrder(order, candidates'), Range(candidates') = Range(candidates) \ out,
                \A e \in out : ~Clean(e) /\ \E x \in failed' : x \in Blocks /\ OnBranch(x, e)
         PROVE  Sound'
    <2>1. UNCHANGED scenario /\ wallet' = wallet
      BY <1>10 DEF world
    <2>2. Sound
      BY <1>6, <2>1
    <2>3. PICK w \in Range(candidates) :
              /\ Clean(w)
              /\ \A b \in linked \cup {0} : Keeps(b) /\ ~Less(order, b, w) => b \in Range(candidates)
      BY <1>8, <2>2
    <2>4. wallet' = {} /\ canMine' = {} /\ mined' = FALSE /\ order' = order
      BY <1>10, <2>1, <2>2 DEF Sound, order
    <2>5. InOrder(order', candidates') /\ Range(candidates') \subseteq linked' \cup {0}
      BY <1>10, <2>2, <2>4 DEF Sound
    <2>6. w \in Range(candidates')
      BY <1>10, <2>3
    <2>7. ASSUME NEW b \in linked' \cup {0}, Stays(b),
                 ~Less(order', b, w)
          PROVE  b \in Range(candidates')
      <3>1. Keeps(b)
        BY <1>10, <1>0, <2>7
      <3>2. b \in Range(candidates)
        BY <1>10, <2>3, <2>4, <2>7, <3>1
      <3>3. b \notin out
        BY <1>10, <2>7 DEF Stays
      <3> QED
        BY <1>10, <3>2, <3>3
    <2> QED
      BY <1>7, <2>1, <2>3, <2>4, <2>5, <2>6, <2>7
  <1>11. CASE StartIteration
    <2>1. UNCHANGED <<world, linked, sequenceId, candidates, failed, mined>> /\ canMine' = Refreshed
      BY <1>11 DEF StartIteration, arrived
    <2>2. Sound
      BY <1>6, <2>1 DEF world
    <2> QED
      BY <1>9, <2>1, <2>2 DEF Refreshed, Sound
  <1>12. CASE FindMostWorkChain
    <2>1. UNCHANGED <<world, linked, sequenceId, canMine>>
      BY <1>2, <1>12, Findings DEF arrived
    <2>2. Sound /\ \A x \in failed : ~Clean(x)
      BY <1>6, <2>1 DEF world
    <2>3. failed \subseteq failed'
      BY <1>2, <1>12, Findings
    <2>4. CASE UNCHANGED candidates
      <3>1. mined' = mined \/ mined' = (best \in canMine)
        BY <1>2, <1>12, Findings
      <3>2. canMine = {} /\ mined = FALSE
        BY <2>2 DEF Sound
      <3>3. (best \in canMine) = FALSE
        BY <3>2
      <3>4. mined' = FALSE
        BY <3>1, <3>2, <3>3
      <3> QED
        BY <1>9, <2>1, <2>3, <2>4, <3>4
    <2>5. ASSUME Chosen # {}, mined' = mined, NEW x \in failedAt,
                 failed' = failed \cup rejected \cup {a \in Above(best) : Height(a) > Height(x)},
                 candidates' \in EraseEach(order, candidates, Downward(best, x))
          PROVE  Sound'
      <3> DEFINE out == Range(Downward(best, x))
      <3>1. OnBranch(x, best) /\ x \in Blocks /\ x \in failed \cup rejected
        BY <1>2, <2>5, FailedAtIs
      <3>2. Downward(best, x) \in Seq(Nodes) /\ \A e \in out : OnBranch(x, e)
        BY <3>1, DownwardIs
      <3>3. InOrder(order, candidates') /\ Range(candidates') = Range(candidates) \ out
        BY <1>4, <1>5, <2>2, <2>5, <3>2, ErasedAll DEF Sound
      <3>4. \A y \in failed \cup rejected : ~Clean(y)
        BY <1>2, <1>12, <2>2, FoundGuilty
      <3>5. \A e \in out : ~Clean(e) /\ \E y \in failed' : y \in Blocks /\ OnBranch(y, e)
        BY <2>5, <3>1, <3>2, <3>4, CleanBefore
      <3> HIDE DEF out
      <3> QED
        BY <1>10, <2>1, <2>3, <2>5, <3>3, <3>5
    <2>6. \/ UNCHANGED candidates
          \/ /\ Chosen # {} /\ mined' = mined
             /\ \E x \in failedAt :
                   /\ failed' = failed \cup rejected \cup {a \in Above(best) : Height(a) > Height(x)}
                   /\ candidates' \in EraseEach(order, candidates, Downward(best, x))
      BY <1>2, <1>12, Findings
    <2> QED
      BY <2>4, <2>5, <2>6
  <1>13. CASE DisconnectTip
    <2>1. UNCHANGED <<world, linked, sequenceId, candidates, failed, mined, canMine>>
      BY <1>13 DEF DisconnectTip, arrived, step
    <2>2. Sound
      BY <1>6, <2>1 DEF world
    <2> QED
      BY <1>9, <2>1, <2>2 DEF Sound
  <1>14. CASE ConnectTip
    <2>1. /\ UNCHANGED <<world, linked, sequenceId, failed, mined, canMine>>
          /\ candidates' = Prune(order, candidates, next)
          /\ next \in have /\ next \in valid /\ OnBranch(tip, most) /\ tip # most
      BY <1>14 DEF ConnectTip, arrived, step
    <2>2. UNCHANGED scenario /\ wallet' = wallet
      BY <2>1 DEF world
    <2>3. Sound /\ Clean(tip) /\ \A x \in failed : ~Clean(x)
      BY <1>6, <2>2
    <2>4. next \in Blocks /\ Parent[next] = tip
      BY <1>2, <2>1, NextIs
    <2>5. Clean(next)
      BY <2>1, <2>3, <2>4, CleanParent
    <2>6. next \in linked /\ next \in Nodes
      <3>1. Complete(have, tip)
        BY <1>2 DEF DInv, Data
      <3>2. Complete(have, next)
        BY <2>1, <2>4, <3>1, CompleteParent
      <3> QED
        BY <1>2, <1>4, <2>4, <3>2 DEF DInv, Data
    <2>7. Keeps(next)
      BY <2>5 DEF Keeps
    <2>8. PICK w \in Range(candidates) :
              /\ Clean(w)
              /\ \A b \in linked \cup {0} : Keeps(b) /\ ~Less(order, b, w) => b \in Range(candidates)
      BY <1>8, <2>3
    <2> DEFINE s == {b \in linked \cup {0} : Keeps(b)}
    <2>9. s \subseteq Nodes /\ next \in s
      BY <1>2, <1>4, <2>6, <2>7, LinkedIs
    <2>10. \A b \in s : ~Less(order, b, w) => b \in Range(candidates)
      BY <2>8
    <2>11. InOrder(order, candidates)
      BY <2>3 DEF Sound
    <2>12. \A b : b \in s <=> b \in linked \cup {0} /\ Keeps(b)
      OBVIOUS
    <2> HIDE DEF s
    <2>13. /\ InOrder(order, candidates')
           /\ \E v \in Range(candidates') :
                 /\ v \in {w, next}
                 /\ \A b \in s : ~Less(order, b, v) => b \in Range(candidates')
      BY <1>4, <1>5, <2>1, <2>6, <2>9, <2>10, <2>11, PrunedKept
    <2>14. PICK v \in Range(candidates') :
                 /\ v \in {w, next}
                 /\ \A b \in s : ~Less(order, b, v) => b \in Range(candidates')
      BY <2>13
    <2>15. Range(candidates') \subseteq linked' \cup {0}
      BY <1>4, <2>1, <2>3, Pruned DEF Sound
    <2>16. wallet' = {} /\ canMine' = {} /\ mined' = FALSE /\ order' = order
      BY <2>1, <2>2, <2>3 DEF Sound, order
    <2>17. \A b \in linked' \cup {0} :
               Stays(b) /\ ~Less(order', b, v) =>
                   b \in Range(candidates')
      BY <1>0, <2>1, <2>12, <2>14, <2>16
    <2> QED
      BY <1>7, <2>2, <2>5, <2>8, <2>13, <2>14, <2>15, <2>16, <2>17
  <1>15. CASE RejectBlock
    <2>1. /\ UNCHANGED <<world, linked, sequenceId, mined, canMine>>
          /\ failed' = failed \cup {next} /\ candidates' \in Erase(order, candidates, next)
          /\ next \notin valid /\ OnBranch(tip, most) /\ tip # most
      BY <1>15 DEF RejectBlock, arrived, step, InvalidBlockFound
    <2>2. Sound
      BY <1>6, <2>1 DEF world
    <2>3. next \in Blocks /\ next \in Nodes /\ OnBranch(next, next)
      BY <1>2, <1>4, <2>1, NextIs, Itself
    <2>4. ~Clean(next)
      BY <2>1, <2>3 DEF Clean
    <2>5. InOrder(order, candidates')
      BY <1>4, <1>5, <2>1, <2>2, <2>3, ErasedInOrder DEF Sound
    <2>6. Range(candidates') = Range(candidates) \ {next}
      BY <1>4, <1>5, <2>1, <2>2, <2>3, ErasedInOrder DEF Sound
    <2>7. \A e \in {next} : ~Clean(e) /\ \E x \in failed' : x \in Blocks /\ OnBranch(x, e)
      BY <2>1, <2>3, <2>4
    <2> QED
      BY <1>10, <2>1, <2>5, <2>6, <2>7
  <1>16. CASE StepBack
    <2>1. UNCHANGED <<world, linked, sequenceId, candidates, failed, mined, canMine>>
      BY <1>16 DEF StepBack, arrived, step
    <2>2. Sound
      BY <1>6, <2>1 DEF world
    <2> QED
      BY <1>9, <2>1, <2>2 DEF Sound
  <1>17. CASE EndIteration
    <2>1. /\ UNCHANGED <<world, linked, sequenceId, candidates, failed, mined>>
          /\ canMine' = canMine \/ canMine' = Refreshed
      BY <1>17 DEF EndIteration, arrived, step
    <2>2. Sound
      BY <1>6, <2>1 DEF world
    <2> QED
      BY <1>9, <2>1, <2>2 DEF Sound, Refreshed
  <1>18. CASE SetLastStep
    <2>1. UNCHANGED <<world, linked, sequenceId, candidates, failed, mined, canMine>>
      BY <1>18 DEF SetLastStep, arrived
    <2>2. Sound
      BY <1>6, <2>1 DEF world
    <2> QED
      BY <1>9, <2>1, <2>2 DEF Sound
  <1>19. CASE SetLastFails
    <2>1. UNCHANGED <<world, linked, sequenceId, candidates, failed, mined, canMine>>
      BY <1>19 DEF SetLastFails, arrived, step
    <2>2. Sound
      BY <1>6, <2>1 DEF world
    <2> QED
      BY <1>9, <2>1, <2>2 DEF Sound
  <1>20. CASE SetLastReturns
    <2>1. /\ UNCHANGED <<world, linked, sequenceId, failed, mined, canMine>>
          /\ candidates' \in Insert(order, candidates, most) /\ most = tip
      BY <1>20 DEF SetLastReturns, arrived, step
    <2>2. UNCHANGED scenario /\ wallet' = wallet
      BY <2>1 DEF world
    <2>3. Sound
      BY <1>6, <2>2
    <2>4. InOrder(order, candidates') /\ Range(candidates') = Range(candidates) \cup {most}
      BY <1>4, <1>5, <2>1, <2>3, InsertedInOrder DEF Sound
    <2>5. most \in linked \cup {0}
      BY <1>2, <1>4, <2>1, LinkedIs DEF DInv, Data
    <2>6. PICK w \in Range(candidates) :
              /\ Clean(w)
              /\ \A b \in linked \cup {0} : Keeps(b) /\ ~Less(order, b, w) => b \in Range(candidates)
      BY <1>8, <2>3
    <2>7. wallet' = {} /\ canMine' = {} /\ mined' = FALSE /\ order' = order
      BY <2>1, <2>2, <2>3 DEF Sound, order
    <2>8. InOrder(order', candidates') /\ Range(candidates') \subseteq linked' \cup {0}
      BY <2>1, <2>3, <2>4, <2>5, <2>7 DEF Sound
    <2>9. \A b \in linked' \cup {0} :
              Stays(b) /\ ~Less(order', b, w) =>
                  b \in Range(candidates')
      BY <1>0, <2>1, <2>4, <2>6, <2>7
    <2>10. w \in Range(candidates')
      BY <2>4
    <2> QED
      BY <1>7, <2>2, <2>6, <2>7, <2>8, <2>9, <2>10
  <1>21. CASE Restart
    <2> DEFINE s == {b \in Blocks : Eligible(b, failed)}
    <2>1. /\ UNCHANGED <<world, linked, failed, tip, mined>> /\ canMine' = {}
      BY <1>21 DEF Restart, step
    <2>2. UNCHANGED scenario /\ wallet' = wallet
      BY <2>1 DEF world
    <2>3. Sound /\ Clean(tip) /\ \A x \in failed : ~Clean(x)
      BY <1>6, <2>2
    <2>4. PICK c \in InsertEach(order', <<0>>, ByHeight(s)) : candidates' = Prune(order', c, tip)
      BY <1>2, <1>21, RestartTyped
    <2>5. s = linked \ failed /\ s \subseteq Blocks
      BY <1>2, <1>4, LinkedIs DEF Eligible
    <2>6. ByHeight(s) \in Seq(Nodes) /\ Range(ByHeight(s)) = s
      BY <2>5, ByHeightIs
    <2>7. <<0>> \in Seq(Nodes) /\ Range(<<0>>) = {0} /\ Len(<<0>>) = 1
      BY <1>4, Single
    <2>8. InOrder(order', <<0>>)
      BY <2>7 DEF InOrder
    <2> HIDE DEF s
    <2>9. c \in Seq(Nodes) /\ InOrder(order', c) /\ Range(c) = {0} \cup s
      <3> DEFINE start == <<0>>
                 rest == ByHeight(s)
      <3>1. /\ start \in Seq(Nodes) /\ rest \in Seq(Nodes) /\ InOrder(order', start)
            /\ c \in InsertEach(order', start, rest)
        BY <2>4, <2>6, <2>7, <2>8
      <3>2. Range(start) = {0} /\ Range(rest) = s
        BY <2>6, <2>7
      <3> HIDE DEF start, rest
      <3>3. c \in Seq(Nodes) /\ InOrder(order', c) /\ Range(c) = Range(start) \cup Range(rest)
        BY <1>5, <3>1, InsertedAll
      <3> QED
        BY <3>2, <3>3
    <2>10. /\ InOrder(order', candidates')
           /\ Range(candidates') = {x \in Range(c) : ~Less(order', x, tip)}
      BY <1>4, <1>5, <2>4, <2>9, Pruned
    <2>11. tip \in linked \cup {0} /\ tip \notin failed
      BY <1>2, <1>4, <2>3, LinkedIs DEF DInv, Data
    <2>12. tip \in Range(candidates')
      <3>1. ~Less(order', tip, tip)
        BY <1>4, <1>5, Strict
      <3> QED
        BY <2>5, <2>9, <2>10, <2>11, <3>1
    <2>13. Range(candidates') \subseteq linked' \cup {0}
      BY <2>1, <2>5, <2>9, <2>10
    <2>14. ASSUME NEW b \in linked' \cup {0}, Stays(b),
                  ~Less(order', b, tip)
           PROVE  b \in Range(candidates')
      <3>1. b \in linked \cup {0} /\ b \in Nodes
        BY <1>2, <1>4, <2>1, <2>14, LinkedIs
      <3>2. b \in Blocks => b \notin failed
        <4>1. CASE Clean(b)
          BY <2>3, <4>1
        <4>2. CASE \A a \in Blocks : OnBranch(a, b) => a \notin failed'
          BY <2>1, <3>1, <4>2, Itself
        <4> QED
          BY <2>14, <4>1, <4>2 DEF Stays
      <3>3. b \in {0} \cup s
        BY <1>4, <2>5, <3>1, <3>2
      <3> QED
        BY <2>9, <2>10, <2>14, <3>3
    <2>15. wallet' = {} /\ canMine' = {} /\ mined' = FALSE
      BY <2>1, <2>2, <2>3 DEF Sound
    <2> QED
      BY <1>7, <2>2, <2>3, <2>10, <2>12, <2>13, <2>14, <2>15
  <1>22. ASSUME NEW b \in Blocks, ReceiveBlock(b) PROVE Sound'
    <2>1. UNCHANGED <<world, failed, mined>>
      BY <1>22 DEF ReceiveBlock, step
    <2>2. UNCHANGED scenario /\ wallet' = wallet
      BY <2>1 DEF world
    <2>3. Sound
      BY <1>6, <2>2
    <2>4. canMine' = {} /\ canMine = {} /\ wallet' = {} /\ mined' = FALSE
      <3>1. canMine' = canMine \/ Parent[b] \in canMine
        BY <1>22 DEF ReceiveBlock
      <3> QED
        BY <2>1, <2>2, <2>3, <3>1 DEF Sound
    <2>5. CASE ~(Parent[b] = 0 \/ Parent[b] \in linked)
      <3>1. UNCHANGED <<linked, sequenceId, candidates>>
        BY <1>22, <2>5 DEF ReceiveBlock
      <3> QED
        BY <1>9, <2>1, <2>4, <3>1
    <2>6. CASE Parent[b] = 0 \/ Parent[b] \in linked
      <3>1. /\ Freed(b) \subseteq Blocks /\ candidates' \in InsertEach(order', candidates, ByHeight(Freed(b)))
            /\ \A c \in Nodes : c \notin linked' \ linked => sequenceId'[c] = sequenceId[c]
        BY <1>2, <1>22, <2>6, ReceiveTyped
      <3>2. linked' = linked \cup Freed(b)
        BY <1>22, <2>6 DEF ReceiveBlock
      <3>3. ByHeight(Freed(b)) \in Seq(Nodes) /\ Range(ByHeight(Freed(b))) = Freed(b)
        BY <3>1, ByHeightIs
      <3>4. order'.can = order.can /\ order.seq = sequenceId /\ order'.seq = sequenceId'
        BY <2>4 DEF order
      <3>5. linked \subseteq Blocks /\ linked' \subseteq Blocks
        BY <1>2, <1>3 DEF DInv, Data
      <3>6. \A c \in linked \cup {0} : c \in Nodes /\ order.seq[c] = order'.seq[c]
        BY <1>4, <3>1, <3>4, <3>5
      <3>7. InOrder(order, candidates) /\ Range(candidates) \subseteq linked \cup {0}
        BY <2>3 DEF Sound
      <3>8. InOrder(order', candidates)
        BY <1>4, <3>4, <3>6, <3>7, StaysInOrder
      <3>9. InOrder(order', candidates') /\ Range(candidates') = Range(candidates) \cup Freed(b)
        BY <1>4, <1>5, <3>1, <3>3, <3>8, InsertedAll
      <3>10. PICK w \in Range(candidates) :
              /\ Clean(w)
              /\ \A c \in linked \cup {0} : Keeps(c) /\ ~Less(order, c, w) => c \in Range(candidates)
        BY <1>8, <2>3
      <3>11. ASSUME NEW c \in linked' \cup {0}, Stays(c),
                    ~Less(order', c, w)
             PROVE  c \in Range(candidates')
        <4>1. CASE c \in Freed(b)
          BY <3>9, <4>1
        <4>2. CASE c \in linked \cup {0}
          <5>1. ~Less(order, c, w)
            BY <3>4, <3>6, <3>7, <3>11, <4>2, SameOrder
          <5>2. Keeps(c)
            BY <1>0, <2>1, <3>11
          <5> QED
            BY <3>9, <3>10, <4>2, <5>1, <5>2
        <4> QED
          BY <3>2, <4>1, <4>2
      <3>12. w \in Range(candidates') /\ Range(candidates') \subseteq linked' \cup {0}
        BY <3>2, <3>7, <3>9
      <3> QED
        BY <1>7, <2>2, <2>4, <3>9, <3>10, <3>11, <3>12
    <2> QED
      BY <2>5, <2>6
  <1>23. ASSUME NEW b \in Blocks, SetLastBlock(b) PROVE Sound'
    <2>1. UNCHANGED <<world, linked, sequenceId, candidates, failed, mined, canMine>>
      BY <1>23 DEF SetLastBlock, arrived
    <2>2. Sound
      BY <1>6, <2>1 DEF world
    <2> QED
      BY <1>9, <2>1, <2>2 DEF Sound
  <1>24. ASSUME NEW b \in Blocks, InvalidateBlock(b) PROVE FALSE
    <2>1. UNCHANGED scenario /\ "invalidate" \in events
      BY <1>2, <1>24, InvalidateIs DEF world
    <2> QED
      BY <1>6, <2>1
  <1>25. ASSUME NEW b \in Blocks, ReconsiderBlock(b) PROVE Sound'
    <2> DEFINE s == {a \in {a \in failed : OnBranch(b, a)} : Eligible(a, {}) /\ Less(order, tip, a)}
    <2>1. /\ UNCHANGED <<world, linked, sequenceId, mined, canMine>>
          /\ candidates' \in InsertEach(order, candidates, Listed(s))
      BY <1>25 DEF ReconsiderBlock, arrived, step
    <2>2. UNCHANGED scenario /\ wallet' = wallet /\ "reconsider" \in events
      BY <1>25, <2>1 DEF ReconsiderBlock, Call, world
    <2>3. Sound
      BY <1>6, <2>2
    <2>4. s \subseteq linked
      BY DEF Eligible
    <2> HIDE DEF s
    <2>5. Listed(s) \in Seq(Nodes) /\ Range(Listed(s)) = s \cap Blocks
      BY ListedIs
    <2>6. /\ InOrder(order, candidates')
          /\ Range(candidates') = Range(candidates) \cup Range(Listed(s))
      BY <1>4, <1>5, <2>1, <2>3, <2>5, InsertedAll DEF Sound
    <2>7. PICK w \in Range(candidates) :
              /\ Clean(w)
              /\ \A c \in linked \cup {0} : Keeps(c) /\ ~Less(order, c, w) => c \in Range(candidates)
      BY <1>8, <2>3
    <2>8. wallet' = {} /\ canMine' = {} /\ mined' = FALSE /\ order' = order
      BY <2>1, <2>2, <2>3 DEF Sound, order
    <2>9. InOrder(order', candidates') /\ Range(candidates') \subseteq linked' \cup {0}
      BY <2>1, <2>3, <2>4, <2>5, <2>6, <2>8 DEF Sound
    <2>10. ASSUME NEW c \in linked' \cup {0}, Stays(c), ~Less(order', c, w)
           PROVE  c \in Range(candidates')
      <3>1. Keeps(c)
        BY <2>2, <2>10 DEF Stays, Keeps
      <3> QED
        BY <2>1, <2>6, <2>7, <2>8, <2>10, <3>1
    <2>11. w \in Range(candidates')
      BY <2>6
    <2> QED
      BY <1>7, <2>2, <2>7, <2>8, <2>9, <2>10, <2>11
  <1>26. ASSUME NEW x \in Nodes, WalletChange(x) PROVE FALSE
    <2>1. UNCHANGED scenario /\ "wallet" \in events
      BY <1>26 DEF WalletChange
    <2> QED
      BY <1>6, <2>1
  <1>27. CASE UNCHANGED vars
    <2>1. UNCHANGED <<world, linked, sequenceId, candidates, failed, mined, canMine>>
      BY <1>27 DEF vars, arrived, step
    <2>2. Sound
      BY <1>6, <2>1 DEF world
    <2> QED
      BY <1>9, <2>1, <2>2 DEF Sound
  <1> QED
    BY <1>1, <1>11, <1>12, <1>13, <1>14, <1>15, <1>16, <1>17, <1>18, <1>19, <1>20, <1>21, <1>22,
       <1>23, <1>24, <1>25, <1>26, <1>27 DEF Next, Work

\* What is not itself a candidate comes before one that broke no rule.
LEMMA HigherIsCandidate == CandInv => MoreWorkIsCandidate
  <1>1. SUFFICES ASSUME CandInv, Calm, "reconsider" \notin events, NEW b \in linked, good(b)
                 PROVE  \E c \in Range(candidates) : good(c) /\ Height(c) >= Height(b)
    BY DEF MoreWorkIsCandidate, Calm
  <1>2. DInv /\ Just /\ Sound
    BY <1>1 DEF CandInv, JInv
  <1>3. PICK w \in Range(candidates) :
            /\ Clean(w)
            /\ \A c \in linked \cup {0} : Keeps(c) /\ ~Less(order, c, w) => c \in Range(candidates)
    BY <1>2 DEF Sound, Kept
  <1>4. good(w)
    BY <1>1, <1>2, <1>3, CleanIsGood DEF Just, Calm
  <1>5. b \in Nodes /\ w \in Nodes
    BY <1>1, <1>2, <1>3, RangeIs, Numbered DEF DInv, Typed, Data
  <1>6. Height(b) \in Nat /\ Height(w) \in Nat
    BY <1>5, Lengths
  <1>7. CASE Less(order, b, w)
    <2>1. Height(b) <= Height(w)
      BY <1>5, <1>7, NotLower
    <2> QED
      BY <1>4, <1>6, <2>1
  <1>8. CASE ~Less(order, b, w)
    <2>1. b \in Range(candidates)
      BY <1>1, <1>3, <1>8 DEF Keeps
    <2> QED
      BY <1>1, <1>6, <2>1
  <1> QED
    BY <1>7, <1>8

(* For each linked block above the tip with no failed block on its branch the  *)
(* set of candidates holds one at least as high, on a node whose keys stay and *)
(* whose operator fails and unfails no block, whatever data comes when.        *)
THEOREM BetterChainsAreCandidates == Spec => []MoreWorkIsCandidate
  BY CandInit, CandStep, HigherIsCandidate, PTL DEF Spec

-----------------------------------------------------------------------------
(***************************************************************************)
(* Where nobody interferes, the search rests on the best chain.            *)
(***************************************************************************)

\* A candidate that is complete and not rejected passes.
LEMMA ChosenIs ==
    ASSUME DInv, NEW c \in Range(candidates), c \notin rejected, Complete(have, c)
    PROVE  c \in Chosen
  <1>1. c \in Nodes /\ tip \in Nodes /\ Nodes = Blocks \cup {0}
    BY RangeIs, Numbered DEF DInv, Typed
  <1>2. SUFFICES ASSUME c \notin passed PROVE c \in Verified(c, have)
    <2>1. CASE c \in passed
      BY <2>1 DEF Chosen, checked
    <2>2. CASE c \in Verified(c, have) /\ c \notin passed
      BY <2>2 DEF Chosen, checked, fresh
    <2> QED
      BY <2>1, <2>2
  <1>3. CASE Above(c) = {}
    BY <1>3 DEF Verified
  <1>4. CASE Above(c) # {}
    <2>1. PICK a \in Blocks : OnBranch(a, c) /\ ~OnBranch(a, tip)
      BY <1>4 DEF Above
    <2>2. ~OnBranch(c, tip)
      BY <2>1, Transitive
    <2>3. c \in Blocks /\ OnBranch(c, c)
      BY <1>1, <2>2, Itself
    <2>4. c \in Above(c) /\ c \in have /\ Above(c) \subseteq have
      BY <2>2, <2>3 DEF Above, Complete
    <2> QED
      BY <1>4, <2>4 DEF Verified
  <1> QED
    BY <1>3, <1>4

\* Nothing that is complete and not failed after the search is higher than
\* what the search found.
LEMMA FoundBest ==
    ASSUME DInv, FindMostWorkChain, Sound, "reconsider" \notin events, \A x \in failed : ~Clean(x)
    PROVE  /\ Chosen # {}
           /\ \A b \in linked :
                 (\A a \in Blocks : OnBranch(a, b) => a \notin failed') => Height(b) <= Height(best)
  <1>1. PICK w \in Range(candidates) :
            /\ Clean(w)
            /\ \A b \in linked \cup {0} : Keeps(b) /\ ~Less(order, b, w) => b \in Range(candidates)
    BY DEF Sound, Kept
  <1>2. Range(candidates) \subseteq linked \cup {0} /\ Range(candidates) \subseteq Nodes
    BY RangeIs DEF Sound, DInv, Typed
  <1>3. w \in Nodes /\ Complete(have, w)
    BY <1>2, LinkedIs
  <1>4. w \in Chosen
    <2>1. w \notin rejected
      BY <1>1, FoundGuilty
    <2> QED
      BY <1>3, <2>1, ChosenIs
  <1>5. best \in Nodes /\ \A c \in Chosen : c = best \/ Less(order, c, best)
    BY <1>4, BestIs
  <1>6. ASSUME NEW c \in Chosen, c \in Nodes PROVE Height(c) <= Height(best)
    <2>1. Height(c) \in Nat /\ Height(best) \in Nat
      BY <1>5, <1>6, Lengths
    <2>2. CASE c = best
      BY <2>1, <2>2
    <2>3. CASE Less(order, c, best)
      BY <1>5, <1>6, <2>3, NotLower
    <2> QED
      BY <1>5, <1>6, <2>2, <2>3
  <1>7. ASSUME NEW b \in linked, \A a \in Blocks : OnBranch(a, b) => a \notin failed'
        PROVE  Height(b) <= Height(best)
    <2>1. b \in Blocks /\ b \in Nodes /\ Complete(have, b)
      BY Numbered DEF DInv, Data
    <2>2. failed \cup rejected \subseteq failed'
      BY Findings
    <2>3. good(b) /\ b \notin rejected
      BY <1>7, <2>1, <2>2, Itself DEF good
    <2>4. CASE b \in Range(candidates)
      BY <1>6, <2>1, <2>3, <2>4, ChosenIs
    <2>5. CASE b \notin Range(candidates)
      <3>1. Less(order, b, w)
        BY <1>1, <2>3, <2>5 DEF Keeps
      <3>2. Height(b) <= Height(w) /\ Height(w) <= Height(best)
        BY <1>3, <1>4, <1>6, <2>1, <3>1, NotLower
      <3>3. Height(b) \in Nat /\ Height(w) \in Nat /\ Height(best) \in Nat
        BY <1>3, <1>5, <2>1, Lengths
      <3> QED
        BY <3>2, <3>3
    <2> QED
      BY <2>4, <2>5
  <1> QED
    BY <1>4, <1>7

LEMMA BestInit == Init => BestInv
  <1>1. SUFFICES ASSUME Init PROVE BestInv
    OBVIOUS
  <1>2. caller = "activate" /\ op = "idle" /\ linked = {}
    BY <1>1 DEF Init
  <1> QED
    BY <1>1, <1>2, CandInit DEF BestInv, Settled, NoneAbove

LEMMA BestStep == BestInv /\ [Next]_vars => BestInv'
  <1>1. SUFFICES ASSUME BestInv, [Next]_vars, Quiet' PROVE Settled'
    BY CandStep DEF BestInv
  <1>2. CandInv /\ DInv /\ Just
    BY <1>1 DEF BestInv, CandInv, JInv
  <1>3. ASSUME UNCHANGED scenario
        PROVE  /\ Quiet /\ Settled /\ Sound /\ \A x \in failed : ~Clean(x)
               /\ events \subseteq {"restart"}
    <2>1. Quiet /\ events \subseteq {"restart"}
      BY <1>1, <1>3 DEF Quiet, scenario
    <2>2. Calm /\ "invalidate" \notin events
      BY <2>1 DEF Calm
    <2> QED
      BY <1>1, <1>2, <2>1, <2>2 DEF BestInv, CandInv, Just
  <1>4. ASSUME UNCHANGED linked, failed \subseteq failed'
        PROVE  /\ NoneAbove(tip) /\ tip' = tip => NoneAbove(tip)'
               /\ NoneAbove(most) /\ most' = most => NoneAbove(most)'
               /\ NoneAbove(most) /\ tip' = most => NoneAbove(tip)'
    BY <1>4 DEF NoneAbove, good
  \* The search, or a step of the way up, goes on.
  <1>5. ASSUME UNCHANGED <<scenario, linked, caller, activate, most>>, failed \subseteq failed',
               op # "idle", op' # "idle", op' \in {"step", "end"} => op \in {"step", "end"}
        PROVE  Settled'
    <2>1. Settled
      BY <1>3, <1>5
    <2> QED
      BY <1>4, <1>5, <2>1 DEF Settled
  \* What is to be activated is about to be searched for.
  <1>6. ASSUME UNCHANGED <<scenario, caller>>, op' = "idle", activate' = TRUE
        PROVE  Settled'
    BY <1>3, <1>6 DEF Settled
  \* Nothing happens to the chain.
  <1>7. ASSUME UNCHANGED <<scenario, linked, failed, caller, activate, op, most, tip>>
        PROVE  Settled'
    BY <1>3, <1>4, <1>7 DEF Settled
  <1>8. CASE StartIteration
    <2>1. op' = "find" /\ caller' = "activate" /\ activate /\ activate' = activate
      BY <1>8 DEF StartIteration
    <2> QED
      BY <2>1 DEF Settled
  <1>9. CASE FindMostWorkChain
    <2>1. UNCHANGED <<scenario, linked, caller, tip>> /\ op = "find" /\ failed \subseteq failed'
      BY <1>2, <1>9, Findings DEF world, arrived
    <2>2. Settled /\ Sound /\ "reconsider" \notin events /\ \A x \in failed : ~Clean(x)
      BY <1>3, <2>1
    <2>3. /\ Chosen # {}
          /\ \A b \in linked :
                (\A a \in Blocks : OnBranch(a, b) => a \notin failed') => Height(b) <= Height(best)
      BY <1>2, <1>9, <2>2, FoundBest
    <2>4. CASE failedAt = {} /\ best = tip /\ op' = "idle"
      <3>1. NoneAbove(tip)'
        BY <2>1, <2>3, <2>4 DEF NoneAbove, good
      <3> QED
        BY <2>1, <2>2, <2>4, <3>1 DEF Settled
    <2>5. CASE op' = "step" /\ most' = best /\ UNCHANGED activate
      <3>1. NoneAbove(most)'
        BY <2>1, <2>3, <2>5 DEF NoneAbove, good
      <3> QED
        BY <2>1, <2>2, <2>5, <3>1 DEF Settled
    <2>6. CASE UNCHANGED <<op, activate, most>>
      BY <1>5, <2>1, <2>6
    <2> QED
      BY <1>2, <1>9, <2>3, <2>4, <2>5, <2>6, Findings
  <1>10. CASE DisconnectTip
    BY <1>5, <1>10 DEF DisconnectTip, world, arrived, step
  <1>11. CASE ConnectTip
    <2>1. op' \in {"step", "end"} /\ op = "step"
      BY <1>11 DEF ConnectTip
    <2> QED
      BY <1>5, <1>11, <2>1 DEF ConnectTip, world, arrived, step
  <1>12. CASE RejectBlock
    BY <1>5, <1>12 DEF RejectBlock, InvalidBlockFound, world, arrived, step
  <1>13. CASE StepBack
    BY <1>5, <1>13 DEF StepBack, world, arrived, step
  <1>14. CASE EndIteration
    <2>1. UNCHANGED <<scenario, linked, failed, tip, caller, most>> /\ op = "end" /\ op' = "idle"
      BY <1>14 DEF EndIteration, world, arrived, step
    <2>2. Settled /\ Sound
      BY <1>3, <2>1
    <2>3. CASE tip = most
      <3>1. NoneAbove(tip)'
        BY <1>4, <2>1, <2>2, <2>3 DEF Settled
      <3> QED
        BY <2>1, <2>2, <3>1 DEF Settled
    <2>4. CASE tip # most
      <3>1. activate' = activate
        BY <1>14, <2>4 DEF EndIteration
      <3> QED
        BY <2>1, <2>2, <3>1 DEF Settled
    <2> QED
      BY <2>3, <2>4
  <1>15. CASE SetLastStep
    <2>1. UNCHANGED scenario /\ caller = "setlast"
      BY <1>15 DEF SetLastStep, world
    <2> QED
      BY <1>3, <2>1 DEF Settled
  <1>16. CASE SetLastFails
    BY <1>6, <1>16 DEF SetLastFails, world, step
  <1>17. CASE SetLastReturns
    <2>1. UNCHANGED scenario /\ caller = "setlast"
      BY <1>17 DEF SetLastReturns, world
    <2> QED
      BY <1>3, <2>1 DEF Settled
  <1>18. CASE Restart
    BY <1>6, <1>18 DEF Restart, world, step
  <1>19. ASSUME NEW b \in Blocks, ReceiveBlock(b) PROVE Settled'
    BY <1>6, <1>19 DEF ReceiveBlock, world, step
  <1>20. ASSUME NEW b \in Blocks, SetLastBlock(b) PROVE FALSE
    <2>1. UNCHANGED scenario /\ "setlast" \in events
      BY <1>20 DEF SetLastBlock, Call, world
    <2> QED
      BY <1>3, <2>1
  <1>21. ASSUME NEW b \in Blocks, InvalidateBlock(b) PROVE FALSE
    <2>1. UNCHANGED scenario /\ "invalidate" \in events
      BY <1>2, <1>21, InvalidateIs DEF world
    <2> QED
      BY <1>3, <2>1
  <1>22. ASSUME NEW b \in Blocks, ReconsiderBlock(b) PROVE FALSE
    <2>1. UNCHANGED scenario /\ "reconsider" \in events
      BY <1>22 DEF ReconsiderBlock, Call, world
    <2> QED
      BY <1>3, <2>1
  <1>23. ASSUME NEW x \in Nodes, WalletChange(x) PROVE FALSE
    <2>1. UNCHANGED scenario /\ "wallet" \in events
      BY <1>23 DEF WalletChange
    <2> QED
      BY <1>3, <2>1
  <1>24. CASE UNCHANGED vars
    BY <1>7, <1>24 DEF vars, world, arrived, step
  <1> QED
    BY <1>1, <1>8, <1>9, <1>10, <1>11, <1>12, <1>13, <1>14, <1>15, <1>16, <1>17, <1>18, <1>19,
       <1>20, <1>21, <1>22, <1>23, <1>24 DEF Next, Work

\* What keeps the rules has not failed.
LEMMA RestsOnBest == BestInv => TipBestWork
  <1>1. SUFFICES ASSUME BestInv, op = "idle", ~activate, Quiet, NEW b \in Blocks,
                        \A a \in Blocks : OnBranch(a, b) => a \in have \cap valid
                 PROVE  Height(b) <= Height(tip)
    BY DEF TipBestWork, Quiet
  <1>2. DInv /\ Just /\ Settled /\ "invalidate" \notin events
    BY <1>1 DEF BestInv, CandInv, JInv, Quiet
  <1>3. Clean(b) /\ b \in linked
    BY <1>1, <1>2 DEF Clean, Complete, DInv, Data
  <1>4. good(b)
    BY <1>2, <1>3, CleanIsGood DEF Just
  <1> QED
    BY <1>1, <1>2, <1>3, <1>4 DEF Settled, NoneAbove

(* When ActivateBestChain has returned, no branch whose data is all there and  *)
(* whose blocks break no rule is higher than the active chain: in whatever     *)
(* order blocks came and failed, across restarts, on a node without keys whose *)
(* operator made no call.                                                      *)
THEOREM RestingTipHasMostWork == Spec => []TipBestWork
  BY BestInit, BestStep, RestsOnBest, PTL DEF Spec

-----------------------------------------------------------------------------
(***************************************************************************)
(* PruneBlockIndexCandidates leaves a candidate: one that the calm search  *)
(* kept, or what ActivateBestChain is on its way to.                       *)
(***************************************************************************)

\* The block that was chosen is not worse than those on the way to it.
LEMMA MostStays ==
    ASSUME DInv, ConnectTip, most \in Range(candidates)
    PROVE  most \in Range(candidates')
  <1>1. /\ candidates' = Prune(order, candidates, next) /\ OnBranch(tip, most) /\ tip # most
    BY DEF ConnectTip
  <1>2. most \in Nodes /\ candidates \in Seq(Nodes) /\ Readable(order)
    BY OrderReadable DEF DInv, Typed
  <1>3. next \in Nodes /\ OnBranch(next, most)
    BY <1>1, NextIs, Numbered DEF DInv
  <1>4. ~Less(order, most, next)
    <2>1. SUFFICES ASSUME Less(order, most, next) PROVE FALSE
      OBVIOUS
    <2>2. Height(most) <= Height(next)
      BY <1>2, <1>3, <2>1, NotLower
    <2>3. /\ Height(next) <= Height(most) /\ Height(next) \in Nat /\ Height(most) \in Nat
          /\ Height(next) = Height(most) => next = most
      BY <1>3, Lower
    <2>4. next = most
      BY <2>2, <2>3
    <2> QED
      BY <1>2, <2>1, <2>4, Strict
  <1> QED
    BY <1>1, <1>2, <1>4, Pruned

LEMMA LeftInit == Init => LeftInv
  <1>1. SUFFICES ASSUME Init PROVE LeftInv
    OBVIOUS
  <1>2. op = "idle"
    BY <1>1 DEF Init
  <1> QED
    BY <1>1, <1>2, CandInit DEF LeftInv

LEMMA LeftStep == LeftInv /\ [Next]_vars => LeftInv'
  <1>1. SUFFICES ASSUME LeftInv, [Next]_vars, caller' = "activate", op' = "step"
                 PROVE  most' \in Range(candidates')
    BY CandStep DEF LeftInv
  <1>2. DInv
    BY <1>1 DEF LeftInv, CandInv, JInv
  <1>3. ASSUME UNCHANGED <<caller, op, most, candidates>> PROVE most' \in Range(candidates')
    BY <1>1, <1>3 DEF LeftInv
  <1>4. CASE StartIteration
    BY <1>1, <1>4 DEF StartIteration
  <1>5. CASE FindMostWorkChain
    <2>1. op = "find"
      BY <1>2, <1>5, Findings
    <2>2. Chosen # {} /\ most' = best /\ candidates' = candidates
      BY <1>1, <1>2, <1>5, <2>1, Findings
    <2>3. best \in Chosen
      BY <1>2, <2>2, BestIs
    <2> QED
      BY <2>2, <2>3 DEF Chosen
  <1>6. CASE DisconnectTip
    BY <1>3, <1>6 DEF DisconnectTip, step
  <1>7. CASE ConnectTip
    <2>1. op = "step" /\ UNCHANGED <<caller, most>>
      BY <1>7 DEF ConnectTip, step
    <2>2. most \in Range(candidates)
      BY <1>1, <2>1 DEF LeftInv
    <2> QED
      BY <1>2, <1>7, <2>1, <2>2, MostStays
  <1>8. CASE RejectBlock
    BY <1>1, <1>8 DEF RejectBlock
  <1>9. CASE StepBack
    BY <1>1, <1>9 DEF StepBack
  <1>10. CASE EndIteration
    BY <1>1, <1>10 DEF EndIteration
  <1>11. CASE SetLastStep
    BY <1>1, <1>11 DEF SetLastStep
  <1>12. CASE SetLastFails
    BY <1>1, <1>12 DEF SetLastFails
  <1>13. CASE SetLastReturns
    BY <1>1, <1>13 DEF SetLastReturns
  <1>14. CASE Restart
    BY <1>1, <1>14 DEF Restart
  <1>15. ASSUME NEW b \in Blocks, ReceiveBlock(b) PROVE FALSE
    BY <1>1, <1>15 DEF ReceiveBlock
  <1>16. ASSUME NEW b \in Blocks, SetLastBlock(b) PROVE FALSE
    BY <1>1, <1>16 DEF SetLastBlock
  <1>17. ASSUME NEW b \in Blocks, InvalidateBlock(b) PROVE FALSE
    <2>1. op' = op /\ op = "idle"
      BY <1>2, <1>17, InvalidateIs
    <2> QED
      BY <1>1, <2>1
  <1>18. ASSUME NEW b \in Blocks, ReconsiderBlock(b) PROVE FALSE
    BY <1>1, <1>18 DEF ReconsiderBlock, Call
  <1>19. ASSUME NEW x \in Nodes, WalletChange(x) PROVE most' \in Range(candidates')
    BY <1>3, <1>19 DEF WalletChange, step
  <1>20. CASE UNCHANGED vars
    BY <1>3, <1>20 DEF vars, step
  <1> QED
    BY <1>1, <1>4, <1>5, <1>6, <1>7, <1>8, <1>9, <1>10, <1>11, <1>12, <1>13, <1>14, <1>15, <1>16,
       <1>17, <1>18, <1>19, <1>20 DEF Next, Work

LEMMA LeftNext ==
    LeftInv /\ [Next]_vars =>
        [/\ tip' # tip /\ OnBranch(tip, tip')
         /\ caller = "setlast" => {"invalidate", "wallet"} \cap events = {}
         => candidates' # <<>>]_vars
  <1>1. SUFFICES ASSUME LeftInv, [Next]_vars, tip' # tip, OnBranch(tip, tip'),
                        caller = "setlast" => Calm
                 PROVE  candidates' # <<>>
    BY DEF Calm
  <1>2. DInv
    BY <1>1 DEF LeftInv, CandInv, JInv
  \* The tip moves down by DisconnectTip and InvalidateBlock, up by ConnectTip.
  <1>3. ASSUME NEW b \in Blocks, OnBranch(b, tip), tip' = Parent[b] PROVE FALSE
    <2>1. Height(b) = Height(Parent[b]) + 1
      BY Grown
    <2>2. Height(b) <= Height(tip) /\ Height(tip) <= Height(tip')
      BY <1>1, <1>3, Lower
    <2>3. Height(b) \in Nat /\ Height(tip) \in Nat /\ Height(tip') \in Nat
      BY <1>1, <1>3, Lower
    <2> QED
      BY <1>3, <2>1, <2>2, <2>3
  <1>4. CASE ConnectTip
    <2>1. UNCHANGED <<scenario, caller, most>> /\ op = "step"
      BY <1>4 DEF ConnectTip, world, step
    <2>2. \E x : x \in Range(candidates')
      <3>1. CASE caller = "activate"
        <4>1. most \in Range(candidates)
          BY <1>1, <2>1, <3>1 DEF LeftInv
        <4> QED
          BY <1>2, <1>4, <4>1, MostStays
      <3>2. CASE caller = "setlast"
        <4>1. Calm'
          BY <1>1, <2>1, <3>2 DEF Calm, scenario
        <4>2. Sound'
          BY <1>1, <4>1, CandStep DEF LeftInv, CandInv
        <4> QED
          BY <4>2 DEF Sound, Kept
      <3> QED
        BY <1>2, <3>1, <3>2 DEF DInv, Typed
    <2> QED
      BY <2>2, Empty
  <1>5. CASE DisconnectTip
    <2>1. tip' = Parent[tip] /\ ~OnBranch(tip, most)
      BY <1>5 DEF DisconnectTip
    <2>2. tip \in Nodes /\ most \in Nodes /\ Nodes = Blocks \cup {0}
      BY <1>2, Numbered DEF DInv, Typed
    <2>3. tip \in Blocks /\ OnBranch(tip, tip)
      BY <2>1, <2>2, Itself
    <2> QED
      BY <1>3, <2>1, <2>3
  <1>6. ASSUME NEW b \in Blocks, InvalidateBlock(b) PROVE FALSE
    <2>1. (OnBranch(b, tip) => tip' = Parent[b]) /\ (~OnBranch(b, tip) => tip' = tip)
      BY <1>2, <1>6, InvalidateIs
    <2> QED
      BY <1>1, <1>3, <2>1
  <1>7. CASE FindMostWorkChain
    BY <1>1, <1>2, <1>7, Findings
  <1>8. CASE StartIteration
    BY <1>1, <1>8 DEF StartIteration
  <1>9. CASE RejectBlock
    BY <1>1, <1>9 DEF RejectBlock
  <1>10. CASE StepBack
    BY <1>1, <1>10 DEF StepBack
  <1>11. CASE EndIteration
    BY <1>1, <1>11 DEF EndIteration
  <1>12. CASE SetLastStep
    BY <1>1, <1>12 DEF SetLastStep
  <1>13. CASE SetLastFails
    BY <1>1, <1>13 DEF SetLastFails
  <1>14. CASE SetLastReturns
    BY <1>1, <1>14 DEF SetLastReturns
  <1>15. CASE Restart
    BY <1>1, <1>15 DEF Restart
  <1>16. ASSUME NEW b \in Blocks, ReceiveBlock(b) PROVE FALSE
    BY <1>1, <1>16 DEF ReceiveBlock
  <1>17. ASSUME NEW b \in Blocks, SetLastBlock(b) PROVE FALSE
    BY <1>1, <1>17 DEF SetLastBlock
  <1>18. ASSUME NEW b \in Blocks, ReconsiderBlock(b) PROVE FALSE
    BY <1>1, <1>18 DEF ReconsiderBlock
  <1>19. ASSUME NEW x \in Nodes, WalletChange(x) PROVE FALSE
    BY <1>1, <1>19 DEF WalletChange
  <1>20. CASE UNCHANGED vars
    BY <1>1, <1>20 DEF vars
  <1> QED
    BY <1>1, <1>4, <1>5, <1>6, <1>7, <1>8, <1>9, <1>10, <1>11, <1>12, <1>13, <1>14, <1>15, <1>16,
       <1>17, <1>18, <1>19, <1>20 DEF Next, Work

(* PruneBlockIndexCandidates never empties the set: when ActivateBestChain     *)
(* connected a block the one it is on its way to is left, whatever the operator *)
(* did before; in setlastblock one that broke no rule, unless blocks were      *)
(* invalidated or keys came and went.                                          *)
THEOREM PruningLeavesACandidate == Spec => CandidatesLeft
  BY LeftInit, LeftStep, LeftNext, PTL DEF Spec, CandidatesLeft
=============================================================================
