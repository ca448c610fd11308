---------------------- MODULE MinerVerificationProofs ----------------------
(***************************************************************************)
(* For every tree of blocks, any addresses and grants, any order in which  *)
(* the data comes and any share of diversity: the permission object shows  *)
(* what the branch under check gives and is put back as it was, the        *)
(* records are complete, the verdict is that of the branch's own rules,    *)
(* and no block that breaks them is on the active chain.                   *)
(***************************************************************************)
EXTENDS MinerVerification, OrderLemmas, FiniteSetTheorems

-----------------------------------------------------------------------------
(***************************************************************************)
(* The tree.                                                               *)
(***************************************************************************)

Nodes == 0..Len(Parent)

LEMMA Numbered ==
    /\ Len(Parent) \in Nat /\ 0 \in Nodes /\ Nodes = Blocks \cup {0} /\ 0 \notin Blocks
    /\ -1 \notin Blocks
    /\ \A b \in Blocks : b \in Nodes /\ Parent[b] \in Nodes /\ Parent[b] \in 0..(b - 1)
  <1>1. Len(Parent) \in Nat
    BY VerificationAssumption, LenProperties
  <1>2. \A b \in Blocks : Parent[b] \in Nat /\ Parent[b] < b
    BY <1>1, VerificationAssumption DEF Blocks
  <1> QED
    BY <1>1, <1>2 DEF Nodes, Blocks

OnTree(f, a, rule) == f = [b \in Nodes |-> IF b = 0 THEN a ELSE rule[b][f[Parent[b]]]]

\* What is defined by recursion along the tree exists.
LEMMA OnTreeExists ==
    ASSUME NEW T, NEW a \in T, NEW rule \in [Blocks -> [T -> T]]
    PROVE  \E f \in [Nodes -> T] : OnTree(f, a, rule)
  <1>1. Blocks = 1..Len(Parent) /\ Len(Parent) \in Nat
    BY Numbered DEF Blocks
  <1>2. \A b \in 1..Len(Parent) : Parent[b] \in 0..(b - 1)
    BY <1>1, Numbered
  <1>3. PICK f \in [Nodes -> T] : AlongTree(f, Len(Parent), Parent, a, rule)
    BY <1>1, <1>2, TreeRecursion DEF Nodes
  <1>4. \A b \in Nodes : f[b] = IF b = 0 THEN a ELSE rule[b][f[Parent[b]]]
    BY <1>1, <1>3, Numbered DEF AlongTree
  <1> QED
    BY <1>4 DEF OnTree

LEMMA TreeInduction ==
    ASSUME NEW S, 0 \in S, \A b \in Blocks : Parent[b] \in S => b \in S
    PROVE  Nodes \subseteq S
  <1>1. Blocks = 1..Len(Parent) /\ Len(Parent) \in Nat
    BY Numbered DEF Blocks
  <1>2. \A b \in 1..Len(Parent) : Parent[b] \in 0..(b - 1)
    BY <1>1, Numbered
  <1> QED
    BY <1>1, <1>2, BranchInduction DEF Nodes

LEMMA BranchIs ==
    /\ Branch \in [Nodes -> Seq(Blocks)]
    /\ Branch[0] = <<>>
    /\ \A b \in Blocks : Branch[b] = Append(Branch[Parent[b]], b)
  <1> DEFINE rule == [b \in Blocks |-> [s \in Seq(Blocks) |-> Append(s, b)]]
             F(f) == [b \in Nodes |-> IF b = 0 THEN <<>> ELSE Append(f[Parent[b]], b)]
  <1>1. rule \in [Blocks -> [Seq(Blocks) -> Seq(Blocks)]] /\ <<>> \in Seq(Blocks)
    OBVIOUS
  <1>2. PICK f \in [Nodes -> Seq(Blocks)] : OnTree(f, <<>>, rule)
    <2> HIDE DEF rule
    <2> QED
      BY <1>1, OnTreeExists
  <1>3. \A b \in Blocks : f[Parent[b]] \in Seq(Blocks)
    BY Numbered
  <1>4. f = F(f)
    BY <1>2, <1>3, Numbered DEF OnTree
  <1> DEFINE to == CHOOSE g : g = F(g)
  <1>5. to = F(to)
    <2> HIDE DEF F
    <2> QED
      BY <1>4
  <1>6. Branch = to
    BY Numbered DEF Branch
  <1> HIDE DEF to
  <1>7. Branch = F(Branch)
    BY <1>5, <1>6
  <1> HIDE DEF F
  <1>8. \A b \in Nodes : Branch[b] = IF b = 0 THEN <<>> ELSE Append(Branch[Parent[b]], b)
    BY <1>7 DEF F
  <1> DEFINE S == {b \in Nodes : Branch[b] \in Seq(Blocks)}
  <1>9. Nodes \subseteq S
    <2>1. 0 \in S
      <3>1. Branch[0] = <<>>
        BY <1>8, Numbered
      <3>2. Branch[0] \in Seq(Blocks)
        BY <3>1
      <3>3. 0 \in Nodes
        BY Numbered
      <3> QED
        BY <3>2, <3>3
    <2>2. ASSUME NEW b \in Blocks, Parent[b] \in S PROVE b \in S
      <3>1. Branch[b] = Append(Branch[Parent[b]], b)
        BY <1>8, Numbered
      <3>2. Branch[Parent[b]] \in Seq(Blocks)
        BY <2>2
      <3>3. Branch[b] \in Seq(Blocks)
        BY <3>1, <3>2, AppendProperties
      <3>4. b \in Nodes
        BY Numbered
      <3> QED
        BY <3>3, <3>4
    <2> HIDE DEF S
    <2> QED
      BY <2>1, <2>2, TreeInduction
  <1>10. DOMAIN Branch = Nodes
    BY <1>7 DEF F
  <1>11. Branch = [b \in Nodes |-> Branch[b]]
    BY <1>7 DEF F
  <1> QED
    BY <1>8, <1>9, <1>11, Numbered

LEMMA Lengths ==
    /\ \A b \in Nodes : Branch[b] \in Seq(Blocks) /\ Height(b) \in Nat /\ Height(b) = Len(Branch[b])
    /\ Height(0) = 0
    /\ \A b \in Blocks : Height(b) = Height(Parent[b]) + 1
  <1>1. ASSUME NEW b \in Blocks PROVE Len(Branch[b]) = Len(Branch[Parent[b]]) + 1
    <2>1. Branch[Parent[b]] \in Seq(Blocks)
      BY BranchIs, Numbered
    <2> QED
      BY <2>1, BranchIs, AppendProperties
  <1> QED
    BY <1>1, BranchIs, Numbered, LenProperties DEF Height

-----------------------------------------------------------------------------
\* The block of height i before b, or b itself.
Anc(b, i) == IF i = 0 THEN 0 ELSE Branch[b][i]

LEMMA Ancestors ==
    ASSUME NEW b \in Nodes
    PROVE  /\ Anc(b, Height(b)) = b
           /\ \A i \in 0..Height(b) : Anc(b, i) \in Nodes /\ Height(Anc(b, i)) = i
           /\ \A i \in 1..Height(b) : Anc(b, i) \in Blocks /\ Parent[Anc(b, i)] = Anc(b, i - 1)
           /\ \A i \in 0..Height(b) : \A j \in 0..i : Anc(Anc(b, i), j) = Anc(b, j)
  <1> DEFINE Good(c) ==
        /\ Anc(c, Height(c)) = c
        /\ \A i \in 0..Height(c) : Anc(c, i) \in Nodes /\ Height(Anc(c, i)) = i
        /\ \A i \in 1..Height(c) : Anc(c, i) \in Blocks /\ Parent[Anc(c, i)] = Anc(c, i - 1)
        /\ \A i \in 0..Height(c) : \A j \in 0..i : Anc(Anc(c, i), j) = Anc(c, j)
             S == {c \in Nodes : Good(c)}
  <1>1. 0 \in S
    BY Numbered, Lengths DEF Anc
  <1>2. ASSUME NEW c \in Blocks, Parent[c] \in S PROVE c \in S
    <2> DEFINE p == Parent[c]
    <2>1. p \in Nodes /\ Good(p) /\ c \in Nodes /\ c # 0
      BY <1>2, Numbered
    <2>2. Height(p) \in Nat /\ Height(c) = Height(p) + 1 /\ Height(c) \in Nat
      BY <2>1, Lengths
    <2>3. Branch[p] \in Seq(Blocks) /\ Branch[c] = Append(Branch[p], c) /\ Len(Branch[p]) = Height(p)
      BY <2>1, BranchIs, Lengths
    <2>4. \A i \in 1..Height(p) : Branch[c][i] = Branch[p][i]
      BY <2>2, <2>3, AppendProperties
    <2>5. Branch[c][Height(c)] = c
      BY <2>2, <2>3, AppendProperties
    <2> HIDE DEF p, Good
    <2>6. \A i \in 0..Height(p) : Anc(c, i) = Anc(p, i)
      BY <2>2, <2>4 DEF Anc
    <2>7. Anc(c, Height(c)) = c
      BY <2>2, <2>5 DEF Anc
    <2>8. \A i \in 0..Height(c) : i = Height(c) \/ i \in 0..Height(p)
      BY <2>2
    <2>9. ASSUME NEW i \in 0..Height(c) PROVE Anc(c, i) \in Nodes /\ Height(Anc(c, i)) = i
      BY <2>1, <2>6, <2>7, <2>8 DEF Good
    <2>10. ASSUME NEW i \in 1..Height(c)
           PROVE  Anc(c, i) \in Blocks /\ Parent[Anc(c, i)] = Anc(c, i - 1)
      <3>1. CASE i = Height(c)
        <4>1. i - 1 = Height(p) /\ Height(p) \in 0..Height(p)
          BY <2>2, <3>1
        <4>2. Anc(c, i - 1) = p
          BY <2>1, <2>6, <4>1 DEF Good
        <4> QED
          BY <2>7, <3>1, <4>2 DEF p
      <3>2. CASE i # Height(c)
        <4>1. i \in 1..Height(p) /\ i \in 0..Height(p) /\ i - 1 \in 0..Height(p)
          BY <2>2, <3>2
        <4> QED
          BY <2>1, <2>6, <4>1 DEF Good
      <3> QED
        BY <3>1, <3>2
    <2>11. ASSUME NEW i \in 0..Height(c), NEW j \in 0..i PROVE Anc(Anc(c, i), j) = Anc(c, j)
      <3>1. CASE i = Height(c)
        BY <2>7, <3>1
      <3>2. CASE i # Height(c)
        <4>1. i \in 0..Height(p) /\ j \in 0..Height(p)
          BY <2>2, <3>2
        <4> QED
          BY <2>1, <2>6, <4>1 DEF Good
      <3> QED
        BY <3>1, <3>2
    <2>12. Good(c)
      BY <2>7, <2>9, <2>10, <2>11 DEF Good
    <2> QED
      BY <2>1, <2>12
  <1> HIDE DEF S
  <1>3. b \in S
    BY <1>1, <1>2, TreeInduction
  <1> QED
    BY <1>3 DEF S

LEMMA OnChainIs ==
    ASSUME NEW b \in Nodes, NEW t \in Nodes
    PROVE  OnChain(b, t) <=> Height(b) <= Height(t) /\ b = Anc(t, Height(b))
  <1>1. Height(b) \in Nat /\ Height(t) \in Nat
    BY Lengths
  <1>2. ASSUME OnChain(b, t) PROVE Height(b) <= Height(t) /\ b = Anc(t, Height(b))
    <2>1. CASE b = 0
      BY <1>1, <2>1, Lengths DEF Anc
    <2>2. CASE b # 0
      <3>1. PICK i \in 1..Height(t) : b = Branch[t][i]
        BY <1>2, <2>2 DEF OnChain
      <3>2. b = Anc(t, i) /\ i \in 0..Height(t)
        BY <1>1, <3>1 DEF Anc
      <3>3. Height(b) = i
        BY <3>2, Ancestors
      <3> QED
        BY <3>2, <3>3
    <2> QED
      BY <2>1, <2>2
  <1>3. ASSUME Height(b) <= Height(t), b = Anc(t, Height(b)) PROVE OnChain(b, t)
    <2>1. CASE Height(b) = 0
      BY <1>3, <2>1 DEF Anc, OnChain
    <2>2. CASE Height(b) # 0
      <3>1. Height(b) \in 1..Height(t) /\ b = Branch[t][Height(b)]
        BY <1>1, <1>3, <2>2 DEF Anc
      <3> QED
        BY <3>1 DEF OnChain
    <2> QED
      BY <2>1, <2>2
  <1> QED
    BY <1>2, <1>3

\* The fork point is on both branches, and below a block that is not active.
LEMMA ForkPoint ==
    ASSUME NEW b \in Nodes, tip \in Nodes, ~OnChain(b, tip)
    PROVE  /\ b \in Blocks
           /\ ForkHeight(b) \in 0..(Height(b) - 1) /\ ForkHeight(b) \in 0..Height(tip)
           /\ Anc(b, ForkHeight(b)) = Anc(tip, ForkHeight(b))
  <1>1. Height(b) \in Nat /\ Height(tip) \in Nat
    BY Lengths
  <1>2. b \in Blocks
    BY Numbered DEF OnChain
  <1> DEFINE Common(h) == h = 0 \/ OnChain(Branch[b][h], tip)
             T == {h \in 0..Height(b) : Common(h)}
  <1>3. 0 \in T
    BY <1>1
  <1>4. PICK h \in T : \A g \in T : g <= h
    <2>1. T \in SUBSET (0..Height(b)) /\ T # {}
      BY <1>3
    <2> HIDE DEF T
    <2> QED
      BY <1>1, <2>1, Greatest
  <1>5. h \in 0..Height(b) /\ Common(h)
    OBVIOUS
  <1>6. h < Height(b) => ~OnChain(Branch[b][h + 1], tip)
    <2>1. SUFFICES ASSUME h < Height(b), OnChain(Branch[b][h + 1], tip) PROVE FALSE
      OBVIOUS
    <2>2. h + 1 \in T
      BY <1>1, <1>5, <2>1
    <2>3. ~(h + 1 <= h)
      BY <1>1, <1>5
    <2> QED
      BY <1>4, <2>2, <2>3
  <1> DEFINE f == ForkHeight(b)
  <1>7. f \in 0..Height(b) /\ Common(f)
    <2>1. \E k \in 0..Height(b) : /\ k = 0 \/ OnChain(Branch[b][k], tip)
                                  /\ k < Height(b) => ~OnChain(Branch[b][k + 1], tip)
      BY <1>5, <1>6
    <2> QED
      BY <2>1 DEF ForkHeight
  <1> HIDE DEF f, T
  <1>8. f \in Nat
    BY <1>1, <1>7
  <1>9. f # Height(b)
    <2>1. SUFFICES ASSUME f = Height(b) PROVE FALSE
      OBVIOUS
    <2>2. CASE f = 0
      <3>1. Anc(b, 0) = b
        BY <2>1, <2>2, Ancestors
      <3> QED
        BY <1>2, <3>1, Numbered DEF Anc
    <2>3. CASE f # 0
      <3>1. Branch[b][f] = b
        BY <2>1, <2>3, Ancestors DEF Anc
      <3> QED
        BY <1>7, <2>3, <3>1
    <2> QED
      BY <2>2, <2>3
  <1>10. OnChain(Anc(b, f), tip)
    BY <1>7 DEF Anc, OnChain
  <1>11. Anc(b, f) \in Nodes /\ Height(Anc(b, f)) = f
    BY <1>7, Ancestors
  <1>12. f <= Height(tip) /\ Anc(b, f) = Anc(tip, f)
    BY <1>10, <1>11, OnChainIs
  <1> QED
    BY <1>1, <1>2, <1>7, <1>8, <1>9, <1>12 DEF f

-----------------------------------------------------------------------------
(***************************************************************************)
(* Rows.                                                                   *)
(***************************************************************************)

Ranges == Nat \X Nat
Keys == PermKeys \cup (Addresses \X {"miner"}) \cup (Nat \X {"index"})
Row == [key : Keys, range : Ranges, received : Nat]

Contents ==
    /\ miner \in [Blocks -> Addresses]
    /\ grant \in [Blocks -> Grants \cup {NoGrant}]

\* What the rows s give for a key, and with the rows p in memory behind them.
Seen(s, k) == RangeOf(s, LastOf(s, k))
Over(p, s, k) == IF LastOf(p, k) = 0 THEN Seen(s, k) ELSE Seen(p, k)

\* The number of miners they give after block h.
Count(p, s, h) == Cardinality({a \in Addresses : InForce(Over(p, s, <<a, "mine">>), h + 1)})

LEMMA NewestIs ==
    ASSUME NEW n \in Nat, NEW of \in SUBSET (1..n)
    PROVE  /\ of = {} => Newest(of) = 0
           /\ of # {} => Newest(of) \in of /\ \A j \in of : j <= Newest(of)
  <1>1. CASE of = {}
    BY <1>1 DEF Newest
  <1>2. CASE of # {}
    <2>1. of \in SUBSET (0..n)
      OBVIOUS
    <2>2. \E x \in of : \A y \in of : y <= x
      BY <1>2, <2>1, Greatest
    <2> QED
      BY <1>2, <2>2 DEF Newest
  <1> QED
    BY <1>1, <1>2

\* The newest of two sets of rows is known by what it satisfies.
LEMMA NewestOf ==
    ASSUME NEW n \in Nat, NEW of \in SUBSET (1..n), NEW i \in of, \A j \in of : j <= i
    PROVE  Newest(of) = i
  <1>1. Newest(of) \in of /\ i <= Newest(of)
    BY NewestIs
  <1>2. Newest(of) <= i
    BY <1>1
  <1>3. i \in 1..n /\ Newest(of) \in 1..n
    BY <1>1
  <1> HIDE DEF Newest
  <1> QED
    BY <1>1, <1>2, <1>3

LEMMA LastOfIs ==
    ASSUME NEW s \in Seq(Row), NEW k
    PROVE  /\ LastOf(s, k) \in 0..Len(s)
           /\ LastOf(s, k) = 0 => \A i \in 1..Len(s) : s[i].key # k
           /\ LastOf(s, k) # 0 => /\ s[LastOf(s, k)].key = k
                                  /\ \A i \in 1..Len(s) : s[i].key = k => i <= LastOf(s, k)
  <1> DEFINE of == {i \in 1..Len(s) : s[i].key = k}
  <1>1. Len(s) \in Nat
    BY LenProperties
  <1>2. of \in SUBSET (1..Len(s)) /\ LastOf(s, k) = Newest(of)
    BY DEF LastOf
  <1>3. CASE of = {}
    <2>1. Newest(of) = 0
      BY <1>1, <1>2, <1>3, NewestIs
    <2> QED
      BY <1>1, <1>2, <1>3, <2>1
  <1>4. CASE of # {}
    <2>1. Newest(of) \in of /\ \A j \in of : j <= Newest(of)
      BY <1>1, <1>2, <1>4, NewestIs
    <2> QED
      BY <1>1, <1>2, <2>1
  <1> QED
    BY <1>3, <1>4

LEMMA LastOfAppend ==
    ASSUME NEW s \in Seq(Row), NEW r \in Row, NEW k
    PROVE  LastOf(Append(s, r), k) = IF r.key = k THEN Len(s) + 1 ELSE LastOf(s, k)
  <1> DEFINE t == Append(s, r)
             of == {i \in 1..Len(t) : t[i].key = k}
  <1>1. /\ Len(s) \in Nat /\ Len(t) = Len(s) + 1 /\ t[Len(s) + 1] = r
        /\ \A i \in 1..Len(s) : t[i] = s[i]
    BY AppendProperties, LenProperties
  <1>2. \A i \in 1..Len(t) : i \in 1..Len(s) \/ i = Len(s) + 1
    BY <1>1
  <1>3. CASE r.key = k
    <2>1. Len(s) + 1 \in of /\ of \in SUBSET (1..Len(t)) /\ Len(t) \in Nat
      BY <1>1, <1>3
    <2>2. \A j \in of : j <= Len(s) + 1
      BY <1>1
    <2> HIDE DEF of
    <2>3. Newest(of) = Len(s) + 1
      BY <2>1, <2>2, NewestOf
    <2> QED
      BY <1>3, <2>3 DEF LastOf, of
  <1>4. CASE r.key # k
    <2>1. of = {i \in 1..Len(s) : s[i].key = k}
      BY <1>1, <1>2, <1>4
    <2> QED
      BY <1>4, <2>1 DEF LastOf
  <1> QED
    BY <1>3, <1>4

LEMMA SeenAppend ==
    ASSUME NEW s \in Seq(Row), NEW r \in Row, NEW k
    PROVE  /\ r.key = k => Seen(Append(s, r), k) = r.range
           /\ r.key # k => Seen(Append(s, r), k) = Seen(s, k)
  <1>1. /\ Len(s) \in Nat /\ Append(s, r)[Len(s) + 1] = r
        /\ \A i \in 1..Len(s) : Append(s, r)[i] = s[i]
    BY AppendProperties, LenProperties
  <1>2. CASE r.key = k
    <2>1. LastOf(Append(s, r), k) = Len(s) + 1 /\ Len(s) + 1 # 0
      BY <1>1, <1>2, LastOfAppend
    <2> QED
      BY <1>1, <1>2, <2>1 DEF Seen, RangeOf
  <1>3. CASE r.key # k
    <2>1. LastOf(Append(s, r), k) = LastOf(s, k)
      BY <1>3, LastOfAppend
    <2>2. LastOf(s, k) = 0 \/ LastOf(s, k) \in 1..Len(s)
      BY <1>1, LastOfIs
    <2> QED
      BY <1>1, <1>3, <2>1, <2>2 DEF Seen, RangeOf
  <1> QED
    BY <1>2, <1>3

LEMMA SeenType ==
    ASSUME NEW s \in Seq(Row), NEW k
    PROVE  Seen(s, k) \in Ranges
  <1>1. CASE LastOf(s, k) = 0
    BY <1>1 DEF Seen, RangeOf, Ranges
  <1>2. CASE LastOf(s, k) # 0
    <2>1. LastOf(s, k) \in 1..Len(s)
      BY <1>2, LastOfIs, LenProperties
    <2>2. s[LastOf(s, k)] \in Row
      BY <2>1, ElementOfSeq
    <2> QED
      BY <1>2, <2>2 DEF Seen, RangeOf, Row
  <1> QED
    BY <1>1, <1>2

LEMMA SeenEmpty == \A k : LastOf(<<>>, k) = 0 /\ Seen(<<>>, k) = <<0, 0>>
  <1>1. ASSUME NEW k PROVE LastOf(<<>>, k) = 0
    <2>1. <<>> \in Seq(Row) /\ Len(<<>>) = 0
      OBVIOUS
    <2>2. LastOf(<<>>, k) \in 0..Len(<<>>)
      BY <2>1, LastOfIs
    <2> QED
      BY <2>1, <2>2
  <1> QED
    BY <1>1 DEF Seen, RangeOf

LEMMA OverEmpty == \A s, k : Over(<<>>, s, k) = Seen(s, k)
BY SeenEmpty DEF Over

LEMMA OverAppend ==
    ASSUME NEW p \in Seq(Row), NEW r \in Row, NEW s, NEW k
    PROVE  /\ r.key = k => Over(Append(p, r), s, k) = r.range
           /\ r.key # k => Over(Append(p, r), s, k) = Over(p, s, k)
  <1>1. Len(p) \in Nat /\ Len(p) + 1 # 0
    BY LenProperties
  <1>2. LastOf(Append(p, r), k) = IF r.key = k THEN Len(p) + 1 ELSE LastOf(p, k)
    BY LastOfAppend
  <1>3. /\ r.key = k => Seen(Append(p, r), k) = r.range
        /\ r.key # k => Seen(Append(p, r), k) = Seen(p, k)
    BY SeenAppend
  <1> QED
    BY <1>1, <1>2, <1>3 DEF Over

LEMMA OverType ==
    ASSUME NEW p \in Seq(Row), NEW s \in Seq(Row), NEW k
    PROVE  Over(p, s, k) \in Ranges
BY SeenType DEF Over

LEMMA CountType ==
    /\ \A f : Cardinality({a \in Addresses : f[a]}) \in Nat
    /\ \A p, s, h : Count(p, s, h) \in Nat
  <1>1. IsFiniteSet(Addresses)
    BY VerificationAssumption
  <1>2. ASSUME NEW T \in SUBSET Addresses PROVE Cardinality(T) \in Nat
    BY <1>1, FS_Subset, FS_CardinalityType
  <1> QED
    BY <1>2 DEF Count

\* The row of a grant.
GrantRow(g, b) == [key |-> g.key, range |-> g.range, received |-> b]

LEMMA GrantRowType ==
    ASSUME NEW g \in Grants, NEW b \in Nat
    PROVE  GrantRow(g, b) \in Row
BY DEF GrantRow, Grants, Row, Keys, Ranges

LEMMA GrantedIs ==
    ASSUME NEW p \in Seq(Row), NEW g \in Grants \cup {NoGrant}, NEW b \in Nat
    PROVE  /\ Granted(p, g, b) \in Seq(Row)
           /\ g = NoGrant => Granted(p, g, b) = p
           /\ g # NoGrant => Granted(p, g, b) = Append(p, GrantRow(g, b)) /\ GrantRow(g, b) \in Row
                             /\ g \in Grants
  <1>1. g # NoGrant => g \in Grants /\ GrantRow(g, b) \in Row
    BY GrantRowType
  <1> QED
    BY <1>1, AppendProperties DEF Granted, GrantRow

LEMMA TwoMore ==
    ASSUME NEW s \in Seq(Row), NEW x \in Row, NEW y \in Row
    PROVE  s \o <<x, y>> = Append(Append(s, x), y)
  <1>1. <<x, y>> \in Seq(Row) /\ Len(<<x, y>>) = 2 /\ <<x, y>>[1] = x /\ <<x, y>>[2] = y
    OBVIOUS
  <1>2. Len(s) \in Nat
    BY LenProperties
  <1> DEFINE t == <<x, y>>
             u == Append(Append(s, x), y)
  <1>3. /\ s \o t \in Seq(Row) /\ Len(s \o t) = Len(s) + 2
        /\ \A i \in 1..(Len(s) + 2) : (s \o t)[i] = IF i <= Len(s) THEN s[i] ELSE t[i - Len(s)]
    <2> HIDE DEF t
    <2>1. t \in Seq(Row) /\ Len(t) = 2
      BY <1>1 DEF t
    <2>2. /\ s \o t \in Seq(Row) /\ Len(s \o t) = Len(s) + Len(t)
          /\ \A i \in 1..(Len(s) + Len(t)) : (s \o t)[i] = IF i <= Len(s) THEN s[i] ELSE t[i - Len(s)]
      BY <2>1, ConcatProperties
    <2> QED
      BY <2>1, <2>2
  <1>4. /\ Append(s, x) \in Seq(Row) /\ Len(Append(s, x)) = Len(s) + 1
        /\ Append(s, x)[Len(s) + 1] = x /\ \A i \in 1..Len(s) : Append(s, x)[i] = s[i]
    BY AppendProperties
  <1>5. /\ u \in Seq(Row) /\ Len(u) = Len(s) + 2
        /\ u[Len(s) + 2] = y /\ \A i \in 1..(Len(s) + 1) : u[i] = Append(s, x)[i]
    <2>1. Len(Append(s, x)) + 1 = Len(s) + 2
      BY <1>2, <1>4
    <2> QED
      BY <1>4, <2>1, AppendProperties
  <1> HIDE DEF u
  <1>6. ASSUME NEW i \in 1..(Len(s) + 2) PROVE (s \o t)[i] = u[i]
    <2>1. i \in 1..Len(s) \/ i = Len(s) + 1 \/ i = Len(s) + 2
      BY <1>2
    <2>2. CASE i \in 1..Len(s)
      <3>1. i <= Len(s) /\ i \in 1..(Len(s) + 1)
        BY <1>2, <2>2
      <3>2. (s \o t)[i] = s[i]
        BY <1>3, <3>1
      <3>3. u[i] = s[i]
        BY <1>4, <1>5, <2>2, <3>1
      <3> QED
        BY <3>2, <3>3
    <2>3. CASE i = Len(s) + 1
      <3>1. ~(i <= Len(s)) /\ i - Len(s) = 1 /\ i \in 1..(Len(s) + 1)
        BY <1>2, <2>3
      <3> QED
        BY <1>1, <1>3, <1>4, <1>5, <2>3, <3>1
    <2>4. CASE i = Len(s) + 2
      <3>1. ~(i <= Len(s)) /\ i - Len(s) = 2
        BY <1>2, <2>4
      <3> QED
        BY <1>1, <1>3, <1>5, <2>4, <3>1
    <2> QED
      BY <2>1, <2>2, <2>3, <2>4
  <1> HIDE DEF t
  <1>7. \A i \in 1..Len(s \o t) : (s \o t)[i] = u[i]
    BY <1>2, <1>3, <1>6
  <1>8. s \o t = u
    BY <1>3, <1>5, <1>7, SeqEqual
  <1> QED
    BY <1>8 DEF t, u

-----------------------------------------------------------------------------
(***************************************************************************)
(* The rows a branch leaves in the ledger, and what they give.             *)
(***************************************************************************)

MinerRow(b) == [key |-> <<miner[b], "miner">>, range |-> <<Height(b), Height(b)>>,
                received |-> Height(b)]
IndexRow(h, n) == [key |-> <<h, "index">>, range |-> <<n, n>>, received |-> h]

LEMMA ContentsOf ==
    ASSUME Contents, NEW b \in Blocks
    PROVE  /\ miner[b] \in Addresses /\ grant[b] \in Grants \cup {NoGrant}
           /\ grant[b] # NoGrant => /\ grant[b].key \in PermKeys /\ grant[b].range \in Ranges
                                    /\ grant[b].by \in Addresses
  <1>1. miner[b] \in Addresses /\ grant[b] \in Grants \cup {NoGrant}
    BY DEF Contents
  <1>2. grant[b] # NoGrant => grant[b] \in Grants
    BY <1>1
  <1> QED
    BY <1>1, <1>2 DEF Grants, Ranges

LEMMA BlockRowsIs ==
    ASSUME Contents, NEW s \in Seq(Row), NEW b \in Blocks
    PROVE  \E g \in Seq(Row), n \in Nat :
               /\ g = Granted(s, grant[b], Height(b))
               /\ n = Cardinality({a \in Addresses : InForce(Seen(g, <<a, "mine">>), Height(b) + 1)})
               /\ MinerRow(b) \in Row /\ IndexRow(Height(b), n) \in Row
               /\ BlockRows(s, b) = Append(Append(g, MinerRow(b)), IndexRow(Height(b), n))
  <1> DEFINE h == Height(b)
             g == Granted(s, grant[b], h)
             n == Cardinality({a \in Addresses : InForce(Seen(g, <<a, "mine">>), h + 1)})
  <1>1. b \in Nodes /\ h \in Nat
    BY Numbered, Lengths
  <1>2. g \in Seq(Row)
    BY <1>1, ContentsOf, GrantedIs
  <1>3. n \in Nat
    <2>1. n = Count(<<>>, g, h)
      BY OverEmpty DEF Count
    <2> QED
      BY <2>1, CountType
  <1>4. MinerRow(b) \in Row
    <2>1. <<miner[b], "miner">> \in Keys /\ <<h, h>> \in Ranges
      BY <1>1, ContentsOf DEF Keys, Ranges
    <2> QED
      BY <1>1, <2>1 DEF MinerRow, Row
  <1>5. IndexRow(h, n) \in Row
    <2> HIDE DEF n, h
    <2>1. <<h, "index">> \in Keys /\ <<n, n>> \in Ranges
      BY <1>1, <1>3 DEF Keys, Ranges
    <2> QED
      BY <1>1, <2>1 DEF IndexRow, Row
  <1>6. BlockRows(s, b) = g \o <<MinerRow(b), IndexRow(h, n)>>
    BY DEF BlockRows, Seen, MinerRow, IndexRow
  <1>7. BlockRows(s, b) = Append(Append(g, MinerRow(b)), IndexRow(h, n))
    <2> HIDE DEF g, n, h
    <2> QED
      BY <1>2, <1>4, <1>5, <1>6, TwoMore
  <1> QED
    BY <1>2, <1>3, <1>4, <1>5, <1>7

\* What the rows of a block add to those before it.
Extends(s, t, b) ==
    /\ t \in Seq(Row) /\ Len(s) < Len(t)
    /\ \A i \in 1..Len(s) : t[i] = s[i]
    /\ \A i \in (Len(s) + 1)..Len(t) : t[i].received = Height(b)

GrantsOf(b, k) == grant[b] # NoGrant /\ grant[b].key = k

Gives(s, t, b) ==
    /\ \A k \in PermKeys : Seen(t, k) = IF GrantsOf(b, k) THEN grant[b].range ELSE Seen(s, k)
    /\ \A a \in Addresses : Seen(t, <<a, "miner">>) =
           IF a = miner[b] THEN <<Height(b), Height(b)>> ELSE Seen(s, <<a, "miner">>)
    /\ \A i \in Nat : i # Height(b) => Seen(t, <<i, "index">>) = Seen(s, <<i, "index">>)
    /\ Seen(t, <<Height(b), "index">>)[1] = Count(<<>>, t, Height(b))

LEMMA BlockAdds ==
    ASSUME Contents, NEW s \in Seq(Row), NEW b \in Blocks
    PROVE  Extends(s, BlockRows(s, b), b) /\ Gives(s, BlockRows(s, b), b)
  <1> DEFINE h == Height(b)
             t == BlockRows(s, b)
  <1>1. b \in Nodes /\ h \in Nat
    BY Numbered, Lengths
  <1>2. PICK g \in Seq(Row), n \in Nat :
               /\ g = Granted(s, grant[b], h)
               /\ n = Cardinality({a \in Addresses : InForce(Seen(g, <<a, "mine">>), h + 1)})
               /\ MinerRow(b) \in Row /\ IndexRow(h, n) \in Row
               /\ t = Append(Append(g, MinerRow(b)), IndexRow(h, n))
    BY BlockRowsIs
  <1> HIDE DEF h, t
  <1>3. /\ grant[b] = NoGrant => g = s
        /\ grant[b] # NoGrant => g = Append(s, GrantRow(grant[b], h)) /\ GrantRow(grant[b], h) \in Row
    BY <1>1, <1>2, ContentsOf, GrantedIs
  <1>4. Append(g, MinerRow(b)) \in Seq(Row)
    BY <1>2, AppendProperties
  <1>5. /\ Len(g) \in Nat /\ Len(s) \in Nat
        /\ Len(g) >= Len(s) /\ \A i \in 1..Len(s) : g[i] = s[i]
        /\ \A i \in (Len(s) + 1)..Len(g) : g[i].received = h
    <2>1. Len(g) \in Nat /\ Len(s) \in Nat
      BY LenProperties
    <2>2. CASE grant[b] = NoGrant
      BY <1>3, <2>1, <2>2
    <2>3. CASE grant[b] # NoGrant
      <3>1. /\ Len(g) = Len(s) + 1 /\ g[Len(s) + 1] = GrantRow(grant[b], h)
            /\ \A i \in 1..Len(s) : g[i] = s[i]
        BY <1>3, <2>3, AppendProperties
      <3>2. \A i \in (Len(s) + 1)..Len(g) : i = Len(s) + 1
        BY <2>1, <3>1
      <3> QED
        BY <2>1, <3>1, <3>2 DEF GrantRow
    <2> QED
      BY <2>2, <2>3
  <1>6. Extends(s, t, b)
    <2>1. /\ Len(Append(g, MinerRow(b))) = Len(g) + 1
          /\ Append(g, MinerRow(b))[Len(g) + 1] = MinerRow(b)
          /\ \A i \in 1..Len(g) : Append(g, MinerRow(b))[i] = g[i]
      BY <1>2, AppendProperties
    <2>2. /\ t \in Seq(Row) /\ Len(t) = Len(g) + 1 + 1
          /\ t[Len(g) + 1 + 1] = IndexRow(h, n)
          /\ \A i \in 1..(Len(g) + 1) : t[i] = Append(g, MinerRow(b))[i]
      BY <1>2, <1>4, <2>1, AppendProperties
    <2>3. \A i \in 1..Len(s) : t[i] = s[i]
      <3>1. \A i \in 1..Len(s) : i \in 1..Len(g) /\ i \in 1..(Len(g) + 1)
        BY <1>5
      <3> QED
        BY <1>5, <2>1, <2>2, <3>1
    <2>4. ASSUME NEW i \in (Len(s) + 1)..Len(t) PROVE t[i].received = h
      <3>1. \/ i \in (Len(s) + 1)..Len(g) /\ i \in 1..Len(g) /\ i \in 1..(Len(g) + 1)
            \/ i = Len(g) + 1 /\ i \in 1..(Len(g) + 1)
            \/ i = Len(g) + 1 + 1
        BY <1>5, <2>2
      <3>2. MinerRow(b).received = h /\ IndexRow(h, n).received = h
        BY DEF MinerRow, IndexRow, h
      <3>3. CASE i \in (Len(s) + 1)..Len(g) /\ i \in 1..Len(g) /\ i \in 1..(Len(g) + 1)
        <4>1. t[i] = g[i]
          BY <2>1, <2>2, <3>3
        <4> QED
          BY <1>5, <3>3, <4>1
      <3> QED
        BY <2>1, <2>2, <3>1, <3>2, <3>3
    <2> QED
      BY <1>5, <2>2, <2>3, <2>4 DEF Extends, h
  <1>7. ASSUME NEW k
        PROVE  Seen(t, k) = IF k = <<h, "index">> THEN <<n, n>>
                            ELSE IF k = <<miner[b], "miner">> THEN <<h, h>>
                            ELSE IF GrantsOf(b, k) THEN grant[b].range
                            ELSE Seen(s, k)
    <2>1. /\ IndexRow(h, n).key = k => Seen(t, k) = IndexRow(h, n).range
          /\ IndexRow(h, n).key # k => Seen(t, k) = Seen(Append(g, MinerRow(b)), k)
      <3> DEFINE u == Append(g, MinerRow(b))
                 r == IndexRow(h, n)
      <3>1. u \in Seq(Row) /\ r \in Row /\ t = Append(u, r)
        BY <1>2, <1>4
      <3> HIDE DEF u, r, t
      <3> QED
        BY <3>1, SeenAppend DEF u, r
    <2>2. /\ MinerRow(b).key = k => Seen(Append(g, MinerRow(b)), k) = MinerRow(b).range
          /\ MinerRow(b).key # k => Seen(Append(g, MinerRow(b)), k) = Seen(g, k)
      BY <1>2, SeenAppend
    <2>3. Seen(g, k) = IF GrantsOf(b, k) THEN grant[b].range ELSE Seen(s, k)
      <3>1. CASE grant[b] = NoGrant
        BY <1>3, <3>1 DEF GrantsOf
      <3>2. CASE grant[b] # NoGrant
        <4> DEFINE r == GrantRow(grant[b], h)
        <4>0. g = Append(s, r) /\ r \in Row
          BY <1>3, <3>2
        <4> HIDE DEF r
        <4>1. /\ r.key = k => Seen(g, k) = r.range
              /\ r.key # k => Seen(g, k) = Seen(s, k)
          BY <4>0, SeenAppend
        <4> QED
          BY <3>2, <4>1 DEF GrantsOf, GrantRow, r
      <3> QED
        BY <3>1, <3>2
    <2>4. /\ IndexRow(h, n).key = <<h, "index">> /\ IndexRow(h, n).range = <<n, n>>
          /\ MinerRow(b).key = <<miner[b], "miner">> /\ MinerRow(b).range = <<h, h>>
      BY DEF IndexRow, MinerRow, h
    <2> QED
      BY <2>1, <2>2, <2>3, <2>4
  <1>8. \A k \in PermKeys : k # <<h, "index">> /\ k # <<miner[b], "miner">>
    BY DEF PermKeys, Types
  <1>9. \A k \in PermKeys : Seen(t, k) = IF GrantsOf(b, k) THEN grant[b].range ELSE Seen(s, k)
    BY <1>7, <1>8
  <1>10. \A k : GrantsOf(b, k) => k \in PermKeys
    BY ContentsOf DEF GrantsOf
  <1>11. \A a \in Addresses : Seen(t, <<a, "miner">>) =
           IF a = miner[b] THEN <<h, h>> ELSE Seen(s, <<a, "miner">>)
    <2> TAKE a \in Addresses
    <2>1. <<a, "miner">> # <<h, "index">> /\ <<a, "miner">> \notin PermKeys
      BY DEF PermKeys, Types
    <2>2. ~GrantsOf(b, <<a, "miner">>)
      BY <1>10, <2>1
    <2> QED
      BY <1>7, <2>1, <2>2
  <1>12. \A i \in Nat : Seen(t, <<i, "index">>) =
           IF i = h THEN <<n, n>> ELSE Seen(s, <<i, "index">>)
    <2> TAKE i \in Nat
    <2>1. <<i, "index">> # <<miner[b], "miner">> /\ <<i, "index">> \notin PermKeys
      BY DEF PermKeys, Types
    <2>2. ~GrantsOf(b, <<i, "index">>)
      BY <1>10, <2>1
    <2> QED
      BY <1>7, <2>1, <2>2
  <1>13. n = Count(<<>>, t, h)
    <2>1. \A a \in Addresses : <<a, "mine">> \in PermKeys
      BY DEF PermKeys, Types
    <2>2. ASSUME NEW a \in Addresses PROVE Seen(g, <<a, "mine">>) = Seen(t, <<a, "mine">>)
      <3>1. Seen(t, <<a, "mine">>) = Seen(Append(g, MinerRow(b)), <<a, "mine">>)
        <4>1. IndexRow(h, n).key # <<a, "mine">>
          BY DEF IndexRow
        <4> QED
          BY <1>2, <1>4, <4>1, SeenAppend
      <3>2. Seen(Append(g, MinerRow(b)), <<a, "mine">>) = Seen(g, <<a, "mine">>)
        <4>1. MinerRow(b).key # <<a, "mine">>
          BY DEF MinerRow
        <4> QED
          BY <1>2, <4>1, SeenAppend
      <3> QED
        BY <3>1, <3>2
    <2>3. {a \in Addresses : InForce(Seen(g, <<a, "mine">>), h + 1)} =
          {a \in Addresses : InForce(Over(<<>>, t, <<a, "mine">>), h + 1)}
      BY <2>2, OverEmpty
    <2> QED
      BY <1>2, <2>3 DEF Count
  <1>14. Gives(s, t, b)
    <2>1. Seen(t, <<h, "index">>)[1] = Count(<<>>, t, h)
      BY <1>1, <1>12, <1>13
    <2> QED
      BY <1>9, <1>11, <1>12, <2>1 DEF Gives, h
  <1> QED
    BY <1>6, <1>14 DEF t

\* The rows of the branch that ends with a block.
Ledger[b \in Nodes] == IF b = 0 THEN GenesisRows ELSE BlockRows(Ledger[Parent[b]], b)

LEMMA GenesisRowsIs ==
    /\ GenesisRows \in Seq(Row) /\ Len(GenesisRows) = 4
    /\ \A i \in 1..4 : GenesisRows[i].received = 0
    /\ \A k \in PermKeys : Seen(GenesisRows, k) = IF k[1] = Genesis THEN Always ELSE <<0, 0>>
    /\ \A a \in Addresses : Seen(GenesisRows, <<a, "miner">>) = <<0, 0>>
    /\ Seen(GenesisRows, <<0, "index">>) = <<1, 1>>
  <1> DEFINE x1 == [key |-> <<Genesis, "admin">>, range |-> Always, received |-> 0]
             x2 == [key |-> <<Genesis, "mine">>, range |-> Always, received |-> 0]
             x3 == [key |-> <<Genesis, "miner">>, range |-> <<0, 0>>, received |-> 0]
             x4 == [key |-> <<0, "index">>, range |-> <<1, 1>>, received |-> 0]
             s0 == <<>>
             s1 == Append(s0, x1)
             s2 == Append(s1, x2)
             s3 == Append(s2, x3)
             s4 == Append(s3, x4)
  <1>1. GenesisRows = s4
    BY DEF GenesisRows
  <1>2. /\ <<Genesis, "admin">> \in Keys /\ <<Genesis, "mine">> \in Keys
        /\ <<Genesis, "miner">> \in Keys /\ <<0, "index">> \in Keys
    BY VerificationAssumption DEF Keys, PermKeys, Types
  <1>3. Always \in Ranges /\ <<0, 0>> \in Ranges /\ <<1, 1>> \in Ranges
    BY DEF Always, Ranges
  <1>4. x1 \in Row /\ x2 \in Row /\ x3 \in Row /\ x4 \in Row
    BY <1>2, <1>3 DEF Row
  <1>5. /\ x1.key = <<Genesis, "admin">> /\ x1.range = Always
        /\ x2.key = <<Genesis, "mine">> /\ x2.range = Always
        /\ x3.key = <<Genesis, "miner">> /\ x3.range = <<0, 0>>
        /\ x4.key = <<0, "index">> /\ x4.range = <<1, 1>>
    OBVIOUS
  <1>6. s0 \in Seq(Row) /\ s1 \in Seq(Row) /\ s2 \in Seq(Row) /\ s3 \in Seq(Row) /\ s4 \in Seq(Row)
    <2> HIDE DEF x1, x2, x3, x4
    <2> QED
      BY <1>4
  <1>7. Len(s4) = 4 /\ \A i \in 1..4 : s4[i].received = 0
    OBVIOUS
  <1> HIDE DEF x1, x2, x3, x4, s0, s1, s2, s3, s4
  <1>8. ASSUME NEW k
        PROVE  /\ k = <<0, "index">> => Seen(s4, k) = <<1, 1>>
               /\ k # <<0, "index">> => Seen(s4, k) = Seen(s3, k)
    <2>1. s4 = Append(s3, x4)
      BY DEF s4
    <2>2. /\ x4.key = k => Seen(s4, k) = x4.range
          /\ x4.key # k => Seen(s4, k) = Seen(s3, k)
      BY <1>4, <1>6, <2>1, SeenAppend
    <2> QED
      BY <1>5, <2>2
  <1>9. ASSUME NEW k
        PROVE  /\ k = <<Genesis, "miner">> => Seen(s3, k) = <<0, 0>>
               /\ k # <<Genesis, "miner">> => Seen(s3, k) = Seen(s2, k)
    <2>1. s3 = Append(s2, x3)
      BY DEF s3
    <2>2. /\ x3.key = k => Seen(s3, k) = x3.range
          /\ x3.key # k => Seen(s3, k) = Seen(s2, k)
      BY <1>4, <1>6, <2>1, SeenAppend
    <2> QED
      BY <1>5, <2>2
  <1>10. ASSUME NEW k
         PROVE  /\ k = <<Genesis, "mine">> => Seen(s2, k) = Always
                /\ k # <<Genesis, "mine">> => Seen(s2, k) = Seen(s1, k)
    <2>1. s2 = Append(s1, x2)
      BY DEF s2
    <2>2. /\ x2.key = k => Seen(s2, k) = x2.range
          /\ x2.key # k => Seen(s2, k) = Seen(s1, k)
      BY <1>4, <1>6, <2>1, SeenAppend
    <2> QED
      BY <1>5, <2>2
  <1>11. ASSUME NEW k
         PROVE  /\ k = <<Genesis, "admin">> => Seen(s1, k) = Always
                /\ k # <<Genesis, "admin">> => Seen(s1, k) = Seen(s0, k)
    <2>1. s1 = Append(s0, x1)
      BY DEF s1
    <2>2. /\ x1.key = k => Seen(s1, k) = x1.range
          /\ x1.key # k => Seen(s1, k) = Seen(s0, k)
      BY <1>4, <1>6, <2>1, SeenAppend
    <2> QED
      BY <1>5, <2>2
  <1>12. \A k : Seen(s0, k) = <<0, 0>>
    BY SeenEmpty DEF s0
  <1>13. ASSUME NEW a \in Addresses, NEW t \in Types
         PROVE  Seen(s4, <<a, t>>) = IF a = Genesis THEN Always ELSE <<0, 0>>
    <2>1. t = "admin" \/ t = "mine"
      BY DEF Types
    <2>2. <<a, t>> # <<0, "index">> /\ <<a, t>> # <<Genesis, "miner">>
      BY <2>1
    <2>3. Seen(s4, <<a, t>>) = Seen(s2, <<a, t>>)
      BY <1>8, <1>9, <2>2
    <2>4. CASE a = Genesis
      BY <1>10, <1>11, <2>1, <2>3, <2>4
    <2>5. CASE a # Genesis
      <3>1. <<a, t>> # <<Genesis, "mine">> /\ <<a, t>> # <<Genesis, "admin">>
        BY <2>5
      <3> QED
        BY <1>10, <1>11, <1>12, <2>3, <2>5, <3>1
    <2> QED
      BY <2>4, <2>5
  <1>14. \A k \in PermKeys : Seen(s4, k) = IF k[1] = Genesis THEN Always ELSE <<0, 0>>
    <2> TAKE k \in PermKeys
    <2>1. PICK a \in Addresses, t \in Types : k = <<a, t>>
      BY DEF PermKeys
    <2> QED
      BY <1>13, <2>1
  <1>15. ASSUME NEW a \in Addresses PROVE Seen(s4, <<a, "miner">>) = <<0, 0>>
    <2>1. /\ <<a, "miner">> # <<0, "index">> /\ <<a, "miner">> # <<Genesis, "mine">>
          /\ <<a, "miner">> # <<Genesis, "admin">>
      OBVIOUS
    <2> QED
      BY <1>8, <1>9, <1>10, <1>11, <1>12, <2>1
  <1> QED
    BY <1>1, <1>6, <1>7, <1>8, <1>14, <1>15

LEMMA LedgerIs ==
    ASSUME Contents
    PROVE  /\ \A b \in Nodes : Ledger[b] \in Seq(Row)
           /\ Ledger[0] = GenesisRows
           /\ \A b \in Blocks : Ledger[b] = BlockRows(Ledger[Parent[b]], b)
  <1> DEFINE rule == [b \in Blocks |-> [s \in Seq(Row) |-> BlockRows(s, b)]]
             F(f) == [b \in Nodes |-> IF b = 0 THEN GenesisRows ELSE BlockRows(f[Parent[b]], b)]
  <1>1. rule \in [Blocks -> [Seq(Row) -> Seq(Row)]] /\ GenesisRows \in Seq(Row)
    BY BlockAdds, GenesisRowsIs DEF Extends
  <1>2. PICK f \in [Nodes -> Seq(Row)] : OnTree(f, GenesisRows, rule)
    <2> HIDE DEF rule
    <2> QED
      BY <1>1, OnTreeExists
  <1>3. \A b \in Blocks : f[Parent[b]] \in Seq(Row)
    BY Numbered
  <1>4. f = F(f)
    BY <1>2, <1>3, Numbered DEF OnTree
  <1> DEFINE to == CHOOSE g : g = F(g)
  <1>5. to = F(to)
    <2> HIDE DEF F
    <2> QED
      BY <1>4
  <1>6. Ledger = to
    BY DEF Ledger
  <1> HIDE DEF to
  <1>7. Ledger = F(Ledger)
    BY <1>5, <1>6
  <1> HIDE DEF F
  <1>8. \A b \in Nodes : Ledger[b] = IF b = 0 THEN GenesisRows ELSE BlockRows(Ledger[Parent[b]], b)
    BY <1>7 DEF F
  <1>9. Ledger[0] = GenesisRows /\ \A b \in Blocks : Ledger[b] = BlockRows(Ledger[Parent[b]], b)
    BY <1>8, Numbered
  <1> DEFINE S == {b \in Nodes : Ledger[b] \in Seq(Row)}
  <1>10. 0 \in S
    <2>1. 0 \in Nodes
      BY Numbered
    <2> QED
      BY <1>1, <1>9, <2>1
  <1>11. ASSUME NEW b \in Blocks, Parent[b] \in S PROVE b \in S
    <2>1. Ledger[Parent[b]] \in Seq(Row) /\ b \in Nodes
      BY <1>11, Numbered
    <2>2. Ledger[b] \in Seq(Row)
      BY <1>9, <2>1, BlockAdds DEF Extends
    <2> QED
      BY <2>1, <2>2
  <1> HIDE DEF S
  <1>12. Nodes \subseteq S
    BY <1>10, <1>11, TreeInduction
  <1> QED
    BY <1>9, <1>12 DEF S

States == [held : [PermKeys -> Ranges], last : [Addresses -> Nat]]
AtGenesis == [held |-> [k \in PermKeys |-> IF k[1] = Genesis THEN Always ELSE <<0, 0>>],
              last |-> [a \in Addresses |-> 0]]
AfterBlock(s, b) ==
    [held |-> IF grant[b] = NoGrant THEN s.held ELSE [s.held EXCEPT ![grant[b].key] = grant[b].range],
     last |-> [s.last EXCEPT ![miner[b]] = Height(b)]]

LEMMA AfterIs ==
    ASSUME Contents
    PROVE  /\ \A b \in Nodes : After[b] \in States
           /\ After[0] = AtGenesis
           /\ \A b \in Blocks : After[b] = AfterBlock(After[Parent[b]], b)
  <1> DEFINE rule == [b \in Blocks |-> [s \in States |-> AfterBlock(s, b)]]
             F(f) == [b \in Nodes |-> IF b = 0 THEN AtGenesis ELSE AfterBlock(f[Parent[b]], b)]
  <1>1. AtGenesis \in States
    BY DEF AtGenesis, States, Always, Ranges
  <1>2. ASSUME NEW s \in States, NEW b \in Blocks PROVE AfterBlock(s, b) \in States
    <2>1. Height(b) \in Nat
      BY Numbered, Lengths
    <2>2. s.held \in [PermKeys -> Ranges] /\ s.last \in [Addresses -> Nat]
      BY DEF States
    <2>3. [s.last EXCEPT ![miner[b]] = Height(b)] \in [Addresses -> Nat]
      BY <2>1, <2>2, ContentsOf
    <2>4. grant[b] # NoGrant => [s.held EXCEPT ![grant[b].key] = grant[b].range] \in [PermKeys -> Ranges]
      BY <2>2, ContentsOf
    <2> QED
      BY <2>2, <2>3, <2>4 DEF AfterBlock, States
  <1>3. rule \in [Blocks -> [States -> States]]
    BY <1>2
  <1>4. PICK f \in [Nodes -> States] : OnTree(f, AtGenesis, rule)
    <2> HIDE DEF rule
    <2> QED
      BY <1>1, <1>3, OnTreeExists
  <1>5. \A b \in Blocks : f[Parent[b]] \in States
    BY Numbered
  <1>6. f = F(f)
    BY <1>4, <1>5, Numbered DEF OnTree
  <1> DEFINE to == CHOOSE g : g = F(g)
  <1>7. to = F(to)
    <2> HIDE DEF F
    <2> QED
      BY <1>6
  <1>8. After = to
    BY Numbered DEF After, AtGenesis, AfterBlock
  <1> HIDE DEF to
  <1>9. After = F(After)
    BY <1>7, <1>8
  <1> HIDE DEF F
  <1>10. \A b \in Nodes : After[b] = IF b = 0 THEN AtGenesis ELSE AfterBlock(After[Parent[b]], b)
    BY <1>9 DEF F
  <1>11. After[0] = AtGenesis /\ \A b \in Blocks : After[b] = AfterBlock(After[Parent[b]], b)
    BY <1>10, Numbered
  <1> DEFINE S == {b \in Nodes : After[b] \in States}
  <1>12. 0 \in S
    <2>1. 0 \in Nodes
      BY Numbered
    <2> QED
      BY <1>1, <1>11, <2>1
  <1>13. ASSUME NEW b \in Blocks, Parent[b] \in S PROVE b \in S
    <2>1. After[Parent[b]] \in States /\ b \in Nodes
      BY <1>13, Numbered
    <2>2. After[b] \in States
      BY <1>2, <1>11, <2>1
    <2> QED
      BY <2>1, <2>2
  <1> HIDE DEF S
  <1>14. Nodes \subseteq S
    BY <1>12, <1>13, TreeInduction
  <1> QED
    BY <1>11, <1>14 DEF S

-----------------------------------------------------------------------------
LEMMA LedgerGives ==
    ASSUME Contents, NEW b \in Nodes
    PROVE  /\ \A k \in PermKeys : Seen(Ledger[b], k) = After[b].held[k]
           /\ \A a \in Addresses : Seen(Ledger[b], <<a, "miner">>)[1] = After[b].last[a]
  <1> DEFINE Good(c) == /\ \A k \in PermKeys : Seen(Ledger[c], k) = After[c].held[k]
                        /\ \A a \in Addresses : Seen(Ledger[c], <<a, "miner">>)[1] = After[c].last[a]
             S == {c \in Nodes : Good(c)}
  <1>1. 0 \in S
    <2>1. Ledger[0] = GenesisRows /\ After[0] = AtGenesis /\ 0 \in Nodes
      BY Numbered, LedgerIs, AfterIs
    <2>2. \A k \in PermKeys : AtGenesis.held[k] = IF k[1] = Genesis THEN Always ELSE <<0, 0>>
      BY DEF AtGenesis
    <2>3. \A a \in Addresses : AtGenesis.last[a] = 0
      BY DEF AtGenesis
    <2>4. \A k \in PermKeys : Seen(Ledger[0], k) = After[0].held[k]
      BY <2>1, <2>2, GenesisRowsIs
    <2>5. \A a \in Addresses : Seen(Ledger[0], <<a, "miner">>)[1] = After[0].last[a]
      <3>1. \A a \in Addresses : Seen(Ledger[0], <<a, "miner">>) = <<0, 0>>
        BY <2>1, GenesisRowsIs
      <3>2. <<0, 0>>[1] = 0
        OBVIOUS
      <3> QED
        BY <2>1, <2>3, <3>1, <3>2
    <2> QED
      BY <2>1, <2>4, <2>5
  <1>2. ASSUME NEW c \in Blocks, Parent[c] \in S PROVE c \in S
    <2> DEFINE p == Parent[c]
    <2>1. p \in Nodes /\ Good(p) /\ c \in Nodes
      BY <1>2, Numbered
    <2>2. Ledger[p] \in Seq(Row) /\ After[p] \in States
      BY <2>1, LedgerIs, AfterIs
    <2>3. Ledger[c] = BlockRows(Ledger[p], c) /\ After[c] = AfterBlock(After[p], c)
      BY LedgerIs, AfterIs
    <2>4. Gives(Ledger[p], Ledger[c], c)
      BY <2>2, <2>3, BlockAdds
    <2>5. After[p].held \in [PermKeys -> Ranges] /\ After[p].last \in [Addresses -> Nat]
      BY <2>2 DEF States
    <2> HIDE DEF p
    <2>6. ASSUME NEW k \in PermKeys PROVE Seen(Ledger[c], k) = After[c].held[k]
      <3>1. After[c].held[k] = IF GrantsOf(c, k) THEN grant[c].range ELSE After[p].held[k]
        BY <2>3, <2>5, ContentsOf DEF AfterBlock, GrantsOf
      <3> QED
        BY <2>1, <2>4, <3>1 DEF Gives
    <2>7. ASSUME NEW a \in Addresses PROVE Seen(Ledger[c], <<a, "miner">>)[1] = After[c].last[a]
      <3>1. After[c].last[a] = IF a = miner[c] THEN Height(c) ELSE After[p].last[a]
        BY <2>3, <2>5, ContentsOf DEF AfterBlock
      <3>2. Seen(Ledger[c], <<a, "miner">>) =
                IF a = miner[c] THEN <<Height(c), Height(c)>> ELSE Seen(Ledger[p], <<a, "miner">>)
        BY <2>4 DEF Gives
      <3> QED
        BY <2>1, <3>1, <3>2
    <2> QED
      BY <2>1, <2>6, <2>7
  <1> HIDE DEF S
  <1>3. b \in S
    BY <1>1, <1>2, TreeInduction
  <1> QED
    BY <1>3 DEF S

\* The miners a block leaves are those its branch's rows give.
LEMMA MinersCounted ==
    ASSUME Contents, NEW b \in Nodes
    PROVE  Count(<<>>, Ledger[b], Height(b)) = Cardinality(Miners(b))
  <1>1. ASSUME NEW a \in Addresses
        PROVE  Over(<<>>, Ledger[b], <<a, "mine">>) = After[b].held[<<a, "mine">>]
    <2>1. <<a, "mine">> \in PermKeys
      BY DEF PermKeys, Types
    <2> QED
      BY <2>1, LedgerGives, OverEmpty
  <1>2. {a \in Addresses : InForce(Over(<<>>, Ledger[b], <<a, "mine">>), Height(b) + 1)} = Miners(b)
    BY <1>1 DEF Miners
  <1> QED
    BY <1>2 DEF Count

LEMMA GenesisMiners ==
    ASSUME Contents
    PROVE  Cardinality(Miners(0)) = 1
  <1>1. \A a \in Addresses : After[0].held[<<a, "mine">>] = IF a = Genesis THEN Always ELSE <<0, 0>>
    BY AfterIs DEF AtGenesis, PermKeys, Types
  <1>2. Miners(0) = {Genesis}
    <2>1. Height(0) = 0
      BY Lengths
    <2>2. InForce(Always, 1) /\ ~InForce(<<0, 0>>, 1)
      BY DEF InForce, Always
    <2> QED
      BY <1>1, <2>1, <2>2, VerificationAssumption DEF Miners
  <1> QED
    BY <1>2, FS_Singleton

LEMMA IndexGives ==
    ASSUME Contents, NEW b \in Nodes, NEW i \in 0..Height(b)
    PROVE  Seen(Ledger[b], <<i, "index">>)[1] = Cardinality(Miners(Anc(b, i)))
  <1> DEFINE Good(c) == \A j \in 0..Height(c) :
                            Seen(Ledger[c], <<j, "index">>)[1] = Cardinality(Miners(Anc(c, j)))
             S == {c \in Nodes : Good(c)}
  <1>1. 0 \in S
    <2>1. Ledger[0] = GenesisRows /\ 0 \in Nodes /\ Height(0) = 0 /\ Anc(0, 0) = 0
      BY Numbered, LedgerIs, Lengths DEF Anc
    <2>2. Seen(Ledger[0], <<0, "index">>)[1] = Cardinality(Miners(Anc(0, 0)))
      BY <2>1, GenesisRowsIs, GenesisMiners
    <2>3. \A j \in 0..Height(0) : j = 0
      BY <2>1
    <2>4. Good(0)
      BY <2>2, <2>3
    <2> QED
      BY <2>1, <2>4
  <1>2. ASSUME NEW c \in Blocks, Parent[c] \in S PROVE c \in S
    <2> DEFINE p == Parent[c]
    <2>1. p \in Nodes /\ Good(p) /\ c \in Nodes
      BY <1>2, Numbered
    <2>2. Ledger[p] \in Seq(Row) /\ Ledger[c] = BlockRows(Ledger[p], c)
      BY <2>1, LedgerIs
    <2>3. Gives(Ledger[p], Ledger[c], c)
      BY <2>2, BlockAdds
    <2>4. Height(p) \in Nat /\ Height(c) = Height(p) + 1
      BY <2>1, Lengths
    <2>5. /\ Anc(c, Height(c)) = c
          /\ Anc(c, Height(p)) = p
          /\ \A j \in 0..Height(p) : Anc(p, j) = Anc(c, j)
      <3>1. Height(c) \in 1..Height(c) /\ Height(c) - 1 = Height(p)
        BY <2>4
      <3>2. Anc(c, Height(c)) = c
        BY <2>1, Ancestors
      <3>3. Parent[Anc(c, Height(c))] = Anc(c, Height(c) - 1)
        BY <2>1, <3>1, Ancestors
      <3>4. Anc(c, Height(p)) = p
        BY <3>1, <3>2, <3>3
      <3>5. Height(p) \in 0..Height(c)
        BY <2>4
      <3>6. \A j \in 0..Height(p) : Anc(Anc(c, Height(p)), j) = Anc(c, j)
        BY <2>1, <3>5, Ancestors
      <3> QED
        BY <3>2, <3>4, <3>6
    <2> HIDE DEF p
    <2>6. ASSUME NEW j \in 0..Height(c)
          PROVE  Seen(Ledger[c], <<j, "index">>)[1] = Cardinality(Miners(Anc(c, j)))
      <3>1. CASE j = Height(c)
        BY <2>1, <2>3, <2>5, <3>1, MinersCounted DEF Gives
      <3>2. CASE j # Height(c)
        <4>1. j \in 0..Height(p) /\ j \in Nat
          BY <2>4, <3>2
        <4>2. Seen(Ledger[c], <<j, "index">>) = Seen(Ledger[p], <<j, "index">>)
          BY <2>3, <3>2, <4>1 DEF Gives
        <4> QED
          BY <2>1, <2>5, <4>1, <4>2
      <3> QED
        BY <3>1, <3>2
    <2> QED
      BY <2>1, <2>6
  <1> HIDE DEF S
  <1>3. b \in S
    BY <1>1, <1>2, TreeInduction
  <1> QED
    BY <1>3 DEF S

\* The rows s are those of t that were received up to height h.
IsCut(s, t, h) ==
    /\ Len(s) \in 1..Len(t)
    /\ \A j \in 1..Len(s) : t[j] = s[j] /\ t[j].received <= h
    /\ \A j \in (Len(s) + 1)..Len(t) : h < t[j].received

LEMMA Cuts ==
    ASSUME Contents, NEW b \in Nodes, NEW i \in 0..Height(b)
    PROVE  IsCut(Ledger[Anc(b, i)], Ledger[b], i)
  <1> DEFINE Good(c) == \A j \in 0..Height(c) : IsCut(Ledger[Anc(c, j)], Ledger[c], j)
             S == {c \in Nodes : Good(c)}
  <1>1. 0 \in S
    <2>1. Ledger[0] = GenesisRows /\ 0 \in Nodes /\ Height(0) = 0 /\ Anc(0, 0) = 0
      BY Numbered, LedgerIs, Lengths DEF Anc
    <2>2. IsCut(GenesisRows, GenesisRows, 0)
      BY GenesisRowsIs DEF IsCut
    <2>3. \A j \in 0..Height(0) : j = 0
      BY <2>1
    <2>4. Good(0)
      BY <2>1, <2>2, <2>3
    <2> QED
      BY <2>1, <2>4
  <1>2. ASSUME NEW c \in Blocks, Parent[c] \in S PROVE c \in S
    <2> DEFINE p == Parent[c]
    <2>1. p \in Nodes /\ Good(p) /\ c \in Nodes
      BY <1>2, Numbered
    <2>2. Ledger[p] \in Seq(Row) /\ Ledger[c] \in Seq(Row) /\ Ledger[c] = BlockRows(Ledger[p], c)
      BY <2>1, LedgerIs
    <2>3. Extends(Ledger[p], Ledger[c], c)
      BY <2>2, BlockAdds
    <2>4. Height(p) \in Nat /\ Height(c) = Height(p) + 1
      BY <2>1, Lengths
    <2>5. /\ Anc(c, Height(c)) = c
          /\ \A j \in 0..Height(p) : Anc(p, j) = Anc(c, j)
      <3>1. Height(c) \in 1..Height(c) /\ Height(c) - 1 = Height(p)
        BY <2>4
      <3>2. Anc(c, Height(c)) = c
        BY <2>1, Ancestors
      <3>3. Parent[Anc(c, Height(c))] = Anc(c, Height(c) - 1)
        BY <2>1, <3>1, Ancestors
      <3>4. Anc(c, Height(p)) = p
        BY <3>1, <3>2, <3>3
      <3>5. Height(p) \in 0..Height(c)
        BY <2>4
      <3>6. \A j \in 0..Height(p) : Anc(Anc(c, Height(p)), j) = Anc(c, j)
        BY <2>1, <3>5, Ancestors
      <3> QED
        BY <3>2, <3>4, <3>6
    <2>6. Len(Ledger[p]) \in Nat /\ Len(Ledger[c]) \in Nat
      BY <2>2, LenProperties
    <2>7. IsCut(Ledger[p], Ledger[p], Height(p))
      <3>1. Height(p) \in 0..Height(p) /\ Anc(p, Height(p)) = p
        BY <2>1, <2>4, Ancestors
      <3> QED
        BY <2>1, <3>1
    <2> HIDE DEF p
    <2>8. \A j \in 1..Len(Ledger[c]) : j \in 1..Len(Ledger[p]) \/ j \in (Len(Ledger[p]) + 1)..Len(Ledger[c])
      BY <2>6
    <2>9. \A j \in 1..Len(Ledger[c]) : Ledger[c][j].received <= Height(c)
      <3> TAKE j \in 1..Len(Ledger[c])
      <3>1. CASE j \in 1..Len(Ledger[p])
        <4>1. Ledger[c][j] = Ledger[p][j] /\ Ledger[p][j].received <= Height(p)
          BY <2>3, <2>7, <3>1 DEF Extends, IsCut
        <4>2. Ledger[p][j] \in Row
          BY <2>2, <3>1, ElementOfSeq
        <4>3. Ledger[p][j].received \in Nat
          BY <4>2 DEF Row
        <4> QED
          BY <2>4, <4>1, <4>3
      <3>2. CASE j \in (Len(Ledger[p]) + 1)..Len(Ledger[c])
        BY <2>3, <2>4, <3>2 DEF Extends
      <3> QED
        BY <2>8, <3>1, <3>2
    <2>10. ASSUME NEW j \in 0..Height(c) PROVE IsCut(Ledger[Anc(c, j)], Ledger[c], j)
      <3>1. CASE j = Height(c)
        <4>1. Len(Ledger[c]) \in 1..Len(Ledger[c])
          BY <2>3, <2>6 DEF Extends
        <4>2. \A l \in (Len(Ledger[c]) + 1)..Len(Ledger[c]) : FALSE
          BY <2>6
        <4> QED
          BY <2>5, <2>9, <3>1, <4>1, <4>2 DEF IsCut
      <3>2. CASE j # Height(c)
        <4>1. j \in 0..Height(p) /\ j < Height(c)
          BY <2>4, <3>2
        <4> DEFINE s == Ledger[Anc(c, j)]
        <4>2. IsCut(s, Ledger[p], j)
          BY <2>1, <2>5, <4>1
        <4> HIDE DEF s
        <4>3. Len(s) \in 1..Len(Ledger[c]) /\ Len(s) \in 1..Len(Ledger[p])
          BY <2>3, <2>6, <4>2 DEF IsCut, Extends
        <4>4. ASSUME NEW l \in 1..Len(s) PROVE Ledger[c][l] = s[l] /\ Ledger[c][l].received <= j
          <5>1. l \in 1..Len(Ledger[p])
            BY <2>6, <4>3
          <5> QED
            BY <2>3, <4>2, <5>1 DEF IsCut, Extends
        <4>5. ASSUME NEW l \in (Len(s) + 1)..Len(Ledger[c]) PROVE j < Ledger[c][l].received
          <5>1. CASE l \in 1..Len(Ledger[p])
            <6>1. l \in (Len(s) + 1)..Len(Ledger[p])
              BY <2>6, <4>3, <5>1
            <6> QED
              BY <2>3, <4>2, <5>1, <6>1 DEF IsCut, Extends
          <5>2. CASE l \in (Len(Ledger[p]) + 1)..Len(Ledger[c])
            BY <2>3, <4>1, <5>2 DEF Extends
          <5>3. l \in 1..Len(Ledger[c])
            BY <2>6, <4>3
          <5> QED
            BY <2>8, <5>1, <5>2, <5>3
        <4>6. IsCut(s, Ledger[c], j)
          BY <4>3, <4>4, <4>5 DEF IsCut
        <4> QED
          BY <4>6 DEF s
      <3> QED
        BY <3>1, <3>2
    <2> QED
      BY <2>1, <2>10
  <1> HIDE DEF S
  <1>3. b \in S
    BY <1>1, <1>2, TreeInduction
  <1> QED
    BY <1>3 DEF S

-----------------------------------------------------------------------------
(***************************************************************************)
(* What is read where the permission object stands.                        *)
(***************************************************************************)

OnLedger == Contents /\ tip \in Nodes /\ rows = Ledger[tip]

LEMMA RowsUpToIs ==
    ASSUME OnLedger, NEW h \in 0..Height(tip)
    PROVE  RowsUpTo(h) = Ledger[Anc(tip, h)]
  <1> DEFINE s == Ledger[Anc(tip, h)]
             of == {i \in 1..Len(rows) : rows[i].received <= h}
  <1>1. Contents /\ tip \in Nodes /\ rows = Ledger[tip]
    BY DEF OnLedger
  <1>2. s \in Seq(Row) /\ rows \in Seq(Row)
    BY <1>1, Ancestors, LedgerIs
  <1>3. IsCut(s, rows, h)
    BY <1>1, Cuts
  <1>4. Len(s) \in Nat /\ Len(rows) \in Nat
    BY <1>2, LenProperties
  <1>5. h \in Nat /\ \A i \in 1..Len(rows) : rows[i].received \in Nat
    <2>1. h \in Nat
      BY <1>1, Lengths
    <2>2. \A i \in 1..Len(rows) : rows[i] \in Row
      BY <1>2, ElementOfSeq
    <2> QED
      BY <2>1, <2>2 DEF Row
  <1> HIDE DEF s
  <1>6. Len(s) \in of
    <2>1. Len(s) \in 1..Len(s) /\ Len(s) \in 1..Len(rows)
      BY <1>3, <1>4 DEF IsCut
    <2>2. rows[Len(s)].received <= h
      BY <1>3, <2>1 DEF IsCut
    <2> QED
      BY <2>1, <2>2
  <1>7. ASSUME NEW j \in of PROVE j <= Len(s)
    <2>1. SUFFICES ASSUME ~(j <= Len(s)) PROVE FALSE
      OBVIOUS
    <2>2. j \in 1..Len(rows) /\ rows[j].received <= h
      OBVIOUS
    <2>3. j \in (Len(s) + 1)..Len(rows)
      BY <1>4, <2>1, <2>2
    <2>4. h < rows[j].received
      BY <1>3, <2>3 DEF IsCut
    <2> QED
      BY <1>5, <2>2, <2>4
  <1>8. of \in SUBSET (1..Len(rows))
    OBVIOUS
  <1> HIDE DEF of
  <1>9. Newest(of) = Len(s)
    BY <1>4, <1>6, <1>7, <1>8, NewestOf
  <1>10. Len(s) \in 0..Len(rows)
    BY <1>3, <1>4 DEF IsCut
  <1> DEFINE c == SubSeq(rows, 1, Len(s))
  <1>11. c \in Seq(Row) /\ Len(c) = Len(s) /\ \A i \in 1..Len(s) : c[i] = rows[i]
    BY <1>2, <1>10, PrefixOf
  <1> HIDE DEF c
  <1>12. \A i \in 1..Len(c) : c[i] = s[i]
    BY <1>3, <1>11 DEF IsCut
  <1>13. c = s
    BY <1>2, <1>11, <1>12, SeqEqual DEF s
  <1> QED
    BY <1>9, <1>13 DEF RowsUpTo, of, s, c

\* The rows that are seen, those of the fork point in fork mode.
Base == IF fork = -1 THEN rows ELSE Ledger[Anc(tip, fork)]

Standing == OnLedger /\ (fork = -1 \/ fork \in 0..Height(tip))

LEMMA BaseIs ==
    ASSUME Standing
    PROVE  Base \in Seq(Row) /\ rows \in Seq(Row) /\ (fork # -1 => IsCut(Base, rows, fork))
  <1>1. Contents /\ tip \in Nodes /\ rows = Ledger[tip] /\ (fork = -1 \/ fork \in 0..Height(tip))
    BY DEF Standing, OnLedger
  <1> QED
    BY <1>1, Ancestors, LedgerIs, Cuts DEF Base

LEMMA LedgerRowIs ==
    ASSUME Standing, NEW k
    PROVE  LedgerRow(k) = Seen(Base, k)
  <1>1. Base \in Seq(Row) /\ rows \in Seq(Row) /\ (fork # -1 => IsCut(Base, rows, fork))
    BY BaseIs
  <1>2. Len(Base) \in Nat /\ Len(rows) \in Nat
    BY <1>1, LenProperties
  <1> DEFINE in == {i \in 1..Len(rows) : rows[i].key = k /\ (fork # -1 => rows[i].received <= fork)}
             of == {i \in 1..Len(Base) : Base[i].key = k}
  <1>3. CASE fork = -1
    <2>1. in = {i \in 1..Len(rows) : rows[i].key = k}
      BY <1>3
    <2> QED
      BY <1>3, <2>1 DEF LedgerRow, Seen, LastOf, Base
  <1>4. CASE fork # -1
    <2>1. IsCut(Base, rows, fork)
      BY <1>1, <1>4
    <2>2. fork \in Nat
      <3>1. Height(tip) \in Nat /\ fork \in 0..Height(tip)
        BY <1>4, Lengths DEF Standing, OnLedger
      <3> QED
        BY <3>1
    <2>3. \A i \in 1..Len(rows) : rows[i].received \in Nat
      <3>1. \A i \in 1..Len(rows) : rows[i] \in Row
        BY <1>1, ElementOfSeq
      <3> QED
        BY <3>1 DEF Row
    <2>4. in = of
      <3>1. ASSUME NEW i \in in PROVE i \in of
        <4>1. i \in 1..Len(rows) /\ rows[i].key = k /\ rows[i].received <= fork
          BY <1>4
        <4>2. i \notin (Len(Base) + 1)..Len(rows)
          BY <2>1, <2>2, <2>3, <4>1 DEF IsCut
        <4>3. i \in 1..Len(Base)
          BY <1>2, <4>1, <4>2
        <4>4. rows[i] = Base[i]
          BY <2>1, <4>3 DEF IsCut
        <4> QED
          BY <4>1, <4>3, <4>4
      <3>2. ASSUME NEW i \in of PROVE i \in in
        <4>1. i \in 1..Len(Base) /\ Base[i].key = k
          OBVIOUS
        <4>2. rows[i] = Base[i] /\ rows[i].received <= fork
          BY <2>1, <4>1 DEF IsCut
        <4>3. i \in 1..Len(rows)
          BY <1>2, <2>1, <4>1 DEF IsCut
        <4> QED
          BY <4>1, <4>2, <4>3
      <3> QED
        BY <3>1, <3>2
    <2>5. LedgerRow(k) = RangeOf(rows, Newest(in)) /\ Seen(Base, k) = RangeOf(Base, Newest(of))
      BY DEF LedgerRow, Seen, LastOf
    <2>6. Newest(of) = 0 \/ Newest(of) \in 1..Len(Base)
      <3>1. of \in SUBSET (1..Len(Base))
        OBVIOUS
      <3> HIDE DEF of
      <3>2. of = {} \/ Newest(of) \in of
        BY <1>2, <3>1, NewestIs
      <3>3. of = {} => Newest(of) = 0
        BY <1>2, <3>1, NewestIs
      <3> QED
        BY <3>1, <3>2, <3>3
    <2>7. Newest(of) # 0 => rows[Newest(of)] = Base[Newest(of)]
      BY <2>1, <2>6 DEF IsCut
    <2> HIDE DEF in, of
    <2> QED
      BY <2>4, <2>5, <2>7 DEF RangeOf
  <1> QED
    BY <1>3, <1>4

LEMMA HeldIs ==
    ASSUME Standing
    PROVE  /\ \A p, k : Held(p, k) = Over(p, Base, k)
           /\ \A p, b : UpdateCounts(p, b) = Count(p, Base, b)
  <1>1. ASSUME NEW p, NEW k PROVE Held(p, k) = Over(p, Base, k)
    <2>1. LedgerRow(k) = Seen(Base, k)
      BY LedgerRowIs
    <2> QED
      BY <2>1 DEF Held, Over, Seen, RangeOf
  <1>2. ASSUME NEW p, NEW b PROVE UpdateCounts(p, b) = Count(p, Base, b)
    <2>1. {a \in Addresses : InForce(Held(p, <<a, "mine">>), b + 1)} =
          {a \in Addresses : InForce(Over(p, Base, <<a, "mine">>), b + 1)}
      BY <1>1
    <2> QED
      BY <2>1 DEF UpdateCounts, Count
  <1> QED
    BY <1>1, <1>2

-----------------------------------------------------------------------------
\* One grant more changes the number of miners by one at most.
Bit(x) == IF x THEN 1 ELSE 0
Step(p, s, g, h) ==
    IF g.key[2] # "mine" THEN 0
    ELSE Bit(InForce(g.range, h + 1)) - Bit(InForce(Over(p, s, g.key), h + 1))

LEMMA CountGrant ==
    ASSUME NEW p \in Seq(Row), NEW s \in Seq(Row), NEW g \in Grants, NEW b \in Nat, NEW h \in Nat
    PROVE  Count(Append(p, GrantRow(g, b)), s, h) = Count(p, s, h) + Step(p, s, g, h)
  <1> DEFINE r == GrantRow(g, b)
             M == {a \in Addresses : InForce(Over(p, s, <<a, "mine">>), h + 1)}
             N == {a \in Addresses : InForce(Over(Append(p, r), s, <<a, "mine">>), h + 1)}
  <1>1. r \in Row /\ r.key = g.key /\ r.range = g.range
    BY GrantRowType DEF GrantRow
  <1>2. IsFiniteSet(M) /\ Cardinality(M) \in Nat /\ M \subseteq Addresses /\ IsFiniteSet(Addresses)
    <2>1. IsFiniteSet(Addresses) /\ M \subseteq Addresses
      BY VerificationAssumption
    <2> HIDE DEF M
    <2> QED
      BY <2>1, FS_Subset, FS_CardinalityType
  <1>3. Count(p, s, h) = Cardinality(M) /\ Count(Append(p, r), s, h) = Cardinality(N)
    BY DEF Count
  <1>4. PICK a0 \in Addresses, t \in Types : g.key = <<a0, t>>
    BY DEF Grants, PermKeys
  <1> HIDE DEF r
  <1>5. ASSUME NEW a \in Addresses
        PROVE  /\ g.key = <<a, "mine">> => Over(Append(p, r), s, <<a, "mine">>) = g.range
               /\ g.key # <<a, "mine">> => Over(Append(p, r), s, <<a, "mine">>) = Over(p, s, <<a, "mine">>)
    <2> DEFINE k == <<a, "mine">>
    <2> HIDE DEF k
    <2>1. /\ r.key = k => Over(Append(p, r), s, k) = r.range
          /\ r.key # k => Over(Append(p, r), s, k) = Over(p, s, k)
      BY <1>1, OverAppend
    <2> QED
      BY <1>1, <2>1 DEF k
  <1>6. CASE t # "mine"
    <2>1. \A a \in Addresses : g.key # <<a, "mine">>
      BY <1>4, <1>6
    <2>2. N = M
      BY <1>5, <2>1
    <2>3. Step(p, s, g, h) = 0
      BY <1>4, <1>6 DEF Step
    <2> HIDE DEF M, N
    <2> QED
      BY <1>2, <1>3, <2>2, <2>3 DEF r
  <1>7. CASE t = "mine"
    <2> DEFINE now == InForce(g.range, h + 1)
               was == InForce(Over(p, s, <<a0, "mine">>), h + 1)
    <2>1. \A a \in Addresses : a # a0 => (a \in N <=> a \in M)
      <3>1. \A a \in Addresses : a # a0 => g.key # <<a, "mine">>
        BY <1>4
      <3> QED
        BY <1>5, <3>1
    <2>2. (a0 \in N <=> now) /\ (a0 \in M <=> was)
      BY <1>4, <1>5, <1>7
    <2>3. Step(p, s, g, h) = Bit(now) - Bit(was)
      BY <1>4, <1>7 DEF Step
    <2>4. N \subseteq Addresses
      OBVIOUS
    <2> HIDE DEF now, was, M, N
    <2>5. CASE was /\ now
      <3>0. \A a \in Addresses : a \in N <=> a \in M
        BY <2>1, <2>2, <2>5
      <3>1. N = M
        BY <1>2, <2>4, <3>0
      <3> QED
        BY <1>2, <1>3, <2>3, <2>5, <3>1 DEF Bit, r
    <2>6. CASE was /\ ~now
      <3>1. N = M \ {a0} /\ a0 \in M
        BY <1>2, <2>1, <2>2, <2>4, <2>6
      <3>2. Cardinality(N) = Cardinality(M) - 1
        BY <1>2, <3>1, FS_RemoveElement
      <3> QED
        BY <1>2, <1>3, <2>3, <2>6, <3>2 DEF Bit, r
    <2>7. CASE ~was /\ now
      <3>1. N = M \cup {a0} /\ a0 \notin M
        BY <1>2, <2>1, <2>2, <2>4, <2>7
      <3>2. Cardinality(N) = Cardinality(M) + 1
        BY <1>2, <3>1, FS_AddElement
      <3> QED
        BY <1>2, <1>3, <2>3, <2>7, <3>2 DEF Bit, r
    <2>8. CASE ~was /\ ~now
      <3>0. \A a \in Addresses : a \in N <=> a \in M
        BY <2>1, <2>2, <2>8
      <3>1. N = M
        BY <1>2, <2>4, <3>0
      <3> QED
        BY <1>2, <1>3, <2>3, <2>8, <3>1 DEF Bit, r
    <2> QED
      BY <2>5, <2>6, <2>7, <2>8
  <1> QED
    BY <1>6, <1>7

-----------------------------------------------------------------------------
(***************************************************************************)
(* The inductive invariant.                                                *)
(***************************************************************************)

Records == [known : BOOLEAN, count : Nat, grants : BOOLEAN]
Outcomes == {"none", "skip", "accept", "reject"}

Typed ==
    /\ OnLedger
    /\ record \in [Blocks -> Records] /\ passed \subseteq Blocks
    /\ pool \in Seq(Row)
    /\ target = -1 \/ target \in Blocks

\* All blocks of the branch of b are in B.
AllOn(B, b) == \A i \in 1..Height(b) : Branch[b][i] \in B

\* A block is connected only after it was recorded with its grants: what passed has
\* a branch of recorded blocks, and so have the active chain and the target.
Known(rec) == {b \in Blocks : rec[b].known}
Recorded ==
    /\ RecordsComplete
    /\ \A b \in passed : AllOn(Known(record), b)
    /\ AllOn(Known(record), tip)
    /\ target # -1 => AllOn(Known(record), target)

\* The counts of the active chain and of the grants p in memory.
Counts(p, n, cleared) ==
    /\ n = Count(p, rows, Height(tip))
    /\ p # <<>> => cleared = Count(<<>>, rows, Height(tip))

AtRest ==
    job = NoJob => fork = -1 /\ m_Block = Height(tip) /\ Counts(pool, m_MinerCount, m_Cleared)

\* The object was moved to the fork point, and what it is put back to is kept.
Moved ==
    job # NoJob =>
        /\ job \in [new : Blocks, pos : Nat, last : Nat, outcome : Outcomes]
        /\ fork \in 0..Height(tip) /\ fork < job.pos /\ job.pos <= Height(job.new)
        /\ Anc(job.new, fork) = Anc(tip, fork)
        /\ copied.pool \in Seq(Row) /\ copied.block = Height(tip)
        /\ Counts(copied.pool, copied.count, m_Cleared)

\* The last block of the new block's miner, before or after the fork point.
LastSeen == IF job.last = 0 THEN After[Anc(job.new, fork)].last[miner[job.new]] ELSE job.last

\* What the object shows is what the branch gives up to block b.
Shows(b) ==
    /\ m_Block = Height(b)
    /\ \A k \in PermKeys : Over(pool, Base, k) = After[b].held[k]
    /\ m_ClearedForVerification = Cardinality(Miners(b))
    /\ m_MinerCount = Cardinality(Miners(b))

OnBranch ==
    job # NoJob /\ job.outcome = "none" =>
        LET b == Anc(job.new, job.pos - 1)
        IN  Shows(b) /\ AllOn(Known(record), b) /\ LastSeen = After[b].last[miner[job.new]]

Verdict ==
    job.outcome \in {"accept", "reject"} /\ At = job.new =>
        (job.outcome = "accept" <=> Valid(job.new))

Good == {b \in Blocks : Valid(b)}

IInv ==
    /\ Typed /\ Recorded /\ AtRest /\ Moved /\ OnBranch /\ Verdict
    /\ target # -1 => ~OnChain(target, tip)
    /\ AllOn(Good, tip)

-----------------------------------------------------------------------------
(***************************************************************************)
(* What a step leaves alone.                                               *)
(***************************************************************************)

LEMMA Fixed ==
    ASSUME UNCHANGED <<miner, grant>>
    PROVE  /\ After' = After /\ Ledger' = Ledger /\ Contents' = Contents
           /\ \A b : Miners(b)' = Miners(b)
           /\ \A b : Valid(b)' = Valid(b)
           /\ Good' = Good
  <1>0. miner' = miner /\ grant' = grant
    OBVIOUS
  <1>1. After' = After
    BY <1>0 DEF After
  <1>2. Ledger' = Ledger
    BY <1>0 DEF Ledger, BlockRows, Granted
  <1>3. Contents' = Contents
    BY <1>0 DEF Contents
  <1>4. \A b : Miners(b)' = Miners(b)
    BY <1>1 DEF Miners
  <1>5. \A b : Valid(b)' = Valid(b)
    BY <1>0, <1>1, <1>4 DEF Valid
  <1>6. Good' = Good
    BY <1>5 DEF Good
  <1> QED
    BY <1>1, <1>2, <1>3, <1>4, <1>5, <1>6

LEMMA AllOnIs ==
    ASSUME NEW B, NEW b \in Nodes
    PROVE  /\ AllOn(B, b) <=> \A i \in 1..Height(b) : Anc(b, i) \in B
           /\ \A i \in 0..Height(b) : AllOn(B, b) => AllOn(B, Anc(b, i))
           /\ b \in Blocks => (AllOn(B, b) <=> AllOn(B, Parent[b]) /\ b \in B)
  <1>0. Height(b) \in Nat
    BY Lengths
  <1>1. ASSUME NEW c \in Nodes
        PROVE  AllOn(B, c) <=> \A i \in 1..Height(c) : Anc(c, i) \in B
    <2>1. \A i \in 1..Height(c) : Anc(c, i) = Branch[c][i]
      BY Lengths DEF Anc
    <2> QED
      BY <2>1 DEF AllOn
  <1>2. ASSUME NEW i \in 0..Height(b), AllOn(B, b) PROVE AllOn(B, Anc(b, i))
    <2>1. Anc(b, i) \in Nodes /\ Height(Anc(b, i)) = i
      BY Ancestors
    <2>2. ASSUME NEW j \in 1..i PROVE Anc(Anc(b, i), j) \in B
      <3>1. j \in 0..i /\ j \in 1..Height(b)
        BY <1>0
      <3>2. Anc(Anc(b, i), j) = Anc(b, j)
        BY <3>1, Ancestors
      <3> QED
        BY <1>1, <1>2, <3>1, <3>2
    <2> QED
      BY <1>1, <2>1, <2>2
  <1>3. ASSUME b \in Blocks PROVE AllOn(B, b) <=> AllOn(B, Parent[b]) /\ b \in B
    <2> DEFINE p == Parent[b]
    <2>1. p \in Nodes /\ Height(p) \in Nat /\ Height(b) = Height(p) + 1
      BY <1>3, Numbered, Lengths
    <2>2. Height(b) \in 1..Height(b) /\ Height(b) - 1 = Height(p) /\ Height(p) \in 0..Height(b)
      BY <2>1
    <2>3. Anc(b, Height(b)) = b
      BY Ancestors
    <2>4. Anc(b, Height(p)) = p
      BY <2>2, <2>3, Ancestors
    <2> HIDE DEF p
    <2>5. AllOn(B, b) => AllOn(B, p) /\ b \in B
      BY <1>1, <1>2, <2>2, <2>3, <2>4
    <2>6. ASSUME AllOn(B, p), b \in B, NEW i \in 1..Height(b) PROVE Anc(b, i) \in B
      <3>1. CASE i = Height(b)
        BY <2>3, <2>6, <3>1
      <3>2. CASE i # Height(b)
        <4>1. i \in 1..Height(p) /\ i \in 0..Height(p)
          BY <2>1, <3>2
        <4>2. Anc(p, i) = Anc(b, i)
          BY <2>2, <2>4, <4>1, Ancestors
        <4> QED
          BY <1>1, <2>1, <2>6, <4>1, <4>2
      <3> QED
        BY <3>1, <3>2
    <2> QED
      BY <1>1, <2>5, <2>6 DEF p
  <1> QED
    BY <1>1, <1>2, <1>3

LEMMA AllOnMore ==
    ASSUME NEW B, NEW C, B \subseteq C, NEW b
    PROVE  AllOn(B, b) => AllOn(C, b)
BY DEF AllOn

LEMMA AtGenesisAll == \A B : AllOn(B, 0)
BY Lengths DEF AllOn

\* Where the object stands in a state of the invariant.
LEMMA Stands ==
    ASSUME IInv
    PROVE  /\ Standing /\ Contents /\ tip \in Nodes /\ rows = Ledger[tip]
           /\ rows \in Seq(Row) /\ Base \in Seq(Row) /\ Height(tip) \in Nat
           /\ job = NoJob => Base = rows /\ fork = -1 /\ m_Block = Height(tip)
  <1>1. OnLedger /\ Contents /\ tip \in Nodes /\ rows = Ledger[tip]
    BY DEF IInv, Typed, OnLedger
  <1>2. job = NoJob => fork = -1 /\ m_Block = Height(tip)
    BY DEF IInv, AtRest
  <1>3. job # NoJob => fork \in 0..Height(tip)
    BY DEF IInv, Moved
  <1>4. Standing
    BY <1>1, <1>2, <1>3 DEF Standing
  <1> QED
    BY <1>1, <1>2, <1>4, BaseIs, Lengths DEF Base

LEMMA InitHolds == Init => IInv
  <1> SUFFICES ASSUME Init PROVE IInv
    OBVIOUS
  <1>1. Contents
    BY VerificationAssumption DEF Init, Contents
  <1>2. OnLedger
    BY <1>1, LedgerIs, Numbered DEF Init, OnLedger
  <1>3. tip = 0 /\ Height(tip) = 0 /\ target = -1 /\ job = NoJob /\ passed = {} /\ pool = <<>>
    BY Lengths DEF Init
  <1>4. Typed
    BY <1>2, <1>3 DEF Init, Typed, Records, Nothing
  <1>5. Recorded
    <2>1. \A b \in Blocks : ~record[b].known
      BY DEF Init, Nothing
    <2> QED
      BY <1>3, <2>1, AtGenesisAll DEF Recorded, RecordsComplete
  <1>6. AtRest
    <2>1. Count(<<>>, Ledger[0], 0) = 1
      BY <1>1, <1>3, MinersCounted, GenesisMiners, Numbered
    <2> QED
      BY <1>2, <1>3, <2>1 DEF Init, AtRest, Counts, OnLedger
  <1>7. Moved /\ OnBranch /\ Verdict
    BY <1>3 DEF Moved, OnBranch, Verdict, NoJob
  <1> QED
    BY <1>3, <1>4, <1>5, <1>6, <1>7, AtGenesisAll DEF IInv

\* No branch is checked, and the chain stays as it is.
IdleTo(p, n, c, to, pass) ==
    /\ p \in Seq(Row) /\ Counts(p, n, c)
    /\ pass \subseteq Blocks /\ \A b \in pass : AllOn(Known(record), b)
    /\ to = -1 \/ (to \in Blocks /\ AllOn(Known(record), to) /\ ~OnChain(to, tip))

LEMMA IdleStep ==
    ASSUME IInv, job = NoJob,
           UNCHANGED <<miner, grant, record, tip, rows, m_Block, fork, job>>,
           IdleTo(pool', m_MinerCount', m_Cleared', target', passed')
    PROVE  IInv'
  <1>1. /\ After' = After /\ Ledger' = Ledger /\ Contents' = Contents /\ Good' = Good
        /\ \A b : Miners(b)' = Miners(b)
    BY Fixed
  <1>2. OnLedger'
    BY <1>1 DEF IInv, Typed, OnLedger
  <1>3. Typed'
    BY <1>2 DEF IInv, Typed, IdleTo
  <1>4. RecordsComplete'
    BY <1>1 DEF IInv, Recorded, RecordsComplete
  <1>5. Known(record)' = Known(record)
    BY DEF Known
  <1>6. Recorded'
    BY <1>4, <1>5 DEF IInv, Recorded, IdleTo, AllOn
  <1>7. AtRest'
    BY DEF IInv, AtRest, IdleTo, Counts
  <1>8. Moved' /\ OnBranch' /\ Verdict'
    BY DEF Moved, OnBranch, Verdict, NoJob
  <1>9. target' # -1 => ~OnChain(target', tip')
    BY DEF IdleTo
  <1>10. AllOn(Good, tip)'
    BY <1>1 DEF IInv, AllOn
  <1> QED
    BY <1>3, <1>6, <1>7, <1>8, <1>9, <1>10 DEF IInv

LEMMA IdleKept ==
    ASSUME IInv, job = NoJob
    PROVE  /\ pool \in Seq(Row) /\ Counts(pool, m_MinerCount, m_Cleared)
           /\ passed \subseteq Blocks /\ \A b \in passed : AllOn(Known(record), b)
           /\ target = -1 \/ (target \in Blocks /\ AllOn(Known(record), target) /\ ~OnChain(target, tip))
BY DEF IInv, Typed, Recorded, AtRest

-----------------------------------------------------------------------------
(***************************************************************************)
(* The steps with no branch under check.                                   *)
(***************************************************************************)

LEMMA CountStepIs ==
    ASSUME Standing, NEW p, NEW g \in Grants
    PROVE  CountStep(p, g) = Step(p, Base, g, m_Block)
  <1> DEFINE now == InForce(g.range, m_Block + 1)
             was == InForce(Over(p, Base, g.key), m_Block + 1)
  <1>1. g # NoGrant
    BY DEF Grants, NoGrant
  <1>2. GetPermission(p, g.key) <=> was
    BY HeldIs DEF GetPermission
  <1>3. now \in BOOLEAN /\ was \in BOOLEAN /\ GetPermission(p, g.key) \in BOOLEAN
    BY DEF InForce, GetPermission
  <1>4. CountStep(p, g) = IF g.key[2] # "mine" THEN 0
                          ELSE IF now = GetPermission(p, g.key) THEN 0 ELSE IF now THEN 1 ELSE -1
    BY <1>1 DEF CountStep
  <1>5. Step(p, Base, g, m_Block) = IF g.key[2] # "mine" THEN 0 ELSE Bit(now) - Bit(was)
    BY DEF Step
  <1> HIDE DEF now, was
  <1> QED
    BY <1>2, <1>3, <1>4, <1>5 DEF Bit

LEMMA PoolGrantKeeps ==
    ASSUME IInv, NEW b \in Blocks, PoolGrant(grant[b])
    PROVE  IInv'
  <1> DEFINE g == grant[b]
             r == GrantRow(g, m_Block + 1)
  <1>1. job = NoJob /\ target = -1 /\ g # NoGrant
        /\ UNCHANGED <<index, rows, m_Block, copied, fork, job>>
    BY DEF PoolGrant
  <1>2. /\ Standing /\ Contents /\ Base = rows /\ rows \in Seq(Row) /\ fork = -1
        /\ m_Block = Height(tip) /\ Height(tip) \in Nat
    BY <1>1, Stands
  <1>3. /\ pool \in Seq(Row) /\ Counts(pool, m_MinerCount, m_Cleared)
        /\ passed \subseteq Blocks /\ \A c \in passed : AllOn(Known(record), c)
    BY <1>1, IdleKept
  <1>4. g \in Grants /\ g \in Grants \cup {NoGrant}
    BY <1>1, <1>2, ContentsOf
  <1>5. pool' = Append(pool, r) /\ r \in Row
    <2>1. m_Block + 1 \in Nat
      BY <1>2
    <2>2. pool' = Granted(pool, g, m_Block + 1)
      BY DEF PoolGrant
    <2> HIDE DEF g
    <2> QED
      BY <1>1, <1>3, <1>4, <2>1, <2>2, GrantedIs
  <1>6. m_MinerCount' = Count(pool', rows, Height(tip))
    <2>1. m_MinerCount' = m_MinerCount + CountStep(pool, g)
      BY DEF PoolGrant
    <2>2. CountStep(pool, g) = Step(pool, rows, g, Height(tip))
      BY <1>2, <1>4, CountStepIs
    <2>3. Count(Append(pool, GrantRow(g, m_Block + 1)), rows, Height(tip)) =
          Count(pool, rows, Height(tip)) + Step(pool, rows, g, Height(tip))
      <3> HIDE DEF g
      <3> QED
        BY <1>2, <1>3, <1>4, CountGrant
    <2> QED
      BY <1>3, <1>5, <2>1, <2>2, <2>3 DEF Counts
  <1>7. m_Cleared' = Count(<<>>, rows, Height(tip))
    BY <1>3 DEF PoolGrant, Counts
  <1>8. pool' \in Seq(Row)
    BY <1>3, <1>5, AppendProperties
  <1>9. /\ UNCHANGED <<miner, grant, record, tip, rows, m_Block, fork, job>>
        /\ target' = -1 /\ passed' = passed
    BY <1>1 DEF index
  <1>10. IdleTo(pool', m_MinerCount', m_Cleared', target', passed')
    BY <1>3, <1>6, <1>7, <1>8, <1>9 DEF IdleTo, Counts
  <1> QED
    BY <1>1, <1>9, <1>10, IdleStep

LEMMA ClearedCountIs ==
    ASSUME IInv, job = NoJob
    PROVE  ClearedCount = Count(<<>>, rows, Height(tip)) /\ Counts(<<>>, ClearedCount, ClearedCount)
  <1>1. Standing /\ Base = rows /\ m_Block = Height(tip)
    BY Stands
  <1>2. Counts(pool, m_MinerCount, m_Cleared)
    BY IdleKept
  <1> QED
    BY <1>1, <1>2, HeldIs DEF ClearedCount, Counts

LEMMA ClearMemPoolKeeps ==
    ASSUME IInv, ClearMemPool
    PROVE  IInv'
  <1>1. /\ job = NoJob /\ target = -1 /\ pool' = <<>>
        /\ m_MinerCount' = ClearedCount /\ m_Cleared' = ClearedCount
        /\ UNCHANGED <<index, rows, m_Block, copied, fork, job>>
    BY DEF ClearMemPool
  <1>2. /\ UNCHANGED <<miner, grant, record, tip, rows, m_Block, fork, job>>
        /\ target' = -1 /\ passed' = passed
    BY <1>1 DEF index
  <1>3. Counts(pool', m_MinerCount', m_Cleared')
    BY <1>1, ClearedCountIs
  <1>4. pool' \in Seq(Row)
    BY <1>1, EmptySeq
  <1>5. IdleTo(pool', m_MinerCount', m_Cleared', target', passed')
    BY <1>1, <1>2, <1>3, <1>4, IdleKept DEF IdleTo
  <1> QED
    BY <1>1, <1>2, <1>5, IdleStep

LEMMA RestartKeeps ==
    ASSUME IInv, Restart
    PROVE  IInv'
  <1>1. /\ job = NoJob /\ target = -1 /\ pool' = <<>> /\ passed' = {}
        /\ m_MinerCount' = UpdateCounts(<<>>, m_Block)
        /\ UNCHANGED <<miner, grant, record, tip, target, rows, m_Block, fork, job>>
    BY DEF Restart
  <1>2. Standing /\ Base = rows /\ m_Block = Height(tip)
    BY <1>1, Stands
  <1>3. Counts(pool', m_MinerCount', m_Cleared')
    BY <1>1, <1>2, HeldIs DEF Counts
  <1>4. pool' \in Seq(Row)
    BY <1>1, EmptySeq
  <1>5. IdleTo(pool', m_MinerCount', m_Cleared', target', passed')
    BY <1>1, <1>3, <1>4 DEF IdleTo
  <1> QED
    BY <1>1, <1>5, IdleStep

LEMMA ChooseTargetKeeps ==
    ASSUME IInv, NEW b \in Blocks, ChooseTarget(b)
    PROVE  IInv'
  <1>1. /\ job = NoJob /\ target = -1 /\ b \in passed /\ b # tip /\ Height(tip) <= Height(b)
        /\ UNCHANGED <<miner, grant, have, passed, record, tip, object, job>>
        /\ target' \in {b, target}
    BY DEF ChooseTarget
  <1>2. UNCHANGED <<miner, grant, record, tip, rows, m_Block, fork, job, pool, m_MinerCount, m_Cleared, passed>>
    BY <1>1 DEF object
  <1>3. tip \in Nodes /\ b \in Nodes /\ Height(tip) \in Nat /\ Height(b) \in Nat
    BY Stands, Numbered, Lengths
  <1>4. ~OnChain(b, tip)
    <2>1. SUFFICES ASSUME OnChain(b, tip) PROVE FALSE
      OBVIOUS
    <2>2. Height(b) <= Height(tip) /\ b = Anc(tip, Height(b))
      BY <1>3, <2>1, OnChainIs
    <2>3. Height(b) = Height(tip)
      BY <1>1, <1>3, <2>2
    <2>4. b = tip
      BY <1>3, <2>2, <2>3, Ancestors
    <2> QED
      BY <1>1, <2>4
  <1>5. IdleTo(pool', m_MinerCount', m_Cleared', target', passed')
    BY <1>1, <1>2, <1>4, IdleKept DEF IdleTo
  <1> QED
    BY <1>1, <1>2, <1>5, IdleStep

\* The blocks of the active chain are recorded.
LEMMA ActiveKnown ==
    ASSUME IInv, NEW b \in Blocks, OnChain(b, tip)
    PROVE  AllOn(Known(record), b)
  <1>1. tip \in Nodes /\ b \in Nodes /\ AllOn(Known(record), tip)
    BY Stands, Numbered DEF IInv, Recorded
  <1>2. Height(b) <= Height(tip) /\ b = Anc(tip, Height(b))
    BY <1>1, OnChainIs
  <1>3. Height(b) \in 0..Height(tip)
    BY <1>1, <1>2, Lengths
  <1> QED
    BY <1>1, <1>2, <1>3, AllOnIs

-----------------------------------------------------------------------------
(***************************************************************************)
(* The steps of the active chain.                                          *)
(***************************************************************************)

RecordsAre(rec) ==
    /\ rec \in [Blocks -> Records] /\ Known(rec) = Known(record)
    /\ \A b \in Blocks : rec[b].known => /\ rec[b].count = Cardinality(Miners(b))
                                         /\ rec[b].grants = (grant[b] # NoGrant)

LEMMA RecordsStay == IInv => RecordsAre(record)
BY DEF IInv, Typed, Recorded, RecordsComplete, RecordsAre

\* The active chain ends with block c.
ChainTo(c, p, n, cleared, to) ==
    /\ p \in Seq(Row) /\ n = Count(p, Ledger[c], Height(c))
    /\ p # <<>> => cleared = Count(<<>>, Ledger[c], Height(c))
    /\ AllOn(Known(record), c) /\ AllOn(Good, c)
    /\ to = -1 \/ (to \in Blocks /\ AllOn(Known(record), to) /\ ~OnChain(to, c))

LEMMA ChainStep ==
    ASSUME IInv, job = NoJob, UNCHANGED <<miner, grant, fork, job, passed>>,
           NEW c \in Nodes, tip' = c, rows' = Ledger[c], m_Block' = Height(c),
           RecordsAre(record'), ChainTo(c, pool', m_MinerCount', m_Cleared', target')
    PROVE  IInv'
  <1>1. /\ After' = After /\ Ledger' = Ledger /\ Contents' = Contents /\ Good' = Good
        /\ \A b : Miners(b)' = Miners(b)
    BY Fixed
  <1>2. OnLedger'
    BY <1>1 DEF IInv, Typed, OnLedger
  <1>3. Typed'
    BY <1>2 DEF IInv, Typed, ChainTo, RecordsAre
  <1>4. RecordsComplete'
    BY <1>1 DEF RecordsAre, RecordsComplete
  <1>5. Known(record') = Known(record)
    BY DEF RecordsAre
  <1>6. Recorded'
    BY <1>4, <1>5 DEF IInv, Recorded, ChainTo, AllOn, Known
  <1>7. AtRest'
    BY DEF IInv, AtRest, ChainTo, Counts
  <1>8. Moved' /\ OnBranch' /\ Verdict'
    BY DEF Moved, OnBranch, Verdict, NoJob
  <1>9. target' # -1 => ~OnChain(target', tip')
    BY DEF ChainTo
  <1>10. AllOn(Good, tip)'
    BY <1>1 DEF ChainTo, AllOn
  <1> QED
    BY <1>3, <1>6, <1>7, <1>8, <1>9, <1>10 DEF IInv

-----------------------------------------------------------------------------
\* The block ConnectTip connects.
LEMMA NextBlock ==
    ASSUME IInv, target # -1, OnChain(tip, target),
           NEW b, b = Branch[target][Height(tip) + 1]
    PROVE  /\ b \in Blocks /\ b \in Nodes /\ Parent[b] = tip /\ Height(b) = Height(tip) + 1
           /\ AllOn(Known(record), b) /\ (b # target => ~OnChain(target, b))
  <1> DEFINE h == Height(tip)
             H == Height(target)
  <1>1. /\ tip \in Nodes /\ target \in Blocks /\ target \in Nodes
        /\ AllOn(Known(record), target) /\ ~OnChain(target, tip)
    BY Stands, Numbered DEF IInv, Typed, Recorded
  <1>2. h \in Nat /\ H \in Nat /\ h <= H /\ tip = Anc(target, h)
    BY <1>1, Lengths, OnChainIs
  <1>3. target = Anc(target, H)
    BY <1>1, Ancestors
  <1>4. h # H
    <2>1. SUFFICES ASSUME h = H PROVE FALSE
      OBVIOUS
    <2>2. tip = target
      BY <1>2, <1>3, <2>1
    <2>3. OnChain(target, tip)
      BY <1>1, <1>2, <1>3, <2>2, OnChainIs
    <2> QED
      BY <1>1, <2>3
  <1> HIDE DEF h, H
  <1>5. PICK k : k = h + 1
    OBVIOUS
  <1>6. k \in 1..H /\ k \in 0..H /\ k - 1 = h /\ k # 0
    BY <1>2, <1>4, <1>5
  <1>7. b = Anc(target, k)
    BY <1>5, <1>6 DEF Anc, h
  <1>8. b \in Blocks /\ b \in Nodes /\ Parent[b] = tip /\ Height(b) = k
    BY <1>1, <1>2, <1>6, <1>7, Ancestors, Numbered DEF H
  <1>9. AllOn(Known(record), b)
    BY <1>1, <1>6, <1>7, AllOnIs DEF H
  <1>10. ASSUME OnChain(target, b) PROVE b = target
    <2>1. H <= k
      BY <1>1, <1>8, <1>10, OnChainIs DEF H
    <2>2. H = k
      BY <1>2, <1>6, <2>1
    <2> QED
      BY <1>3, <1>7, <2>2
  <1> QED
    BY <1>5, <1>8, <1>9, <1>10 DEF h

\* ConnectTip asks what the rules of the branch ask.
LEMMA Rules ==
    ASSUME IInv, job = NoJob, NEW b \in Blocks, Parent[b] = tip
    PROVE  CanMine(miner[b], ClearedCount) /\ Acceptable(<<>>, grant[b]) <=> Valid(b)
  <1>1. /\ Standing /\ Contents /\ tip \in Nodes /\ rows = Ledger[tip] /\ Base = rows
        /\ m_Block = Height(tip) /\ Height(tip) \in Nat
    BY Stands
  <1>2. Height(b) = Height(tip) + 1 /\ miner[b] \in Addresses
    BY <1>1, Lengths, ContentsOf
  <1>3. ASSUME NEW k \in PermKeys PROVE Held(<<>>, k) = After[tip].held[k]
    BY <1>1, <1>3, HeldIs, OverEmpty, LedgerGives
  <1>4. ASSUME NEW k \in PermKeys
        PROVE  GetPermission(<<>>, k) <=> InForce(After[tip].held[k], Height(b))
    BY <1>1, <1>2, <1>3 DEF GetPermission
  <1>5. LastMined(miner[b]) = After[tip].last[miner[b]]
    BY <1>1, <1>2, LedgerRowIs, LedgerGives DEF LastMined
  <1>6. ClearedCount = Cardinality(Miners(tip))
    BY <1>1, ClearedCountIs, MinersCounted
  <1>7. GetPermission(<<>>, <<miner[b], "mine">>) <=> miner[b] \in Miners(tip)
    <2>1. <<miner[b], "mine">> \in PermKeys
      BY <1>2 DEF PermKeys, Types
    <2>2. miner[b] \in Miners(tip) <=> InForce(After[tip].held[<<miner[b], "mine">>], Height(b))
      BY <1>2 DEF Miners
    <2> QED
      BY <1>4, <2>1, <2>2
  <1>8. Acceptable(<<>>, grant[b]) <=>
            (grant[b] # NoGrant => InForce(After[tip].held[<<grant[b].by, "admin">>], Height(b)))
    <2>1. grant[b] # NoGrant => <<grant[b].by, "admin">> \in PermKeys
      BY <1>1, ContentsOf DEF PermKeys, Types
    <2> QED
      BY <1>4, <2>1 DEF Acceptable
  <1>9. m_Block + 1 = Height(b)
    BY <1>1, <1>2
  <1> QED
    BY <1>5, <1>6, <1>7, <1>8, <1>9 DEF CanMine, Valid

\* The last row of a block holds the number of miners after it.
LEMMA LastRowIs ==
    ASSUME Contents, NEW s \in Seq(Row), NEW b \in Blocks, NEW t, t = BlockRows(s, b)
    PROVE  t[Len(t)].range[1] = Count(<<>>, t, Height(b))
  <1> DEFINE h == Height(b)
  <1>1. PICK g \in Seq(Row), n \in Nat :
            /\ MinerRow(b) \in Row /\ IndexRow(h, n) \in Row
            /\ t = Append(Append(g, MinerRow(b)), IndexRow(h, n))
    BY BlockRowsIs
  <1> DEFINE q == Append(g, MinerRow(b))
             r == IndexRow(h, n)
  <1>2. q \in Seq(Row)
    BY <1>1, AppendProperties
  <1>3. r \in Row /\ r.key = <<h, "index">> /\ r.range = <<n, n>> /\ t = Append(q, r)
    BY <1>1 DEF IndexRow
  <1> HIDE DEF q, r
  <1>4. t[Len(t)] = r
    BY <1>2, <1>3, AppendProperties
  <1>5. Seen(t, <<h, "index">>) = r.range
    <2> DEFINE k == <<h, "index">>
    <2>1. r.key = k
      BY <1>3
    <2> HIDE DEF k
    <2>2. Seen(Append(q, r), k) = r.range
      BY <1>2, <1>3, <2>1, SeenAppend
    <2> QED
      BY <1>3, <2>2 DEF k
  <1>6. Seen(t, <<h, "index">>)[1] = Count(<<>>, t, h)
    BY BlockAdds DEF Gives
  <1> QED
    BY <1>4, <1>5, <1>6

-----------------------------------------------------------------------------
LEMMA RejectKeeps ==
    ASSUME IInv, job = NoJob,
           UNCHANGED <<miner, grant, passed, record, tip, rows, m_Block, fork, job>>,
           target' = -1, m_Cleared' = ClearedCount,
           \/ pool' = <<>> /\ m_MinerCount' = ClearedCount
           \/ pool' = pool /\ m_MinerCount' = m_MinerCount
    PROVE  IInv'
  <1>1. ClearedCount = Count(<<>>, rows, Height(tip)) /\ Counts(<<>>, ClearedCount, ClearedCount)
    BY ClearedCountIs
  <1>2. pool \in Seq(Row) /\ Counts(pool, m_MinerCount, m_Cleared)
    BY IdleKept
  <1>3. Counts(pool', m_MinerCount', m_Cleared') /\ pool' \in Seq(Row)
    BY <1>1, <1>2, EmptySeq DEF Counts
  <1>4. IdleTo(pool', m_MinerCount', m_Cleared', target', passed')
    BY <1>3, IdleKept DEF IdleTo
  <1> QED
    BY <1>4, IdleStep

LEMMA ConnectTipKeeps ==
    ASSUME IInv, ConnectTip
    PROVE  IInv'
  <1> DEFINE b == Branch[target][Height(tip) + 1]
             n == ClearedCount
             new == BlockRows(rows, b)
             ok == CanMine(miner[b], n) /\ Acceptable(<<>>, grant[b])
  <1>1. job = NoJob /\ target # -1 /\ OnChain(tip, target)
        /\ UNCHANGED <<miner, grant, passed, fork, job>>
    BY DEF ConnectTip
  <1>2. CASE ~ok
    <2>1. /\ UNCHANGED <<rows, m_Block, record, tip>> /\ target' = -1 /\ m_Cleared' = n
          /\ pool' = IF CanMine(miner[b], n) THEN <<>> ELSE pool
          /\ m_MinerCount' = IF CanMine(miner[b], n) THEN n ELSE m_MinerCount
      BY <1>2 DEF ConnectTip
    <2> QED
      BY <1>1, <2>1, RejectKeeps
  <1>3. CASE ok
    <2>1. /\ rows' = new /\ pool' = <<>> /\ m_Block' = m_Block + 1
          /\ m_MinerCount' = new[Len(new)].range[1]
          /\ record' = [record EXCEPT ![b] =
                           [known |-> TRUE, count |-> m_MinerCount', grants |-> @.grants]]
          /\ tip' = b /\ target' \in IF b = target THEN {-1} ELSE {target, -1}
      BY <1>3 DEF ConnectTip
    <2>2. /\ b \in Blocks /\ b \in Nodes /\ Parent[b] = tip /\ Height(b) = Height(tip) + 1
          /\ AllOn(Known(record), b) /\ (b # target => ~OnChain(target, b))
      BY <1>1, NextBlock
    <2>3. Valid(b)
      BY <1>1, <1>3, <2>2, Rules
    <2> HIDE DEF b
    <2>4. /\ Contents /\ tip \in Nodes /\ rows = Ledger[tip] /\ rows \in Seq(Row)
          /\ m_Block = Height(tip)
      BY <1>1, Stands
    <2>5. new = Ledger[b]
      BY <2>2, <2>4, LedgerIs
    <2>6. m_MinerCount' = Count(<<>>, Ledger[b], Height(b))
      BY <2>1, <2>2, <2>4, <2>5, LastRowIs
    <2>7. m_MinerCount' = Cardinality(Miners(b)) /\ m_MinerCount' \in Nat
      BY <2>2, <2>4, <2>6, MinersCounted, CountType
    <2>8. RecordsAre(record')
      <3>1. RecordsAre(record)
        BY RecordsStay
      <3>2. record[b].known
        BY <2>2, AllOnIs DEF Known
      <3>3. record[b] \in Records
        BY <2>2, <3>1 DEF RecordsAre
      <3>4. \A c \in Blocks : c # b => record'[c] = record[c]
        BY <2>1, <3>1 DEF RecordsAre
      <3>5. record'[b] = [known |-> TRUE, count |-> m_MinerCount', grants |-> record[b].grants]
        BY <2>1, <2>2, <3>1 DEF RecordsAre
      <3>6. record' \in [Blocks -> Records]
        BY <2>1, <2>2, <2>7, <3>1, <3>3 DEF RecordsAre, Records
      <3>7. \A c \in Blocks : record'[c].known <=> record[c].known
        BY <3>2, <3>4, <3>5
      <3>8. Known(record') = Known(record)
        BY <3>7 DEF Known
      <3>9. ASSUME NEW c \in Blocks, record'[c].known
            PROVE  record'[c].count = Cardinality(Miners(c)) /\ record'[c].grants = (grant[c] # NoGrant)
        <4>1. CASE c = b
          BY <2>7, <3>1, <3>2, <3>5, <4>1 DEF RecordsAre
        <4>2. CASE c # b
          BY <3>1, <3>4, <3>9, <4>2 DEF RecordsAre
        <4> QED
          BY <4>1, <4>2
      <3> QED
        BY <3>6, <3>8, <3>9 DEF RecordsAre
    <2>9. AllOn(Good, b)
      <3>1. AllOn(Good, tip)
        BY DEF IInv
      <3>2. b \in Good
        BY <2>2, <2>3 DEF Good
      <3> QED
        BY <2>2, <3>1, <3>2, AllOnIs
    <2>10. target' = -1 \/ (target' \in Blocks /\ AllOn(Known(record), target') /\ ~OnChain(target', b))
      BY <1>1, <2>1, <2>2, IdleKept
    <2>11. ChainTo(b, pool', m_MinerCount', m_Cleared', target')
      BY <2>1, <2>2, <2>6, <2>9, <2>10, EmptySeq DEF ChainTo
    <2>12. m_Block' = Height(b) /\ rows' = Ledger[b] /\ tip' = b
      BY <2>1, <2>2, <2>4, <2>5
    <2> QED
      BY <1>1, <2>2, <2>8, <2>11, <2>12, ChainStep
  <1> QED
    BY <1>2, <1>3

LEMMA DisconnectTipKeeps ==
    ASSUME IInv, DisconnectTip
    PROVE  IInv'
  <1> DEFINE h == Height(tip) - 1
             c == Parent[tip]
             left == RowsUpTo(h)
             held(k) == RangeOf(left, LastOf(left, k))
             n == Cardinality({a \in Addresses : InForce(held(<<a, "mine">>), h + 1)})
             g == grant[tip]
  <1>1. /\ job = NoJob /\ target # -1 /\ ~OnChain(tip, target)
        /\ rows' = left /\ m_Block' = h /\ m_Cleared' = n /\ tip' = c
        /\ UNCHANGED <<miner, grant, passed, record, target, fork, job>>
    BY DEF DisconnectTip
  <1>2. \/ pool' = <<>> /\ m_MinerCount' = n
        \/ /\ g # NoGrant
           /\ pool' = Granted(<<>>, g, h + 1)
           /\ m_MinerCount' = n + (IF g.key[2] # "mine" THEN 0
                                   ELSE (IF InForce(g.range, h + 1) THEN 1 ELSE 0)
                                      - (IF InForce(held(g.key), h + 1) THEN 1 ELSE 0))
    BY DEF DisconnectTip
  <1>3. /\ Contents /\ tip \in Nodes /\ rows = Ledger[tip] /\ OnLedger
    BY Stands DEF OnLedger
  <1>4. target \in Blocks /\ target \in Nodes /\ AllOn(Known(record), target) /\ ~OnChain(target, tip)
    BY <1>1, IdleKept, Numbered
  <1>5. tip \in Blocks
    <2>1. tip # 0
      BY <1>1 DEF OnChain
    <2> QED
      BY <1>3, <2>1, Numbered
  <1>6. /\ c \in Nodes /\ Height(tip) = Height(c) + 1 /\ Height(c) \in Nat
        /\ h = Height(c) /\ h \in 0..Height(tip) /\ Height(tip) \in Nat
    BY <1>5, Numbered, Lengths
  <1>7. Anc(tip, h) = c
    <2>1. Height(tip) \in 1..Height(tip)
      BY <1>6
    <2> QED
      BY <1>3, <2>1, Ancestors
  <1>8. left = Ledger[c]
    BY <1>3, <1>6, <1>7, RowsUpToIs
  <1>9. \A k : held(k) = Seen(Ledger[c], k)
    BY <1>8 DEF Seen
  <1>10. n = Count(<<>>, Ledger[c], h)
    <2>1. {a \in Addresses : InForce(held(<<a, "mine">>), h + 1)} =
          {a \in Addresses : InForce(Over(<<>>, Ledger[c], <<a, "mine">>), h + 1)}
      BY <1>9, OverEmpty
    <2> QED
      BY <2>1 DEF Count
  <1>11. Ledger[c] \in Seq(Row)
    BY <1>3, <1>6, LedgerIs
  <1>12. ASSUME g # NoGrant, pool' = Granted(<<>>, g, h + 1),
                m_MinerCount' = n + (IF g.key[2] # "mine" THEN 0
                                     ELSE (IF InForce(g.range, h + 1) THEN 1 ELSE 0)
                                        - (IF InForce(held(g.key), h + 1) THEN 1 ELSE 0))
         PROVE  pool' \in Seq(Row) /\ m_MinerCount' = Count(pool', Ledger[c], h)
    <2>1. g \in Grants /\ g \in Grants \cup {NoGrant}
      BY <1>3, <1>5, <1>12, ContentsOf
    <2>2. <<>> \in Seq(Row) /\ h \in Nat /\ h + 1 \in Nat
      BY <1>6, EmptySeq
    <2>3. m_MinerCount' = n + Step(<<>>, Ledger[c], g, h)
      BY <1>9, <1>12, OverEmpty DEF Step, Bit
    <2> DEFINE s == Ledger[c]
    <2> HIDE DEF h, c, g, n, left, s
    <2>4. pool' \in Seq(Row) /\ pool' = Append(<<>>, GrantRow(g, h + 1))
      BY <1>12, <2>1, <2>2, GrantedIs
    <2>5. Count(Append(<<>>, GrantRow(g, h + 1)), s, h) = Count(<<>>, s, h) + Step(<<>>, s, g, h)
      BY <1>11, <2>1, <2>2, CountGrant DEF s
    <2> QED
      BY <1>10, <2>3, <2>4, <2>5 DEF s
  <1>13. pool' \in Seq(Row) /\ m_MinerCount' = Count(pool', Ledger[c], h)
    <2>1. CASE pool' = <<>> /\ m_MinerCount' = n
      BY <1>10, <2>1, EmptySeq
    <2> QED
      BY <1>2, <1>12, <2>1
  <1> HIDE DEF h, n, left, g
  <1>14. AllOn(Known(record), c) /\ AllOn(Good, c)
    <2>1. AllOn(Known(record), tip) /\ AllOn(Good, tip)
      BY DEF IInv, Recorded
    <2> QED
      BY <1>3, <1>5, <2>1, AllOnIs
  <1>15. ~OnChain(target, c)
    <2>1. SUFFICES ASSUME OnChain(target, c) PROVE FALSE
      OBVIOUS
    <2>2. Height(target) <= Height(c) /\ target = Anc(c, Height(target)) /\ Height(target) \in Nat
      BY <1>4, <1>6, <2>1, OnChainIs, Lengths
    <2>3. Height(target) \in 0..h /\ Height(target) <= Height(tip)
      BY <1>6, <2>2
    <2>4. Anc(c, Height(target)) = Anc(tip, Height(target))
      BY <1>3, <1>6, <1>7, <2>3, Ancestors
    <2>5. OnChain(target, tip)
      BY <1>3, <1>4, <2>2, <2>3, <2>4, OnChainIs
    <2> QED
      BY <1>4, <2>5
  <1>16. ChainTo(c, pool', m_MinerCount', m_Cleared', target')
    BY <1>1, <1>4, <1>6, <1>10, <1>13, <1>14, <1>15 DEF ChainTo
  <1>17. RecordsAre(record')
    BY <1>1, RecordsStay
  <1> QED
    BY <1>1, <1>6, <1>8, <1>16, <1>17, ChainStep

-----------------------------------------------------------------------------
(***************************************************************************)
(* The steps of a check.                                                   *)
(***************************************************************************)

Jobs == [new : Blocks, pos : Nat, last : Nat, outcome : Outcomes]

\* A call of the check: what it is about, what it stands on, what is put back.
JobTo(j, f, cp, cleared) ==
    /\ j \in Jobs /\ f \in 0..Height(tip) /\ f < j.pos /\ j.pos <= Height(j.new)
    /\ Anc(j.new, f) = Anc(tip, f)
    /\ cp.pool \in Seq(Row) /\ cp.block = Height(tip) /\ Counts(cp.pool, cp.count, cleared)

LastTo(j, f) == IF j.last = 0 THEN After[Anc(j.new, f)].last[miner[j.new]] ELSE j.last

\* What the object shows is what the branch gives up to block c.
ShowsTo(c, f, block, p, cleared, n) ==
    /\ block = Height(c)
    /\ \A k \in PermKeys : Over(p, Ledger[Anc(tip, f)], k) = After[c].held[k]
    /\ cleared = Cardinality(Miners(c)) /\ n = Cardinality(Miners(c))

BranchTo(j, f, rec, block, p, cleared, n) ==
    j.outcome = "none" =>
        LET c == Anc(j.new, j.pos - 1)
        IN  /\ ShowsTo(c, f, block, p, cleared, n) /\ AllOn(Known(rec), c)
            /\ LastTo(j, f) = After[c].last[miner[j.new]]

VerdictTo(j) ==
    j.outcome \in {"accept", "reject"} /\ Branch[j.new][j.pos] = j.new =>
        (j.outcome = "accept" <=> Valid(j.new))

RecordsTo(rec, pass) ==
    /\ rec \in [Blocks -> Records] /\ Known(record) \subseteq Known(rec)
    /\ \A b \in Blocks : rec[b].known => /\ rec[b].count = Cardinality(Miners(b))
                                         /\ rec[b].grants = (grant[b] # NoGrant)
    /\ pass \subseteq Blocks /\ \A b \in pass : AllOn(Known(rec), b)

LEMMA JobStep ==
    ASSUME IInv, UNCHANGED <<miner, grant, tip, rows, target>>, pool' \in Seq(Row),
           RecordsTo(record', passed'),
           JobTo(job', fork', copied', m_Cleared'),
           BranchTo(job', fork', record', m_Block', pool', m_ClearedForVerification', m_MinerCount'),
           VerdictTo(job')
    PROVE  IInv'
  <1>1. /\ After' = After /\ Ledger' = Ledger /\ Contents' = Contents /\ Good' = Good
        /\ (\A b : Miners(b)' = Miners(b)) /\ (\A b : Valid(b)' = Valid(b))
    BY Fixed
  <1>2. OnLedger'
    BY <1>1 DEF IInv, Typed, OnLedger
  <1>3. Typed'
    BY <1>2 DEF IInv, Typed, RecordsTo
  <1>4. RecordsComplete'
    BY <1>1 DEF RecordsTo, RecordsComplete
  <1>5. Known(record)' = Known(record')
    BY DEF Known
  <1>6. Known(record) \subseteq Known(record')
    BY DEF RecordsTo
  <1>7. AllOn(Known(record'), tip) /\ (target # -1 => AllOn(Known(record'), target))
    BY <1>6, AllOnMore DEF IInv, Recorded
  <1>8. Recorded'
    BY <1>4, <1>5, <1>7 DEF Recorded, RecordsTo, AllOn
  <1>9. job'.new \in Blocks /\ job'.new # -1
    BY Numbered DEF JobTo, Jobs
  <1>10. job' # NoJob
    BY <1>9 DEF NoJob
  <1>11. AtRest'
    BY <1>10 DEF AtRest
  <1>12. Moved'
    BY DEF Moved, JobTo, Jobs, Counts, Anc
  <1>13. fork' # -1
    <2>1. tip \in Nodes /\ Height(tip) \in Nat
      BY Stands
    <2> QED
      BY <2>1 DEF JobTo
  <1>14. Base' = Ledger[Anc(tip, fork')]
    BY <1>1, <1>13 DEF Base, Anc
  <1>15. ASSUME job'.outcome = "none" PROVE OnBranch'
    <2> DEFINE d == Anc(job.new, job.pos - 1)
    <2>1. d' = Anc(job'.new, job'.pos - 1)
      BY DEF Anc
    <2>2. /\ ShowsTo(d', fork', m_Block', pool', m_ClearedForVerification', m_MinerCount')
          /\ AllOn(Known(record'), d') /\ LastTo(job', fork') = After[d'].last[miner[job'.new]]
      BY <1>15, <2>1 DEF BranchTo
    <2>3. LastSeen' = LastTo(job', fork')
      BY <1>1 DEF LastSeen, LastTo, Anc
    <2> HIDE DEF d
    <2>4. Shows(d)'
      BY <1>1, <1>14, <2>2 DEF Shows, ShowsTo, Over, Seen, LastOf, RangeOf
    <2>5. AllOn(Known(record), d)'
      BY <1>5, <2>2 DEF AllOn
    <2> QED
      BY <1>1, <2>2, <2>3, <2>4, <2>5 DEF OnBranch, d
  <1>16. OnBranch'
    BY <1>15 DEF OnBranch
  <1>17. Verdict'
    BY <1>1 DEF Verdict, VerdictTo, At
  <1>18. (target # -1 => ~OnChain(target, tip))' /\ AllOn(Good, tip)'
    BY <1>1 DEF IInv, AllOn
  <1> QED
    BY <1>3, <1>8, <1>11, <1>12, <1>16, <1>17, <1>18 DEF IInv

-----------------------------------------------------------------------------
LEMMA MovedIs ==
    ASSUME IInv, job = NoJob, NEW b \in Blocks, ~OnChain(b, tip), MoveTo(ForkHeight(b)),
           UNCHANGED <<miner, grant, tip, rows, target, record, passed>>,
           job' = [new |-> b, pos |-> ForkHeight(b) + 1, last |-> 0, outcome |-> "none"]
    PROVE  IInv'
  <1> DEFINE h == ForkHeight(b)
             c == Anc(b, h)
             counts == IF h = m_Block THEN (IF pool = <<>> THEN m_MinerCount ELSE m_Cleared)
                       ELSE RangeOf(rows, LastOf(rows, <<h, "index">>))[1]
  <1>1. /\ copied' = [pool |-> pool, block |-> m_Block, count |-> m_MinerCount]
        /\ pool' = <<>> /\ m_Block' = h /\ fork' = h
        /\ m_MinerCount' = counts /\ m_ClearedForVerification' = counts
        /\ m_Cleared' = m_Cleared
    BY DEF MoveTo
  <1>2. /\ Contents /\ tip \in Nodes /\ rows = Ledger[tip] /\ Height(tip) \in Nat
        /\ m_Block = Height(tip) /\ b \in Nodes /\ Height(b) \in Nat
    BY Stands, Numbered, Lengths
  <1>3. h \in 0..(Height(b) - 1) /\ h \in 0..Height(tip) /\ c = Anc(tip, h)
    BY <1>2, ForkPoint
  <1>4. c \in Nodes /\ Height(c) = h /\ h \in Nat
    BY <1>2, <1>3, Ancestors
  <1>5. pool \in Seq(Row) /\ Counts(pool, m_MinerCount, m_Cleared)
    BY IdleKept
  <1>6. counts = Cardinality(Miners(c))
    <2>1. CASE h = m_Block
      <3>1. c = tip
        BY <1>2, <1>3, <2>1, Ancestors
      <3>2. counts = Count(<<>>, rows, Height(tip))
        BY <1>5, <2>1 DEF Counts
      <3> QED
        BY <1>2, <3>1, <3>2, MinersCounted
    <2>2. CASE h # m_Block
      <3>1. Seen(Ledger[tip], <<h, "index">>)[1] = Cardinality(Miners(Anc(tip, h)))
        <4> HIDE DEF h
        <4> QED
          BY <1>2, <1>3, IndexGives
      <3> QED
        BY <1>2, <1>3, <2>2, <3>1 DEF Seen
    <2> QED
      BY <2>1, <2>2
  <1> HIDE DEF counts
  <1>7. pool' \in Seq(Row)
    BY <1>1, EmptySeq
  <1>8. RecordsTo(record', passed')
    BY RecordsStay, IdleKept DEF RecordsTo, RecordsAre
  <1>9. job' \in Jobs
    BY <1>4 DEF Jobs, Outcomes
  <1>10. JobTo(job', fork', copied', m_Cleared')
    BY <1>1, <1>2, <1>3, <1>4, <1>5, <1>9 DEF JobTo, Counts
  <1>11. Anc(job'.new, job'.pos - 1) = c
    <2>1. job'.new = b /\ job'.pos - 1 = h
      BY <1>4
    <2> QED
      BY <2>1
  <1>12. ShowsTo(c, fork', m_Block', pool', m_ClearedForVerification', m_MinerCount')
    <2>1. \A k \in PermKeys : Over(<<>>, Ledger[Anc(tip, h)], k) = After[c].held[k]
      BY <1>2, <1>3, <1>4, OverEmpty, LedgerGives
    <2> QED
      BY <1>1, <1>4, <1>6, <2>1 DEF ShowsTo
  <1>13. AllOn(Known(record'), c)
    <2>1. AllOn(Known(record), tip)
      BY DEF IInv, Recorded
    <2> QED
      BY <1>2, <1>3, <2>1, AllOnIs DEF Known
  <1>14. LastTo(job', fork') = After[c].last[miner[job'.new]]
    BY <1>1 DEF LastTo
  <1>15. BranchTo(job', fork', record', m_Block', pool', m_ClearedForVerification', m_MinerCount')
    BY <1>11, <1>12, <1>13, <1>14 DEF BranchTo
  <1>16. VerdictTo(job')
    BY DEF VerdictTo
  <1> QED
    BY <1>7, <1>8, <1>10, <1>15, <1>16, JobStep

LEMMA VerifyKeeps ==
    ASSUME IInv, job = NoJob, NEW b \in Blocks, VerifyBlockMiner(b),
           UNCHANGED <<miner, grant, record, tip, target>>
    PROVE  IInv'
  <1>1. CASE OnChain(b, tip)
    <2>1. passed' = passed \cup {b} /\ UNCHANGED <<object, job>>
      BY <1>1 DEF VerifyBlockMiner
    <2>2. UNCHANGED <<rows, m_Block, fork, pool, m_MinerCount, m_Cleared>>
      BY <2>1 DEF object
    <2>3. IdleTo(pool', m_MinerCount', m_Cleared', target', passed')
      BY <1>1, <2>1, <2>2, IdleKept, ActiveKnown DEF IdleTo
    <2> QED
      BY <2>1, <2>2, <2>3, IdleStep
  <1>2. CASE ~OnChain(b, tip) /\ UNCHANGED <<object, job>>
    <2>1. UNCHANGED <<rows, m_Block, fork, pool, m_MinerCount, m_Cleared>> /\ passed' = passed
      BY <1>2 DEF object, VerifyBlockMiner
    <2>2. IdleTo(pool', m_MinerCount', m_Cleared', target', passed')
      BY <2>1, IdleKept DEF IdleTo
    <2> QED
      BY <1>2, <2>1, <2>2, IdleStep
  <1>3. CASE ~OnChain(b, tip) /\ ~UNCHANGED <<object, job>>
    <2>1. /\ job' = [new |-> b, pos |-> ForkHeight(b) + 1, last |-> 0, outcome |-> "none"]
          /\ MoveTo(ForkHeight(b)) /\ passed' = passed
      BY <1>3 DEF VerifyBlockMiner
    <2>2. rows' = rows
      BY <2>1 DEF MoveTo
    <2> QED
      BY <1>3, <2>1, <2>2, MovedIs
  <1> QED
    BY <1>1, <1>2, <1>3

LEMMA CallersKeep ==
    ASSUME IInv, NEW b \in Blocks, AcceptBlock(b) \/ CheckCandidate(b)
    PROVE  IInv'
  <1>1. /\ job = NoJob /\ VerifyBlockMiner(b)
        /\ UNCHANGED <<miner, grant, record, tip, target>>
    BY DEF AcceptBlock, CheckCandidate
  <1> QED
    BY <1>1, VerifyKeeps

\* The call ends, and the object is put back.
LEMMA RestoreKeeps ==
    ASSUME IInv, RestoreAfterMinerVerification
    PROVE  IInv'
  <1>1. /\ job # NoJob /\ job' = NoJob /\ fork' = -1
        /\ pool' = copied.pool /\ m_Block' = copied.block /\ m_MinerCount' = copied.count
        /\ UNCHANGED <<rows, m_Cleared, miner, grant, passed, record, tip, target>>
    BY DEF RestoreAfterMinerVerification
  <1>2. copied.pool \in Seq(Row) /\ copied.block = Height(tip)
        /\ Counts(copied.pool, copied.count, m_Cleared)
    BY <1>1 DEF IInv, Moved
  <1>3. /\ After' = After /\ Ledger' = Ledger /\ Contents' = Contents /\ Good' = Good
        /\ \A b : Miners(b)' = Miners(b)
    BY <1>1, Fixed
  <1>4. Typed'
    BY <1>1, <1>2, <1>3 DEF IInv, Typed, OnLedger
  <1>5. RecordsComplete'
    BY <1>1, <1>3 DEF IInv, Recorded, RecordsComplete
  <1>6. Recorded'
    BY <1>1, <1>5 DEF IInv, Recorded, AllOn, Known
  <1>7. AtRest'
    BY <1>1, <1>2 DEF AtRest, Counts
  <1>8. Moved' /\ OnBranch' /\ Verdict'
    BY <1>1 DEF Moved, OnBranch, Verdict, NoJob
  <1>9. (target # -1 => ~OnChain(target, tip))' /\ AllOn(Good, tip)'
    BY <1>1, <1>3 DEF IInv, AllOn
  <1> QED
    BY <1>4, <1>6, <1>7, <1>8, <1>9 DEF IInv

-----------------------------------------------------------------------------
\* Where a running check stands: At is the next block of its branch.
Running ==
    /\ job \in Jobs /\ At \in Blocks /\ At \in Nodes /\ Parent[At] = Anc(job.new, job.pos - 1)
    /\ Height(At) = job.pos /\ m_Block + 1 = job.pos /\ job.pos \in Nat \ {0}
    /\ Anc(job.new, job.pos) = At
    /\ fork \in 0..Height(tip) /\ Anc(job.new, fork) = Anc(tip, fork)
    /\ Shows(Parent[At]) /\ AllOn(Known(record), Parent[At])
    /\ LastSeen = After[Parent[At]].last[miner[job.new]]
    /\ Base = Ledger[Anc(tip, fork)]

LEMMA RunningIs ==
    ASSUME IInv, job # NoJob, job.outcome = "none"
    PROVE  Running /\ (At # job.new => job.pos + 1 <= Height(job.new))
  <1>1. /\ job \in Jobs /\ fork \in 0..Height(tip) /\ fork < job.pos /\ job.pos <= Height(job.new)
        /\ Anc(job.new, fork) = Anc(tip, fork)
    BY DEF IInv, Moved, Jobs
  <1>2. Height(tip) \in Nat
    BY Stands
  <1>3. /\ job.new \in Nodes /\ job.new \in Blocks /\ job.pos \in Nat
        /\ Height(job.new) \in Nat /\ fork \in Nat /\ fork # -1
    BY <1>1, <1>2, Numbered, Lengths DEF Jobs
  <1>4. job.pos \in 1..Height(job.new) /\ job.pos # 0
    BY <1>1, <1>3
  <1>5. At = Anc(job.new, job.pos)
    BY <1>4 DEF At, Anc
  <1>6. At \in Blocks /\ At \in Nodes /\ Parent[At] = Anc(job.new, job.pos - 1) /\ Height(At) = job.pos
    <2>1. job.pos \in 0..Height(job.new)
      BY <1>4
    <2> QED
      BY <1>3, <1>4, <1>5, <2>1, Ancestors, Numbered
  <1>7. /\ Shows(Parent[At]) /\ AllOn(Known(record), Parent[At])
        /\ LastSeen = After[Parent[At]].last[miner[job.new]]
    BY <1>6 DEF IInv, OnBranch
  <1>8. Parent[At] \in Nodes /\ Height(Parent[At]) \in Nat /\ Height(At) = Height(Parent[At]) + 1
    BY <1>6, Numbered, Lengths
  <1>9. m_Block + 1 = job.pos
    BY <1>6, <1>7, <1>8 DEF Shows
  <1>10. Base = Ledger[Anc(tip, fork)]
    BY <1>3 DEF Base
  <1>11. ASSUME At # job.new PROVE job.pos + 1 <= Height(job.new)
    <2>1. job.pos # Height(job.new)
      BY <1>3, <1>5, <1>11, Ancestors
    <2> QED
      BY <1>3, <1>4, <2>1
  <1> QED
    BY <1>1, <1>3, <1>4, <1>5, <1>6, <1>7, <1>9, <1>10, <1>11 DEF Running

\* The object after the grants of the block were replayed.
LEMMA Replayed ==
    ASSUME IInv, Running, NEW p, p = Granted(pool, grant[At], m_Block + 1)
    PROVE  /\ p \in Seq(Row)
           /\ \A k \in PermKeys : Over(p, Base, k) = After[At].held[k]
           /\ UpdateCounts(p, m_Block + 1) = Cardinality(Miners(At))
  <1> DEFINE b == At
             c == Parent[b]
             g == grant[b]
             r == GrantRow(g, m_Block + 1)
  <1>1. Standing /\ Contents /\ pool \in Seq(Row)
    BY Stands DEF IInv, Typed
  <1>2. /\ b \in Blocks /\ c \in Nodes /\ Height(b) = m_Block + 1 /\ m_Block + 1 \in Nat
        /\ \A k \in PermKeys : Over(pool, Base, k) = After[c].held[k]
    BY Numbered DEF Running, Shows
  <1>3. After[b] = AfterBlock(After[c], b) /\ After[c] \in States
    BY <1>1, <1>2, AfterIs
  <1>4. g \in Grants \cup {NoGrant} /\ (g # NoGrant => g.key \in PermKeys)
    BY <1>1, <1>2, ContentsOf
  <1> HIDE DEF b, c, g
  <1>5. /\ p \in Seq(Row) /\ (g = NoGrant => p = pool)
        /\ (g # NoGrant => p = Append(pool, r) /\ r \in Row)
    <2>1. p = Granted(pool, g, m_Block + 1)
      BY DEF g, b
    <2> QED
      BY <1>1, <1>2, <1>4, <2>1, GrantedIs
  <1>6. ASSUME NEW k \in PermKeys PROVE Over(p, Base, k) = After[b].held[k]
    <2>1. CASE g = NoGrant
      BY <1>2, <1>3, <1>5, <2>1 DEF AfterBlock, g
    <2>2. CASE g # NoGrant /\ g.key = k
      <3>1. r \in Row /\ r.key = k /\ r.range = g.range /\ p = Append(pool, r)
        BY <1>5, <2>2 DEF GrantRow
      <3>2. After[b].held[k] = g.range
        BY <1>3, <2>2 DEF AfterBlock, States, g
      <3> HIDE DEF r
      <3>3. Over(Append(pool, r), Base, k) = r.range
        BY <1>1, <3>1, OverAppend
      <3> QED
        BY <3>1, <3>2, <3>3
    <2>3. CASE g # NoGrant /\ g.key # k
      <3>1. r \in Row /\ r.key # k /\ p = Append(pool, r)
        BY <1>5, <2>3 DEF GrantRow
      <3>2. After[b].held[k] = After[c].held[k]
        BY <1>3, <2>3 DEF AfterBlock, States, g
      <3> HIDE DEF r
      <3>3. Over(Append(pool, r), Base, k) = Over(pool, Base, k)
        BY <1>1, <3>1, OverAppend
      <3> QED
        BY <1>2, <3>1, <3>2, <3>3
    <2> QED
      BY <2>1, <2>2, <2>3
  <1>7. UpdateCounts(p, m_Block + 1) = Cardinality(Miners(b))
    <2>1. UpdateCounts(p, m_Block + 1) = Count(p, Base, Height(b))
      BY <1>1, <1>2, HeldIs
    <2>2. \A a \in Addresses : Over(p, Base, <<a, "mine">>) = After[b].held[<<a, "mine">>]
      <3>1. \A a \in Addresses : <<a, "mine">> \in PermKeys
        BY DEF PermKeys, Types
      <3> QED
        BY <1>6, <3>1
    <2>3. {a \in Addresses : InForce(Over(p, Base, <<a, "mine">>), Height(b) + 1)} = Miners(b)
      BY <2>2 DEF Miners
    <2> QED
      BY <2>1, <2>3 DEF Count
  <1> QED
    BY <1>5, <1>6, <1>7 DEF b

\* last_after_fork after the block.
LEMMA LastAfterIs ==
    ASSUME IInv, Running, NEW j \in Jobs, j.new = job.new, j.last = LastAfterFork
    PROVE  LastTo(j, fork) = After[At].last[miner[job.new]]
  <1> DEFINE b == At
             c == Parent[b]
             a == miner[job.new]
  <1>1. Contents
    BY Stands
  <1>2. /\ b \in Blocks /\ c \in Nodes /\ Height(b) = job.pos /\ job.pos # 0
        /\ LastSeen = After[c].last[a] /\ job.new \in Blocks
    BY Numbered DEF Running, Jobs
  <1>3. After[b] = AfterBlock(After[c], b) /\ After[c] \in States
    BY <1>1, <1>2, AfterIs
  <1>4. a \in Addresses
    BY <1>1, <1>2, ContentsOf
  <1>5. After[b].last[a] = IF miner[b] = a THEN job.pos ELSE After[c].last[a]
    BY <1>2, <1>3, <1>4 DEF AfterBlock, States
  <1>6. LastAfterFork = IF miner[b] = a THEN job.pos ELSE job.last
    BY DEF LastAfterFork
  <1> HIDE DEF b, c
  <1>7. CASE miner[b] = a
    BY <1>2, <1>5, <1>6, <1>7 DEF LastTo, b
  <1>8. CASE miner[b] # a
    BY <1>2, <1>5, <1>6, <1>8 DEF LastTo, LastSeen, b
  <1> QED
    BY <1>7, <1>8

\* What the check asks about a block is what the rules of its branch ask.
LEMMA BranchRules ==
    ASSUME IInv, Running, At = job.new
    PROVE  CanMineBlockOnFork(miner[At], job.pos, job.last) /\ Acceptable(pool, grant[At])
               <=> Valid(At)
  <1> DEFINE b == At
             c == Parent[b]
             a == miner[b]
  <1>1. Standing /\ Contents /\ tip \in Nodes /\ Height(tip) \in Nat
    BY Stands
  <1>2. /\ b \in Blocks /\ Height(b) = job.pos /\ m_Block + 1 = job.pos /\ Shows(c)
        /\ LastSeen = After[c].last[a] /\ Base = Ledger[Anc(tip, fork)]
        /\ fork \in 0..Height(tip) /\ Anc(job.new, fork) = Anc(tip, fork)
    BY DEF Running
  <1>3. a \in Addresses
    BY <1>1, <1>2, ContentsOf
  <1>4. ASSUME NEW k \in PermKeys
        PROVE  GetPermission(pool, k) <=> InForce(After[c].held[k], Height(b))
    <2>1. Held(pool, k) = After[c].held[k]
      BY <1>1, <1>2, <1>4, HeldIs DEF Shows
    <2> QED
      BY <1>2, <2>1 DEF GetPermission
  <1>5. GetPermission(pool, <<a, "mine">>) <=> a \in Miners(c)
    <2>1. <<a, "mine">> \in PermKeys
      BY <1>3 DEF PermKeys, Types
    <2>2. Height(c) + 1 = Height(b)
      BY <1>2, Lengths
    <2>3. a \in Miners(c) <=> InForce(After[c].held[<<a, "mine">>], Height(b))
      BY <1>3, <2>2 DEF Miners
    <2> QED
      BY <1>4, <2>1, <2>3
  <1>6. Acceptable(pool, grant[b]) <=>
            (grant[b] # NoGrant => InForce(After[c].held[<<grant[b].by, "admin">>], Height(b)))
    <2>1. grant[b] # NoGrant => <<grant[b].by, "admin">> \in PermKeys
      BY <1>1, <1>2, ContentsOf DEF PermKeys, Types
    <2> QED
      BY <1>4, <2>1 DEF Acceptable
  <1>7. LastMined(a) = After[Anc(job.new, fork)].last[a]
    <2>1. Anc(tip, fork) \in Nodes
      BY <1>1, <1>2, Ancestors
    <2> QED
      BY <1>1, <1>2, <1>3, <2>1, LedgerRowIs, LedgerGives DEF LastMined
  <1>8. (IF job.last = 0 THEN LastMined(a) ELSE job.last) = After[c].last[a]
    BY <1>2, <1>7 DEF LastSeen
  <1>9. m_ClearedForVerification = Cardinality(Miners(c))
    BY <1>2 DEF Shows
  <1>10. CanMineBlockOnFork(a, job.pos, job.last) <=>
            /\ GetPermission(pool, <<a, "mine">>)
            /\ ~(After[c].last[a] # 0
                 /\ IsBarredByDiversity(Height(b), After[c].last[a], Cardinality(Miners(c))))
    BY <1>2, <1>8, <1>9 DEF CanMineBlockOnFork
  <1>11. Valid(b) <=>
            /\ a \in Miners(c)
            /\ ~(After[c].last[a] # 0
                 /\ IsBarredByDiversity(Height(b), After[c].last[a], Cardinality(Miners(c))))
            /\ (grant[b] # NoGrant => InForce(After[c].held[<<grant[b].by, "admin">>], Height(b)))
    BY DEF Valid
  <1> HIDE DEF b, c, a
  <1>12. CanMineBlockOnFork(a, job.pos, job.last) /\ Acceptable(pool, grant[b]) <=> Valid(b)
    BY <1>5, <1>6, <1>10, <1>11
  <1> QED
    BY <1>12 DEF a, b

-----------------------------------------------------------------------------
\* Nothing but the outcome changes.
LEMMA EndKeeps ==
    ASSUME IInv, job # NoJob, job.outcome = "none", NEW o \in Outcomes, o # "none", End(o),
           At = job.new => o = "reject" /\ ~Valid(At)
    PROVE  IInv'
  <1>1. job' = [job EXCEPT !.outcome = o] /\ UNCHANGED <<object, index>>
    BY DEF End
  <1>2. /\ UNCHANGED <<rows, pool, m_Block, m_MinerCount, m_Cleared, m_ClearedForVerification,
                       copied, fork>>
        /\ UNCHANGED <<miner, grant, passed, record, tip, target>>
    BY <1>1 DEF object, index
  <1>3. job \in Jobs
    BY DEF IInv, Moved, Jobs
  <1>4. /\ job'.new = job.new /\ job'.pos = job.pos /\ job'.outcome = o /\ job' \in Jobs
    BY <1>1, <1>3 DEF Jobs
  <1>5. pool' \in Seq(Row)
    BY <1>2 DEF IInv, Typed
  <1>6. RecordsTo(record', passed')
    BY <1>2, RecordsStay DEF RecordsTo, RecordsAre, IInv, Typed, Recorded
  <1>7. JobTo(job', fork', copied', m_Cleared')
    BY <1>2, <1>4 DEF IInv, Moved, JobTo
  <1>8. BranchTo(job', fork', record', m_Block', pool', m_ClearedForVerification', m_MinerCount')
    BY <1>4 DEF BranchTo
  <1>9. VerdictTo(job')
    BY <1>4 DEF VerdictTo, At
  <1> QED
    BY <1>2, <1>5, <1>6, <1>7, <1>8, <1>9, JobStep

\* The block At was taken into the object, and the check goes on behind it or ends.
LEMMA Taken ==
    ASSUME IInv, job # NoJob, job.outcome = "none",
           UNCHANGED <<miner, grant, tip, rows, target, m_Cleared, copied, fork>>,
           pool' = Granted(pool, grant[At], m_Block + 1), m_Block' = m_Block + 1,
           m_MinerCount' = Cardinality(Miners(At)),
           m_ClearedForVerification' = Cardinality(Miners(At)),
           passed' = passed \cup {At}, RecordsTo(record', passed), record'[At].known,
           \/ At # job.new /\ job' = [job EXCEPT !.pos = @ + 1, !.last = LastAfterFork]
           \/ At = job.new /\ job' = [job EXCEPT !.outcome = "accept"] /\ Valid(At)
    PROVE  IInv'
  <1>1. Running /\ (At # job.new => job.pos + 1 <= Height(job.new))
    BY RunningIs
  <1>2. /\ pool' \in Seq(Row)
        /\ \A k \in PermKeys : Over(pool', Base, k) = After[At].held[k]
    BY <1>1, Replayed
  <1>3. /\ job \in Jobs /\ At \in Blocks /\ At \in Nodes /\ Height(At) = job.pos
        /\ Base = Ledger[Anc(tip, fork)] /\ job.pos \in Nat /\ m_Block + 1 = job.pos
        /\ Anc(job.new, job.pos) = At
    BY <1>1 DEF Running
  <1>4. AllOn(Known(record'), At)
    <2>1. AllOn(Known(record), Parent[At]) /\ Known(record) \subseteq Known(record')
      BY <1>1 DEF Running, RecordsTo
    <2>2. AllOn(Known(record'), Parent[At])
      BY <2>1, AllOnMore
    <2>3. At \in Known(record')
      BY <1>3 DEF Known
    <2> QED
      BY <1>3, <2>2, <2>3, AllOnIs
  <1>5. RecordsTo(record', passed')
    BY <1>3, <1>4 DEF RecordsTo
  <1>6. /\ fork \in 0..Height(tip) /\ fork < job.pos /\ job.pos <= Height(job.new)
        /\ Anc(job.new, fork) = Anc(tip, fork) /\ fork \in Nat
        /\ copied.pool \in Seq(Row) /\ copied.block = Height(tip)
        /\ Counts(copied.pool, copied.count, m_Cleared)
    <2>1. Height(tip) \in Nat
      BY Stands
    <2> QED
      BY <2>1 DEF IInv, Moved
  <1>7. CASE At # job.new /\ job' = [job EXCEPT !.pos = @ + 1, !.last = LastAfterFork]
    <2>1. LastAfterFork \in Nat
      BY <1>3 DEF LastAfterFork, Jobs
    <2>2. /\ job'.new = job.new /\ job'.pos = job.pos + 1 /\ job'.last = LastAfterFork
          /\ job'.outcome = "none" /\ job' \in Jobs
      <3>1. job' = [new |-> job.new, pos |-> job.pos + 1, last |-> LastAfterFork, outcome |-> "none"]
        BY <1>3, <1>7 DEF Jobs
      <3>2. job.new \in Blocks /\ job.pos + 1 \in Nat
        BY <1>3 DEF Jobs
      <3> QED
        BY <2>1, <3>1, <3>2 DEF Jobs, Outcomes
    <2>3. fork < job'.pos /\ job'.pos <= Height(job.new)
      BY <1>1, <1>3, <1>6, <1>7, <2>2
    <2>4. JobTo(job', fork', copied', m_Cleared')
      BY <1>6, <2>2, <2>3 DEF JobTo
    <2>5. Anc(job'.new, job'.pos - 1) = At
      <3>1. job'.pos - 1 = job.pos
        BY <1>3, <2>2
      <3> QED
        BY <1>3, <2>2, <3>1
    <2>6. ShowsTo(At, fork', m_Block', pool', m_ClearedForVerification', m_MinerCount')
      BY <1>2, <1>3 DEF ShowsTo
    <2>7. LastTo(job', fork') = After[At].last[miner[job'.new]]
      BY <1>1, <2>2, LastAfterIs
    <2>8. BranchTo(job', fork', record', m_Block', pool', m_ClearedForVerification', m_MinerCount')
      BY <1>4, <2>5, <2>6, <2>7 DEF BranchTo
    <2>9. VerdictTo(job')
      BY <2>2 DEF VerdictTo
    <2> QED
      BY <1>2, <1>5, <2>4, <2>8, <2>9, JobStep
  <1>8. CASE At = job.new /\ job' = [job EXCEPT !.outcome = "accept"] /\ Valid(At)
    <2>1. /\ job'.new = job.new /\ job'.pos = job.pos /\ job'.outcome = "accept" /\ job' \in Jobs
      BY <1>3, <1>8 DEF Jobs, Outcomes
    <2>2. JobTo(job', fork', copied', m_Cleared')
      BY <1>6, <2>1 DEF JobTo
    <2>3. BranchTo(job', fork', record', m_Block', pool', m_ClearedForVerification', m_MinerCount')
      BY <2>1 DEF BranchTo
    <2>4. VerdictTo(job')
      BY <1>8, <2>1 DEF VerdictTo
    <2> QED
      BY <1>2, <1>5, <2>2, <2>3, <2>4, JobStep
  <1> QED
    BY <1>7, <1>8

LEMMA VerifiedBeforeKeeps ==
    ASSUME IInv, VerifiedBefore
    PROVE  IInv'
  <1> DEFINE g == IF record[At].grants THEN grant[At] ELSE NoGrant
  <1>1. job # NoJob /\ job.outcome = "none" /\ At # job.new /\ record[At].known
    BY DEF VerifiedBefore
  <1>2. CASE ~Acceptable(pool, g)
    <2>1. End("reject")
      BY <1>2 DEF VerifiedBefore
    <2> QED
      BY <1>1, <2>1, EndKeeps DEF Outcomes
  <1>3. CASE Acceptable(pool, g)
    <2>1. At \in Blocks
      BY <1>1, RunningIs DEF Running
    <2>2. record[At].count = Cardinality(Miners(At)) /\ record[At].grants = (grant[At] # NoGrant)
      BY <1>1, <2>1 DEF IInv, Recorded, RecordsComplete
    <2>3. g = grant[At]
      BY <2>2
    <2>4. /\ pool' = Granted(pool, g, m_Block + 1) /\ m_Block' = m_Block + 1
          /\ m_MinerCount' = record[At].count /\ m_ClearedForVerification' = record[At].count
          /\ passed' = passed \cup {At}
          /\ job' = [job EXCEPT !.pos = @ + 1, !.last = LastAfterFork]
          /\ UNCHANGED <<rows, m_Cleared, copied, fork, miner, grant, record, tip, target>>
      BY <1>3 DEF VerifiedBefore
    <2>5. RecordsTo(record', passed)
      BY <2>4, RecordsStay DEF RecordsTo, RecordsAre, IInv, Typed, Recorded
    <2> QED
      BY <1>1, <2>2, <2>3, <2>4, <2>5, Taken
  <1> QED
    BY <1>2, <1>3

\* The grants are replayed and recorded, and the check goes on.
LEMMA ReplayKeeps ==
    ASSUME IInv, job # NoJob, job.outcome = "none", Replay,
           \/ At # job.new /\ job' = [job EXCEPT !.pos = @ + 1, !.last = LastAfterFork]
           \/ At = job.new /\ job' = [job EXCEPT !.outcome = "accept"] /\ Valid(At)
    PROVE  IInv'
  <1> DEFINE p == Granted(pool, grant[At], m_Block + 1)
             n == UpdateCounts(p, m_Block + 1)
  <1>1. /\ pool' = p /\ m_Block' = m_Block + 1 /\ m_MinerCount' = n
        /\ m_ClearedForVerification' = n /\ record' = [record EXCEPT ![At] = BlockInfo(At, n)]
        /\ passed' = passed \cup {At}
        /\ UNCHANGED <<rows, m_Cleared, copied, fork, miner, grant, tip, target>>
    BY DEF Replay
  <1>2. Running
    BY RunningIs
  <1>3. n = Cardinality(Miners(At)) /\ At \in Blocks
    BY <1>2, Replayed DEF Running
  <1>4. n \in Nat
    <2>1. Contents /\ At \in Nodes
      BY <1>2, Stands DEF Running
    <2>2. n = Count(<<>>, Ledger[At], Height(At))
      BY <1>3, <2>1, MinersCounted
    <2> QED
      BY <2>2, CountType
  <1> HIDE DEF n
  <1>5. BlockInfo(At, n) \in Records /\ BlockInfo(At, n).known
        /\ BlockInfo(At, n).count = n /\ BlockInfo(At, n).grants = (grant[At] # NoGrant)
    BY <1>4 DEF BlockInfo, Records
  <1>6. RecordsAre(record)
    BY RecordsStay
  <1>7. /\ record'[At] = BlockInfo(At, n) /\ record' \in [Blocks -> Records]
        /\ \A c \in Blocks : c # At => record'[c] = record[c]
    BY <1>1, <1>3, <1>5, <1>6 DEF RecordsAre
  <1>8. Known(record) \subseteq Known(record')
    BY <1>5, <1>7 DEF Known
  <1>9. ASSUME NEW c \in Blocks, record'[c].known
        PROVE  record'[c].count = Cardinality(Miners(c)) /\ record'[c].grants = (grant[c] # NoGrant)
    <2>1. CASE c = At
      BY <1>3, <1>5, <1>7, <2>1
    <2>2. CASE c # At
      BY <1>6, <1>7, <1>9, <2>2 DEF RecordsAre
    <2> QED
      BY <2>1, <2>2
  <1>10. passed \subseteq Blocks /\ \A c \in passed : AllOn(Known(record'), c)
    BY <1>8, AllOnMore DEF IInv, Typed, Recorded
  <1>11. RecordsTo(record', passed)
    BY <1>7, <1>8, <1>9, <1>10 DEF RecordsTo
  <1> QED
    BY <1>1, <1>3, <1>5, <1>7, <1>11, Taken

LEMMA NotVerifiedBeforeKeeps ==
    ASSUME IInv, NotVerifiedBefore
    PROVE  IInv'
  <1>1. job # NoJob /\ job.outcome = "none" /\ At # job.new
    BY DEF NotVerifiedBefore
  <1>2. \/ End("skip") \/ End("reject")
        \/ Replay /\ job' = [job EXCEPT !.pos = @ + 1, !.last = LastAfterFork]
    BY DEF NotVerifiedBefore
  <1>3. CASE End("skip")
    BY <1>1, <1>3, EndKeeps DEF Outcomes
  <1>4. CASE End("reject")
    BY <1>1, <1>4, EndKeeps DEF Outcomes
  <1>5. CASE Replay /\ job' = [job EXCEPT !.pos = @ + 1, !.last = LastAfterFork]
    BY <1>1, <1>5, ReplayKeeps
  <1> QED
    BY <1>2, <1>3, <1>4, <1>5

LEMMA NewBlockKeeps ==
    ASSUME IInv, NewBlock
    PROVE  IInv'
  <1>1. job # NoJob /\ job.outcome = "none" /\ At = job.new
    BY DEF NewBlock
  <1>2. Running
    BY <1>1, RunningIs
  <1>3. CanMineBlockOnFork(miner[At], job.pos, job.last) /\ Acceptable(pool, grant[At]) <=> Valid(At)
    BY <1>1, <1>2, BranchRules
  <1>4. CASE Valid(At)
    <2>1. Replay /\ job' = [job EXCEPT !.outcome = "accept"]
      BY <1>3, <1>4 DEF NewBlock
    <2> QED
      BY <1>1, <1>4, <2>1, ReplayKeeps
  <1>5. CASE ~Valid(At)
    <2>1. End("reject")
      BY <1>3, <1>5 DEF NewBlock
    <2> QED
      BY <1>1, <1>5, <2>1, EndKeeps DEF Outcomes
  <1> QED
    BY <1>4, <1>5

-----------------------------------------------------------------------------
(***************************************************************************)
(* The theorems.                                                           *)
(***************************************************************************)

LEMMA StutterKeeps ==
    ASSUME IInv, UNCHANGED vars
    PROVE  IInv'
  <1>1. /\ UNCHANGED <<miner, grant, passed, record, tip, target, rows, pool, m_Block,
                       m_MinerCount, m_Cleared, m_ClearedForVerification, copied, fork, job>>
    BY DEF vars, index, object
  <1>2. CASE job = NoJob
    <2>1. IdleTo(pool', m_MinerCount', m_Cleared', target', passed')
      BY <1>1, <1>2, IdleKept DEF IdleTo
    <2> QED
      BY <1>1, <1>2, <2>1, IdleStep
  <1>3. CASE job # NoJob
    <2>1. RecordsTo(record', passed')
      BY <1>1, RecordsStay DEF RecordsTo, RecordsAre, IInv, Typed, Recorded
    <2>2. JobTo(job', fork', copied', m_Cleared')
      BY <1>1, <1>3 DEF IInv, Moved, JobTo, Jobs
    <2>3. BranchTo(job', fork', record', m_Block', pool', m_ClearedForVerification', m_MinerCount')
      <3>1. ASSUME job.outcome = "none"
            PROVE  Running
        BY <1>3, <3>1, RunningIs
      <3> QED
        BY <1>1, <3>1 DEF BranchTo, Running, ShowsTo, Shows, LastTo, LastSeen
    <2>4. VerdictTo(job')
      BY <1>1 DEF IInv, Verdict, VerdictTo, At
    <2>5. pool' \in Seq(Row)
      BY <1>1 DEF IInv, Typed
    <2> QED
      BY <1>1, <2>1, <2>2, <2>3, <2>4, <2>5, JobStep
  <1> QED
    BY <1>2, <1>3

LEMMA StepKeeps ==
    ASSUME IInv, [Next]_vars
    PROVE  IInv'
  <1>1. CASE UNCHANGED vars
    BY <1>1, StutterKeeps
  <1>2. ASSUME NEW b \in Blocks, AcceptBlock(b) \/ CheckCandidate(b) PROVE IInv'
    BY <1>2, CallersKeep
  <1>3. ASSUME NEW b \in Blocks, ChooseTarget(b) PROVE IInv'
    BY <1>3, ChooseTargetKeeps
  <1>4. CASE VerifiedBefore
    BY <1>4, VerifiedBeforeKeeps
  <1>5. CASE NotVerifiedBefore
    BY <1>5, NotVerifiedBeforeKeeps
  <1>6. CASE NewBlock
    BY <1>6, NewBlockKeeps
  <1>7. CASE RestoreAfterMinerVerification
    BY <1>7, RestoreKeeps
  <1>8. CASE ConnectTip
    BY <1>8, ConnectTipKeeps
  <1>9. CASE DisconnectTip
    BY <1>9, DisconnectTipKeeps
  <1>10. ASSUME NEW b \in Blocks, PoolGrant(grant[b]) PROVE IInv'
    BY <1>10, PoolGrantKeeps
  <1>11. CASE ClearMemPool
    BY <1>11, ClearMemPoolKeeps
  <1>12. CASE Restart
    BY <1>12, RestartKeeps
  <1> QED
    BY <1>1, <1>2, <1>3, <1>4, <1>5, <1>6, <1>7, <1>8, <1>9, <1>10, <1>11, <1>12 DEF Next

\* The inductive invariant holds in every state of the specification.
THEOREM Invariance == Spec => []IInv
BY InitHolds, StepKeeps, PTL DEF Spec

-----------------------------------------------------------------------------
LEMMA ForkViewFollows == IInv => ForkView
  <1> SUFFICES ASSUME IInv, job # NoJob, job.outcome = "none"
               PROVE  LET b == IF job.pos = 1 THEN 0 ELSE Branch[job.new][job.pos - 1]
                      IN  /\ m_Block = Height(b)
                          /\ \A k \in PermKeys : Held(pool, k) = After[b].held[k]
                          /\ m_ClearedForVerification = Cardinality(Miners(b))
                          /\ m_MinerCount = Cardinality(Miners(b))
    BY DEF ForkView
  <1> DEFINE b == IF job.pos = 1 THEN 0 ELSE Branch[job.new][job.pos - 1]
  <1>1. Running
    BY RunningIs
  <1>2. b = Parent[At]
    BY <1>1 DEF Running, Anc
  <1>3. Standing
    BY Stands
  <1>4. Shows(b)
    BY <1>1, <1>2 DEF Running
  <1> HIDE DEF b
  <1>5. \A k \in PermKeys : Held(pool, k) = After[b].held[k]
    BY <1>3, <1>4, HeldIs DEF Shows
  <1> QED
    BY <1>4, <1>5 DEF Shows, b

LEMMA PutBackFollows == IInv => PutBack
  <1> SUFFICES ASSUME IInv, job = NoJob
               PROVE  /\ m_Block = Height(tip)
                      /\ \A k \in PermKeys : LedgerRow(k) = After[tip].held[k]
                      /\ m_MinerCount = UpdateCounts(pool, m_Block)
                      /\ pool # <<>> => m_Cleared = UpdateCounts(<<>>, m_Block)
    BY DEF PutBack
  <1>1. /\ Standing /\ Contents /\ tip \in Nodes /\ rows = Ledger[tip] /\ Base = rows
        /\ m_Block = Height(tip)
    BY Stands
  <1>2. \A k \in PermKeys : LedgerRow(k) = After[tip].held[k]
    BY <1>1, LedgerRowIs, LedgerGives
  <1>3. Counts(pool, m_MinerCount, m_Cleared)
    BY IdleKept
  <1> QED
    BY <1>1, <1>2, <1>3, HeldIs DEF Counts

\* While a side branch is checked the permission object shows exactly what the branch
\* gives up to the block before, every permission and the number of miners, whatever
\* the active chain and the memory pool hold (RollBackBeforeMinerVerification,
\* GetPermission in fork mode, IncrementBlock, StoreBlockInfo).
THEOREM ForkViewHolds == Spec => []ForkView
BY Invariance, ForkViewFollows, PTL

\* Between two calls the object is that of the active chain and the unconfirmed
\* grants again (RestoreAfterMinerVerification, RollBack, Commit, ClearMemPool).
THEOREM PutBackHolds == Spec => []PutBack
BY Invariance, PutBackFollows, PTL

\* A recorded block has the number of miners a full check of it would find, and its
\* grants are recorded when it has some: no record that Commit wrote stands alone.
THEOREM RecordsCompleteHolds == Spec => []RecordsComplete
BY Invariance, PTL DEF IInv, Recorded

\* The verdict about the new block is that of the rules of its own branch, as
\* ConnectBlock would apply them; its ancestors need not be valid for it.
THEOREM VerdictOnNewBlockHolds == Spec => []VerdictOnNewBlock
  <1>1. IInv => VerdictOnNewBlock
    BY DEF IInv, Verdict, VerdictOnNewBlock
  <1> QED
    BY <1>1, Invariance, PTL

\* No block that the rules of its own branch forbid is on the active chain.
THEOREM ActiveChainValidHolds == Spec => []ActiveChainValid
  <1>1. IInv => ActiveChainValid
    BY DEF IInv, AllOn, Good, ActiveChainValid
  <1> QED
    BY <1>1, Invariance, PTL
=============================================================================
