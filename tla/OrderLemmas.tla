---------------------------- MODULE OrderLemmas -----------------------------
(***************************************************************************)
(* What the proofs share about order.  Sets of numbers have least and      *)
(* greatest elements: "the last row of a key", "the last block of a        *)
(* miner".  The first n elements of a sequence are a sequence: the blocks  *)
(* up to a height, the rows up to a block; one element more at the end of  *)
(* the second of two is one more at the end of both.                       *)
(***************************************************************************)
EXTENDS Integers, WellFoundedInduction, SequenceTheorems, TLAPS

NatLess == {p \in Nat \X Nat : p[1] < p[2]}

LEMMA LessWellFounded == IsWellFoundedOn(NatLess, Nat)
<1>1. OpToRel(<, Nat) = NatLess BY DEF OpToRel, NatLess
<1>2. QED BY <1>1, NatLessThanWellFounded

\* A set of natural numbers that is not empty has a least element, ...
LEMMA Least ==
    ASSUME NEW T \in SUBSET Nat, T # {}
    PROVE  \E x \in T : \A y \in T : x <= y
<1>1. PICK x \in T : \A y \in T : ~(<<y, x>> \in NatLess)
  BY LessWellFounded, WFMin
<1>2. ASSUME NEW y \in T PROVE x <= y
  <2>1. x \in Nat /\ y \in Nat OBVIOUS
  <2>2. <<y, x>> \in Nat \X Nat => (<<y, x>> \in NatLess <=> y < x) BY DEF NatLess
  <2>3. ~(y < x) BY <1>1, <2>1, <2>2
  <2>4. QED BY <2>1, <2>3
<1>3. QED BY <1>2

\* ... and if it is bounded a greatest one.
LEMMA Greatest ==
    ASSUME NEW n \in Nat, NEW T \in SUBSET (0..n), T # {}
    PROVE  \E x \in T : \A y \in T : y <= x
<1> DEFINE U == {m \in Nat : n - m \in T}
<1>1. PICK t \in T : TRUE OBVIOUS
<1>2. n - t \in U BY <1>1
<1>3. PICK u \in U : \A v \in U : u <= v BY <1>2, Least
<1>4. ASSUME NEW y \in T PROVE y <= n - u
  <2>1. y \in 0..n OBVIOUS
  <2>2. n - y \in U BY <2>1
  <2>3. u <= n - y BY <1>3, <2>2
  <2>4. QED BY <2>1, <2>3
<1>5. n - u \in T OBVIOUS
<1>6. QED BY <1>4, <1>5

\* Induction up to n, over a set: what holds of 0 and with m of m + 1.
LEMMA Induction ==
    ASSUME NEW n \in Nat, NEW S, 0 \in S, \A m \in 0..(n - 1) : m \in S => m + 1 \in S
    PROVE  0..n \subseteq S
  <1> DEFINE T == (0..n) \ S
  <1>1. SUFFICES ASSUME T # {} PROVE FALSE
    OBVIOUS
  <1>2. T \in SUBSET Nat
    OBVIOUS
  <1>3. PICK m \in T : \A k \in T : m <= k
    BY <1>1, <1>2, Least
  <1>4. m \in 0..n /\ m \notin S /\ m # 0
    BY <1>3
  <1>5. m - 1 \in 0..(n - 1) /\ m - 1 \in 0..n /\ m - 1 + 1 = m /\ ~(m <= m - 1)
    BY <1>4
  <1>6. m - 1 \in S
    BY <1>3, <1>5
  <1> QED
    BY <1>4, <1>5, <1>6

\* f is defined by recursion up to n.
Recursive(f, n, a, rule) == f[0] = a /\ \A i \in 1..n : f[i] = rule[i][f[i - 1]]

\* What is defined by recursion exists.
LEMMA Recursion ==
    ASSUME NEW n \in Nat, NEW T, NEW a \in T, NEW rule \in [1..n -> [T -> T]]
    PROVE  \E f \in [0..n -> T] : Recursive(f, n, a, rule)
  <1> DEFINE Upto(f, m) == f[0] = a /\ \A i \in 1..m : f[i] = rule[i][f[i - 1]]
             S == {m \in 0..n : \E f \in [0..m -> T] : Upto(f, m)}
  <1>1. 0 \in S
    <2>1. [i \in 0..0 |-> a] \in [0..0 -> T] /\ 0 \in 0..n
      OBVIOUS
    <2>2. Upto([i \in 0..0 |-> a], 0)
      OBVIOUS
    <2> QED
      BY <2>1, <2>2
  <1>2. ASSUME NEW m \in 0..(n - 1), m \in S PROVE m + 1 \in S
    <2>1. PICK f \in [0..m -> T] : Upto(f, m)
      BY <1>2
    <2> DEFINE b == rule[m + 1][f[m]]
               g == [i \in 0..(m + 1) |-> IF i = m + 1 THEN b ELSE f[i]]
    <2>2. m + 1 \in 1..n /\ m \in 0..m /\ m + 1 \in 0..n /\ m \in Nat
      OBVIOUS
    <2>3. b \in T
      BY <2>2
    <2> HIDE DEF b
    <2>4. g \in [0..(m + 1) -> T]
      <3>1. \A i \in 0..(m + 1) : i = m + 1 \/ i \in 0..m
        BY <2>2
      <3> QED
        BY <2>3, <3>1
    <2>5. \A i \in 0..m : g[i] = f[i]
      BY <2>2
    <2>6. g[m + 1] = b
      BY <2>2
    <2>7. g[0] = a
      BY <2>1, <2>2, <2>5
    <2>8. ASSUME NEW i \in 1..(m + 1) PROVE g[i] = rule[i][g[i - 1]]
      <3>1. i \in 1..m \/ i = m + 1
        BY <2>2
      <3>2. i - 1 \in 0..m
        BY <2>2
      <3>3. g[i - 1] = f[i - 1]
        BY <2>5, <3>2
      <3>4. CASE i \in 1..m
        <4>1. i \in 0..m
          BY <3>4
        <4> HIDE DEF g
        <4> QED
          BY <2>1, <2>5, <3>3, <3>4, <4>1
      <3>5. CASE i = m + 1
        <4>1. i - 1 = m
          BY <2>2, <3>5
        <4> HIDE DEF g
        <4> QED
          BY <2>6, <3>3, <3>5, <4>1 DEF b
      <3> QED
        BY <3>1, <3>4, <3>5
    <2> HIDE DEF g
    <2>9. Upto(g, m + 1)
      BY <2>7, <2>8
    <2> HIDE DEF Upto
    <2> QED
      BY <2>2, <2>4, <2>9
  <1> HIDE DEF S
  <1>3. 0..n \subseteq S
    BY <1>1, <1>2, Induction
  <1>4. n \in S
    BY <1>3
  <1> QED
    BY <1>4 DEF S, Recursive

-----------------------------------------------------------------------------
\* In a tree of numbers, par[b] the one before b, what holds of 0 and with par[b]
\* of b holds of all; ...
LEMMA BranchInduction ==
    ASSUME NEW n \in Nat, NEW par, \A b \in 1..n : par[b] \in 0..(b - 1),
           NEW S, 0 \in S, \A b \in 1..n : par[b] \in S => b \in S
    PROVE  0..n \subseteq S
  <1> DEFINE T == (0..n) \ S
  <1>1. SUFFICES ASSUME T # {} PROVE FALSE
    OBVIOUS
  <1>2. T \in SUBSET Nat
    OBVIOUS
  <1>3. PICK m \in T : \A k \in T : m <= k
    BY <1>1, <1>2, Least
  <1>4. m \in 0..n /\ m \notin S /\ m # 0
    BY <1>3
  <1>5. m \in 1..n
    BY <1>4
  <1>6. par[m] \in 0..(m - 1)
    BY <1>5
  <1>7. par[m] \in 0..n /\ ~(m <= par[m])
    BY <1>5, <1>6
  <1>8. par[m] \in S
    BY <1>3, <1>7
  <1> QED
    BY <1>4, <1>5, <1>8

\* f is defined by recursion along the tree.
AlongTree(f, n, par, a, rule) == f[0] = a /\ \A b \in 1..n : f[b] = rule[b][f[par[b]]]

\* ... and what is defined by recursion along it exists.
LEMMA TreeRecursion ==
    ASSUME NEW n \in Nat, NEW par, \A b \in 1..n : par[b] \in 0..(b - 1),
           NEW T, NEW a \in T, NEW rule \in [1..n -> [T -> T]]
    PROVE  \E f \in [0..n -> T] : AlongTree(f, n, par, a, rule)
  <1> DEFINE S == {m \in 0..n : \E f \in [0..m -> T] : AlongTree(f, m, par, a, rule)}
  <1>1. 0 \in S
    <2>1. [i \in 0..0 |-> a] \in [0..0 -> T] /\ 0 \in 0..n
      OBVIOUS
    <2>2. AlongTree([i \in 0..0 |-> a], 0, par, a, rule)
      BY DEF AlongTree
    <2> QED
      BY <2>1, <2>2
  <1>2. ASSUME NEW m \in 0..(n - 1), m \in S PROVE m + 1 \in S
    <2>1. PICK f \in [0..m -> T] : AlongTree(f, m, par, a, rule)
      BY <1>2
    <2> DEFINE b == rule[m + 1][f[par[m + 1]]]
               g == [i \in 0..(m + 1) |-> IF i = m + 1 THEN b ELSE f[i]]
    <2>2. m + 1 \in 1..n /\ m \in 0..m /\ m + 1 \in 0..n /\ m \in Nat
      OBVIOUS
    <2>3. par[m + 1] \in 0..m
      <3>1. PICK k \in 1..n : k = m + 1
        BY <2>2
      <3>2. par[k] \in 0..(k - 1) /\ k - 1 = m
        BY <2>2, <3>1
      <3> QED
        BY <3>1, <3>2
    <2>4. b \in T
      <3>1. f[par[m + 1]] \in T /\ rule[m + 1] \in [T -> T]
        BY <2>2, <2>3
      <3> QED
        BY <3>1
    <2> HIDE DEF b
    <2>5. g \in [0..(m + 1) -> T]
      <3>1. \A i \in 0..(m + 1) : i = m + 1 \/ i \in 0..m
        BY <2>2
      <3> QED
        BY <2>4, <3>1
    <2>6. \A i \in 0..m : g[i] = f[i]
      BY <2>2
    <2>7. g[m + 1] = b
      BY <2>2
    <2>8. g[0] = a
      BY <2>1, <2>2, <2>6 DEF AlongTree
    <2> HIDE DEF g
    <2>9. ASSUME NEW i \in 1..(m + 1) PROVE g[i] = rule[i][g[par[i]]]
      <3>1. i \in 1..m \/ i = m + 1
        BY <2>2
      <3>2. par[i] \in 0..m
        <4>1. CASE i \in 1..m
          <5>1. i \in 1..n
            BY <2>2, <4>1
          <5>2. par[i] \in 0..(i - 1)
            BY <5>1
          <5> QED
            BY <2>2, <4>1, <5>2
        <4> QED
          BY <2>3, <3>1, <4>1
      <3>3. g[par[i]] = f[par[i]]
        BY <2>6, <3>2
      <3>4. CASE i \in 1..m
        <4>1. i \in 0..m
          BY <3>4
        <4> QED
          BY <2>1, <2>6, <3>3, <3>4, <4>1 DEF AlongTree
      <3>5. CASE i = m + 1
        BY <2>7, <3>3, <3>5 DEF b
      <3> QED
        BY <3>1, <3>4, <3>5
    <2>10. AlongTree(g, m + 1, par, a, rule)
      BY <2>8, <2>9 DEF AlongTree
    <2> QED
      BY <2>2, <2>5, <2>10
  <1> HIDE DEF S
  <1>3. 0..n \subseteq S
    BY <1>1, <1>2, Induction
  <1>4. n \in S
    BY <1>3
  <1> QED
    BY <1>4 DEF S

-----------------------------------------------------------------------------
\* The first n elements of a sequence.
LEMMA PrefixOf ==
    ASSUME NEW S, NEW s \in Seq(S), NEW n \in 0..Len(s)
    PROVE  /\ SubSeq(s, 1, n) \in Seq(S)
           /\ Len(SubSeq(s, 1, n)) = n
           /\ \A i \in 1..n : SubSeq(s, 1, n)[i] = s[i]
  <1>1. Len(s) \in Nat
    BY LenProperties
  <1>2. \A i \in 1..n : s[i] \in S
    BY <1>1, ElementOfSeq
  <1>3. /\ SubSeq(s, 1, n) \in Seq(S)
        /\ Len(SubSeq(s, 1, n)) = IF 1 <= n THEN n - 1 + 1 ELSE 0
        /\ \A i \in 1..(n - 1 + 1) : SubSeq(s, 1, n)[i] = s[1 + i - 1]
    BY <1>1, <1>2, SubSeqProperties
  <1> QED
    BY <1>1, <1>3

LEMMA AppendOfConcat ==
    ASSUME NEW S, NEW s \in Seq(S), NEW u \in Seq(S), NEW x \in S
    PROVE  s \o Append(u, x) = Append(s \o u, x)
  <1> DEFINE a == s \o Append(u, x)
             b == Append(s \o u, x)
  <1>1. Len(s) \in Nat /\ Len(u) \in Nat
    BY LenProperties
  <1>2. /\ Append(u, x) \in Seq(S) /\ Len(Append(u, x)) = Len(u) + 1
        /\ \A i \in 1..Len(u) : Append(u, x)[i] = u[i]
        /\ Append(u, x)[Len(u) + 1] = x
    BY AppendProperties
  <1>3. /\ s \o u \in Seq(S) /\ Len(s \o u) = Len(s) + Len(u)
        /\ \A i \in 1..(Len(s) + Len(u)) :
               (s \o u)[i] = IF i <= Len(s) THEN s[i] ELSE u[i - Len(s)]
    BY ConcatProperties
  <1>4. /\ b \in Seq(S) /\ Len(b) = Len(s) + Len(u) + 1
        /\ \A i \in 1..(Len(s) + Len(u)) : b[i] = (s \o u)[i]
        /\ b[Len(s) + Len(u) + 1] = x
    BY <1>3, AppendProperties
  <1> DEFINE v == Append(u, x)
  <1> HIDE DEF v
  <1>5. /\ s \o v \in Seq(S) /\ Len(s \o v) = Len(s) + Len(v)
        /\ \A i \in 1..(Len(s) + Len(v)) :
               (s \o v)[i] = IF i <= Len(s) THEN s[i] ELSE v[i - Len(s)]
    BY <1>2, ConcatProperties DEF v
  <1>6. a \in Seq(S) /\ Len(a) = Len(b)
    BY <1>1, <1>2, <1>4, <1>5 DEF v
  <1>7. \A i \in 1..Len(b) : a[i] = b[i]
    <2> SUFFICES ASSUME NEW i \in 1..Len(b)
                 PROVE  a[i] = b[i]
      OBVIOUS
    <2>1. a[i] = IF i <= Len(s) THEN s[i] ELSE v[i - Len(s)]
      BY <1>1, <1>2, <1>4, <1>5 DEF v
    <2> HIDE DEF a, b
    <2>2. CASE i <= Len(s)
      <3>1. i \in 1..(Len(s) + Len(u))
        BY <1>1, <1>4, <2>2
      <3> QED
        BY <1>3, <1>4, <2>1, <2>2, <3>1
    <2>3. CASE i > Len(s) /\ i <= Len(s) + Len(u)
      <3>1. i \in 1..(Len(s) + Len(u)) /\ i - Len(s) \in 1..Len(u) /\ ~(i <= Len(s))
        BY <1>1, <1>4, <2>3
      <3> QED
        BY <1>2, <1>3, <1>4, <2>1, <3>1 DEF v
    <2>4. CASE i > Len(s) + Len(u)
      <3>1. i = Len(s) + Len(u) + 1 /\ i - Len(s) = Len(u) + 1 /\ ~(i <= Len(s))
        BY <1>1, <1>4, <2>4
      <3> QED
        BY <1>2, <1>4, <2>1, <3>1 DEF v
    <2> QED
      BY <1>1, <1>4, <2>2, <2>3, <2>4
  <1> HIDE DEF a, b
  <1>8. a = b
    BY <1>4, <1>6, <1>7, SeqEqual
  <1> QED
    BY <1>8 DEF a, b
=============================================================================
