------------------------- MODULE EntityStoreProofs -------------------------
(***************************************************************************)
(* For any transactions, names and quantities, any number of crashes and   *)
(* of writes that fail with one row in memory: the file, the database, the *)
(* memory and the chain of blocks tell the same, the database leads to the *)
(* issues of the blocks, by name unless a follow-on that was rolled back   *)
(* took the name with it, a start refuses only over entities, what the     *)
(* node reports of an asset is all that was issued of it, and no asset     *)
(* exceeds the largest quantity.                                           *)
(***************************************************************************)
EXTENDS EntityStore, OrderLemmas

(***************************************************************************)
(* What the file and the database satisfy.                                 *)
(***************************************************************************)
Row == [tx : Txs, kind : Kinds, of : Txs, name : Names \cup {NoName},
        quantity : {0} \cup Quantities, block : Int, first : Int, last : Int,
        chain : Int, prev : Int]

\* The rows of a file: each is the one after the one before it.
Filed(f) ==
    /\ f \in Seq(Row)
    /\ \A p \in 1..Len(f) : f[p].prev = p - 1 /\ f[p].chain = p

\* e is the newest of the first n rows that belong to the asset in row g.
IsEnd(f, g, n, e) ==
    /\ e \in g..n /\ f[e].first = g
    /\ \A q \in (e + 1)..n : f[q].first # g

\* Row p continues the chain of the asset it names, or begins one.
Continues(f, p) ==
    /\ f[p].first \in 1..(p - 1)
    /\ f[f[p].first].kind = "asset"
    /\ f[p].of = f[f[p].first].tx
    /\ IsEnd(f, f[p].first, p - 1, f[p].last)
Begins(f, p) == f[p].first = p /\ f[p].of = f[p].tx

Distinct(f, n) == \A p, q \in 1..n : p # q => f[p].tx # f[q].tx

Sound(f, n) ==
    /\ n <= Len(f)
    /\ \A p \in 1..n : IF f[p].kind = "follow" THEN Continues(f, p) ELSE Begins(f, p)
    /\ Distinct(f, n)

\* No key is there twice, but for some.
Apart(f, n, X) == \A p, q \in 1..n : p # q => KeysOf(f[p]) \cap KeysOf(f[q]) \subseteq X

Pairs == [pos : Int, chain : Int]
Bases == UNION {[K -> Pairs] : K \in SUBSET Keys}

\* The database d is an index of the first n rows, in which some keys may be missing.
LeadsTo(f, n, key, entry) ==
    /\ entry.pos \in 1..n /\ key \in KeysOf(f[entry.pos])
    /\ f[entry.pos].kind = "asset" => IsEnd(f, entry.pos, n, entry.chain)
Indexed(f, n, d, X) ==
    /\ d \in Bases
    /\ \A key \in DOMAIN d : LeadsTo(f, n, key, d[key])
    /\ \A p \in 1..n : KeysOf(f[p]) \ X \subseteq DOMAIN d

\* The issues of the first b blocks.
UpTo(c, b) == FlattenSeq(SubSeq(c, 1, b))

\* The rows of those blocks come first in the file.
Layered(f, n, c) ==
    \A b \in 0..Len(c) :
        /\ Len(UpTo(c, b)) \in 0..n
        /\ \A p \in 1..n : f[p].block <= b <=> p <= Len(UpTo(c, b))
        /\ \A p \in 1..Len(UpTo(c, b)) : UpTo(c, b)[p] = IssueOf(f[p])

Headers == [block : Nat, last : Nat]
OnDisk ==
    /\ Filed(file)
    /\ header \in Headers /\ dbHeader \in Headers
    /\ dbHeader.block <= header.block /\ dbHeader.last <= header.last
    /\ header.block = dbHeader.block => header.last = dbHeader.last
    /\ Sound(file, header.last) /\ Apart(file, header.last, dropped)
    /\ dropped \in SUBSET Names
    /\ Indexed(file, dbHeader.last, db, dropped) /\ batch = db
    /\ chain \in Seq(Seq(Issue)) /\ Len(chain) = dbHeader.block
    /\ Layered(file, header.last, chain)
    /\ Len(UpTo(chain, Len(chain))) = dbHeader.last

(***************************************************************************)
(* What is in memory besides.                                              *)
(***************************************************************************)
Before(pool, i) == {j \in 1..(i - 1) : pool[j].kind = "follow" /\ pool[j].first = pool[i].first}

\* Row i in memory belongs to an asset that is there too, or to one in the file, ...
ContinuesPool(pool, i) ==
    /\ pool[i].first < 0
    /\ -pool[i].first \in 1..(i - 1)
    /\ pool[-pool[i].first].kind = "asset"
    /\ pool[i].of = pool[-pool[i].first].tx
ContinuesFile(pool, i) ==
    /\ pool[i].first \in 1..m_PrevPos
    /\ file[pool[i].first].kind = "asset"
    /\ pool[i].of = file[pool[i].first].tx
    /\ Before(pool, i) = {} => IsEnd(file, pool[i].first, m_PrevPos, pool[i].last)
    /\ \A j \in Before(pool, i) :
           (\A k \in Before(pool, i) : k <= j) => pool[i].last = m_PrevPos + j

\* ... or is a first one itself.
BeginsPool(pool, i) ==
    /\ pool[i].of = pool[i].tx /\ pool[i].first < 0
    /\ pool[i].kind = "asset" => pool[i].first = -i

Waiting(pool) ==
    /\ pool \in Seq(Row)
    /\ \A i \in 1..Len(pool) :
           /\ pool[i].block = m_Block + 1
           /\ KeysOf(pool[i]) \cap DOMAIN db = {}
           /\ IF pool[i].kind = "follow"
                THEN ContinuesPool(pool, i) \/ ContinuesFile(pool, i)
                ELSE BeginsPool(pool, i)
    /\ Apart(pool, Len(pool), {})

Up ==
    /\ header = dbHeader
    /\ m_Block = header.block /\ m_PrevPos = header.last /\ m_Pos = header.last + 1
    /\ Waiting(m_MemPool)

Committing ==
    /\ m_Block = dbHeader.block /\ header.block = m_Block + 1
    /\ m_PrevPos = header.last /\ m_Pos = header.last + 1
    /\ m_MemPool \in Seq(Row) /\ header.last = dbHeader.last + Len(m_MemPool)
    /\ \A i \in 1..Len(m_MemPool) : m_MemPool[i] = file[dbHeader.last + i]
    /\ \A i \in 1..Len(m_MemPool) : m_MemPool[i].block = m_Block + 1

IInv ==
    /\ OnDisk
    /\ phase \in {"up", "commit", "rollback", "down", "refused"}
    /\ phase = "up" => Up
    /\ phase = "commit" => Committing
    /\ phase = "rollback" => m_PrevPos = dbHeader.last /\ m_MemPool = <<>>
    /\ phase = "down" => m_MemPool = <<>>
    /\ phase = "refused" => header.last # dbHeader.last
-----------------------------------------------------------------------------
(* Prefixes.                                                               *)

\* Two sequences with the same first elements have the same prefixes.
LEMMA SamePrefix ==
    ASSUME NEW S, NEW c \in Seq(S), NEW d \in Seq(S), NEW n \in 0..Len(c), n <= Len(d),
           \A i \in 1..n : c[i] = d[i]
    PROVE  SubSeq(c, 1, n) = SubSeq(d, 1, n)
  <1> DEFINE x == SubSeq(c, 1, n)
             y == SubSeq(d, 1, n)
  <1>1. n \in 0..Len(d)
    BY LenProperties
  <1>2. x \in Seq(S) /\ Len(x) = n /\ \A i \in 1..n : x[i] = c[i]
    BY PrefixOf
  <1>3. y \in Seq(S) /\ Len(y) = n /\ \A i \in 1..n : y[i] = d[i]
    BY <1>1, PrefixOf
  <1> HIDE DEF x, y
  <1>4. \A i \in 1..Len(x) : x[i] = y[i]
    BY <1>2, <1>3
  <1>5. x = y
    BY <1>2, <1>3, <1>4, SeqEqual
  <1> QED
    BY <1>5 DEF x, y

LEMMA PrefixOfPrefix ==
    ASSUME NEW S, NEW c \in Seq(S), NEW n \in 0..Len(c), NEW k \in 0..n
    PROVE  SubSeq(SubSeq(c, 1, n), 1, k) = SubSeq(c, 1, k)
  <1> DEFINE x == SubSeq(c, 1, n)
  <1>1. x \in Seq(S) /\ Len(x) = n /\ \A i \in 1..n : x[i] = c[i]
    BY PrefixOf
  <1>2. Len(c) \in Nat /\ k \in 0..Len(c) /\ k <= n /\ \A i \in 1..k : i \in 1..n
    BY LenProperties
  <1> HIDE DEF x
  <1>3. SubSeq(c, 1, k) = SubSeq(x, 1, k)
    BY <1>1, <1>2, SamePrefix
  <1> QED
    BY <1>3 DEF x

-----------------------------------------------------------------------------
(* Sequences.                                                              *)

LEMMA MaxIs ==
    ASSUME NEW n \in Nat, NEW T \in SUBSET (0..n), T # {}
    PROVE  Max(T) \in T /\ \A y \in T : y <= Max(T)
  <1>1. \E x \in T : \A y \in T : x >= y
    <2>1. PICK x \in T : \A y \in T : y <= x
      BY Greatest
    <2> QED
      BY <2>1
  <1>2. Max(T) \in T /\ \A y \in T : Max(T) >= y
    BY <1>1 DEF Max
  <1> QED
    BY <1>2

\* Two functions defined by the same recursion agree where both are.
LEMMA SameRecursion ==
    ASSUME NEW n \in Nat, NEW f, NEW g, NEW a, NEW rule, NEW other,
           Recursive(f, n, a, rule), Recursive(g, n, a, other),
           \A i \in 1..n : rule[i] = other[i]
    PROVE  f[n] = g[n]
  <1> DEFINE S == {i \in 0..n : f[i] = g[i]}
  <1>1. 0 \in S
    BY DEF Recursive
  <1>2. ASSUME NEW m \in 0..(n - 1), m \in S PROVE m + 1 \in S
    <2>1. PICK k \in 1..n : k = m + 1
      OBVIOUS
    <2>2. k - 1 = m /\ f[k] = rule[k][f[k - 1]] /\ g[k] = other[k][g[k - 1]] /\ rule[k] = other[k]
      BY <2>1 DEF Recursive
    <2> QED
      BY <1>2, <2>1, <2>2
  <1> HIDE DEF S
  <1>3. n \in S
    BY <1>1, <1>2, Induction
  <1> QED
    BY <1>3 DEF S

Flattens(f, c, S) ==
    Recursive(f, Len(c), <<>>, [i \in 1..Len(c) |-> [s \in Seq(S) |-> s \o c[i]]])

LEMMA FlattenIs ==
    ASSUME NEW S, NEW c \in Seq(Seq(S))
    PROVE  \E f \in [0..Len(c) -> Seq(S)] : Flattens(f, c, S) /\ FlattenSeq(c) = f[Len(c)]
  <1> DEFINE n == Len(c)
             rule == [i \in 1..n |-> [s \in Seq(S) |-> s \o c[i]]]
  <1>1. n \in Nat /\ \A i \in 1..n : c[i] \in Seq(S)
    BY LenProperties, ElementOfSeq
  <1>2. rule \in [1..n -> [Seq(S) -> Seq(S)]]
    BY <1>1, ConcatProperties
  <1>3. <<>> \in Seq(S)
    BY EmptySeq
  <1>4. PICK f \in [0..n -> Seq(S)] : Recursive(f, n, <<>>, rule)
    <2> HIDE DEF rule
    <2> QED
      BY <1>1, <1>2, <1>3, Recursion
  <1>5. f[0] = <<>> /\ \A i \in 1..n : f[i - 1] \in Seq(S) /\ f[i] = f[i - 1] \o c[i]
    <2>1. f[0] = <<>> /\ \A i \in 1..n : f[i] = rule[i][f[i - 1]]
      <3> HIDE DEF rule
      <3> QED
        BY <1>4 DEF Recursive
    <2>2. ASSUME NEW i \in 1..n PROVE f[i - 1] \in Seq(S) /\ f[i] = f[i - 1] \o c[i]
      <3>1. i - 1 \in 0..n
        BY <1>1
      <3>2. f[i - 1] \in Seq(S)
        BY <1>4, <3>1
      <3>3. rule[i] = [s \in Seq(S) |-> s \o c[i]]
        OBVIOUS
      <3>4. f[i] = rule[i][f[i - 1]]
        BY <2>1
      <3> QED
        BY <3>2, <3>3, <3>4
    <2> QED
      BY <2>1, <2>2
  <1>6. FlattenSeq(c) = f[n]
    <2>1. CASE n = 0
      <3>1. c = <<>>
        BY <2>1, EmptySeq
      <3> QED
        BY <1>5, <2>1, <3>1 DEF FlattenSeq
    <2>2. CASE n # 0
      <3> DEFINE is(g) == g = [i \in 1..n |-> IF i = 1 THEN c[i] ELSE g[i - 1] \o c[i]]
                 flatten == CHOOSE g : is(g)
                 h == [i \in 1..n |-> f[i]]
      <3>1. is(h)
        <4>1. ASSUME NEW i \in 1..n
              PROVE  f[i] = IF i = 1 THEN c[i] ELSE h[i - 1] \o c[i]
          <5>1. CASE i = 1
            <6>1. f[i] = f[i - 1] \o c[i]
              BY <1>5
            <6>0. i - 1 = 0
              BY <5>1
            <6> QED
              BY <1>1, <1>5, <5>1, <6>0, <6>1, ConcatEmptySeq
          <5>2. CASE i # 1
            <6>1. i - 1 \in 1..n
              BY <1>1, <5>2
            <6> QED
              BY <1>5, <5>2, <6>1
          <5> QED
            BY <5>1, <5>2
        <4> QED
          BY <4>1
      <3> HIDE DEF h
      <3>2. is(flatten)
        BY <3>1
      <3>3. FlattenSeq(c) = flatten[n]
        BY <2>2 DEF FlattenSeq
      <3> HIDE DEF flatten
      <3>4. \A i \in 1..n : flatten[i] = IF i = 1 THEN c[i] ELSE flatten[i - 1] \o c[i]
        BY <3>2
      <3> DEFINE T == {i \in 0..n : i = 0 \/ flatten[i] = f[i]}
      <3>5. 0 \in T
        BY <1>1
      <3>6. ASSUME NEW m \in 0..(n - 1), m \in T PROVE m + 1 \in T
        <4>1. PICK k \in 1..n : k = m + 1
          BY <1>1
        <4>2. flatten[k] = f[k]
          <5>1. CASE k = 1
            <6>1. f[k] = f[k - 1] \o c[k]
              BY <1>5
            <6>0. k - 1 = 0
              BY <5>1
            <6>2. flatten[k] = c[k]
              BY <3>4, <5>1
            <6> QED
              BY <1>1, <1>5, <6>0, <6>1, <6>2, ConcatEmptySeq
          <5>2. CASE k # 1
            <6>1. k - 1 = m /\ m # 0
              BY <4>1, <5>2
            <6>2. flatten[k] = flatten[k - 1] \o c[k]
              BY <3>4, <5>2
            <6>3. flatten[m] = f[m]
              BY <3>6, <6>1
            <6>4. f[k] = f[k - 1] \o c[k]
              BY <1>5
            <6> QED
              BY <6>1, <6>2, <6>3, <6>4
          <5> QED
            BY <5>1, <5>2
        <4> QED
          BY <4>1, <4>2
      <3> HIDE DEF T, n
      <3>7. 0..n \subseteq T
        BY <1>1, <3>5, <3>6, Induction
      <3> QED
        BY <1>1, <2>2, <3>3, <3>7 DEF T
    <2> QED
      BY <2>1, <2>2
  <1> QED
    BY <1>4, <1>6 DEF Flattens

\* FlattenSeq, one sequence more.
LEMMA FlattenOne ==
    ASSUME NEW S, NEW c \in Seq(Seq(S)), NEW s \in Seq(S)
    PROVE  /\ FlattenSeq(c) \in Seq(S)
           /\ FlattenSeq(Append(c, s)) = FlattenSeq(c) \o s
  <1> DEFINE d == Append(c, s)
             n == Len(c)
             ruleC == [i \in 1..n |-> [v \in Seq(S) |-> v \o c[i]]]
             ruleD == [i \in 1..(n + 1) |-> [v \in Seq(S) |-> v \o d[i]]]
  <1>1. /\ n \in Nat /\ d \in Seq(Seq(S)) /\ Len(d) = n + 1 /\ d[n + 1] = s
        /\ \A i \in 1..n : d[i] = c[i]
    BY LenProperties, AppendProperties
  <1>2. PICK f \in [0..n -> Seq(S)] : Flattens(f, c, S) /\ FlattenSeq(c) = f[n]
    BY FlattenIs
  <1> HIDE DEF d
  <1>3. PICK g \in [0..Len(d) -> Seq(S)] : Flattens(g, d, S) /\ FlattenSeq(d) = g[Len(d)]
    BY <1>1, FlattenIs
  <1>4. Recursive(f, n, <<>>, ruleC)
    BY <1>2 DEF Flattens
  <1>5. Recursive(g, n + 1, <<>>, ruleD)
    BY <1>1, <1>3 DEF Flattens
  <1>6. Recursive(g, n, <<>>, ruleD)
    <2> HIDE DEF ruleD
    <2>1. \A i \in 1..n : i \in 1..(n + 1)
      BY <1>1
    <2> QED
      BY <1>5, <2>1 DEF Recursive
  <1>7. ASSUME NEW i \in 1..n PROVE ruleC[i] = ruleD[i]
    <2>1. i \in 1..(n + 1) /\ d[i] = c[i]
      BY <1>1
    <2> QED
      BY <2>1
  <1>8. f[n] = g[n]
    <2> HIDE DEF ruleC, ruleD
    <2> QED
      BY <1>1, <1>4, <1>6, <1>7, SameRecursion
  <1>9. g[n + 1] = g[n] \o s
    <2>1. n + 1 \in 1..(n + 1) /\ n + 1 - 1 = n
      BY <1>1
    <2>2. g[n + 1] = ruleD[n + 1][g[n]]
      <3> HIDE DEF ruleD
      <3>1. PICK k \in 1..(n + 1) : k = n + 1 /\ k - 1 = n
        BY <2>1
      <3>2. g[k] = ruleD[k][g[k - 1]]
        BY <1>5 DEF Recursive
      <3> QED
        BY <3>1, <3>2
    <2>3. g[n] \in Seq(S)
      BY <1>1, <1>3
    <2> QED
      BY <1>1, <2>1, <2>2, <2>3
  <1>10. FlattenSeq(c) \in Seq(S)
    <2>1. n \in 0..n
      BY <1>1
    <2> HIDE DEF n, ruleC, ruleD
    <2>2. f[n] \in Seq(S)
      BY <2>1
    <2> QED
      BY <1>2, <2>2
  <1> QED
    BY <1>1, <1>2, <1>3, <1>8, <1>9, <1>10 DEF d

\* The issues of the first blocks.
LEMMA UpToIs ==
    ASSUME NEW S, NEW c \in Seq(Seq(S)), NEW b \in 0..Len(c)
    PROVE  /\ UpTo(c, b) \in Seq(S)
           /\ UpTo(c, Len(c)) = FlattenSeq(c)
           /\ \A k \in 0..b : UpTo(SubSeq(c, 1, b), k) = UpTo(c, k)
           /\ \A s \in Seq(S) : UpTo(Append(c, s), b) = UpTo(c, b)
           /\ \A s \in Seq(S) : UpTo(Append(c, s), Len(c) + 1) = UpTo(c, Len(c)) \o s
  <1>1. /\ Len(c) \in Nat /\ SubSeq(c, 1, b) \in Seq(Seq(S)) /\ Len(SubSeq(c, 1, b)) = b
        /\ \A i \in 1..b : SubSeq(c, 1, b)[i] = c[i]
    BY LenProperties, PrefixOf
  <1>2. UpTo(c, b) \in Seq(S)
    <2>1. <<>> \in Seq(S)
      BY EmptySeq
    <2> QED
      BY <1>1, <2>1, FlattenOne DEF UpTo
  <1>3. SubSeq(c, 1, Len(c)) = c
    BY <1>1, SubSeqFull
  <1>4. ASSUME NEW k \in 0..b PROVE UpTo(SubSeq(c, 1, b), k) = UpTo(c, k)
    BY <1>1, <1>4, PrefixOfPrefix DEF UpTo
  <1>5. ASSUME NEW s \in Seq(S)
        PROVE  /\ UpTo(Append(c, s), b) = UpTo(c, b)
               /\ UpTo(Append(c, s), Len(c) + 1) = UpTo(c, Len(c)) \o s
    <2> DEFINE d == Append(c, s)
    <2>1. d \in Seq(Seq(S)) /\ Len(d) = Len(c) + 1 /\ \A i \in 1..Len(c) : d[i] = c[i]
      BY AppendProperties
    <2>2. SubSeq(d, 1, Len(d)) = d
      <3> HIDE DEF d
      <3> QED
        BY <2>1, SubSeqFull
    <2>3. SubSeq(d, 1, b) = SubSeq(c, 1, b)
      <3> HIDE DEF d
      <3> QED
        BY <1>1, <2>1, SamePrefix
    <2>4. FlattenSeq(d) = FlattenSeq(c) \o s
      BY FlattenOne
    <2> QED
      BY <1>3, <2>1, <2>2, <2>3, <2>4 DEF UpTo
  <1> QED
    BY <1>2, <1>3, <1>4, <1>5 DEF UpTo

-----------------------------------------------------------------------------
(* The walk back over the file.                                            *)

\* The rows behind e, back from pos.
Down(e, pos) == [i \in 1..(pos - e) |-> pos + 1 - i]

LEMMA DownIs ==
    ASSUME NEW pos \in Nat, NEW e \in 0..pos
    PROVE  /\ Down(e, pos) \in Seq(Int) /\ Len(Down(e, pos)) = pos - e
           /\ \A i \in 1..(pos - e) : Down(e, pos)[i] = pos + 1 - i
  <1> DEFINE n == pos - e
             d == [i \in 1..n |-> pos + 1 - i]
  <1>1. n \in Nat
    OBVIOUS
  <1>2. d \in [1..n -> Int]
    OBVIOUS
  <1>3. d \in Seq(Int)
    <2> HIDE DEF d, n
    <2> QED
      BY <1>1, <1>2, SeqDef
  <1>4. DOMAIN d = 1..n /\ Len(d) \in Nat /\ DOMAIN d = 1..Len(d)
    BY <1>3, LenProperties
  <1>5. Len(d) = n
    <2> HIDE DEF d, n
    <2> QED
      BY <1>1, <1>4
  <1> QED
    BY <1>3, <1>5 DEF Down

LEMMA DownOne ==
    ASSUME NEW m \in Nat, NEW e \in 0..m
    PROVE  <<m + 1>> \o Down(e, m) = Down(e, m + 1)
  <1> DEFINE s == <<m + 1>>
             x == Down(e, m)
             y == Down(e, m + 1)
  <1>1. x \in Seq(Int) /\ Len(x) = m - e /\ \A i \in 1..(m - e) : x[i] = m + 1 - i
    BY DownIs
  <1>2. /\ y \in Seq(Int) /\ Len(y) = m + 1 - e
        /\ \A i \in 1..(m + 1 - e) : y[i] = m + 1 + 1 - i
    <2>1. m + 1 \in Nat /\ e \in 0..(m + 1)
      OBVIOUS
    <2> QED
      BY <2>1, DownIs
  <1>3. s \in Seq(Int) /\ Len(s) = 1 /\ s[1] = m + 1
    OBVIOUS
  <1> HIDE DEF s, x, y
  <1>4. /\ s \o x \in Seq(Int) /\ Len(s \o x) = m + 1 - e
        /\ \A i \in 1..(m + 1 - e) : (s \o x)[i] = IF i <= 1 THEN s[i] ELSE x[i - 1]
    <2>1. /\ s \o x \in Seq(Int) /\ Len(s \o x) = Len(s) + Len(x)
          /\ \A i \in 1..(Len(s) + Len(x)) :
                 (s \o x)[i] = IF i <= Len(s) THEN s[i] ELSE x[i - Len(s)]
      <3> DEFINE Z == Int
      <3>1. s \in Seq(Z) /\ x \in Seq(Z)
        BY <1>1, <1>3
      <3> HIDE DEF Z
      <3>2. /\ s \o x \in Seq(Z) /\ Len(s \o x) = Len(s) + Len(x)
            /\ \A i \in 1..(Len(s) + Len(x)) :
                   (s \o x)[i] = IF i <= Len(s) THEN s[i] ELSE x[i - Len(s)]
        BY <3>1, ConcatProperties
      <3> QED
        BY <3>2 DEF Z
    <2>2. Len(s) + Len(x) = m + 1 - e
      BY <1>1, <1>3
    <2> QED
      BY <1>3, <2>1, <2>2
  <1>5. ASSUME NEW i \in 1..(m + 1 - e) PROVE (s \o x)[i] = y[i]
    <2>1. CASE i <= 1
      <3>1. i = 1 /\ m + 1 - i + 1 = m + 1
        BY <1>1, <2>1
      <3>2. y[i] = m + 1 - i + 1
        BY <1>2
      <3>3. (s \o x)[i] = s[i]
        BY <1>4, <2>1
      <3> QED
        BY <1>3, <3>1, <3>2, <3>3
    <2>2. CASE ~ i <= 1
      <3>1. i - 1 \in 1..(m - e)
        BY <2>2
      <3>2. x[i - 1] = m + 1 - (i - 1)
        BY <1>1, <3>1
      <3>3. m + 1 - (i - 1) = m + 1 - i + 1 /\ m \in Int /\ i \in Int
        BY <3>1
      <3>4. (s \o x)[i] = x[i - 1]
        BY <1>4, <2>2
      <3>5. y[i] = m + 1 - i + 1
        BY <1>2
      <3> QED
        BY <3>2, <3>3, <3>4, <3>5
    <2> QED
      BY <2>1, <2>2
  <1>6. s \o x = y
    BY <1>2, <1>4, <1>5, SeqEqual
  <1> QED
    BY <1>6 DEF s, x, y

\* RowsAbove, if the rows up to pos are in the order of their blocks.
LEMMA RowsAboveIs ==
    ASSUME Filed(file), NEW block \in Int, NEW pos \in 0..Len(file), NEW e \in 0..pos,
           \A p \in 1..pos : file[p].block <= block <=> p <= e
    PROVE  RowsAbove(block, pos) = Down(e, pos) /\ EndBelow(block, pos) = e
  <1> DEFINE n == Len(file)
             none(p) == p = 0 \/ file[p].block <= block
             is(w) == w = [p \in 0..n |-> IF none(p) THEN <<>> ELSE <<p>> \o w[file[p].prev]]
             walk == CHOOSE w : is(w)
             rule == [p \in 1..n |-> [s \in Seq(Int) |-> IF none(p) THEN <<>> ELSE <<p>> \o s]]
  <1>1. n \in Nat /\ \A p \in 1..n : file[p].prev = p - 1
    BY LenProperties DEF Filed
  <1>2. rule \in [1..n -> [Seq(Int) -> Seq(Int)]]
    <2>1. ASSUME NEW p \in 1..n, NEW s \in Seq(Int) PROVE <<p>> \o s \in Seq(Int)
      <3>1. <<p>> \in Seq(Int)
        BY <1>1
      <3> QED
        BY <3>1, ConcatProperties
    <2>2. <<>> \in Seq(Int)
      BY EmptySeq
    <2> HIDE DEF none, n
    <2> QED
      BY <2>1, <2>2
  <1>3. PICK h \in [0..n -> Seq(Int)] : Recursive(h, n, <<>>, rule)
    <2>1. <<>> \in Seq(Int)
      BY EmptySeq
    <2> HIDE DEF rule
    <2> QED
      BY <1>1, <1>2, <2>1, Recursion
  <1>4. ASSUME NEW p \in 0..n
        PROVE  h[p] = IF none(p) THEN <<>> ELSE <<p>> \o h[file[p].prev]
    <2>1. CASE p = 0
      BY <1>3, <2>1 DEF Recursive
    <2>2. CASE p # 0
      <3>1. p \in 1..n /\ p - 1 \in 0..n
        BY <1>1, <2>2
      <3>2. h[p] = rule[p][h[p - 1]] /\ h[p - 1] \in Seq(Int)
        <4> HIDE DEF rule
        <4> QED
          BY <1>3, <3>1 DEF Recursive
      <3>3. rule[p] = [s \in Seq(Int) |-> IF none(p) THEN <<>> ELSE <<p>> \o s]
        BY <3>1
      <3>4. h[p] = IF none(p) THEN <<>> ELSE <<p>> \o h[p - 1]
        <4> HIDE DEF none, rule
        <4> QED
          BY <3>2, <3>3
      <3> QED
        BY <1>1, <3>1, <3>4
    <2> QED
      BY <2>1, <2>2
  <1>5. is(h)
    <2> HIDE DEF none
    <2>1. h = [p \in 0..n |-> h[p]]
      OBVIOUS
    <2> QED
      BY <1>4, <2>1
  <1>6. is(walk)
    <2> HIDE DEF is
    <2> QED
      BY <1>5
  <1>7. RowsAbove(block, pos) = walk[pos]
    BY DEF RowsAbove
  <1> HIDE DEF walk
  <1>8. ASSUME NEW p \in 0..n
        PROVE  walk[p] = IF none(p) THEN <<>> ELSE <<p>> \o walk[file[p].prev]
    <2> HIDE DEF none
    <2> QED
      BY <1>6
  <1> DEFINE T == {m \in 0..pos : walk[m] = IF m <= e THEN <<>> ELSE Down(e, m)}
  <1>0. pos \in Nat /\ e \in Nat /\ e <= pos /\ pos <= n /\ e \in 0..pos
    BY <1>1
  <1>9. 0 \in T
    <2>1. 0 \in 0..n /\ 0 \in 0..pos /\ 0 <= e /\ none(0)
      BY <1>0, <1>1
    <2>2. walk[0] = <<>>
      <3> HIDE DEF none
      <3> QED
        BY <1>8, <2>1
    <2> QED
      BY <2>1, <2>2
  <1>10. ASSUME NEW m \in 0..(pos - 1), m \in T PROVE m + 1 \in T
    <2>1. PICK p \in 1..pos : p = m + 1
      BY <1>1
    <2>2. p \in 0..n /\ p \in 1..n /\ file[p].prev = m /\ p # 0
      BY <1>1, <2>1
    <2>3. CASE p <= e
      <3>1. none(p)
        BY <2>3
      <3>2. walk[p] = <<>>
        <4> HIDE DEF none
        <4> QED
          BY <1>8, <2>2, <3>1
      <3>3. p \in 0..pos
        BY <1>0
      <3>4. walk[p] = IF p <= e THEN <<>> ELSE Down(e, p)
        BY <2>3, <3>2
      <3> QED
        BY <2>1, <3>3, <3>4
    <2>4. CASE ~ p <= e
      <3>1. walk[p] = <<p>> \o walk[m]
        BY <1>8, <2>2, <2>4
      <3>2. CASE m <= e
        <4>1. m = e /\ walk[m] = <<>> /\ m \in Nat /\ e \in 0..m /\ m - e = 0
          BY <1>0, <1>10, <2>1, <2>4, <3>2
        <4>2. Len(Down(e, m)) = m - e /\ Down(e, m) \in Seq(Int)
          BY <4>1, DownIs
        <4>3. walk[m] = Down(e, m)
          BY <4>1, <4>2, EmptySeq
        <4>4. <<m + 1>> \o Down(e, m) = Down(e, m + 1)
          BY <4>1, DownOne
        <4>5. walk[p] = Down(e, p) /\ p \in 0..pos
          BY <1>0, <2>1, <3>1, <4>3, <4>4
        <4> QED
          BY <2>1, <2>4, <4>5
      <3>3. CASE ~ m <= e
        <4>1. m \in Nat /\ e \in 0..m /\ walk[m] = Down(e, m)
          BY <1>0, <1>10, <3>3
        <4>2. <<m + 1>> \o Down(e, m) = Down(e, m + 1)
          BY <4>1, DownOne
        <4>3. walk[p] = Down(e, p) /\ p \in 0..pos
          BY <1>0, <2>1, <3>1, <4>1, <4>2
        <4> QED
          BY <2>1, <2>4, <4>3
      <3> QED
        BY <3>2, <3>3
    <2> QED
      BY <2>3, <2>4
  <1>11. pos \in T
    <2>1. pos \in Nat /\ pos \in 0..pos
      BY <1>1
    <2>2. 0..pos \subseteq T
      <3> HIDE DEF T
      <3> QED
        BY <1>9, <1>10, <2>1, Induction
    <2> QED
      BY <2>1, <2>2
  <1>12. Down(e, pos) \in Seq(Int) /\ Len(Down(e, pos)) = pos - e
    BY <1>0, DownIs
  <1>13. CASE pos <= e
    <2>1. pos = e /\ walk[pos] = <<>>
      BY <1>1, <1>11, <1>13
    <2>2. Down(e, pos) = <<>>
      BY <1>12, <2>1, EmptySeq
    <2> QED
      BY <1>7, <2>1, <2>2 DEF EndBelow
  <1>14. CASE ~ pos <= e
    <2>1. walk[pos] = Down(e, pos) /\ Len(Down(e, pos)) # 0
      BY <1>1, <1>11, <1>12, <1>14
    <2>2. Down(e, pos)[pos - e] = pos + 1 - (pos - e)
      <3>1. pos - e \in 1..(pos - e)
        BY <1>0, <1>14
      <3> QED
        BY <1>0, <3>1, DownIs
    <2>3. pos + 1 - (pos - e) = e + 1 /\ e + 1 \in 1..n /\ e + 1 - 1 = e
      BY <1>1, <1>14
    <2>4. Down(e, pos) # <<>>
      BY <2>1, EmptySeq
    <2>5. Last(Down(e, pos)) = e + 1
      BY <1>12, <2>2, <2>3 DEF Last
    <2>6. file[e + 1].prev = e
      BY <1>1, <2>3
    <2> QED
      BY <1>7, <2>1, <2>4, <2>5, <2>6 DEF EndBelow
  <1> QED
    BY <1>13, <1>14

-----------------------------------------------------------------------------
(* The database, a row more or less.                                       *)

LEMMA KeysOfRow ==
    ASSUME NEW row \in Row
    PROVE  /\ KeysOf(row) \in SUBSET Keys /\ row.tx \in KeysOf(row)
           /\ KeysOf(row) \subseteq {row.tx, row.name}
           /\ \A tx \in Txs : tx \in KeysOf(row) => tx = row.tx
  BY EntityAssumption DEF Row, KeysOf, Keys

\* Put keeps the type, and gives the entry for the new keys only.
Puts(d, base, K, entry) ==
    /\ d \in Bases /\ DOMAIN d = K \cup DOMAIN base
    /\ \A key \in K : d[key] = entry
    /\ \A key \in DOMAIN base \ K : d[key] = base[key]

LEMMA PutIs ==
    ASSUME NEW base \in Bases, NEW K \in SUBSET Keys, NEW entry \in Pairs
    PROVE  Puts(Put(base, K, entry), base, K, entry)
  <1> DEFINE D == K \cup DOMAIN base
             put == [key \in D |-> IF key \in K THEN entry ELSE base[key]]
  <1>1. DOMAIN base \in SUBSET Keys /\ \A key \in DOMAIN base : base[key] \in Pairs
    BY DEF Bases
  <1>2. D \in SUBSET Keys /\ put \in [D -> Pairs]
    BY <1>1
  <1>3. put \in Bases
    BY <1>2 DEF Bases
  <1> QED
    BY <1>3 DEF Put, Puts

\* What is left of the database without the keys of a row.
LEMMA LeftIs ==
    ASSUME NEW base \in Bases, NEW K
    PROVE  [key \in DOMAIN base \ K |-> base[key]] \in Bases
  <1> DEFINE D == DOMAIN base \ K
             left == [key \in D |-> base[key]]
  <1>1. DOMAIN base \in SUBSET Keys /\ \A key \in DOMAIN base : base[key] \in Pairs
    BY DEF Bases
  <1>2. D \in SUBSET Keys /\ left \in [D -> Pairs]
    BY <1>1
  <1> QED
    BY <1>2 DEF Bases

LEMMA EntryIs ==
    ASSUME NEW p \in Int, NEW e \in Int
    PROVE  Entry(p, e) \in Pairs /\ Entry(p, e).pos = p /\ Entry(p, e).chain = e
  BY DEF Entry, Pairs

\* What the soundness of a file says of one row.
LEMMA RowOf ==
    ASSUME NEW f \in Seq(Row), NEW n, Sound(f, n), n \in Nat, NEW p \in 1..n
    PROVE  /\ f[p] \in Row /\ KeysOf(f[p]) \in SUBSET Keys /\ f[p].tx \in KeysOf(f[p])
           /\ f[p].kind = "follow" => f[p].first \in 1..(p - 1) /\ Continues(f, p)
           /\ f[p].kind # "follow" => f[p].first = p /\ Begins(f, p)
           /\ f[p].first \in 1..p
           /\ \A q \in 1..n : p # q => f[p].tx # f[q].tx
  <1>1. Len(f) \in Nat /\ n <= Len(f)
    BY LenProperties DEF Sound
  <1>2. p \in 1..Len(f)
    BY <1>1
  <1>3. f[p] \in Row
    BY <1>2, ElementOfSeq
  <1>4. /\ f[p].kind = "follow" => Continues(f, p)
        /\ f[p].kind # "follow" => Begins(f, p)
    BY DEF Sound
  <1>5. f[p].kind = "follow" => f[p].first \in 1..(p - 1)
    BY <1>4 DEF Continues
  <1>6. f[p].kind # "follow" => f[p].first = p
    BY <1>4 DEF Begins
  <1>7. \A q \in 1..n : p # q => f[p].tx # f[q].tx
    BY DEF Sound, Distinct
  <1>8. f[p].first \in 1..p
    BY <1>5, <1>6
  <1> QED
    BY <1>3, <1>4, <1>5, <1>6, <1>7, <1>8, KeysOfRow

\* A chain ends where it did, if the next row does not belong to it.
LEMMA SameEnd ==
    ASSUME NEW f, NEW n \in Nat, NEW g \in 1..n, NEW e, f[n + 1].first # g
    PROVE  IsEnd(f, g, n, e) <=> IsEnd(f, g, n + 1, e)
  <1>1. ASSUME IsEnd(f, g, n, e) PROVE IsEnd(f, g, n + 1, e)
    BY <1>1 DEF IsEnd
  <1>2. ASSUME IsEnd(f, g, n + 1, e) PROVE IsEnd(f, g, n, e)
    <2>1. e \in g..(n + 1) /\ f[e].first = g /\ e # n + 1
      BY <1>2 DEF IsEnd
    <2>2. \A q \in (e + 1)..n : q \in (e + 1)..(n + 1)
      BY <2>1
    <2> QED
      BY <1>2, <2>1, <2>2 DEF IsEnd
  <1> QED
    BY <1>1, <1>2

\* A row is found by its transaction.
LEMMA FoundByTx ==
    ASSUME NEW f \in Seq(Row), NEW n \in Nat, Sound(f, n), NEW X \in SUBSET Names,
           NEW d, Indexed(f, n, d, X), NEW p \in 1..n
    PROVE  /\ f[p].tx \in DOMAIN d /\ d[f[p].tx].pos = p
           /\ f[p].kind = "asset" => IsEnd(f, p, n, d[f[p].tx].chain)
  <1> DEFINE tx == f[p].tx
             q == d[tx].pos
  <1>1. f[p] \in Row /\ tx \in KeysOf(f[p])
    BY RowOf
  <1>2. tx \in Txs /\ tx \notin X
    BY <1>1, EntityAssumption DEF Row
  <1>3. tx \in DOMAIN d
    BY <1>1, <1>2 DEF Indexed
  <1>4. /\ q \in 1..n /\ tx \in KeysOf(f[q])
        /\ f[q].kind = "asset" => IsEnd(f, q, n, d[tx].chain)
    BY <1>3 DEF Indexed, LeadsTo
  <1>5. f[q] \in Row
    BY <1>4, RowOf
  <1>6. f[q].tx = tx
    BY <1>2, <1>4, <1>5, KeysOfRow
  <1>7. q = p
    BY <1>4, <1>6, RowOf
  <1> QED
    BY <1>3, <1>4, <1>7

\* What a row adds to a batch.
LEMMA WriteOne ==
    ASSUME NEW f, Filed(f), NEW n \in Nat, NEW m \in Nat, n < m, Sound(f, m), NEW X,
           NEW base, Indexed(f, n, base, X)
    PROVE  Indexed(f, n + 1, WriteRow(f, base, f[n + 1]), X)
  <1> DEFINE p == n + 1
             row == f[p]
             K == KeysOf(row)
             own == Put(base, K, Entry(row.chain, row.chain))
             g == row.first
             G == KeysOf(f[g])
             res == WriteRow(f, base, row)
  <1>1. f \in Seq(Row) /\ Len(f) \in Nat /\ m <= Len(f) /\ p \in 1..m /\ p \in 1..Len(f)
    BY LenProperties DEF Filed, Sound
  <1>2. base \in Bases
    BY DEF Indexed
  <1>3. row \in Row /\ K \in SUBSET Keys /\ row.chain = p
    BY <1>1, RowOf DEF Filed
  <1>4. Entry(row.chain, row.chain) \in Pairs /\ Entry(row.chain, row.chain) = Entry(p, p)
    <2>1. p \in Int
      OBVIOUS
    <2> QED
      BY <1>3, <2>1, EntryIs
  <1>5. /\ own \in Bases /\ DOMAIN own = K \cup DOMAIN base
        /\ \A key \in K : own[key] = Entry(p, p)
        /\ \A key \in DOMAIN base \ K : own[key] = base[key]
    <2> DEFINE entry == Entry(row.chain, row.chain)
    <2>1. entry \in Pairs /\ entry = Entry(p, p) /\ own = Put(base, K, entry)
      BY <1>4
    <2> HIDE DEF own, K, entry, p
    <2>2. Puts(own, base, K, entry)
      BY <1>2, <1>3, <2>1, PutIs
    <2> QED
      BY <2>1, <2>2 DEF Puts
  <1>6. ASSUME NEW key \in DOMAIN base, base[key].pos # g
        PROVE  LeadsTo(f, p, key, base[key])
    <2> DEFINE q == base[key].pos
    <2>1. /\ q \in 1..n /\ key \in KeysOf(f[q])
          /\ f[q].kind = "asset" => IsEnd(f, q, n, base[key].chain)
      BY DEF Indexed, LeadsTo
    <2>2. \A e : IsEnd(f, q, n, e) => IsEnd(f, q, p, e)
      <3>1. q \in 1..n /\ f[n + 1].first # q
        BY <1>6, <2>1
      <3> HIDE DEF q
      <3> QED
        BY <3>1, SameEnd
    <2>3. q \in 1..p
      BY <2>1
    <2> QED
      BY <2>1, <2>2, <2>3 DEF LeadsTo
  <1>7. ASSUME NEW d \in Bases, DOMAIN own \subseteq DOMAIN d,
               \A key \in DOMAIN d : LeadsTo(f, p, key, d[key])
        PROVE  Indexed(f, p, d, X)
    <2>1. ASSUME NEW q \in 1..p PROVE KeysOf(f[q]) \ X \subseteq DOMAIN own
      <3>1. CASE q = p
        BY <1>5, <3>1
      <3>2. CASE q # p
        <4>1. q \in 1..n
          BY <3>2
        <4> QED
          BY <1>5, <4>1 DEF Indexed
      <3> QED
        BY <3>1, <3>2
    <2> HIDE DEF own, p
    <2> QED
      BY <1>7, <2>1 DEF Indexed
  <1> HIDE DEF own
  <1>8. CASE row.kind = "follow"
    <2>1. g \in 1..n /\ Continues(f, p) /\ g \in 1..m
      <3>1. g \in 1..(p - 1) /\ Continues(f, p)
        BY <1>1, <1>8, RowOf
      <3> QED
        BY <1>1, <3>1
    <2>2. G \in SUBSET Keys
      BY <1>1, <2>1, RowOf
    <2>3. res = Put(own, G, Entry(g, p))
      BY <1>3, <1>8 DEF WriteRow, own
    <2>4. Entry(g, p) \in Pairs /\ Entry(g, p).pos = g /\ Entry(g, p).chain = p
      BY <2>1, EntryIs
    <2>5. /\ res \in Bases /\ DOMAIN res = G \cup DOMAIN own
          /\ \A key \in G : res[key] = Entry(g, p)
          /\ \A key \in DOMAIN own \ G : res[key] = own[key]
      <3> DEFINE entry == Entry(g, p)
      <3>1. entry \in Pairs /\ res = Put(own, G, entry)
        BY <2>3, <2>4
      <3> HIDE DEF res, entry, G
      <3>2. Puts(res, own, G, entry)
        BY <1>5, <2>2, <3>1, PutIs
      <3> QED
        BY <3>2 DEF entry, Puts
    <2> HIDE DEF res
    <2>6. ASSUME NEW key \in DOMAIN res PROVE LeadsTo(f, p, key, res[key])
      <3>1. CASE key \in G
        <4>1. IsEnd(f, g, p, p)
          <5>1. p \in g..p /\ ~ \E x \in (p + 1)..p : TRUE
            BY <2>1
          <5> QED
            BY <5>1 DEF IsEnd
        <4>2. g \in 1..p
          BY <2>1
        <4> QED
          BY <2>4, <2>5, <3>1, <4>1, <4>2 DEF LeadsTo
      <3>2. CASE key \notin G /\ key \in K
        <4>1. res[key] = Entry(p, p) /\ Entry(p, p).pos = p /\ p \in 1..p
          BY <1>5, <2>5, <3>2, EntryIs
        <4> QED
          BY <1>8, <3>2, <4>1 DEF LeadsTo
      <3>3. CASE key \notin G /\ key \notin K
        <4>1. key \in DOMAIN base /\ res[key] = base[key]
          BY <1>5, <2>5, <3>3
        <4>2. base[key].pos # g
          BY <3>3, <4>1 DEF Indexed, LeadsTo
        <4> QED
          BY <1>6, <4>1, <4>2
      <3> QED
        BY <3>1, <3>2, <3>3
    <2>7. DOMAIN own \subseteq DOMAIN res
      BY <2>5
    <2>8. Indexed(f, p, res, X)
      BY <1>7, <2>5, <2>6, <2>7
    <2> QED
      BY <2>8 DEF res
  <1>9. CASE row.kind # "follow"
    <2>1. g = p
      BY <1>1, <1>9, RowOf
    <2>2. res = own
      BY <1>9 DEF WriteRow, own
    <2>3. ASSUME NEW key \in DOMAIN own PROVE LeadsTo(f, p, key, own[key])
      <3>1. CASE key \in K
        <4>1. own[key].pos = p /\ own[key].chain = p /\ p \in 1..p
          BY <1>5, <3>1, EntryIs
        <4>2. IsEnd(f, p, p, p)
          <5>1. p \in p..p /\ ~ \E x \in (p + 1)..p : TRUE
            BY <1>1
          <5> QED
            BY <2>1, <5>1 DEF IsEnd
        <4> QED
          BY <3>1, <4>1, <4>2 DEF LeadsTo
      <3>2. CASE key \notin K
        <4>1. key \in DOMAIN base /\ own[key] = base[key]
          BY <1>5, <3>2
        <4>2. base[key].pos \in 1..n
          BY <4>1 DEF Indexed, LeadsTo
        <4>3. base[key].pos # g
          BY <2>1, <4>2
        <4> QED
          BY <1>6, <4>1, <4>3
      <3> QED
        BY <3>1, <3>2
    <2>4. Indexed(f, p, own, X)
      BY <1>5, <1>7, <2>3
    <2> QED
      BY <2>2, <2>4
  <1> QED
    BY <1>8, <1>9

\* A name that row p takes with it is one of X, or its asset's own.
Spares(p, X) ==
    file[p].kind = "follow" =>
        file[p].name \in {NoName, file[file[p].first].name} \cup X

\* What a row takes from the database, whether the database has it or not.
LEMMA EraseOne ==
    ASSUME Filed(file), NEW m \in Nat, Sound(file, m), NEW X, Apart(file, m, X),
           NEW p \in 1..m, Spares(p, X), NEW n \in {p - 1, p},
           NEW base, Indexed(file, n, base, X)
    PROVE  Indexed(file, p - 1, EraseRow(base, p), X) /\ EraseRow(base, p) \in Bases
  <1> DEFINE k == p - 1
             row == file[p]
             K == {row.tx, row.name}
             left == Delete(base, row)
             g == row.first
             G == KeysOf(file[g])
             res == EraseRow(base, p)
  <1>1. /\ file \in Seq(Row) /\ Len(file) \in Nat /\ m <= Len(file)
        /\ k \in Nat /\ k + 1 = p /\ p \in Nat
    BY LenProperties DEF Filed, Sound
  <1>2. base \in Bases
    BY DEF Indexed
  <1>3. /\ left \in Bases /\ DOMAIN left = DOMAIN base \ K
        /\ \A key \in DOMAIN left : left[key] = base[key]
    BY <1>2, LeftIs DEF Delete
  <1>4. row \in Row /\ KeysOf(row) \subseteq K
    BY <1>1, RowOf, KeysOfRow
  <1> HIDE DEF left
  <1>5. ASSUME NEW key \in DOMAIN left, base[key].pos # g
        PROVE  LeadsTo(file, k, key, left[key])
    <2> DEFINE q == base[key].pos
    <2>1. key \in DOMAIN base /\ key \notin K /\ left[key] = base[key]
      BY <1>3
    <2>2. /\ q \in 1..n /\ key \in KeysOf(file[q])
          /\ file[q].kind = "asset" => IsEnd(file, q, n, base[key].chain)
      BY <2>1 DEF Indexed, LeadsTo
    <2>3. q # p
      BY <1>4, <2>1, <2>2
    <2>4. q \in 1..k
      BY <1>1, <2>2, <2>3
    <2>5. \A e : IsEnd(file, q, k + 1, e) => IsEnd(file, q, k, e)
      <3>1. file[k + 1].first # q
        BY <1>1, <1>5
      <3> HIDE DEF k, q
      <3> QED
        BY <1>1, <2>4, <3>1, SameEnd
    <2>6. n = k \/ n = k + 1
      OBVIOUS
    <2> HIDE DEF k, q
    <2>7. file[q].kind = "asset" => IsEnd(file, q, k, base[key].chain)
      BY <2>2, <2>5, <2>6
    <2> QED
      BY <2>1, <2>2, <2>4, <2>7 DEF LeadsTo, q
  <1>6. ASSUME NEW q \in 1..k, NEW key \in KeysOf(file[q]) \ X
        PROVE  key \in DOMAIN left \/ (row.kind = "follow" /\ key \in G)
    <2>1. q \in 1..n /\ q \in 1..m /\ q # p
      BY <1>1
    <2>2. key \in DOMAIN base
      BY <2>1 DEF Indexed
    <2>3. key \notin KeysOf(row)
      BY <2>1 DEF Apart
    <2>4. key # NoName
      <3>1. file[q] \in Row
        BY <1>1, <2>1, RowOf
      <3> QED
        BY <3>1, EntityAssumption DEF KeysOf, Row
    <2>5. key # row.tx
      BY <2>3 DEF KeysOf
    <2>6. CASE key # row.name
      BY <1>3, <2>2, <2>5, <2>6
    <2>7. CASE key = row.name
      <3>1. row.kind = "follow"
        BY <2>3, <2>4, <2>7 DEF KeysOf
      <3>2. key = file[g].name
        BY <2>4, <2>7, <3>1 DEF Spares
      <3>3. Continues(file, p)
        BY <1>1, <3>1, RowOf
      <3>4. file[g].kind = "asset"
        BY <3>3 DEF Continues
      <3> QED
        BY <2>4, <3>1, <3>2, <3>4 DEF KeysOf
    <2> QED
      BY <2>6, <2>7
  <1>7. CASE row.kind = "follow"
    <2>1. g \in 1..k /\ Continues(file, p) /\ g \in 1..m
      <3>1. g \in 1..(p - 1) /\ Continues(file, p)
        BY <1>1, <1>7, RowOf
      <3> QED
        BY <1>1, <3>1
    <2>2. IsEnd(file, g, k, row.last)
      BY <2>1 DEF Continues
    <2>3. row.last \in Int /\ g \in Int
      BY <1>1, <2>1, <2>2 DEF IsEnd
    <2>4. G \in SUBSET Keys
      BY <1>1, <2>1, RowOf
    <2> DEFINE entry == Entry(g, row.last)
    <2>5. res = Put(left, G, entry)
      BY <1>7 DEF EraseRow, left
    <2>6. entry \in Pairs /\ entry.pos = g /\ entry.chain = row.last
      BY <2>3, EntryIs
    <2> HIDE DEF res, entry
    <2>7. Puts(res, left, G, entry)
      <3> HIDE DEF G
      <3> QED
        BY <1>3, <2>4, <2>5, <2>6, PutIs
    <2>8. res \in Bases /\ DOMAIN res = G \cup DOMAIN left
      BY <2>7 DEF Puts
    <2>9. ASSUME NEW key \in DOMAIN res PROVE LeadsTo(file, k, key, res[key])
      <3>1. CASE key \in G
        <4>1. res[key] = entry
          BY <2>7, <3>1 DEF Puts
        <4> QED
          BY <2>1, <2>2, <2>6, <3>1, <4>1 DEF LeadsTo
      <3>2. CASE key \notin G
        <4>1. key \in DOMAIN left /\ res[key] = left[key]
          BY <2>7, <2>8, <3>2 DEF Puts
        <4>2. key \in DOMAIN base
          BY <1>3, <4>1
        <4>3. base[key].pos # g
          BY <3>2, <4>2 DEF Indexed, LeadsTo
        <4> QED
          BY <1>5, <4>1, <4>3
      <3> QED
        BY <3>1, <3>2
    <2>10. Indexed(file, k, res, X)
      <3>1. \A q \in 1..k : KeysOf(file[q]) \ X \subseteq DOMAIN res
        BY <1>6, <2>8
      <3> HIDE DEF k
      <3> QED
        BY <2>8, <2>9, <3>1 DEF Indexed
    <2> QED
      BY <2>8, <2>10 DEF res
  <1>8. CASE row.kind # "follow"
    <2>1. g = p
      BY <1>1, <1>8, RowOf
    <2>2. res = left
      BY <1>8 DEF EraseRow, left
    <2>3. ASSUME NEW key \in DOMAIN left PROVE LeadsTo(file, k, key, left[key])
      <3>1. key \in DOMAIN base /\ key \notin KeysOf(row)
        BY <1>3, <1>4
      <3>2. base[key].pos # g
        BY <2>1, <3>1 DEF Indexed, LeadsTo
      <3> QED
        BY <1>5, <3>2
    <2>4. Indexed(file, k, left, X)
      <3>1. \A q \in 1..k : KeysOf(file[q]) \ X \subseteq DOMAIN left
        BY <1>6, <1>8
      <3> HIDE DEF k
      <3> QED
        BY <1>3, <2>3, <3>1 DEF Indexed
    <2> QED
      BY <1>3, <2>2, <2>4
  <1> QED
    BY <1>7, <1>8

-----------------------------------------------------------------------------
(* The batches.                                                            *)

\* The rows behind e are erased: all of them, or all but the last, which the database
\* does not have.
LEMMA ErasedIs ==
    ASSUME Filed(file), NEW pos \in Nat, Sound(file, pos), NEW e \in 0..pos,
           NEW X, Apart(file, pos, X), \A p \in (e + 1)..pos : Spares(p, X), NEW base,
           \/ Indexed(file, pos, base, X)
           \/ pos <= e + 1 /\ Indexed(file, e, base, X)
    PROVE  Indexed(file, e, Erased(base, Down(e, pos)), X)
  <1> DEFINE down == Down(e, pos)
             n == Len(down)
             is(w) == w = [i \in 0..n |-> IF i = 0 THEN base ELSE EraseRow(w[i - 1], down[i])]
             left == CHOOSE w : is(w)
             rule == [i \in 1..n |-> [d \in Bases |-> EraseRow(d, down[i])]]
  <1>1. /\ n = pos - e /\ n \in Nat /\ file \in Seq(Row) /\ pos <= Len(file)
        /\ \A i \in 1..n : down[i] = pos + 1 - i /\ down[i] \in 1..pos
    <2>1. n = pos - e /\ \A i \in 1..(pos - e) : down[i] = pos + 1 - i
      BY DownIs
    <2> QED
      BY <2>1 DEF Filed, Sound
  <1> HIDE DEF down, n
  <1>2. base \in Bases
    BY DEF Indexed
  <1>3. ASSUME NEW d \in Bases, NEW p \in 1..pos
        PROVE  EraseRow(d, p) \in Bases
    <2> DEFINE l == Delete(d, file[p])
               entry == Entry(file[p].first, file[p].last)
               K == KeysOf(file[file[p].first])
    <2>1. l \in Bases
      BY LeftIs DEF Delete
    <2>2. file[p] \in Row /\ file[p].first \in 1..pos
      <3>1. file[p].first \in 1..p /\ file[p] \in Row
        BY <1>1, RowOf
      <3> QED
        BY <3>1
    <2>3. K \in SUBSET Keys
      BY <1>1, <2>2, RowOf
    <2>4. entry \in Pairs
      <3>1. file[p].first \in Int /\ file[p].last \in Int
        BY <2>2 DEF Row
      <3> QED
        BY <3>1, EntryIs
    <2>5. EraseRow(d, p) = IF file[p].kind = "follow" THEN Put(l, K, entry) ELSE l
      BY DEF EraseRow
    <2> HIDE DEF l, K, entry
    <2>6. Put(l, K, entry) \in Bases
      BY <2>1, <2>3, <2>4, PutIs DEF Puts
    <2> QED
      BY <2>1, <2>5, <2>6
  <1>4. rule \in [1..n -> [Bases -> Bases]]
    BY <1>1, <1>3
  <1>5. PICK h \in [0..n -> Bases] : Recursive(h, n, base, rule)
    <2> HIDE DEF rule
    <2> QED
      BY <1>1, <1>2, <1>4, Recursion
  <1>6. is(h)
    <2>1. ASSUME NEW i \in 0..n
          PROVE  h[i] = IF i = 0 THEN base ELSE EraseRow(h[i - 1], down[i])
      <3>1. CASE i = 0
        BY <1>5, <3>1 DEF Recursive
      <3>2. CASE i # 0
        <4>1. i \in 1..n /\ i - 1 \in 0..n
          BY <1>1, <3>2
        <4>2. h[i] = rule[i][h[i - 1]] /\ h[i - 1] \in Bases
          <5> HIDE DEF rule
          <5> QED
            BY <1>5, <4>1 DEF Recursive
        <4>3. rule[i] = [d \in Bases |-> EraseRow(d, down[i])]
          BY <4>1
        <4> QED
          BY <3>2, <4>2, <4>3
      <3> QED
        BY <3>1, <3>2
    <2>2. h = [i \in 0..n |-> h[i]]
      OBVIOUS
    <2> QED
      BY <2>1, <2>2
  <1>7. is(left)
    <2> HIDE DEF is
    <2> QED
      BY <1>6
  <1>8. Erased(base, down) = left[n]
    BY DEF Erased, n
  <1> HIDE DEF left
  <1>9. left[0] = base /\ \A i \in 1..n : left[i] = EraseRow(left[i - 1], down[i])
    <2>1. 0 \in 0..n /\ \A i \in 1..n : i \in 0..n /\ i # 0
      BY <1>1
    <2> QED
      BY <1>7, <2>1
  <1> DEFINE T == {i \in 0..n : i > 0 => Indexed(file, pos - i, left[i], X)}
  <1>10. 0 \in T
    BY <1>1
  <1>11. ASSUME NEW i \in 0..(n - 1), i \in T PROVE i + 1 \in T
    <2>1. PICK j \in 1..n : j = i + 1
      BY <1>1
    <2>2. PICK p \in 1..pos : p = pos - i
      BY <1>1
    <2>3. left[j] = EraseRow(left[i], p)
      <3>1. j - 1 = i /\ down[j] = p
        BY <1>1, <2>1, <2>2
      <3> QED
        BY <1>9, <3>1
    <2>4. Indexed(file, p, left[i], X) \/ Indexed(file, p - 1, left[i], X)
      <3>1. CASE i = 0
        <4>1. left[i] = base /\ p = pos
          BY <1>9, <2>2, <3>1
        <4>2. pos <= e + 1 => p - 1 = e
          BY <1>1, <2>1, <3>1, <4>1
        <4> QED
          BY <4>1, <4>2
      <3>2. CASE i # 0
        BY <1>11, <2>2, <3>2
      <3> QED
        BY <3>1, <3>2
    <2>5. Indexed(file, p - 1, left[j], X)
      <3>1. PICK x \in {p - 1, p} : Indexed(file, x, left[i], X)
        BY <2>4
      <3>2. p \in (e + 1)..pos
        BY <1>1, <2>2
      <3>3. Spares(p, X)
        BY <3>2
      <3> QED
        BY <2>3, <3>1, <3>3, EraseOne
    <2>6. p - 1 = pos - j /\ j \in 0..n
      BY <1>1, <2>1, <2>2
    <2> QED
      BY <2>1, <2>5, <2>6
  <1>12. n \in T
    <2>1. n \in 0..n
      BY <1>1
    <2>2. 0..n \subseteq T
      <3> HIDE DEF T
      <3> QED
        BY <1>1, <1>10, <1>11, Induction
    <2> QED
      BY <2>1, <2>2
  <1>13. CASE n = 0
    <2>1. pos = e /\ left[n] = base
      BY <1>1, <1>9, <1>13
    <2> QED
      BY <1>8, <2>1 DEF down
  <1>14. CASE n # 0
    <2>1. n > 0 /\ pos - n = e
      BY <1>1, <1>14
    <2> QED
      BY <1>8, <1>12, <2>1 DEF down
  <1> QED
    BY <1>13, <1>14

\* The next rows of a file are added.
LEMMA BatchIs ==
    ASSUME NEW f, Filed(f), NEW n \in Nat, NEW m \in Nat, Sound(f, m),
           NEW X, Indexed(f, n, batch, X), NEW placed \in Seq(Row), n + Len(placed) <= m,
           \A i \in 1..Len(placed) : placed[i] = f[n + i]
    PROVE  Indexed(f, n + Len(placed), Batch(f, placed), X)
  <1> DEFINE l == Len(placed)
             is(w) == w = [i \in 0..l |-> IF i = 0 THEN batch ELSE WriteRow(f, w[i - 1], placed[i])]
             with == CHOOSE w : is(w)
             rule == [i \in 1..l |-> [d \in Bases |-> WriteRow(f, d, placed[i])]]
  <1>1. l \in Nat /\ f \in Seq(Row) /\ m <= Len(f) /\ n \in 0..Len(f)
    BY LenProperties DEF Filed, Sound
  <1>2. batch \in Bases
    BY DEF Indexed
  <1>3. ASSUME NEW d \in Bases, NEW i \in 1..l
        PROVE  WriteRow(f, d, placed[i]) \in Bases
    <2> DEFINE row == placed[i]
               entry == Entry(row.chain, row.chain)
               K == KeysOf(row)
               own == Put(d, K, entry)
               G == KeysOf(f[row.first])
               first == Entry(row.first, row.chain)
    <2>1. PICK x \in 1..m : x = n + i
      BY <1>1
    <2>2. row \in Row /\ K \in SUBSET Keys /\ row.first \in 1..x
      <3>1. row = f[x]
        BY <2>1
      <3> HIDE DEF row
      <3> QED
        BY <1>1, <3>1, RowOf
    <2>3. row.first \in 1..m
      BY <2>2
    <2>4. G \in SUBSET Keys
      BY <1>1, <2>3, RowOf
    <2>5. entry \in Pairs /\ first \in Pairs
      <3>1. row.first \in Int /\ row.chain \in Int
        BY <2>2 DEF Row
      <3> QED
        BY <3>1, EntryIs
    <2>6. WriteRow(f, d, row) = IF row.kind = "follow" THEN Put(own, G, first) ELSE own
      BY DEF WriteRow
    <2>7. own \in Bases
      <3> HIDE DEF K, entry
      <3> QED
        BY <2>2, <2>5, PutIs DEF Puts
    <2> HIDE DEF own, G, first, row
    <2>8. Put(own, G, first) \in Bases
      BY <2>4, <2>5, <2>7, PutIs DEF Puts
    <2> QED
      BY <2>6, <2>7, <2>8 DEF row
  <1>4. rule \in [1..l -> [Bases -> Bases]]
    BY <1>1, <1>3
  <1>5. PICK h \in [0..l -> Bases] : Recursive(h, l, batch, rule)
    <2> HIDE DEF rule
    <2> QED
      BY <1>1, <1>2, <1>4, Recursion
  <1>6. is(h)
    <2>1. ASSUME NEW i \in 0..l
          PROVE  h[i] = IF i = 0 THEN batch ELSE WriteRow(f, h[i - 1], placed[i])
      <3>1. CASE i = 0
        BY <1>5, <3>1 DEF Recursive
      <3>2. CASE i # 0
        <4>1. i \in 1..l /\ i - 1 \in 0..l
          BY <1>1, <3>2
        <4>2. h[i] = rule[i][h[i - 1]] /\ h[i - 1] \in Bases
          <5> HIDE DEF rule
          <5> QED
            BY <1>5, <4>1 DEF Recursive
        <4>3. rule[i] = [d \in Bases |-> WriteRow(f, d, placed[i])]
          BY <4>1
        <4> QED
          BY <3>2, <4>2, <4>3
      <3> QED
        BY <3>1, <3>2
    <2>2. h = [i \in 0..l |-> h[i]]
      OBVIOUS
    <2> QED
      BY <2>1, <2>2
  <1>7. is(with)
    <2> HIDE DEF is
    <2> QED
      BY <1>6
  <1>8. Batch(f, placed) = with[l]
    BY DEF Batch
  <1> HIDE DEF with
  <1>9. with[0] = batch /\ \A i \in 1..l : with[i] = WriteRow(f, with[i - 1], placed[i])
    <2>1. 0 \in 0..l /\ \A i \in 1..l : i \in 0..l /\ i # 0
      BY <1>1
    <2> QED
      BY <1>7, <2>1
  <1> DEFINE T == {i \in 0..l : Indexed(f, n + i, with[i], X)}
  <1>10. 0 \in T
    BY <1>1, <1>9
  <1>11. ASSUME NEW i \in 0..(l - 1), i \in T PROVE i + 1 \in T
    <2>1. PICK j \in 1..l : j = i + 1
      BY <1>1
    <2>2. PICK x \in Nat : x = n + i
      BY <1>1
    <2>3. j - 1 = i /\ j \in 0..l /\ n + j = x + 1 /\ x < m
      BY <1>1, <2>1, <2>2
    <2>4. with[j] = WriteRow(f, with[i], f[x + 1])
      <3>1. placed[j] = f[n + j]
        BY <1>1
      <3> QED
        BY <1>9, <2>3, <3>1
    <2>5. Indexed(f, x, with[i], X)
      BY <1>11, <2>2
    <2>6. Indexed(f, x + 1, with[j], X)
      BY <2>3, <2>4, <2>5, WriteOne
    <2> QED
      BY <2>1, <2>3, <2>6
  <1>12. l \in T
    <2>1. l \in 0..l
      BY <1>1
    <2>2. 0..l \subseteq T
      <3> HIDE DEF T
      <3> QED
        BY <1>1, <1>10, <1>11, Induction
    <2> QED
      BY <2>1, <2>2
  <1> QED
    BY <1>8, <1>12

-----------------------------------------------------------------------------
(* Two files that begin with the same rows.                                *)
Same(f, h, n) == \A p \in 1..n : h[p] = f[p]

LEMMA SameEnds ==
    ASSUME NEW f, NEW h, NEW n \in Nat, Same(f, h, n), NEW g \in 1..n, NEW e
    PROVE  IsEnd(f, g, n, e) => IsEnd(h, g, n, e)
  <1>1. SUFFICES ASSUME IsEnd(f, g, n, e) PROVE IsEnd(h, g, n, e)
    OBVIOUS
  <1>2. e \in 1..n /\ \A q \in (e + 1)..n : q \in 1..n
    BY <1>1 DEF IsEnd
  <1> QED
    BY <1>1, <1>2 DEF IsEnd, Same

LEMMA SameSound ==
    ASSUME NEW f, NEW h, NEW n \in Nat, Same(f, h, n), Sound(f, n), n <= Len(h)
    PROVE  Sound(h, n)
  <1>1. ASSUME NEW p \in 1..n
        PROVE  IF h[p].kind = "follow" THEN Continues(h, p) ELSE Begins(h, p)
    <2>1. h[p] = f[p] /\ (IF f[p].kind = "follow" THEN Continues(f, p) ELSE Begins(f, p))
      BY DEF Same, Sound
    <2>2. CASE f[p].kind = "follow"
      <3> DEFINE g == f[p].first
                 k == p - 1
      <3>1. Continues(f, p) /\ g \in 1..k /\ g \in 1..n /\ k \in Nat
        BY <2>1, <2>2 DEF Continues
      <3>2. h[g] = f[g] /\ h[p] = f[p]
        BY <3>1 DEF Same
      <3>3. Same(f, h, k)
        BY DEF Same
      <3>4. IsEnd(f, g, k, f[p].last)
        BY <3>1 DEF Continues
      <3>5. IsEnd(h, g, k, f[p].last)
        <4> HIDE DEF g, k
        <4> QED
          BY <3>1, <3>3, <3>4, SameEnds
      <3>6. Continues(h, p)
        BY <3>1, <3>2, <3>5 DEF Continues
      <3> QED
        BY <2>1, <2>2, <3>6
    <2>3. CASE f[p].kind # "follow"
      BY <2>1, <2>3 DEF Begins
    <2> QED
      BY <2>2, <2>3
  <1>2. Distinct(h, n)
    BY DEF Sound, Distinct, Same
  <1> QED
    BY <1>1, <1>2 DEF Sound

LEMMA SameApart ==
    ASSUME NEW f, NEW h, NEW n \in Nat, Same(f, h, n), NEW X, Apart(f, n, X)
    PROVE  Apart(h, n, X)
  BY DEF Apart, Same

LEMMA SameIndexed ==
    ASSUME NEW f, NEW h, NEW n \in Nat, NEW k \in 0..n, Same(f, h, n), NEW d, NEW X,
           Indexed(f, k, d, X)
    PROVE  Indexed(h, k, d, X)
  <1>1. k \in Nat /\ Same(f, h, k)
    BY DEF Same
  <1>2. \A p \in 1..k : h[p] = f[p]
    BY <1>1 DEF Same
  <1>3. ASSUME NEW key \in DOMAIN d PROVE LeadsTo(h, k, key, d[key])
    <2> DEFINE p == d[key].pos
               e == d[key].chain
    <2>1. LeadsTo(f, k, key, d[key])
      BY DEF Indexed
    <2>2. p \in 1..k /\ h[p] = f[p]
      BY <1>2, <2>1 DEF LeadsTo
    <2>3. IsEnd(f, p, k, e) => IsEnd(h, p, k, e)
      <3> HIDE DEF p, e
      <3> QED
        BY <1>1, <2>2, SameEnds
    <2> QED
      BY <2>1, <2>2, <2>3 DEF LeadsTo
  <1>4. \A p \in 1..k : KeysOf(h[p]) \ X \subseteq DOMAIN d
    BY <1>2 DEF Indexed
  <1>5. d \in Bases
    BY DEF Indexed
  <1> QED
    BY <1>3, <1>4, <1>5 DEF Indexed

\* What holds but for some keys holds but for more.
LEMMA ButForMore ==
    ASSUME NEW f, NEW n, NEW X, NEW Y, X \subseteq Y
    PROVE  /\ Apart(f, n, X) => Apart(f, n, Y)
           /\ \A d : Indexed(f, n, d, X) => Indexed(f, n, d, Y)
           /\ \A p : Spares(p, X) => Spares(p, Y)
  <1>1. Apart(f, n, X) => Apart(f, n, Y)
    BY DEF Apart
  <1>2. \A d : Indexed(f, n, d, X) => Indexed(f, n, d, Y)
    BY DEF Indexed
  <1>3. \A p : Spares(p, X) => Spares(p, Y)
    BY DEF Spares
  <1> QED
    BY <1>1, <1>2, <1>3

LEMMA SameLayered ==
    ASSUME NEW f, NEW h, NEW n \in Nat, Same(f, h, n), NEW c, Layered(f, n, c)
    PROVE  Layered(h, n, c)
  <1>1. SUFFICES ASSUME NEW b \in 0..Len(c)
                 PROVE  /\ Len(UpTo(c, b)) \in 0..n
                        /\ \A p \in 1..n : h[p].block <= b <=> p <= Len(UpTo(c, b))
                        /\ \A p \in 1..Len(UpTo(c, b)) : UpTo(c, b)[p] = IssueOf(h[p])
    BY DEF Layered
  <1>2. /\ Len(UpTo(c, b)) \in 0..n
        /\ \A p \in 1..n : f[p].block <= b <=> p <= Len(UpTo(c, b))
        /\ \A p \in 1..Len(UpTo(c, b)) : UpTo(c, b)[p] = IssueOf(f[p])
    BY DEF Layered
  <1>3. \A p \in 1..Len(UpTo(c, b)) : p \in 1..n
    BY <1>2
  <1>4. \A p \in 1..n : h[p] = f[p]
    BY DEF Same
  <1> QED
    BY <1>2, <1>3, <1>4

\* A file is sound up to any row before.
LEMMA SoundBefore ==
    ASSUME NEW f, NEW n \in Nat, NEW k \in 0..n, Sound(f, n), Len(f) \in Nat
    PROVE  Sound(f, k) /\ \A X : Apart(f, n, X) => Apart(f, k, X)
  <1>1. k <= Len(f) /\ \A p \in 1..k : p \in 1..n
    BY DEF Sound
  <1> QED
    BY <1>1 DEF Sound, Distinct, Apart

-----------------------------------------------------------------------------
(* The rows in memory in their places.                                     *)
Former(i) ==
    {j \in 1..(i - 1) : \/ j = -m_MemPool[i].first
                        \/ m_MemPool[j].kind = "follow" /\ m_MemPool[j].first = m_MemPool[i].first}
Linked(row) == row.kind = "follow" /\ row.first < 0

\* Row s is row r of the memory, the i-th, where the commit puts it.
PlacedAs(r, s, i) ==
    /\ s \in Row
    /\ s.tx = r.tx /\ s.kind = r.kind /\ s.of = r.of /\ s.name = r.name
    /\ s.quantity = r.quantity /\ s.block = r.block
    /\ s.chain = m_PrevPos + i /\ s.prev = m_PrevPos + i - 1
    /\ Linked(r) => s.first = m_PrevPos - r.first /\ s.last = m_PrevPos + Max(Former(i))
    /\ ~Linked(r) => s.last = r.last
    /\ r.kind # "follow" => s.first = m_PrevPos + i
    /\ r.kind = "follow" /\ ~Linked(r) => s.first = r.first

\* What Waiting says of one row.
LEMMA WaitingRow ==
    ASSUME NEW pool, Waiting(pool), NEW i \in 1..Len(pool)
    PROVE  /\ pool[i] \in Row /\ pool[i].block = m_Block + 1
           /\ KeysOf(pool[i]) \cap DOMAIN db = {}
           /\ pool[i].kind = "follow" => ContinuesPool(pool, i) \/ ContinuesFile(pool, i)
           /\ pool[i].kind # "follow" => BeginsPool(pool, i)
  <1>1. pool[i] \in Row
    BY ElementOfSeq DEF Waiting
  <1> QED
    BY <1>1 DEF Waiting

LEMMA FormerIs ==
    ASSUME Waiting(m_MemPool), m_PrevPos \in Nat, NEW i \in 1..Len(m_MemPool),
           Linked(m_MemPool[i])
    PROVE  /\ ContinuesPool(m_MemPool, i) /\ Max(Former(i)) \in Former(i)
           /\ \A j \in Former(i) : j <= Max(Former(i)) /\ -m_MemPool[i].first <= j
           /\ Max(Former(i)) \in 1..(i - 1)
  <1> DEFINE r == m_MemPool[i]
             g == -r.first
  <1>1. ContinuesPool(m_MemPool, i) /\ r.first \in Int /\ i \in Nat
    <2>1. ~ContinuesFile(m_MemPool, i)
      BY DEF ContinuesFile, Linked
    <2>2. r \in Row /\ ContinuesPool(m_MemPool, i)
      BY <2>1, WaitingRow DEF Linked
    <2> QED
      BY <2>2, LenProperties DEF Row
  <1>2. g \in Former(i)
    BY <1>1 DEF ContinuesPool, Former
  <1>3. Former(i) \in SUBSET (0..i)
    BY <1>1 DEF Former
  <1>4. Max(Former(i)) \in Former(i) /\ \A j \in Former(i) : j <= Max(Former(i))
    BY <1>1, <1>2, <1>3, MaxIs
  <1>5. ASSUME NEW j \in Former(i) PROVE g <= j
    <2>1. CASE j = g
      BY <1>1, <2>1
    <2>2. CASE j # g
      <3> DEFINE s == m_MemPool[j]
      <3>1. j \in 1..Len(m_MemPool) /\ s.kind = "follow" /\ s.first = r.first
        BY <1>1, <2>2, LenProperties DEF Former, Waiting
      <3>2. ~ContinuesFile(m_MemPool, j)
        BY <3>1 DEF ContinuesFile, Linked
      <3>3. ContinuesPool(m_MemPool, j)
        BY <3>1, <3>2, WaitingRow
      <3>4. -s.first \in 1..(j - 1)
        BY <3>3 DEF ContinuesPool
      <3> QED
        BY <1>1, <3>1, <3>4
    <2> QED
      BY <2>1, <2>2
  <1>6. Former(i) \subseteq 1..(i - 1)
    BY DEF Former
  <1> QED
    BY <1>1, <1>4, <1>5, <1>6

LEMMA PlacedIs ==
    ASSUME Waiting(m_MemPool), m_PrevPos \in Nat, m_Pos = m_PrevPos + 1
    PROVE  /\ Placed \in Seq(Row) /\ Len(Placed) = Len(m_MemPool)
           /\ \A i \in 1..Len(m_MemPool) : PlacedAs(m_MemPool[i], Placed[i], i)
  <1> DEFINE n == Len(m_MemPool)
             pos(i) == m_Pos + i - 1
             r(i) == m_MemPool[i]
             first(i) == IF r(i).first < 0 THEN pos(IF Linked(r(i)) THEN -r(i).first ELSE i)
                                           ELSE r(i).first
             last(i) == IF Linked(r(i)) THEN pos(Max(Former(i))) ELSE r(i).last
             prev(i) == IF i = 1 THEN m_PrevPos ELSE pos(i - 1)
             row(i) == [r(i) EXCEPT !.prev = prev(i), !.first = first(i), !.last = last(i),
                                    !.chain = pos(i)]
             placed == [i \in DOMAIN m_MemPool |-> row(i)]
  <1>1. n \in Nat /\ DOMAIN m_MemPool = 1..n
    BY LenProperties DEF Waiting
  <1>2. Placed = placed
    BY DEF Placed, Linked, Former
  <1>3. ASSUME NEW i \in 1..n PROVE PlacedAs(r(i), row(i), i)
    <2>1. /\ r(i) \in Row /\ r(i).first \in Int /\ r(i).last \in Int /\ i \in Int
          /\ r(i).kind # "follow" => r(i).first < 0
          /\ r(i).kind = "follow" /\ ~Linked(r(i)) => ~ r(i).first < 0
      BY <1>1, WaitingRow DEF Row, BeginsPool, Linked
    <2>2. Linked(r(i)) => Max(Former(i)) \in Int
      BY FormerIs
    <2>3. pos(i) = m_PrevPos + i /\ pos(i) \in Int
      BY <2>1
    <2>4. prev(i) = m_PrevPos + i - 1 /\ prev(i) \in Int
      BY <2>1
    <2>5. /\ first(i) \in Int
          /\ Linked(r(i)) => first(i) = m_PrevPos - r(i).first
          /\ r(i).kind # "follow" => first(i) = m_PrevPos + i
          /\ r(i).kind = "follow" /\ ~Linked(r(i)) => first(i) = r(i).first
      <3>1. CASE Linked(r(i))
        <4>1. first(i) = pos(-r(i).first)
          BY <3>1 DEF Linked
        <4>2. r(i).kind = "follow"
          BY <3>1 DEF Linked
        <4> QED
          BY <2>1, <3>1, <4>1, <4>2
      <3>2. CASE ~Linked(r(i)) /\ r(i).first < 0
        <4>1. first(i) = pos(i)
          BY <3>2
        <4> QED
          BY <2>1, <2>3, <3>2, <4>1
      <3>3. CASE ~Linked(r(i)) /\ ~ r(i).first < 0
        <4>1. first(i) = r(i).first
          BY <3>3
        <4> QED
          BY <2>1, <3>3, <4>1
      <3> QED
        BY <3>1, <3>2, <3>3
    <2>6. /\ last(i) \in Int
          /\ Linked(r(i)) => last(i) = m_PrevPos + Max(Former(i))
          /\ ~Linked(r(i)) => last(i) = r(i).last
      BY <2>1, <2>2
    <2> HIDE DEF first, last, prev, pos
    <2>7. /\ row(i) \in Row
          /\ row(i).prev = prev(i) /\ row(i).first = first(i) /\ row(i).last = last(i)
          /\ row(i).chain = pos(i)
          /\ row(i).tx = r(i).tx /\ row(i).kind = r(i).kind /\ row(i).of = r(i).of
          /\ row(i).name = r(i).name /\ row(i).quantity = r(i).quantity
          /\ row(i).block = r(i).block
      BY <2>1, <2>3, <2>4, <2>5, <2>6 DEF Row
    <2> HIDE DEF row, r
    <2> QED
      BY <2>3, <2>4, <2>5, <2>6, <2>7 DEF PlacedAs
  <1>4. \A i \in 1..n : placed[i] = row(i)
    BY <1>1
  <1>5. placed \in [1..n -> Row]
    <2>1. \A i \in 1..n : row(i) \in Row
      <3> HIDE DEF row
      <3> QED
        BY <1>3 DEF PlacedAs
    <2> HIDE DEF row
    <2> QED
      BY <1>1, <2>1
  <1> HIDE DEF placed
  <1>6. placed \in Seq(Row)
    BY <1>1, <1>5, SeqDef
  <1>7. Len(placed) = n
    BY <1>1, <1>5, <1>6, LenProperties
  <1>8. \A i \in 1..n : PlacedAs(m_MemPool[i], placed[i], i)
    <2> HIDE DEF row
    <2> QED
      BY <1>3, <1>4
  <1> QED
    BY <1>2, <1>6, <1>7, <1>8

\* The file with the first k of them.
LEMMA FileWithIs ==
    ASSUME Filed(file), Waiting(m_MemPool), NEW k \in 0..Len(m_MemPool),
           m_PrevPos \in 0..Len(file), m_Pos = m_PrevPos + 1
    PROVE  /\ Filed(FileWith(k)) /\ Same(file, FileWith(k), m_PrevPos)
           /\ m_PrevPos + k <= Len(FileWith(k))
           /\ \A i \in 1..k : FileWith(k)[m_PrevPos + i] = Placed[i]
  <1> DEFINE H == m_PrevPos
             n == Len(file)
             l == Max({n, m_Pos + k - 1})
             at(p) == IF p \in m_Pos..(m_Pos + k - 1) THEN Placed[p - m_Pos + 1] ELSE file[p]
             f == [p \in 1..l |-> at(p)]
  <1>1. /\ n \in Nat /\ Len(m_MemPool) \in Nat /\ H \in Nat /\ k \in Nat /\ H <= n
        /\ file \in Seq(Row)
    BY LenProperties DEF Filed, Waiting
  <1>2. /\ l \in Nat /\ n <= l /\ H + k <= l
        /\ \A p \in 1..l : p \in (H + 1)..(H + k) \/ p \in 1..n
    <2> DEFINE N == H + k
    <2>1. N \in Nat /\ m_Pos + k - 1 = N
      BY <1>1
    <2> HIDE DEF N
    <2>2. {n, N} # {} /\ {n, N} \in SUBSET (0..(n + N)) /\ n + N \in Nat
      BY <1>1, <2>1
    <2>3. Max({n, N}) \in {n, N} /\ \A y \in {n, N} : y <= Max({n, N})
      BY <2>2, MaxIs
    <2>4. l \in {n, N} /\ n <= l /\ N <= l
      BY <2>1, <2>3
    <2> HIDE DEF l, n
    <2>5. l \in Nat /\ n <= l /\ H + k <= l
      BY <1>1, <2>1, <2>4 DEF N
    <2>6. ASSUME NEW p \in 1..l, p \notin (H + 1)..(H + k) PROVE p \in 1..n
      <3>1. CASE l = n
        BY <3>1
      <3>2. CASE l = N
        BY <1>1, <2>6, <3>2 DEF N
      <3> QED
        BY <2>4, <3>1, <3>2
    <2> QED
      BY <2>5, <2>6
  <1>3. /\ Placed \in Seq(Row) /\ Len(Placed) = Len(m_MemPool)
        /\ \A i \in 1..Len(m_MemPool) : PlacedAs(m_MemPool[i], Placed[i], i)
    BY <1>1, PlacedIs
  <1>4. FileWith(k) = f
    BY DEF FileWith
  <1> HIDE DEF l
  <1>5. ASSUME NEW p \in 1..l
        PROVE  f[p] \in Row /\ f[p].prev = p - 1 /\ f[p].chain = p
    <2>1. CASE p \in (H + 1)..(H + k)
      <3>1. PICK i \in 1..k : i = p - H
        BY <1>1, <2>1
      <3>2. p - m_Pos + 1 = i /\ p \in m_Pos..(m_Pos + k - 1) /\ i \in 1..Len(m_MemPool)
        BY <1>1, <2>1, <3>1
      <3>3. f[p] = Placed[i]
        BY <3>2
      <3>4. PlacedAs(m_MemPool[i], Placed[i], i) /\ H + i = p
        BY <1>1, <1>3, <3>1, <3>2
      <3> HIDE DEF f
      <3> QED
        BY <3>3, <3>4 DEF PlacedAs
    <2>2. CASE p \notin (H + 1)..(H + k)
      <3>1. p \in 1..n
        BY <1>2, <2>2
      <3>2. p \notin m_Pos..(m_Pos + k - 1)
        BY <1>1, <2>2
      <3>3. f[p] = file[p]
        BY <3>2
      <3>4. file[p] \in Row /\ file[p].prev = p - 1 /\ file[p].chain = p
        BY <1>1, <3>1, ElementOfSeq DEF Filed
      <3> HIDE DEF f
      <3> QED
        BY <3>3, <3>4
    <2> QED
      BY <2>1, <2>2
  <1>6. f \in Seq(Row) /\ Len(f) = l
    <2>1. DOMAIN f = 1..l /\ f = [p \in 1..l |-> f[p]]
      OBVIOUS
    <2> HIDE DEF f
    <2>2. f \in [1..l -> Row]
      BY <1>5, <2>1
    <2>3. f \in Seq(Row)
      BY <1>2, <2>2, SeqDef
    <2> QED
      BY <1>2, <2>1, <2>3, LenProperties
  <1>7. Same(file, f, H)
    <2>1. ASSUME NEW p \in 1..H PROVE f[p] = file[p]
      <3>1. p \in 1..l /\ p \notin m_Pos..(m_Pos + k - 1)
        BY <1>1, <1>2
      <3> QED
        BY <3>1
    <2> HIDE DEF f
    <2> QED
      BY <2>1 DEF Same
  <1>8. ASSUME NEW i \in 1..k PROVE f[H + i] = Placed[i]
    <2>1. PICK p \in 1..l : p = H + i
      BY <1>1, <1>2
    <2>2. p \in m_Pos..(m_Pos + k - 1) /\ p - m_Pos + 1 = i
      BY <1>1, <2>1
    <2>3. f[p] = Placed[i]
      BY <2>2
    <2> HIDE DEF f
    <2> QED
      BY <2>1, <2>3
  <1> HIDE DEF f
  <1>9. Filed(f)
    BY <1>5, <1>6 DEF Filed
  <1> QED
    BY <1>2, <1>4, <1>6, <1>7, <1>8, <1>9

\* f is the file with all the rows in memory.
Filled(f) ==
    /\ Filed(f) /\ Same(file, f, m_PrevPos) /\ m_PrevPos + Len(m_MemPool) <= Len(f)
    /\ \A i \in 1..Len(m_MemPool) : PlacedAs(m_MemPool[i], f[m_PrevPos + i], i)

\* The first position of a row that was in memory.
LEMMA FilledFirst ==
    ASSUME Waiting(m_MemPool), m_PrevPos \in Nat, NEW f, Filled(f),
           NEW i \in 1..Len(m_MemPool)
    PROVE  LET r == m_MemPool[i]
               s == f[m_PrevPos + i]
           IN  /\ r.kind # "follow" => BeginsPool(m_MemPool, i) /\ s.first = m_PrevPos + i
               /\ Linked(r) =>
                     /\ ContinuesPool(m_MemPool, i) /\ r.first \in Int
                     /\ -r.first \in 1..(i - 1) /\ s.first = m_PrevPos - r.first
               /\ r.kind = "follow" /\ ~Linked(r) =>
                     /\ ContinuesFile(m_MemPool, i) /\ r.first \in 1..m_PrevPos
                     /\ s.first = r.first
  <1> DEFINE r == m_MemPool[i]
             s == f[m_PrevPos + i]
  <1>1. PlacedAs(r, s, i)
    BY DEF Filled
  <1>2. /\ r \in Row /\ r.first \in Int
        /\ r.kind = "follow" => ContinuesPool(m_MemPool, i) \/ ContinuesFile(m_MemPool, i)
        /\ r.kind # "follow" => BeginsPool(m_MemPool, i)
    BY WaitingRow DEF Row
  <1>3. CASE r.kind # "follow"
    BY <1>1, <1>2, <1>3 DEF PlacedAs, Linked
  <1>4. CASE Linked(r)
    <2>1. ContinuesPool(m_MemPool, i)
      BY <1>4, FormerIs
    <2>2. r.kind = "follow" /\ -r.first \in 1..(i - 1)
      BY <1>4, <2>1 DEF Linked, ContinuesPool
    <2>3. s.first = m_PrevPos - r.first
      BY <1>1, <1>4 DEF PlacedAs
    <2> QED
      BY <1>2, <1>4, <2>1, <2>2, <2>3
  <1>5. CASE r.kind = "follow" /\ ~Linked(r)
    <2>1. ContinuesFile(m_MemPool, i)
      BY <1>2, <1>5 DEF Linked, ContinuesPool
    <2>2. r.first \in 1..m_PrevPos /\ s.first = r.first
      BY <1>1, <1>5, <2>1 DEF PlacedAs, ContinuesFile
    <2> QED
      BY <1>5, <2>1, <2>2
  <1> QED
    BY <1>3, <1>4, <1>5

\* A follow-on of an asset in memory continues its chain.
LEMMA FilledLinked ==
    ASSUME Waiting(m_MemPool), m_PrevPos \in Nat, NEW f, Filled(f),
           NEW i \in 1..Len(m_MemPool), Linked(m_MemPool[i])
    PROVE  Continues(f, m_PrevPos + i)
  <1> DEFINE H == m_PrevPos
             r(x) == m_MemPool[x]
             s(x) == f[H + x]
             M == Max(Former(i))
  <1>1. PICK j \in 1..(i - 1) : j = -r(i).first
    BY FilledFirst
  <1>2. /\ Len(m_MemPool) \in Nat /\ i \in Nat /\ j \in Nat
        /\ \A x \in 1..(i - 1) : x \in 1..Len(m_MemPool)
    BY LenProperties DEF Waiting
  <1>3. /\ r(i).first \in Int /\ s(i).first = H + j
        /\ ContinuesPool(m_MemPool, i)
    <2>1. /\ r(i).first \in Int /\ s(i).first = H - r(i).first
          /\ ContinuesPool(m_MemPool, i)
      BY FilledFirst
    <2> QED
      BY <1>1, <2>1
  <1>4. r(j).kind = "asset" /\ r(i).of = r(j).tx
    BY <1>1, <1>3 DEF ContinuesPool
  <1>5. PlacedAs(r(i), s(i), i) /\ PlacedAs(r(j), s(j), j)
    BY <1>2 DEF Filled
  <1>6. s(j).kind = "asset" /\ s(i).of = s(j).tx
    BY <1>4, <1>5 DEF PlacedAs
  <1>7. M \in Former(i) /\ M \in 1..(i - 1) /\ \A x \in Former(i) : x <= M
    BY FormerIs
  <1>8. j \in Former(i)
    BY <1>1 DEF Former
  <1>9. s(i).last = H + M
    BY <1>5 DEF PlacedAs
  <1>10. s(M).first = H + j
    <2>1. M \in 1..Len(m_MemPool)
      BY <1>2, <1>7
    <2>2. CASE M = j
      <3>1. s(j).first = H + j
        BY <1>2, <1>4, FilledFirst
      <3> QED
        BY <2>2, <3>1
    <2>3. CASE M # j
      <3>1. r(M).kind = "follow" /\ r(M).first = r(i).first
        BY <1>1, <1>7, <2>3 DEF Former
      <3>2. Linked(r(M))
        BY <3>1 DEF Linked
      <3>3. s(M).first = H - r(M).first
        BY <2>1, <3>2, FilledFirst
      <3> QED
        BY <1>1, <1>3, <3>1, <3>3
    <2> QED
      BY <2>2, <2>3
  <1>11. ASSUME NEW x \in (M + 1)..(i - 1) PROVE s(x).first # H + j
    <2>1. x \in 1..(i - 1) /\ x \in 1..Len(m_MemPool) /\ x > M /\ x # j
      BY <1>2, <1>7, <1>8
    <2>2. x \notin Former(i)
      BY <1>7, <2>1
    <2>3. CASE r(x).kind # "follow"
      <3>1. s(x).first = H + x
        BY <2>1, <2>3, FilledFirst
      <3> QED
        BY <2>1, <3>1
    <2>4. CASE Linked(r(x))
      <3>1. s(x).first = H - r(x).first /\ r(x).first \in Int /\ r(x).kind = "follow"
        BY <2>1, <2>4, FilledFirst DEF Linked
      <3>2. r(x).first # r(i).first
        BY <2>1, <2>2, <3>1 DEF Former
      <3>3. ASSUME NEW a \in Int, NEW b \in Int, a # b PROVE H - a # H - b
        BY <3>3
      <3>4. H - r(x).first # H - r(i).first
        BY <1>3, <3>1, <3>2, <3>3
      <3>5. H - r(i).first = H + j
        BY <1>1, <1>3
      <3> QED
        BY <3>1, <3>4, <3>5
    <2>5. CASE r(x).kind = "follow" /\ ~Linked(r(x))
      <3>1. s(x).first = r(x).first /\ r(x).first \in 1..H
        BY <2>1, <2>5, FilledFirst
      <3> QED
        BY <1>2, <3>1
    <2> QED
      BY <2>3, <2>4, <2>5
  <1>12. IsEnd(f, H + j, H + i - 1, H + M)
    <2>1. H + M \in (H + j)..(H + i - 1)
      BY <1>2, <1>7, <1>8
    <2>2. ASSUME NEW q \in (H + M + 1)..(H + i - 1) PROVE f[q].first # H + j
      <3>1. PICK x \in (M + 1)..(i - 1) : q = H + x
        <4>1. q - H \in (M + 1)..(i - 1) /\ q = H + (q - H)
          BY <1>2, <1>7
        <4> QED
          BY <4>1
      <3> QED
        BY <1>11, <3>1
    <2> QED
      BY <1>10, <2>1, <2>2 DEF IsEnd
  <1>13. H + j \in 1..(H + i - 1)
    BY <1>2
  <1> QED
    BY <1>3, <1>6, <1>9, <1>12, <1>13 DEF Continues

\* One of an asset in the file does too.
LEMMA FilledUnlinked ==
    ASSUME Waiting(m_MemPool), m_PrevPos \in Nat, NEW f, Filled(f),
           NEW i \in 1..Len(m_MemPool),
           m_MemPool[i].kind = "follow", ~Linked(m_MemPool[i])
    PROVE  Continues(f, m_PrevPos + i)
  <1> DEFINE H == m_PrevPos
             r(x) == m_MemPool[x]
             s(x) == f[H + x]
             g == r(i).first
             B == Before(m_MemPool, i)
  <1>1. /\ Len(m_MemPool) \in Nat /\ i \in Nat
        /\ \A x \in 1..(i - 1) : x \in 1..Len(m_MemPool)
    BY LenProperties DEF Waiting
  <1>2. ContinuesFile(m_MemPool, i) /\ g \in 1..H /\ s(i).first = g
    BY FilledFirst
  <1>3. PlacedAs(r(i), s(i), i)
    BY DEF Filled
  <1>4. f[g] = file[g]
    BY <1>2 DEF Filled, Same
  <1>5. f[g].kind = "asset" /\ s(i).of = f[g].tx /\ s(i).last = r(i).last
    BY <1>2, <1>3, <1>4 DEF PlacedAs, ContinuesFile
  <1>6. ASSUME NEW x \in 1..(i - 1), x \notin B PROVE s(x).first # g
    <2>1. x \in 1..Len(m_MemPool)
      BY <1>1
    <2>2. CASE r(x).kind # "follow"
      <3>1. s(x).first = H + x
        BY <2>1, <2>2, FilledFirst
      <3> QED
        BY <1>2, <2>1, <3>1
    <2>3. CASE Linked(r(x))
      <3>1. s(x).first = H - r(x).first /\ r(x).first \in Int /\ -r(x).first \in 1..(x - 1)
        BY <2>1, <2>3, FilledFirst
      <3>2. H \in Int /\ g <= H
        BY <1>2
      <3>3. s(x).first > H
        <4> DEFINE sf == s(x).first
                   rf == r(x).first
        <4>1. sf = H - rf /\ rf \in Int /\ rf < 0
          BY <3>1
        <4> HIDE DEF sf, rf
        <4>2. sf > H
          BY <3>2, <4>1
        <4> QED
          BY <4>2 DEF sf
      <3> QED
        BY <1>2, <3>2, <3>3
    <2>4. CASE r(x).kind = "follow" /\ ~Linked(r(x))
      <3>1. s(x).first = r(x).first
        BY <2>1, <2>4, FilledFirst
      <3> QED
        BY <1>6, <2>4, <3>1 DEF Before
    <2> QED
      BY <2>2, <2>3, <2>4
  <1>7. IsEnd(f, g, H + i - 1, r(i).last)
    <2>1. CASE B = {}
      <3>1. IsEnd(file, g, H, r(i).last)
        BY <1>2, <2>1 DEF ContinuesFile
      <3>2. IsEnd(f, g, H, r(i).last)
        BY <1>2, <3>1, SameEnds DEF Filled
      <3>3. r(i).last \in g..(H + i - 1)
        BY <1>1, <1>2, <3>2 DEF IsEnd
      <3>4. ASSUME NEW q \in (r(i).last + 1)..(H + i - 1) PROVE f[q].first # g
        <4>1. CASE q <= H
          <5>1. q \in (r(i).last + 1)..H
            BY <4>1
          <5> QED
            BY <3>2, <5>1 DEF IsEnd
        <4>2. CASE ~ q <= H
          <5>1. q - H \in 1..(i - 1) /\ q = H + (q - H)
            BY <1>1, <3>3, <4>2
          <5>2. PICK x \in 1..(i - 1) : q = H + x
            BY <5>1
          <5> QED
            BY <1>6, <2>1, <5>2
        <4> QED
          BY <4>1, <4>2
      <3> QED
        BY <3>2, <3>3, <3>4 DEF IsEnd
    <2>2. CASE B # {}
      <3>1. B \in SUBSET (0..i) /\ B \subseteq 1..(i - 1)
        BY <1>1 DEF Before
      <3>2. PICK M \in B : \A x \in B : x <= M
        BY <1>1, <2>2, <3>1, Greatest
      <3>3. r(i).last = H + M
        BY <1>2, <3>2 DEF ContinuesFile
      <3>4. M \in 1..(i - 1) /\ M \in 1..Len(m_MemPool) /\ r(M).kind = "follow" /\ r(M).first = g
        BY <1>1, <3>1, <3>2 DEF Before
      <3>5. ~Linked(r(M))
        BY <1>2, <3>4 DEF Linked
      <3>6. s(M).first = g
        BY <3>4, <3>5, FilledFirst
      <3>7. H + M \in g..(H + i - 1)
        BY <1>1, <1>2, <3>4
      <3>8. ASSUME NEW q \in (H + M + 1)..(H + i - 1) PROVE f[q].first # g
        <4>1. q - H \in 1..(i - 1) /\ q = H + (q - H) /\ q - H > M
          BY <1>1, <3>4
        <4>2. PICK x \in 1..(i - 1) : q = H + x /\ x > M
          BY <4>1
        <4>3. x \notin B
          BY <3>2, <3>4, <4>2
        <4> QED
          BY <1>6, <4>2, <4>3
      <3> QED
        BY <3>3, <3>6, <3>7, <3>8 DEF IsEnd
    <2> QED
      BY <2>1, <2>2
  <1>8. g \in 1..(H + i - 1)
    BY <1>1, <1>2
  <1> QED
    BY <1>2, <1>5, <1>7, <1>8 DEF Continues

\* The file with all the rows in memory is sound.
LEMMA FilledSound ==
    ASSUME Waiting(m_MemPool), m_PrevPos \in Nat, NEW f, Filled(f),
           Sound(file, m_PrevPos), NEW X \in SUBSET Names,
           Indexed(file, m_PrevPos, db, X), Apart(file, m_PrevPos, X)
    PROVE  Sound(f, m_PrevPos + Len(m_MemPool)) /\ Apart(f, m_PrevPos + Len(m_MemPool), X)
  <1> DEFINE H == m_PrevPos
             n == H + Len(m_MemPool)
  <1>1. /\ Len(m_MemPool) \in Nat /\ n \in Nat /\ n <= Len(f) /\ f \in Seq(Row)
        /\ Len(f) \in Nat
    BY LenProperties DEF Waiting, Filled, Filed
  <1>2. Sound(f, H)
    BY <1>1, SameSound DEF Filled
  <1>3. ASSUME NEW p \in 1..n
        PROVE  p \in 1..H \/ \E i \in 1..Len(m_MemPool) : p = H + i
    <2>1. CASE ~ p <= H
      <3>1. p - H \in 1..Len(m_MemPool) /\ p = H + (p - H)
        BY <1>1, <2>1
      <3> QED
        BY <3>1
    <2> QED
      BY <2>1
  <1>4. ASSUME NEW i \in 1..Len(m_MemPool)
        PROVE  /\ IF f[H + i].kind = "follow" THEN Continues(f, H + i) ELSE Begins(f, H + i)
               /\ KeysOf(f[H + i]) = KeysOf(m_MemPool[i])
    <2> DEFINE r == m_MemPool[i]
               s == f[H + i]
    <2>1. PlacedAs(r, s, i)
      BY DEF Filled
    <2>2. KeysOf(s) = KeysOf(r) /\ s.kind = r.kind /\ s.of = r.of /\ s.tx = r.tx
      BY <2>1 DEF PlacedAs, KeysOf
    <2>3. CASE r.kind # "follow"
      <3>1. s.first = H + i /\ r.of = r.tx
        BY <2>3, FilledFirst DEF BeginsPool
      <3> QED
        BY <2>2, <2>3, <3>1 DEF Begins
    <2>4. CASE r.kind = "follow"
      <3>1. Continues(f, H + i)
        BY <2>4, FilledLinked, FilledUnlinked
      <3> QED
        BY <2>2, <2>4, <3>1
    <2> QED
      BY <2>3, <2>4
  <1>5. ASSUME NEW p \in 1..H, NEW i \in 1..Len(m_MemPool)
        PROVE  KeysOf(f[p]) \cap KeysOf(f[H + i]) \subseteq X
    <2>1. KeysOf(m_MemPool[i]) \cap DOMAIN db = {}
      BY WaitingRow
    <2>2. f[p] = file[p]
      BY DEF Filled, Same
    <2>3. KeysOf(file[p]) \ X \subseteq DOMAIN db
      BY DEF Indexed
    <2> QED
      BY <1>4, <2>1, <2>2, <2>3
  <1>6. ASSUME NEW i \in 1..Len(m_MemPool), NEW j \in 1..Len(m_MemPool), i # j
        PROVE  KeysOf(f[H + i]) \cap KeysOf(f[H + j]) = {}
    <2>1. KeysOf(m_MemPool[i]) \cap KeysOf(m_MemPool[j]) = {}
      BY <1>6 DEF Waiting, Apart
    <2> QED
      BY <1>4, <2>1
  <1>7. Apart(f, n, X)
    <2>1. SUFFICES ASSUME NEW p \in 1..n, NEW q \in 1..n, p # q
                   PROVE  KeysOf(f[p]) \cap KeysOf(f[q]) \subseteq X
      BY DEF Apart
    <2>2. CASE p \in 1..H /\ q \in 1..H
      <3>1. Apart(f, H, X)
        BY SameApart DEF Filled
      <3> QED
        BY <2>1, <2>2, <3>1 DEF Apart
    <2>3. CASE p \in 1..H /\ q \notin 1..H
      BY <1>3, <1>5, <2>3
    <2>4. CASE p \notin 1..H /\ q \in 1..H
      <3>1. KeysOf(f[q]) \cap KeysOf(f[p]) \subseteq X
        BY <1>3, <1>5, <2>4
      <3> QED
        BY <3>1
    <2>5. CASE p \notin 1..H /\ q \notin 1..H
      <3>1. PICK i \in 1..Len(m_MemPool) : p = H + i
        BY <1>3, <2>5
      <3>2. PICK j \in 1..Len(m_MemPool) : q = H + j
        BY <1>3, <2>5
      <3> QED
        BY <1>6, <2>1, <3>1, <3>2
    <2> QED
      BY <2>2, <2>3, <2>4, <2>5
  <1>8. Distinct(f, n)
    <2>1. SUFFICES ASSUME NEW p \in 1..n, NEW q \in 1..n, p # q
                   PROVE  f[p].tx # f[q].tx
      BY DEF Distinct
    <2>2. \A x \in 1..n : f[x] \in Row
      BY <1>1, ElementOfSeq
    <2>3. f[p].tx \in KeysOf(f[p]) /\ f[q].tx \in KeysOf(f[q]) /\ f[p].tx \in Txs
      BY <2>2, KeysOfRow DEF Row
    <2>4. f[p].tx \notin X
      BY <2>3, EntityAssumption
    <2> QED
      BY <1>7, <2>1, <2>3, <2>4 DEF Apart
  <1>9. ASSUME NEW p \in 1..n
        PROVE  IF f[p].kind = "follow" THEN Continues(f, p) ELSE Begins(f, p)
    <2>1. CASE p \in 1..H
      BY <1>2, <2>1 DEF Sound
    <2>2. CASE p \notin 1..H
      BY <1>3, <1>4, <2>2
    <2> QED
      BY <2>1, <2>2
  <1> QED
    BY <1>1, <1>7, <1>8, <1>9 DEF Sound

-----------------------------------------------------------------------------
(* The inserts.                                                            *)

\* The database leads every key to its row.
LEMMA Leads ==
    ASSUME OnDisk, NEW key \in DOMAIN db
    PROVE  \E p \in 1..dbHeader.last : key \in KeysOf(file[p]) /\ db[key].pos = p
  BY DEF OnDisk, Indexed, LeadsTo

LEMMA DiskTypes ==
    ASSUME OnDisk
    PROVE  /\ file \in Seq(Row) /\ Len(file) \in Nat /\ DOMAIN file = 1..Len(file)
           /\ header.block \in Nat /\ header.last \in Nat /\ header.last <= Len(file)
           /\ dbHeader.block \in Nat /\ dbHeader.last \in Nat /\ dbHeader.last <= header.last
           /\ chain \in Seq(Seq(Issue)) /\ Len(chain) = dbHeader.block
  BY LenProperties DEF OnDisk, Filed, Sound, Headers

LEMMA UnknownIs ==
    ASSUME OnDisk, Waiting(m_MemPool), NEW row, Unknown(row)
    PROVE  /\ KeysOf(row) \cap DOMAIN db = {}
           /\ \A i \in 1..Len(m_MemPool) : KeysOf(row) \cap KeysOf(m_MemPool[i]) = {}
  <1>1. ASSUME NEW key \in KeysOf(row) PROVE key \notin DOMAIN db
    <2>1. SUFFICES ASSUME key \in DOMAIN db PROVE GetEntity(key) # {}
      BY DEF Unknown
    <2>2. db[key].pos \in DOMAIN file
      <3>1. PICK p \in 1..dbHeader.last : db[key].pos = p
        BY <2>1, Leads
      <3> QED
        BY <3>1, DiskTypes
    <2> QED
      BY <2>1, <2>2 DEF GetEntity
  <1>2. ASSUME NEW key \in KeysOf(row), NEW i \in 1..Len(m_MemPool)
        PROVE  key \notin KeysOf(m_MemPool[i])
    <2>1. {other \in ToSet(m_MemPool) : key \in KeysOf(other)} = {}
      BY <1>1 DEF Unknown, GetEntity
    <2>2. m_MemPool[i] \in ToSet(m_MemPool)
      BY LenProperties DEF ToSet, Waiting
    <2> QED
      BY <2>1, <2>2
  <1> QED
    BY <1>1, <1>2

\* The last row has what the rows in memory have.
LEMMA WaitingOne ==
    ASSUME NEW pool, Waiting(pool), NEW row \in Row, row.block = m_Block + 1,
           KeysOf(row) \cap DOMAIN db = {},
           \A i \in 1..Len(pool) : KeysOf(row) \cap KeysOf(pool[i]) = {},
           row.kind = "follow" =>
               \/ ContinuesPool(Append(pool, row), Len(pool) + 1)
               \/ ContinuesFile(Append(pool, row), Len(pool) + 1),
           row.kind # "follow" => BeginsPool(Append(pool, row), Len(pool) + 1)
    PROVE  Waiting(Append(pool, row))
  <1> DEFINE new == Append(pool, row)
             n == Len(pool)
  <1>1. /\ n \in Nat /\ new \in Seq(Row) /\ Len(new) = n + 1 /\ new[n + 1] = row
        /\ \A i \in 1..n : new[i] = pool[i]
    BY LenProperties, AppendProperties DEF Waiting
  <1> HIDE DEF new
  <1>2. ASSUME NEW i \in 1..n
        PROVE  /\ new[i] = pool[i]
               /\ \A j \in 1..(i - 1) : new[j] = pool[j]
               /\ Before(new, i) = Before(pool, i)
    <2>1. new[i] = pool[i] /\ \A j \in 1..(i - 1) : new[j] = pool[j]
      BY <1>1
    <2> QED
      BY <2>1 DEF Before
  <1>3. ASSUME NEW i \in 1..(n + 1)
        PROVE  /\ new[i].block = m_Block + 1
               /\ KeysOf(new[i]) \cap DOMAIN db = {}
               /\ IF new[i].kind = "follow"
                    THEN ContinuesPool(new, i) \/ ContinuesFile(new, i)
                    ELSE BeginsPool(new, i)
    <2>1. CASE i = n + 1
      BY <1>1, <2>1 DEF new
    <2>2. CASE i # n + 1
      <3>1. i \in 1..n
        BY <1>1, <2>2
      <3>2. /\ pool[i].block = m_Block + 1
            /\ KeysOf(pool[i]) \cap DOMAIN db = {}
            /\ pool[i].kind = "follow" => ContinuesPool(pool, i) \/ ContinuesFile(pool, i)
            /\ pool[i].kind # "follow" => BeginsPool(pool, i)
        BY <3>1, WaitingRow
      <3>3. ContinuesPool(pool, i) => ContinuesPool(new, i)
        BY <1>2, <3>1 DEF ContinuesPool
      <3>4. ContinuesFile(pool, i) => ContinuesFile(new, i)
        BY <1>2, <3>1 DEF ContinuesFile
      <3>5. BeginsPool(pool, i) => BeginsPool(new, i)
        BY <1>2, <3>1 DEF BeginsPool
      <3> QED
        BY <1>2, <3>1, <3>2, <3>3, <3>4, <3>5
    <2> QED
      BY <2>1, <2>2
  <1>4. Apart(new, n + 1, {})
    <2>1. SUFFICES ASSUME NEW p \in 1..(n + 1), NEW q \in 1..(n + 1), p # q
                   PROVE  KeysOf(new[p]) \cap KeysOf(new[q]) = {}
      BY DEF Apart
    <2>2. CASE p \in 1..n /\ q \in 1..n
      BY <1>2, <2>1, <2>2 DEF Waiting, Apart
    <2>3. CASE p \in 1..n /\ q \notin 1..n
      <3>1. q = n + 1
        BY <1>1, <2>3
      <3>2. KeysOf(row) \cap KeysOf(pool[p]) = {}
        BY <2>3
      <3> QED
        BY <1>1, <2>3, <3>1, <3>2
    <2>4. CASE p \notin 1..n
      <3>1. p = n + 1 /\ q \in 1..n
        BY <1>1, <2>1, <2>4
      <3> QED
        BY <1>1, <3>1
    <2> QED
      BY <2>2, <2>3, <2>4
  <1> QED
    BY <1>1, <1>3, <1>4 DEF Waiting, new

\* The rows in memory depend on nothing else.
LEMMA WaitingSame ==
    ASSUME NEW pool, Waiting(pool), UNCHANGED <<file, db, m_Block, m_PrevPos>>, m_MemPool' = pool
    PROVE  Waiting(m_MemPool)'
  <1>1. \A i : /\ ContinuesPool(pool, i) => ContinuesPool(m_MemPool, i)'
               /\ BeginsPool(pool, i) => BeginsPool(m_MemPool, i)'
    BY DEF ContinuesPool, BeginsPool
  <1>2. ASSUME NEW i, ContinuesFile(pool, i) PROVE ContinuesFile(m_MemPool, i)'
    BY <1>2 DEF ContinuesFile
  <1>3. ASSUME NEW i \in 1..Len(pool)
        PROVE  IF m_MemPool'[i].kind = "follow"
                 THEN ContinuesPool(m_MemPool, i)' \/ ContinuesFile(m_MemPool, i)'
                 ELSE BeginsPool(m_MemPool, i)'
    BY <1>1, <1>2, WaitingRow
  <1> QED
    BY <1>3 DEF Waiting, Apart

LEMMA NothingWaits == Waiting(<<>>)
  <1>1. <<>> \in Seq(Row) /\ Len(<<>>) = 0
    BY EmptySeq
  <1> QED
    BY <1>1 DEF Waiting, Apart

LEMMA SameDisk ==
    ASSUME OnDisk, UNCHANGED <<disk, batch, chain, dropped>>
    PROVE  OnDisk'
  BY DEF OnDisk, disk

LEMMA InsertOne ==
    ASSUME OnDisk, Up, phase = "up", NEW row \in Row, Insert(row), row.block = m_Block + 1,
           row.kind = "follow" =>
               \/ ContinuesPool(Append(m_MemPool, row), Len(m_MemPool) + 1)
               \/ ContinuesFile(Append(m_MemPool, row), Len(m_MemPool) + 1),
           row.kind # "follow" => BeginsPool(Append(m_MemPool, row), Len(m_MemPool) + 1)
    PROVE  IInv'
  <1>1. Unknown(row) /\ UNCHANGED <<disk, batch, m_Block, m_PrevPos, m_Pos, phase, chain, dropped>>
    BY DEF Insert
  <1>2. m_MemPool' = Append(m_MemPool, row)
    BY DEF Insert
  <1>3. Waiting(m_MemPool)
    BY DEF Up
  <1>4. /\ KeysOf(row) \cap DOMAIN db = {}
        /\ \A i \in 1..Len(m_MemPool) : KeysOf(row) \cap KeysOf(m_MemPool[i]) = {}
    BY <1>1, <1>3, UnknownIs
  <1>5. Waiting(Append(m_MemPool, row))
    BY <1>3, <1>4, WaitingOne
  <1>6. UNCHANGED <<file, header, db, dbHeader>>
    BY <1>1 DEF disk
  <1>7. Waiting(m_MemPool)'
    BY <1>1, <1>2, <1>5, <1>6, WaitingSame
  <1>8. OnDisk'
    BY <1>1, SameDisk
  <1>9. Up'
    BY <1>1, <1>6, <1>7 DEF Up
  <1> QED
    BY <1>1, <1>8, <1>9 DEF IInv

\* A new row has the type of a row.
LEMMA NewRowIs ==
    ASSUME NEW tx \in Txs, NEW kind \in Kinds, NEW of \in Txs, NEW name \in Names \cup {NoName},
           NEW quantity \in {0} \cup Quantities, NEW first \in Int, NEW last \in Int,
           m_Block \in Int
    PROVE  LET row == NewRow(tx, kind, of, name, quantity, first, last)
           IN  /\ row \in Row /\ row.block = m_Block + 1
               /\ row.tx = tx /\ row.kind = kind /\ row.of = of /\ row.name = name
               /\ row.first = first /\ row.last = last
  BY DEF NewRow, Row

LEMMA UpTypes ==
    ASSUME OnDisk, Up
    PROVE  /\ m_Block \in Nat /\ m_PrevPos \in Nat /\ m_PrevPos \in 0..Len(file)
           /\ m_PrevPos = header.last /\ m_PrevPos = dbHeader.last /\ m_Pos = m_PrevPos + 1
           /\ m_Block = dbHeader.block /\ m_Block = Len(chain)
           /\ m_MemPool \in Seq(Row) /\ Len(m_MemPool) \in Nat
  BY DiskTypes, LenProperties DEF Up, Waiting

LEMMA InsertEntityStep ==
    ASSUME OnDisk, Up, NEW tx \in Txs, NEW name \in Names \cup {NoName}, InsertEntity(tx, name)
    PROVE  IInv'
  <1> DEFINE row == NewRow(tx, "stream", tx, name, 0, -1, 0)
             new == Append(m_MemPool, row)
             n == Len(m_MemPool) + 1
  <1>1. phase = "up" /\ Insert(row)
    BY DEF InsertEntity, HasRoom
  <1>2. /\ row \in Row /\ row.block = m_Block + 1 /\ row.tx = tx /\ row.kind = "stream"
        /\ row.of = tx /\ row.first = -1
    <2>1. m_Block \in Int /\ "stream" \in Kinds /\ 0 \in {0} \cup Quantities /\ -1 \in Int
      BY UpTypes DEF Kinds
    <2> QED
      BY <2>1, NewRowIs
  <1> HIDE DEF row
  <1>3. new[n] = row
    BY <1>2, UpTypes, AppendProperties
  <1>4. BeginsPool(new, n)
    BY <1>2, <1>3 DEF BeginsPool
  <1> QED
    BY <1>1, <1>2, <1>4, InsertOne

LEMMA InsertAssetStep ==
    ASSUME OnDisk, Up, NEW tx \in Txs, NEW name \in Names \cup {NoName},
           NEW quantity \in Quantities, InsertAsset(tx, name, quantity)
    PROVE  IInv'
  <1> DEFINE n == Len(m_MemPool) + 1
             row == NewRow(tx, "asset", tx, name, quantity, -n, 0)
             new == Append(m_MemPool, row)
  <1>1. phase = "up" /\ Insert(row)
    BY DEF InsertAsset, HasRoom
  <1>2. n \in Nat /\ -n \in Int /\ -n < 0
    BY UpTypes
  <1>3. /\ row \in Row /\ row.block = m_Block + 1 /\ row.tx = tx /\ row.kind = "asset"
        /\ row.of = tx /\ row.first = -n
    <2>1. m_Block \in Int /\ "asset" \in Kinds /\ quantity \in {0} \cup Quantities
      BY UpTypes DEF Kinds
    <2> HIDE DEF n
    <2> QED
      BY <1>2, <2>1, NewRowIs
  <1> HIDE DEF row
  <1>4. new[n] = row
    BY <1>3, UpTypes, AppendProperties
  <1>5. BeginsPool(new, n)
    <2> HIDE DEF n, new
    <2> QED
      BY <1>2, <1>3, <1>4 DEF BeginsPool
  <1> QED
    BY <1>1, <1>3, <1>5, InsertOne

\* The asset a follow-on names, in the file or in memory.
LEMMA GenesisIs ==
    ASSUME OnDisk, Up, NEW original, NEW genesis \in GetEntity(original),
           genesis.kind = "asset"
    PROVE  /\ genesis.of \in Txs /\ genesis.first \in Int /\ genesis.chain \in Int
           /\ \/ /\ genesis.first \in 1..m_PrevPos
                 /\ file[genesis.first].kind = "asset" /\ genesis.of = file[genesis.first].tx
                 /\ IsEnd(file, genesis.first, m_PrevPos, genesis.chain)
              \/ /\ genesis.first < 0 /\ -genesis.first \in 1..Len(m_MemPool)
                 /\ m_MemPool[-genesis.first].kind = "asset"
                 /\ genesis.of = m_MemPool[-genesis.first].tx
  <1>1. CASE original \in DOMAIN db
    <2>1. PICK p \in 1..m_PrevPos : original \in KeysOf(file[p]) /\ db[original].pos = p
      BY <1>1, Leads, UpTypes
    <2>2. genesis = [file[p] EXCEPT !.chain = db[original].chain]
      <3>1. p \in DOMAIN file
        BY DiskTypes, UpTypes
      <3> QED
        BY <1>1, <2>1, <3>1 DEF GetEntity
    <2>3. file[p] \in Row
      BY DiskTypes, UpTypes, ElementOfSeq
    <2>4. /\ genesis.kind = file[p].kind /\ genesis.of = file[p].of
          /\ genesis.first = file[p].first /\ genesis.chain = db[original].chain
      BY <2>2, <2>3 DEF Row
    <2>5. Sound(file, m_PrevPos)
      BY UpTypes DEF OnDisk
    <2>6. file[p].first = p /\ file[p].of = file[p].tx
      <3>1. file \in Seq(Row) /\ m_PrevPos \in Nat
        BY DiskTypes, UpTypes
      <3>2. file[p].kind # "follow"
        BY <2>4
      <3> QED
        BY <2>5, <3>1, <3>2, RowOf DEF Begins
    <2>7. IsEnd(file, p, m_PrevPos, db[original].chain)
      <3>1. Indexed(file, m_PrevPos, db, dropped)
        BY UpTypes DEF OnDisk
      <3>2. LeadsTo(file, m_PrevPos, original, db[original])
        BY <1>1, <3>1 DEF Indexed
      <3> QED
        BY <2>1, <2>4, <3>2 DEF LeadsTo
    <2>8. db[original].chain \in Int /\ file[p].of \in Txs
      BY <2>3, <2>7, UpTypes DEF IsEnd, Row
    <2> QED
      BY <2>1, <2>4, <2>6, <2>7, <2>8
  <1>2. CASE original \notin DOMAIN db
    <2>1. genesis \in ToSet(m_MemPool)
      BY <1>2 DEF GetEntity
    <2>2. PICK j \in 1..Len(m_MemPool) : genesis = m_MemPool[j]
      BY <2>1, UpTypes, LenProperties DEF ToSet
    <2>3. Waiting(m_MemPool)
      BY DEF Up
    <2>4. genesis \in Row /\ BeginsPool(m_MemPool, j)
      BY <2>2, <2>3, WaitingRow
    <2>5. genesis.first = -j /\ genesis.of = genesis.tx /\ j \in Nat
      BY <2>2, <2>4, UpTypes DEF BeginsPool
    <2>6. -genesis.first = j /\ genesis.first < 0
      BY <2>5
    <2> QED
      BY <2>2, <2>4, <2>5, <2>6 DEF Row
  <1> QED
    BY <1>1, <1>2

LEMMA InsertAssetFollowOnStep ==
    ASSUME OnDisk, Up, NEW tx \in Txs, NEW original,
           NEW name \in Names \cup {NoName}, NEW quantity \in Quantities,
           InsertAssetFollowOn(tx, original, name, quantity)
    PROVE  IInv'
  <1>1. phase = "up"
    BY DEF InsertAssetFollowOn, HasRoom
  <1>2. PICK genesis \in GetEntity(original) :
           /\ genesis.kind = "asset"
           /\ Insert(NewRow(tx, "follow", genesis.of, name, quantity, genesis.first,
                            LastPos(genesis)))
    BY DEF InsertAssetFollowOn
  <1> DEFINE g == genesis.first
             last == LastPos(genesis)
             row == NewRow(tx, "follow", genesis.of, name, quantity, g, last)
             new == Append(m_MemPool, row)
             n == Len(m_MemPool) + 1
             B == {i \in DOMAIN m_MemPool : m_MemPool[i].kind = "follow" /\ m_MemPool[i].first = g}
  <1>3. /\ genesis.of \in Txs /\ g \in Int /\ genesis.chain \in Int
        /\ \/ /\ g \in 1..m_PrevPos
              /\ file[g].kind = "asset" /\ genesis.of = file[g].tx
              /\ IsEnd(file, g, m_PrevPos, genesis.chain)
           \/ /\ g < 0 /\ -g \in 1..Len(m_MemPool)
              /\ m_MemPool[-g].kind = "asset"
              /\ genesis.of = m_MemPool[-g].tx
    BY <1>2, GenesisIs
  <1>4. DOMAIN m_MemPool = 1..(n - 1) /\ n \in Nat /\ n - 1 = Len(m_MemPool)
    BY UpTypes, LenProperties
  <1>5. B \in SUBSET (0..n)
    <2> HIDE DEF n
    <2> QED
      BY <1>4
  <1>6. last = IF B = {} THEN genesis.chain ELSE m_Pos + Max(B) - 1
    BY DEF LastPos
  <1>7. B # {} => Max(B) \in B /\ \A y \in B : y <= Max(B)
    <2> HIDE DEF B, n
    <2> QED
      BY <1>4, <1>5, MaxIs
  <1>8. B # {} => Max(B) \in Int /\ last = m_PrevPos + Max(B)
    <2>1. B # {} => Max(B) \in 0..n
      BY <1>5, <1>7
    <2> HIDE DEF B, n, last
    <2> QED
      BY <1>4, <1>6, <2>1, UpTypes
  <1>9. last \in Int
    <2> HIDE DEF B, last
    <2> QED
      BY <1>3, <1>6, <1>8, UpTypes
  <1>10. /\ row \in Row /\ row.block = m_Block + 1 /\ row.kind = "follow"
         /\ row.of = genesis.of /\ row.first = g /\ row.last = last
    <2>1. m_Block \in Int /\ "follow" \in Kinds /\ quantity \in {0} \cup Quantities
      BY UpTypes DEF Kinds
    <2> DEFINE of == genesis.of
    <2>2. of \in Txs /\ g \in Int /\ last \in Int
      BY <1>3, <1>9
    <2> HIDE DEF last, g, of
    <2>3. LET r == NewRow(tx, "follow", of, name, quantity, g, last)
          IN  /\ r \in Row /\ r.block = m_Block + 1
              /\ r.tx = tx /\ r.kind = "follow" /\ r.of = of
              /\ r.first = g /\ r.last = last
      BY <2>1, <2>2, NewRowIs
    <2> QED
      BY <2>3 DEF of
  <1>11. Insert(row)
    BY <1>2
  <1> HIDE DEF row, last
  <1>12. new[n] = row /\ \A i \in 1..(n - 1) : new[i] = m_MemPool[i]
    BY <1>10, UpTypes, AppendProperties
  <1>13. Before(new, n) = B
    <2> HIDE DEF n, new
    <2> QED
      BY <1>4, <1>10, <1>12 DEF Before
  <1> HIDE DEF new, n, B
  <1>14. ContinuesPool(new, n) \/ ContinuesFile(new, n)
    <2>1. CASE g \in 1..m_PrevPos
      <3>0. ~ g < 0
        BY <2>1, UpTypes
      <3>1. file[g].kind = "asset" /\ genesis.of = file[g].tx
        BY <1>3, <3>0
      <3>2. B = {} => IsEnd(file, g, m_PrevPos, row.last)
        BY <1>3, <1>6, <1>10, <3>0
      <3>3. ASSUME NEW j \in B, \A k \in B : k <= j PROVE row.last = m_PrevPos + j
        <4>1. B # {} /\ Max(B) <= j /\ j <= Max(B) /\ Max(B) \in Int
          BY <1>7, <1>8, <3>3
        <4>2. j \in Int
          BY <1>4, <1>5
        <4>3. j = Max(B)
          BY <4>1, <4>2
        <4> QED
          BY <1>8, <1>10, <4>1, <4>3
      <3> QED
        BY <1>10, <1>12, <1>13, <2>1, <3>1, <3>2, <3>3 DEF ContinuesFile
    <2>2. CASE g \notin 1..m_PrevPos
      <3>1. /\ g < 0 /\ -g \in 1..(n - 1) /\ m_MemPool[-g].kind = "asset"
            /\ genesis.of = m_MemPool[-g].tx
        BY <1>3, <1>4, <2>2
      <3>2. new[-g] = m_MemPool[-g]
        BY <1>12, <3>1
      <3> QED
        BY <1>10, <1>12, <3>1, <3>2 DEF ContinuesPool
    <2> QED
      BY <2>1, <2>2
  <1> QED
    BY <1>1, <1>10, <1>11, <1>14, InsertOne DEF new, n

-----------------------------------------------------------------------------
(* The commit.                                                             *)

LEMMA ClearMemPoolStep ==
    ASSUME OnDisk, Up, ClearMemPool
    PROVE  IInv'
  <1>1. /\ UNCHANGED <<file, header, db, dbHeader, batch, m_Block, phase, chain, dropped>>
        /\ phase = "up" /\ m_MemPool' = <<>>
        /\ m_PrevPos' = header.last /\ m_Pos' = header.last + 1
    BY DEF ClearMemPool, disk, EndOfLedger
  <1>2. UNCHANGED <<file, db, m_Block, m_PrevPos>>
    BY <1>1 DEF Up
  <1>3. Waiting(m_MemPool)'
    BY <1>1, <1>2, NothingWaits, WaitingSame
  <1>4. OnDisk'
    BY <1>1, SameDisk DEF disk
  <1>5. Up'
    BY <1>1, <1>3 DEF Up
  <1> QED
    BY <1>1, <1>4, <1>5 DEF IInv

\* The file with rows behind its end is the one it was up to the end.
LEMMA OnDiskWith ==
    ASSUME OnDisk, NEW f, Filed(f), Same(file, f, header.last), header.last <= Len(f)
    PROVE  /\ Sound(f, header.last) /\ Apart(f, header.last, dropped)
           /\ Indexed(f, dbHeader.last, db, dropped)
           /\ Layered(f, header.last, chain)
  <1>1. header.last \in Nat /\ dbHeader.last \in 0..header.last
    BY DiskTypes
  <1>2. Sound(f, header.last) /\ Apart(f, header.last, dropped)
    BY <1>1, SameSound, SameApart DEF OnDisk
  <1>3. Indexed(f, dbHeader.last, db, dropped)
    BY <1>1, SameIndexed DEF OnDisk
  <1>4. Layered(f, header.last, chain)
    BY <1>1, SameLayered DEF OnDisk
  <1> QED
    BY <1>2, <1>3, <1>4

LEMMA FileWithUp ==
    ASSUME OnDisk, Up, NEW k \in 0..Len(m_MemPool)
    PROVE  /\ Filed(FileWith(k)) /\ Same(file, FileWith(k), header.last)
           /\ header.last + k <= Len(FileWith(k)) /\ Len(FileWith(k)) \in Nat
           /\ \A i \in 1..k : FileWith(k)[header.last + i] = Placed[i]
           /\ Placed \in Seq(Row) /\ Len(Placed) = Len(m_MemPool)
           /\ \A i \in 1..Len(m_MemPool) : PlacedAs(m_MemPool[i], Placed[i], i)
  <1>1. /\ Filed(file) /\ Waiting(m_MemPool) /\ m_PrevPos \in 0..Len(file)
        /\ m_Pos = m_PrevPos + 1 /\ m_PrevPos = header.last /\ m_PrevPos \in Nat
    BY UpTypes DEF OnDisk, Up
  <1>2. /\ Filed(FileWith(k)) /\ Same(file, FileWith(k), m_PrevPos)
        /\ m_PrevPos + k <= Len(FileWith(k))
        /\ \A i \in 1..k : FileWith(k)[m_PrevPos + i] = Placed[i]
    BY <1>1, FileWithIs
  <1>3. Len(FileWith(k)) \in Nat
    BY <1>2, LenProperties DEF Filed
  <1>4. /\ Placed \in Seq(Row) /\ Len(Placed) = Len(m_MemPool)
        /\ \A i \in 1..Len(m_MemPool) : PlacedAs(m_MemPool[i], Placed[i], i)
    BY <1>1, PlacedIs
  <1> QED
    BY <1>1, <1>2, <1>3, <1>4

LEMMA CommitLedgerStep ==
    ASSUME OnDisk, Up, CommitLedger
    PROVE  IInv'
  <1> DEFINE l == Len(m_MemPool)
             f == FileWith(l)
             H == header.last
             n == H + l
  <1>1. /\ file' = f /\ header' = [block |-> m_Block + 1, last |-> HeaderEnd]
        /\ m_MemPool' = Placed /\ m_PrevPos' = m_PrevPos + l /\ m_Pos' = m_Pos + l
        /\ phase' = "commit" /\ UNCHANGED <<db, dbHeader, batch, m_Block, chain, dropped>>
    BY DEF CommitLedger
  <1>2. /\ l \in Nat /\ l \in 0..l /\ H \in Nat /\ n \in Nat /\ m_Block \in Nat
        /\ m_PrevPos = H /\ dbHeader.last = H /\ m_Pos = H + 1
        /\ m_Block = dbHeader.block /\ m_Block = Len(chain)
    BY UpTypes
  <1>3. header' = [block |-> m_Block + 1, last |-> n]
    BY <1>1, <1>2 DEF HeaderEnd
  <1>4. /\ Filed(f) /\ Same(file, f, H) /\ n <= Len(f) /\ Len(f) \in Nat
        /\ \A i \in 1..l : f[H + i] = Placed[i]
        /\ Placed \in Seq(Row) /\ Len(Placed) = l
        /\ \A i \in 1..l : PlacedAs(m_MemPool[i], Placed[i], i)
    BY <1>2, FileWithUp
  <1>5. Waiting(m_MemPool)
    BY DEF Up
  <1> HIDE DEF f
  <1>6. Filled(f)
    <2>1. ASSUME NEW i \in 1..l PROVE PlacedAs(m_MemPool[i], f[m_PrevPos + i], i)
      BY <1>2, <1>4
    <2> QED
      BY <1>2, <1>4, <2>1 DEF Filled
  <1>7. Sound(f, n) /\ Apart(f, n, dropped)
    <2>1. /\ Sound(file, m_PrevPos) /\ Apart(file, m_PrevPos, dropped)
          /\ Indexed(file, m_PrevPos, db, dropped) /\ dropped \in SUBSET Names
      BY <1>2 DEF OnDisk
    <2>2. m_PrevPos \in Nat /\ n = m_PrevPos + Len(m_MemPool)
      BY <1>2
    <2>3. /\ Sound(f, m_PrevPos + Len(m_MemPool))
          /\ Apart(f, m_PrevPos + Len(m_MemPool), dropped)
      BY <1>5, <1>6, <2>1, <2>2, FilledSound
    <2> QED
      BY <2>2, <2>3
  <1>8. Indexed(f, dbHeader.last, db, dropped) /\ Layered(f, H, chain)
    <2>1. H <= Len(f)
      BY <1>2, <1>4
    <2> QED
      BY <1>4, <2>1, OnDiskWith
  <1>9. ASSUME NEW i \in 1..l PROVE f[H + i].block = m_Block + 1
    <2>1. m_MemPool[i].block = m_Block + 1
      BY <1>5, WaitingRow
    <2> QED
      BY <1>4, <2>1 DEF PlacedAs
  <1>10. Layered(f, n, chain)
    <2>1. SUFFICES ASSUME NEW b \in 0..Len(chain)
                   PROVE  /\ Len(UpTo(chain, b)) \in 0..n
                          /\ \A p \in 1..n : f[p].block <= b <=> p <= Len(UpTo(chain, b))
                          /\ \A p \in 1..Len(UpTo(chain, b)) :
                                 UpTo(chain, b)[p] = IssueOf(f[p])
      BY DEF Layered
    <2>2. /\ Len(UpTo(chain, b)) \in 0..H
          /\ \A p \in 1..H : f[p].block <= b <=> p <= Len(UpTo(chain, b))
          /\ \A p \in 1..Len(UpTo(chain, b)) : UpTo(chain, b)[p] = IssueOf(f[p])
      BY <1>8 DEF Layered
    <2>3. ASSUME NEW p \in 1..n, p \notin 1..H
          PROVE  ~ f[p].block <= b /\ ~ p <= Len(UpTo(chain, b))
      <3>1. p - H \in 1..l /\ H + (p - H) = p
        BY <1>2, <2>3
      <3>2. f[p].block = m_Block + 1
        BY <1>9, <3>1
      <3> QED
        BY <1>2, <2>2, <2>3, <3>2
    <2>4. Len(UpTo(chain, b)) \in 0..n
      BY <1>2, <2>2
    <2> QED
      BY <2>2, <2>3, <2>4
  <1>11. OnDisk'
    <2>1. header' \in Headers /\ header'.block = m_Block + 1 /\ header'.last = n
      BY <1>2, <1>3 DEF Headers
    <2>2. dbHeader.block <= m_Block + 1 /\ dbHeader.last <= n /\ m_Block + 1 # dbHeader.block
      BY <1>2
    <2> QED
      BY <1>1, <1>4, <1>7, <1>8, <1>10, <2>1, <2>2 DEF OnDisk
  <1>12. Committing'
    <2>1. header'.block = m_Block + 1 /\ header'.last = n
      BY <1>3
    <2>2. m_PrevPos + l = n /\ m_Pos + l = n + 1
      BY <1>2
    <2>3. \A i \in 1..l : Placed[i] = f[dbHeader.last + i] /\ Placed[i].block = m_Block + 1
      BY <1>2, <1>4, <1>9
    <2>4. \A i \in 1..Len(Placed) :
              Placed[i] = f[dbHeader.last + i] /\ Placed[i].block = m_Block + 1
      BY <1>4, <2>3
    <2>5. n = dbHeader.last + Len(Placed)
      BY <1>2, <1>4
    <2> HIDE DEF n, l, H
    <2> QED
      BY <1>1, <1>2, <1>4, <2>1, <2>2, <2>4, <2>5 DEF Committing
  <1> QED
    BY <1>1, <1>11, <1>12 DEF IInv

LEMMA IssueOfRow ==
    ASSUME NEW row \in Row
    PROVE  IssueOf(row) \in Issue /\ KeysOf(IssueOf(row)) = KeysOf(row)
  BY DEF Row, IssueOf, Issue, KeysOf

LEMMA CommitDatabaseStep ==
    ASSUME OnDisk, Committing, CommitDatabase
    PROVE  IInv'
  <1> DEFINE l == Len(m_MemPool)
             n == header.last
             d == dbHeader.last
             issues == [i \in DOMAIN m_MemPool |-> IssueOf(m_MemPool[i])]
             new == Append(chain, issues)
             b == Len(chain)
  <1>1. /\ phase = "commit" /\ db' = Batch(file, m_MemPool) /\ batch' = db'
        /\ dbHeader' = [block |-> m_Block + 1, last |-> m_PrevPos]
        /\ m_Block' = m_Block + 1 /\ m_MemPool' = <<>> /\ chain' = new
        /\ phase' = "up" /\ UNCHANGED <<file, header, m_PrevPos, m_Pos, dropped>>
    BY DEF CommitDatabase, Written
  <1>2. /\ l \in Nat /\ n \in Nat /\ d \in Nat /\ n = d + l /\ m_PrevPos = n /\ m_Pos = n + 1
        /\ m_Block = dbHeader.block /\ header.block = m_Block + 1 /\ m_Block = b /\ b \in Nat
        /\ m_MemPool \in Seq(Row) /\ DOMAIN m_MemPool = 1..l /\ chain \in Seq(Seq(Issue))
    BY DiskTypes, LenProperties DEF Committing
  <1>3. header \in Headers /\ dbHeader' = header
    <2>1. header \in Headers
      BY DEF OnDisk
    <2>2. header = [block |-> m_Block + 1, last |-> m_PrevPos]
      BY <1>2, <2>1 DEF Headers
    <2> QED
      BY <1>1, <2>1, <2>2
  <1>4. Indexed(file, n, db', dropped)
    <2>1. \A i \in 1..l : m_MemPool[i] = file[d + i]
      BY DEF Committing
    <2>2. Filed(file) /\ Sound(file, n) /\ Indexed(file, d, batch, dropped) /\ d + l <= n
      BY <1>2 DEF OnDisk
    <2>3. Indexed(file, d + l, Batch(file, m_MemPool), dropped)
      <3> HIDE DEF d, n
      <3> QED
        BY <1>2, <2>1, <2>2, BatchIs
    <2> QED
      BY <1>1, <1>2, <2>3
  <1>5. issues \in Seq(Issue) /\ Len(issues) = l /\ \A i \in 1..l : issues[i] = IssueOf(file[d + i])
    <2>1. \A i \in 1..l : m_MemPool[i] \in Row /\ m_MemPool[i] = file[d + i]
      BY <1>2, ElementOfSeq DEF Committing
    <2>2. \A i \in 1..l : issues[i] = IssueOf(m_MemPool[i]) /\ issues[i] \in Issue
      BY <1>2, <2>1, IssueOfRow
    <2>3. issues \in [1..l -> Issue] /\ DOMAIN issues = 1..l
      <3>1. DOMAIN issues = 1..l /\ issues = [i \in 1..l |-> issues[i]]
        BY <1>2
      <3> HIDE DEF issues, l
      <3> QED
        BY <2>2, <3>1
    <2> HIDE DEF issues, l
    <2>4. issues \in Seq(Issue)
      BY <1>2, <2>3, SeqDef
    <2>5. Len(issues) = l
      BY <1>2, <2>3, <2>4, LenProperties
    <2> QED
      BY <2>1, <2>2, <2>4, <2>5
  <1> HIDE DEF issues
  <1>6. /\ new \in Seq(Seq(Issue)) /\ Len(new) = b + 1
        /\ \A x \in 0..b : UpTo(new, x) = UpTo(chain, x) /\ UpTo(chain, x) \in Seq(Issue)
        /\ UpTo(new, b + 1) = UpTo(chain, b) \o issues
    <2>1. new \in Seq(Seq(Issue)) /\ Len(new) = b + 1
      BY <1>2, <1>5, AppendProperties
    <2>2. ASSUME NEW x \in 0..b
          PROVE  UpTo(new, x) = UpTo(chain, x) /\ UpTo(chain, x) \in Seq(Issue)
      BY <1>2, <1>5, UpToIs
    <2>3. UpTo(new, b + 1) = UpTo(chain, b) \o issues
      <3>1. b \in 0..b
        BY <1>2
      <3> QED
        BY <1>2, <1>5, <3>1, UpToIs
    <2> QED
      BY <2>1, <2>2, <2>3
  <1> HIDE DEF new
  <1>7. Layered(file, n, chain) /\ Len(UpTo(chain, b)) = d
    BY DEF OnDisk
  <1>8. /\ Len(UpTo(new, b + 1)) = n
        /\ \A p \in 1..n : UpTo(new, b + 1)[p] = IssueOf(file[p])
    <2> DEFINE u == UpTo(chain, b)
    <2>1. u \in Seq(Issue) /\ Len(u) = d
      <3>1. b \in 0..b
        BY <1>2
      <3> QED
        BY <1>6, <1>7, <3>1
    <2> HIDE DEF u
    <2>2. /\ Len(u \o issues) = Len(u) + Len(issues)
          /\ \A i \in 1..(Len(u) + Len(issues)) :
                 (u \o issues)[i] = IF i <= Len(u) THEN u[i] ELSE issues[i - Len(u)]
      BY <1>5, <2>1, ConcatProperties
    <2>3. Len(u) + Len(issues) = n
      BY <1>2, <1>5, <2>1
    <2>4. ASSUME NEW p \in 1..n PROVE (u \o issues)[p] = IssueOf(file[p])
      <3>1. CASE p <= d
        <4>1. b \in 0..Len(chain) /\ p \in 1..Len(UpTo(chain, b))
          BY <1>2, <1>7, <3>1
        <4>2. u[p] = IssueOf(file[p])
          BY <1>7, <4>1 DEF Layered, u
        <4> QED
          BY <2>1, <2>2, <2>3, <3>1, <4>2
      <3>2. CASE ~ p <= d
        <4>1. p - d \in 1..l /\ d + (p - d) = p
          BY <1>2, <3>2
        <4>2. issues[p - d] = IssueOf(file[p])
          BY <1>5, <4>1
        <4> QED
          BY <2>1, <2>2, <2>3, <3>2, <4>2
      <3> QED
        BY <3>1, <3>2
    <2> QED
      BY <1>6, <2>2, <2>3, <2>4 DEF u
  <1>9. Layered(file, n, new)
    <2>1. SUFFICES ASSUME NEW x \in 0..(b + 1)
                   PROVE  /\ Len(UpTo(new, x)) \in 0..n
                          /\ \A p \in 1..n : file[p].block <= x <=> p <= Len(UpTo(new, x))
                          /\ \A p \in 1..Len(UpTo(new, x)) : UpTo(new, x)[p] = IssueOf(file[p])
      BY <1>6 DEF Layered
    <2>2. CASE x \in 0..b
      <3>1. UpTo(new, x) = UpTo(chain, x)
        BY <1>6, <2>2
      <3> QED
        BY <1>7, <2>2, <3>1 DEF Layered
    <2>3. CASE x = b + 1
      <3>1. ASSUME NEW p \in 1..n PROVE file[p].block <= b + 1
        <4>1. CASE p <= d
          <5>1. file[p].block <= b
            <6>1. b \in 0..Len(chain)
              BY <1>2
            <6> QED
              BY <1>7, <4>1, <6>1 DEF Layered
          <5>2. file[p].block \in Int
            <6>1. p \in 1..Len(file) /\ file \in Seq(Row)
              BY DiskTypes
            <6>2. file[p] \in Row
              BY <6>1, ElementOfSeq
            <6> QED
              BY <6>2 DEF Row
          <5> QED
            BY <1>2, <5>1, <5>2
        <4>2. CASE ~ p <= d
          <5>1. p - d \in 1..l /\ d + (p - d) = p
            BY <1>2, <4>2
          <5>2. m_MemPool[p - d] = file[d + (p - d)] /\ m_MemPool[p - d].block = m_Block + 1
            BY <5>1 DEF Committing
          <5>3. file[p].block = m_Block + 1
            BY <5>1, <5>2
          <5> QED
            BY <1>2, <5>3
        <4> QED
          BY <4>1, <4>2
      <3>2. n \in 0..n
        BY <1>2
      <3> QED
        BY <1>8, <2>3, <3>1, <3>2
    <2> QED
      BY <1>2, <2>2, <2>3
  <1>10. OnDisk'
    <2>1. new \in Seq(Seq(Issue)) /\ Len(new) = header.block /\ Len(UpTo(new, Len(new))) = n
      BY <1>2, <1>6, <1>8
    <2>2. /\ Filed(file) /\ Sound(file, n) /\ Apart(file, n, dropped)
          /\ dropped \in SUBSET Names
      BY DEF OnDisk
    <2>3. header.block <= header.block /\ header.last <= header.last
      BY DiskTypes
    <2> QED
      BY <1>1, <1>3, <1>4, <1>9, <2>1, <2>2, <2>3 DEF OnDisk
  <1>11. Waiting(m_MemPool)'
    BY <1>1, EmptySeq DEF Waiting, Apart
  <1>12. Up'
    BY <1>1, <1>2, <1>3, <1>11 DEF Up
  <1> QED
    BY <1>1, <1>10, <1>12 DEF IInv

\* A ledger that does not take the only row leaves everything as it was.
LEMMA LedgerFailsStep ==
    ASSUME MaxFailPool <= 1, OnDisk, Up, NEW k \in 0..(MaxPool - 1), LedgerFails(k)
    PROVE  IInv'
  <1> DEFINE f == FileWith(0)
             H == header.last
             none == SubSeq(Placed, 1, 0)
  <1>1. /\ phase = "up" /\ Len(m_MemPool) <= MaxFailPool /\ k < Len(m_MemPool)
        /\ file' = FileWith(k) /\ db' = Batch(FileWith(k), SubSeq(Placed, 1, k)) /\ batch' = db'
        /\ dbHeader' = [block |-> m_Block, last |-> H]
        /\ m_MemPool' = <<>> /\ m_PrevPos' = H /\ m_Pos' = H + 1
        /\ UNCHANGED <<header, m_Block, phase, chain, dropped>>
    BY DEF LedgerFails, EndOfLedger, Written
  <1>2. /\ Len(m_MemPool) \in Nat /\ H \in Nat /\ m_Block \in Nat
        /\ m_PrevPos = H /\ dbHeader.last = H /\ m_Block = dbHeader.block
    BY UpTypes
  <1>3. k = 0
    <2>1. MaxFailPool \in Nat /\ MaxPool \in Nat
      BY EntityAssumption
    <2> QED
      BY <1>1, <1>2, <2>1
  <1>4. /\ Filed(f) /\ Same(file, f, H) /\ H + 0 <= Len(f) /\ Len(f) \in Nat
    <2>1. 0 \in 0..Len(m_MemPool)
      BY <1>2
    <2> QED
      BY <2>1, FileWithUp
  <1>5. /\ Sound(f, H) /\ Apart(f, H, dropped) /\ Indexed(f, H, batch, dropped)
        /\ Layered(f, H, chain)
    <2>1. H <= Len(f)
      BY <1>2, <1>4
    <2>2. /\ Sound(f, header.last) /\ Apart(f, header.last, dropped)
          /\ Indexed(f, dbHeader.last, db, dropped)
          /\ Layered(f, header.last, chain)
      <3> HIDE DEF f
      <3> QED
        BY <1>4, <2>1, OnDiskWith
    <2>3. batch = db
      BY DEF OnDisk
    <2> QED
      BY <1>2, <2>2, <2>3
  <1>6. none = <<>>
    BY SubSeqEmpty
  <1> HIDE DEF f, none
  <1>7. Indexed(f, H, Batch(f, none), dropped)
    <2>1. none \in Seq(Row) /\ Len(none) = 0
      BY <1>6, EmptySeq
    <2>2. \A i \in 1..Len(none) : none[i] = f[H + i]
      BY <2>1
    <2>3. H + Len(none) = H
      BY <1>2, <2>1
    <2>4. H + Len(none) <= H
      BY <1>2, <2>3
    <2>5. Indexed(f, H + Len(none), Batch(f, none), dropped)
      <3> HIDE DEF H
      <3> QED
        BY <1>2, <1>4, <1>5, <2>1, <2>2, <2>4, BatchIs
    <2> QED
      BY <2>3, <2>5
  <1>8. dbHeader' = dbHeader /\ dbHeader \in Headers
    <2>1. dbHeader \in Headers
      BY DEF OnDisk
    <2>2. dbHeader = [block |-> m_Block, last |-> H]
      BY <1>2, <2>1 DEF Headers
    <2> QED
      BY <1>1, <2>1, <2>2
  <1>9. OnDisk'
    <2>1. /\ file' = f /\ db' = Batch(f, none) /\ batch' = db' /\ header' = header
          /\ chain' = chain /\ dropped' = dropped
      BY <1>1, <1>3 DEF f, none
    <2>2. dropped \in SUBSET Names
      BY DEF OnDisk
    <2> QED
      BY <1>2, <1>4, <1>5, <1>7, <1>8, <2>1, <2>2 DEF OnDisk
  <1>10. Waiting(m_MemPool)'
    BY <1>1, EmptySeq DEF Waiting, Apart
  <1>11. Up'
    BY <1>1, <1>8, <1>10 DEF Up
  <1> QED
    BY <1>1, <1>9, <1>11 DEF IInv

-----------------------------------------------------------------------------
(* The way back.                                                           *)

\* What rows take with them that is not their asset's are names, and all such names.
LEMMA CarriedIs ==
    ASSUME file \in Seq(Row), NEW n \in Nat, n <= Len(file), NEW e \in 0..n
    PROVE  /\ Carried(Down(e, n)) \in SUBSET Names
           /\ \A p \in (e + 1)..n : Spares(p, Carried(Down(e, n)))
  <1> DEFINE down == Down(e, n)
  <1>1. /\ DOMAIN down = 1..(n - e)
        /\ \A i \in 1..(n - e) : down[i] = n + 1 - i
    <2>1. /\ down \in Seq(Int) /\ Len(down) = n - e
          /\ \A i \in 1..(n - e) : down[i] = n + 1 - i
      BY DownIs
    <2> HIDE DEF down
    <2> QED
      BY <2>1, LenProperties
  <1> HIDE DEF down
  <1>2. ASSUME NEW p \in ToSet(down) PROVE file[p] \in Row
    <2>1. PICK i \in 1..(n - e) : p = n + 1 - i
      BY <1>1 DEF ToSet
    <2>2. p \in 1..Len(file)
      BY <2>1, LenProperties
    <2> QED
      BY <2>2, ElementOfSeq
  <1>3. ASSUME NEW p \in (e + 1)..n PROVE p \in ToSet(down)
    <2>1. PICK i \in 1..(n - e) : i = n + 1 - p
      OBVIOUS
    <2>2. down[i] = p
      BY <1>1, <2>1
    <2> QED
      BY <1>1, <2>2 DEF ToSet
  <1>4. Carried(down) \in SUBSET Names
    BY <1>2 DEF Carried, Row
  <1>5. ASSUME NEW p \in (e + 1)..n PROVE Spares(p, Carried(down))
    <2>1. p \in ToSet(down)
      BY <1>3
    <2> QED
      BY <2>1 DEF Spares, Carried
  <1> QED
    BY <1>4, <1>5 DEF down

\* The database after the rows above a block are erased.
LEMMA RolledBack ==
    ASSUME OnDisk, NEW block \in 0..Len(chain), NEW e, e = Len(UpTo(chain, block)),
           \/ dbHeader.last = header.last
           \/ header.last <= e + 1 /\ dbHeader.last = e
    PROVE  /\ e \in 0..header.last
           /\ EndBelow(block, header.last) = e
           /\ Indexed(file, e, Erased(db, RowsAbove(block, header.last)),
                      dropped \cup Carried(RowsAbove(block, header.last)))
           /\ Carried(RowsAbove(block, header.last)) \in SUBSET Names
           /\ \A i \in DOMAIN RowsAbove(block, header.last) :
                  ~Unreachable(RowsAbove(block, header.last)[i])
  <1> DEFINE H == header.last
             above == RowsAbove(block, H)
  <1>1. /\ Filed(file) /\ file \in Seq(Row) /\ H \in Nat /\ H \in 0..Len(file)
        /\ Sound(file, H) /\ Apart(file, H, dropped) /\ dropped \in SUBSET Names
        /\ Indexed(file, dbHeader.last, db, dropped) /\ block \in Int
    BY DiskTypes DEF OnDisk
  <1>2. /\ e \in 0..H
        /\ \A p \in 1..H : file[p].block <= block <=> p <= e
    BY DEF OnDisk, Layered
  <1>3. above = Down(e, H) /\ EndBelow(block, H) = e
    <2> HIDE DEF H
    <2> QED
      BY <1>1, <1>2, RowsAboveIs
  <1> DEFINE C == Carried(Down(e, H))
             X == dropped \cup C
  <1>4. C \in SUBSET Names /\ \A p \in (e + 1)..H : Spares(p, C)
    <2> HIDE DEF H
    <2>1. H <= Len(file)
      BY <1>1
    <2> QED
      BY <1>1, <1>2, <2>1, CarriedIs
  <1>5. Indexed(file, e, Erased(db, Down(e, H)), X)
    <2> HIDE DEF H, C
    <2>1. dropped \subseteq X /\ C \subseteq X
      OBVIOUS
    <2> HIDE DEF X
    <2>2. \A p \in (e + 1)..H : Spares(p, X)
      BY <1>4, <2>1, ButForMore
    <2>3. Apart(file, H, X)
      BY <1>1, <2>1, ButForMore
    <2>4. Indexed(file, dbHeader.last, db, X)
      BY <1>1, <2>1, ButForMore
    <2>5. Indexed(file, H, db, X) \/ (H <= e + 1 /\ Indexed(file, e, db, X))
      BY <2>4 DEF H
    <2> QED
      BY <1>1, <1>2, <2>2, <2>3, <2>5, ErasedIs
  <1>6. ASSUME NEW i \in DOMAIN above PROVE ~Unreachable(above[i])
    <2>1. above \in Seq(Int) /\ Len(above) = H - e /\ \A x \in 1..(H - e) : above[x] = H + 1 - x
      <3> HIDE DEF H, above
      <3> QED
        BY <1>1, <1>2, <1>3, DownIs
    <2>2. i \in 1..(H - e)
      BY <2>1, LenProperties
    <2>3. PICK p \in 1..H : p = above[i]
      <3>1. above[i] = H + 1 - i
        BY <2>1, <2>2
      <3>2. H + 1 - i \in 1..H
        BY <1>1, <1>2, <2>2
      <3> HIDE DEF above
      <3> QED
        BY <3>1, <3>2
    <2>4. SUFFICES ASSUME file[p].kind = "follow" PROVE file[file[p].first].tx \in DOMAIN db
      BY <2>3 DEF Unreachable
    <2> DEFINE g == file[p].first
    <2>5. g \in 1..(p - 1)
      BY <1>1, <2>4, RowOf
    <2>6. g \in 1..dbHeader.last
      <3>1. H \in Nat /\ e \in 0..H /\ (dbHeader.last = H \/ (H <= e + 1 /\ dbHeader.last = e))
        BY <1>1, <1>2
      <3> HIDE DEF H, g
      <3> QED
        BY <2>5, <3>1
    <2>7. Sound(file, dbHeader.last) /\ dbHeader.last \in Nat
      <3>1. dbHeader.last \in 0..header.last /\ Len(file) \in Nat /\ header.last \in Nat
        BY DiskTypes
      <3> QED
        BY <1>1, <3>1, SoundBefore
    <2> QED
      BY <1>1, <2>6, <2>7, FoundByTx
  <1> QED
    BY <1>2, <1>3, <1>4, <1>5, <1>6

\* RollBack, from memory or after a batch that was not written.
LEMMA RolledBackStep ==
    ASSUME OnDisk, NEW block \in 0..Len(chain),
           \/ dbHeader.last = header.last
           \/ /\ header.last <= Len(UpTo(chain, block)) + 1
              /\ dbHeader.last = Len(UpTo(chain, block)),
           m_PrevPos = header.last, block < header.block,
           RollBackDatabase(db, block) \/ RollBackFails(db, block),
           chain' = SubSeq(chain, 1, block)
    PROVE  IInv'
  <1> DEFINE e == Len(UpTo(chain, block))
             H == header.last
             above == RowsAbove(block, H)
             new == SubSeq(chain, 1, block)
             X == dropped \cup Carried(above)
  <1>1. /\ e \in 0..H /\ EndBelow(block, H) = e
        /\ Indexed(file, e, Erased(db, above), X) /\ Carried(above) \in SUBSET Names
        /\ \A i \in DOMAIN above : ~Unreachable(above[i])
    <2> HIDE DEF e
    <2>1. e = Len(UpTo(chain, block)) /\ (dbHeader.last = H \/ (H <= e + 1 /\ dbHeader.last = e))
      BY DEF e
    <2> QED
      BY <2>1, RolledBack
  <1>2. RollBackFrom = H
    BY DEF RollBackFrom, EndOfLedger
  <1>3. ~RollBackFails(db, block)
    BY <1>1, <1>2 DEF RollBackFails
  <1>4. /\ db' = Erased(db, above) /\ batch' = db' /\ dropped' = X
        /\ dbHeader' = [block |-> block, last |-> e]
        /\ m_PrevPos' = dbHeader'.last /\ m_MemPool' = <<>> /\ phase' = "rollback"
        /\ UNCHANGED <<file, header>>
    BY <1>1, <1>2, <1>3 DEF RollBackDatabase, Written
  <1>5. /\ H \in Nat /\ e \in Nat /\ e <= H /\ block \in Nat /\ header.block \in Nat
        /\ chain \in Seq(Seq(Issue)) /\ Layered(file, H, chain)
    BY <1>1, DiskTypes DEF OnDisk
  <1>6. /\ new \in Seq(Seq(Issue)) /\ Len(new) = block
        /\ \A x \in 0..block : UpTo(new, x) = UpTo(chain, x)
    BY <1>5, PrefixOf, UpToIs
  <1> HIDE DEF new, above
  <1>7. Layered(file, H, new)
    <2>1. \A x \in 0..block : x \in 0..Len(chain)
      BY <1>5, LenProperties
    <2> HIDE DEF H
    <2> QED
      BY <1>5, <1>6, <2>1 DEF Layered
  <1>8. Len(UpTo(new, Len(new))) = e
    <2>1. block \in 0..block
      BY <1>5
    <2> QED
      BY <1>6, <2>1
  <1>9. dbHeader' \in Headers /\ dbHeader'.block = block /\ dbHeader'.last = e
    BY <1>4, <1>5 DEF Headers
  <1>10. OnDisk'
    <2>1. /\ Filed(file) /\ header \in Headers /\ Sound(file, H)
          /\ Apart(file, H, dropped) /\ dropped \in SUBSET Names
      BY DEF OnDisk
    <2>2. Apart(file, H, X) /\ X \in SUBSET Names
      <3>1. dropped \subseteq X
        OBVIOUS
      <3> HIDE DEF H
      <3> QED
        BY <1>1, <2>1, <3>1, ButForMore
    <2>3. chain' = new
      BY DEF new
    <2>4. header.block # block /\ block <= header.block
      BY <1>5
    <2> HIDE DEF e, X
    <2> QED
      BY <1>1, <1>4, <1>5, <1>6, <1>7, <1>8, <1>9, <2>1, <2>2, <2>3, <2>4 DEF OnDisk
  <1> QED
    BY <1>4, <1>10 DEF IInv

LEMMA RollBackStep ==
    ASSUME OnDisk, Up, RollBack
    PROVE  IInv'
  <1>1. PICK block \in 0..(Len(chain) - 1) :
           /\ RollBackDatabase(db, block) \/ RollBackFails(db, block)
           /\ chain' = SubSeq(chain, 1, block)
    BY DEF RollBack, OnDisk
  <1>2. block \in 0..Len(chain) /\ block < header.block
    BY UpTypes DEF Up
  <1>3. dbHeader.last = header.last /\ m_PrevPos = header.last
    BY UpTypes
  <1> QED
    BY <1>1, <1>2, <1>3, RolledBackStep

\* After one row at most, what the database does not have is taken from it.
LEMMA DatabaseFailsStep ==
    ASSUME MaxFailPool <= 1, OnDisk, Committing, DatabaseFails
    PROVE  IInv'
  <1> DEFINE block == m_Block
  <1>1. /\ Len(m_MemPool) <= MaxFailPool /\ chain' = chain
        /\ RollBackDatabase(db, block) \/ RollBackFails(db, block)
    BY DEF DatabaseFails
  <1>2. /\ block = Len(chain) /\ block \in Nat /\ header.block = block + 1
        /\ m_PrevPos = header.last /\ header.last = dbHeader.last + Len(m_MemPool)
        /\ Len(UpTo(chain, block)) = dbHeader.last
        /\ chain \in Seq(Seq(Issue)) /\ dbHeader.last \in Nat /\ Len(m_MemPool) \in Nat
    BY DiskTypes, LenProperties DEF Committing, OnDisk
  <1>3. MaxFailPool \in Nat
    BY EntityAssumption
  <1>4. chain' = SubSeq(chain, 1, block)
    BY <1>1, <1>2, SubSeqFull
  <1>5. block \in 0..Len(chain) /\ block < header.block
    BY <1>2
  <1>6. header.last <= Len(UpTo(chain, block)) + 1 /\ dbHeader.last = Len(UpTo(chain, block))
    BY <1>1, <1>2, <1>3
  <1> HIDE DEF block
  <1> QED
    BY <1>1, <1>2, <1>4, <1>5, <1>6, RolledBackStep

\* The end of the file is where the blocks end, not behind.
LEMMA LayeredBefore ==
    ASSUME NEW f, NEW n \in Nat, NEW c, Len(c) \in Nat, Layered(f, n, c), NEW k \in 0..n,
           k = Len(UpTo(c, Len(c))), \A p \in 1..n : f[p].block \in Int
    PROVE  Layered(f, k, c)
  <1>1. SUFFICES ASSUME NEW b \in 0..Len(c)
                 PROVE  /\ Len(UpTo(c, b)) \in 0..k
                        /\ \A p \in 1..k : f[p].block <= b <=> p <= Len(UpTo(c, b))
                        /\ \A p \in 1..Len(UpTo(c, b)) : UpTo(c, b)[p] = IssueOf(f[p])
    BY DEF Layered
  <1> DEFINE u == Len(UpTo(c, b))
  <1>2. /\ u \in 0..n
        /\ \A p \in 1..n : f[p].block <= b <=> p <= u
        /\ \A p \in 1..u : UpTo(c, b)[p] = IssueOf(f[p])
    BY DEF Layered
  <1>3. \A p \in 1..n : f[p].block <= Len(c) <=> p <= k
    BY DEF Layered
  <1>4. u <= k
    <2>1. SUFFICES ASSUME NEW p \in 1..n, p = u, ~ p <= k PROVE FALSE
      BY <1>2
    <2>2. f[p].block <= b /\ f[p].block \in Int
      BY <1>2, <2>1
    <2>3. f[p].block <= Len(c)
      BY <2>2
    <2> QED
      BY <1>3, <2>1, <2>3
  <1>5. \A p \in 1..k : p \in 1..n
    OBVIOUS
  <1> QED
    BY <1>2, <1>4, <1>5

LEMMA RollBackHeaderStep ==
    ASSUME OnDisk, m_PrevPos = dbHeader.last, m_MemPool = <<>>, RollBackHeader
    PROVE  IInv'
  <1> DEFINE d == dbHeader.last
  <1>1. /\ header' = dbHeader /\ m_Block' = dbHeader.block /\ m_Pos' = m_PrevPos + 1
        /\ phase' = "up" /\ UNCHANGED <<file, db, dbHeader, batch, m_PrevPos, m_MemPool, chain, dropped>>
    BY DEF RollBackHeader
  <1>2. /\ header.last \in Nat /\ d \in 0..header.last /\ Len(file) \in Nat
        /\ Len(chain) = dbHeader.block /\ dbHeader.block \in Nat
    BY DiskTypes
  <1>3. Sound(file, d) /\ Apart(file, d, dropped)
    <2> HIDE DEF d
    <2> QED
      BY <1>2, SoundBefore DEF OnDisk
  <1>4. Layered(file, d, chain)
    <2>1. ASSUME NEW p \in 1..header.last PROVE file[p].block \in Int
      <3>1. p \in 1..Len(file) /\ file \in Seq(Row)
        BY DiskTypes
      <3>2. file[p] \in Row
        BY <3>1, ElementOfSeq
      <3> QED
        BY <3>2 DEF Row
    <2>2. Layered(file, header.last, chain) /\ d = Len(UpTo(chain, Len(chain)))
      BY DEF OnDisk
    <2> HIDE DEF d
    <2> QED
      BY <1>2, <2>1, <2>2, LayeredBefore
  <1>5. OnDisk'
    <2>1. dbHeader.block <= dbHeader.block /\ dbHeader.last <= dbHeader.last
      BY <1>2
    <2> QED
      BY <1>1, <1>3, <1>4, <2>1 DEF OnDisk
  <1>6. Waiting(m_MemPool)'
    BY <1>1, EmptySeq DEF Waiting, Apart
  <1>7. Up'
    BY <1>1, <1>6 DEF Up
  <1> QED
    BY <1>1, <1>5, <1>7 DEF IInv

-----------------------------------------------------------------------------
(* Crash and start.                                                        *)

LEMMA CrashStep ==
    ASSUME IInv, Crash
    PROVE  IInv'
  <1>1. /\ phase \in {"up", "commit", "rollback"}
        /\ file' \in IF phase = "up" THEN {FileWith(k) : k \in 0..Len(m_MemPool)} ELSE {file}
        /\ m_MemPool' = <<>> /\ phase' = "down" /\ batch' = db
        /\ UNCHANGED <<header, db, dbHeader, chain, dropped>>
    BY DEF Crash
  <1>2. OnDisk /\ (phase = "up" => Up)
    BY DEF IInv
  <1>3. /\ Filed(file') /\ Sound(file', header.last) /\ Apart(file', header.last, dropped)
        /\ Indexed(file', dbHeader.last, db, dropped) /\ Layered(file', header.last, chain)
    <2>1. CASE phase = "up"
      <3>1. PICK k \in 0..Len(m_MemPool) : file' = FileWith(k)
        BY <1>1, <2>1
      <3> DEFINE f == FileWith(k)
      <3>2. /\ Filed(f) /\ Same(file, f, header.last) /\ header.last + k <= Len(f)
            /\ Len(f) \in Nat
        BY <1>2, <2>1, FileWithUp
      <3> HIDE DEF f
      <3>3. header.last <= Len(f)
        BY <1>2, <3>2, DiskTypes
      <3>4. /\ Sound(f, header.last) /\ Apart(f, header.last, dropped)
            /\ Indexed(f, dbHeader.last, db, dropped) /\ Layered(f, header.last, chain)
        BY <1>2, <3>2, <3>3, OnDiskWith
      <3> QED
        BY <3>1, <3>2, <3>4 DEF f
    <2>2. CASE phase # "up"
      <3>1. file' = file
        BY <1>1, <2>2
      <3> QED
        BY <1>2, <3>1 DEF OnDisk
    <2> QED
      BY <2>1, <2>2
  <1>4. OnDisk'
    BY <1>1, <1>2, <1>3 DEF OnDisk
  <1> QED
    BY <1>1, <1>4 DEF IInv

\* A header ahead of the database by blocks without entities is set back, and where it
\* is ahead by entities the start refuses.
LEMMA InitializeStep ==
    ASSUME OnDisk, m_MemPool = <<>>, Initialize
    PROVE  IInv'
  <1> DEFINE ahead == dbHeader.block < header.block
             block == IF ahead THEN dbHeader.block ELSE header.block
             last == IF ahead THEN EndBelow(dbHeader.block, header.last) ELSE header.last
             good == SameSize /\ block = dbHeader.block /\ last = dbHeader.last
  <1>1. /\ header' = (IF SameSize /\ ahead THEN dbHeader ELSE header)
        /\ m_Block' = dbHeader.block /\ m_PrevPos' = dbHeader.last
        /\ m_Pos' = dbHeader.last + 1 /\ phase' = (IF good THEN "up" ELSE "refused")
        /\ UNCHANGED <<file, db, dbHeader, batch, m_MemPool, chain, dropped>>
    BY DEF Initialize
  <1>2. /\ header.block \in Nat /\ header.last \in Nat /\ dbHeader.block \in Nat
        /\ dbHeader.last \in Nat /\ dbHeader.block <= header.block
        /\ header.block = dbHeader.block => header.last = dbHeader.last
        /\ header \in Headers /\ dbHeader \in Headers
        /\ header.last \in 0..Len(file) /\ Filed(file) /\ Len(chain) = dbHeader.block
    BY DiskTypes DEF OnDisk
  <1>3. SameSize <=> header.last = dbHeader.last
    BY DEF SameSize
  <1>4. SameSize => EndBelow(dbHeader.block, header.last) = dbHeader.last
    <2>1. SUFFICES ASSUME header.last = dbHeader.last
                   PROVE  EndBelow(dbHeader.block, header.last) = header.last
      BY <1>3
    <2>2. \A p \in 1..header.last : file[p].block <= dbHeader.block <=> p <= header.last
      <3>1. Len(chain) \in 0..Len(chain) /\ Len(UpTo(chain, Len(chain))) = header.last
        BY <1>2, <2>1 DEF OnDisk
      <3> QED
        BY <1>2, <3>1 DEF OnDisk, Layered
    <2>3. dbHeader.block \in Int /\ header.last \in 0..header.last
      BY <1>2
    <2> QED
      BY <1>2, <2>2, <2>3, RowsAboveIs
  <1>5. CASE SameSize
    <2>1. header' = dbHeader
      <3>1. CASE ahead
        BY <1>1, <1>5, <3>1
      <3>2. CASE ~ahead
        <4>1. header' = header /\ header.block = dbHeader.block
          BY <1>1, <1>2, <3>2
        <4> QED
          BY <1>2, <4>1 DEF Headers
      <3> QED
        BY <3>1, <3>2
    <2>2. good
      <3>1. CASE ahead
        BY <1>4, <1>5, <3>1
      <3>2. CASE ~ahead
        BY <1>2, <1>3, <1>5, <3>2
      <3> QED
        BY <3>1, <3>2
    <2>3. phase' = "up"
      <3> HIDE DEF good
      <3> QED
        BY <1>1, <2>2
    <2>4. OnDisk'
      <3>1. header.last = dbHeader.last
        BY <1>3, <1>5
      <3>2. dbHeader.block <= dbHeader.block /\ dbHeader.last <= dbHeader.last
        BY <1>2
      <3>3. UNCHANGED <<file, db, dbHeader, batch, chain, dropped>>
        BY <1>1
      <3> QED
        BY <1>2, <2>1, <3>1, <3>2, <3>3 DEF OnDisk
    <2>5. Waiting(m_MemPool)'
      BY <1>1, EmptySeq DEF Waiting, Apart
    <2>6. Up'
      <3>1. /\ m_Block' = dbHeader.block /\ m_PrevPos' = dbHeader.last
            /\ m_Pos' = dbHeader.last + 1 /\ dbHeader' = dbHeader
        BY <1>1
      <3> QED
        BY <2>1, <2>5, <3>1 DEF Up
    <2> QED
      BY <2>3, <2>4, <2>6 DEF IInv
  <1>6. CASE ~SameSize
    <2>1. header' = header
      BY <1>1, <1>6
    <2>2. ~good
      BY <1>6
    <2>3. phase' = "refused"
      <3> HIDE DEF good
      <3> QED
        BY <1>1, <2>2
    <2>4. header'.last # dbHeader'.last
      BY <1>1, <1>3, <1>6, <2>1
    <2>5. UNCHANGED <<disk, batch, chain, dropped>>
      BY <1>1, <2>1 DEF disk
    <2>6. OnDisk'
      BY <2>5, SameDisk
    <2> QED
      BY <2>3, <2>4, <2>6 DEF IInv
  <1> QED
    BY <1>5, <1>6

-----------------------------------------------------------------------------
LEMMA InitHolds ==
    ASSUME Init
    PROVE  IInv
  <1>1. /\ file = <<>> /\ header = [block |-> 0, last |-> 0] /\ db = <<>>
        /\ dbHeader = [block |-> 0, last |-> 0]
        /\ m_Block = 0 /\ m_PrevPos = 0 /\ m_Pos = 1 /\ m_MemPool = <<>>
        /\ phase = "up" /\ chain = <<>> /\ batch = <<>> /\ dropped = {}
    BY DEF Init
  <1>2. /\ <<>> \in Seq(Row) /\ Len(<<>>) = 0 /\ <<>> \in Seq(Seq(Issue)) /\ <<>> \in Seq(Issue)
    BY EmptySeq
  <1>3. Filed(file)
    BY <1>1, <1>2 DEF Filed
  <1>4. header \in Headers /\ dbHeader \in Headers
    BY <1>1 DEF Headers
  <1>5. Sound(file, 0) /\ Apart(file, 0, dropped)
    BY <1>1, <1>2 DEF Sound, Distinct, Apart
  <1>6. Indexed(file, 0, db, dropped)
    <2>1. DOMAIN db = {} /\ db \in [{} -> Pairs]
      BY <1>1
    <2>2. {} \in SUBSET Keys
      OBVIOUS
    <2>3. db \in Bases
      BY <2>1, <2>2 DEF Bases
    <2> QED
      BY <2>1, <2>3 DEF Indexed
  <1>7. UpTo(chain, 0) = <<>>
    <2>1. SubSeq(chain, 1, 0) = <<>>
      BY SubSeqEmpty
    <2>2. FlattenSeq(<<>>) = <<>>
      BY DEF FlattenSeq
    <2> QED
      BY <2>1, <2>2 DEF UpTo
  <1>8. Layered(file, 0, chain)
    <2>1. \A b \in 0..Len(chain) : b = 0
      BY <1>1, <1>2
    <2> QED
      BY <1>2, <1>7, <2>1 DEF Layered
  <1>9. OnDisk
    BY <1>1, <1>2, <1>3, <1>4, <1>5, <1>6, <1>7, <1>8 DEF OnDisk
  <1>10. Up
    BY <1>1, NothingWaits DEF Up
  <1> QED
    BY <1>1, <1>9, <1>10 DEF IInv

LEMMA NextKeeps ==
    ASSUME MaxFailPool <= 1, IInv, [Next]_vars
    PROVE  IInv'
  <1>1. OnDisk
    BY DEF IInv
  <1>2. ASSUME NEW tx \in Txs, NEW name \in Names \cup {NoName}, InsertEntity(tx, name)
        PROVE  IInv'
    <2>1. Up
      BY <1>2 DEF IInv, InsertEntity, HasRoom
    <2> QED
      BY <1>1, <1>2, <2>1, InsertEntityStep
  <1>3. ASSUME NEW tx \in Txs, NEW name \in Names \cup {NoName}, NEW quantity \in Quantities,
               InsertAsset(tx, name, quantity)
        PROVE  IInv'
    <2>1. Up
      BY <1>3 DEF IInv, InsertAsset, HasRoom
    <2> QED
      BY <1>1, <1>3, <2>1, InsertAssetStep
  <1>4. ASSUME NEW tx \in Txs, NEW original \in Txs, NEW name \in Names \cup {NoName},
               NEW quantity \in Quantities, InsertAssetFollowOn(tx, original, name, quantity)
        PROVE  IInv'
    <2>1. Up
      BY <1>4 DEF IInv, InsertAssetFollowOn, HasRoom
    <2> QED
      BY <1>1, <1>4, <2>1, InsertAssetFollowOnStep
  <1>5. CASE ClearMemPool
    <2>1. Up
      BY <1>5 DEF IInv, ClearMemPool
    <2> QED
      BY <1>1, <1>5, <2>1, ClearMemPoolStep
  <1>6. CASE CommitLedger
    <2>1. Up
      BY <1>6 DEF IInv, CommitLedger
    <2> QED
      BY <1>1, <1>6, <2>1, CommitLedgerStep
  <1>7. CASE CommitDatabase
    <2>1. Committing
      BY <1>7 DEF IInv, CommitDatabase
    <2> QED
      BY <1>1, <1>7, <2>1, CommitDatabaseStep
  <1>8. ASSUME NEW k \in 0..(MaxPool - 1), LedgerFails(k)
        PROVE  IInv'
    <2>1. Up
      BY <1>8 DEF IInv, LedgerFails
    <2> QED
      BY <1>1, <1>8, <2>1, LedgerFailsStep
  <1>9. CASE RollBack
    <2>1. Up
      BY <1>9 DEF IInv, RollBack
    <2> QED
      BY <1>1, <1>9, <2>1, RollBackStep
  <1>10. CASE DatabaseFails
    <2>1. Committing
      BY <1>10 DEF IInv, DatabaseFails
    <2> QED
      BY <1>1, <1>10, <2>1, DatabaseFailsStep
  <1>11. CASE RollBackHeader
    <2>1. m_PrevPos = dbHeader.last /\ m_MemPool = <<>>
      BY <1>11 DEF IInv, RollBackHeader
    <2> QED
      BY <1>1, <1>11, <2>1, RollBackHeaderStep
  <1>12. CASE Crash
    BY <1>12, CrashStep
  <1>13. CASE Initialize
    <2>1. m_MemPool = <<>>
      BY <1>13 DEF IInv, Initialize
    <2> QED
      BY <1>1, <1>13, <2>1, InitializeStep
  <1>14. CASE UNCHANGED vars
    <2>1. UNCHANGED <<file, header, db, dbHeader, batch, m_Block, m_PrevPos, m_Pos, m_MemPool,
                      phase, chain, dropped>>
      BY <1>14 DEF vars, disk, memory
    <2>2. OnDisk'
      BY <1>1, <2>1, SameDisk DEF disk
    <2>3. Up => Up'
      <3>1. ASSUME Up PROVE Waiting(m_MemPool)'
        BY <2>1, <3>1, WaitingSame DEF Up
      <3> QED
        BY <2>1, <3>1 DEF Up
    <2>4. Committing => Committing'
      BY <2>1 DEF Committing
    <2> QED
      BY <2>1, <2>2, <2>3, <2>4 DEF IInv
  <1> QED
    BY <1>2, <1>3, <1>4, <1>5, <1>6, <1>7, <1>8, <1>9, <1>10, <1>11, <1>12, <1>13, <1>14 DEF Next

\* The invariant, for any sets of transactions, names and quantities, as long as a write
\* fails with at most one row in memory.
THEOREM Invariance ==
    ASSUME MaxFailPool <= 1
    PROVE  Spec => []IInv
  <1>1. Init => IInv
    BY InitHolds
  <1>2. IInv /\ [Next]_vars => IInv'
    BY NextKeeps
  <1> QED
    BY <1>1, <1>2, PTL DEF Spec

-----------------------------------------------------------------------------
(* What follows.                                                           *)

\* Between two calls the file's header, the database's and the memory are at the same
\* block with the same last row, and that is the block the chain is at.
THEOREM StoresAgreeHolds ==
    ASSUME MaxFailPool <= 1
    PROVE  Spec => []StoresAgree
  <1>1. IInv => StoresAgree
    <2>1. ASSUME IInv, phase = "up" PROVE Up /\ OnDisk
      BY <2>1 DEF IInv
    <2> QED
      BY <2>1 DEF StoresAgree, Quiet, Up, OnDisk
  <1> QED
    BY <1>1, Invariance, PTL

\* The start refuses only if the write that was interrupted had entities in it.
THEOREM RefusesOnlyOverEntitiesHolds ==
    ASSUME MaxFailPool <= 1
    PROVE  Spec => []RefusesOnlyOverEntities
  <1>1. IInv => RefusesOnlyOverEntities
    BY DEF IInv, RefusesOnlyOverEntities
  <1> QED
    BY <1>1, Invariance, PTL

\* The newest issue of an asset is where its chain ends.
LEMMA NewestIs ==
    ASSUME OnDisk, header = dbHeader, NEW i \in 1..header.last, file[i].kind = "asset",
           Len(Confirmed) = header.last, DOMAIN Confirmed = 1..header.last,
           \A p \in 1..header.last : Confirmed[p] = IssueOf(file[p]),
           NEW e, IsEnd(file, i, header.last, e)
    PROVE  Newest(file[i].tx) = Confirmed[e] /\ e \in 1..header.last
  <1> DEFINE H == header.last
             T == {j \in DOMAIN Confirmed : Confirmed[j].of = file[i].tx}
  <1>1. /\ H \in Nat /\ file \in Seq(Row) /\ Sound(file, H) /\ e \in i..H /\ e \in 1..H
        /\ file[e].first = i
    BY DiskTypes DEF OnDisk, IsEnd
  <1>2. ASSUME NEW q \in 1..H PROVE file[q].of = file[i].tx <=> file[q].first = i
    <2> DEFINE g == file[q].first
    <2>1. g \in 1..H /\ file[q].of = file[g].tx
      <3>1. g \in 1..q
        BY <1>1, RowOf
      <3>2. file[q].of = file[g].tx
        <4>1. CASE file[q].kind = "follow"
          BY <1>1, <4>1, RowOf DEF Continues
        <4>2. CASE file[q].kind # "follow"
          BY <1>1, <4>2, RowOf DEF Begins
        <4> QED
          BY <4>1, <4>2
      <3> QED
        BY <1>1, <3>1, <3>2
    <2>2. g # i => file[g].tx # file[i].tx
      <3> HIDE DEF g, H
      <3>1. \A x \in 1..H : g # x => file[g].tx # file[x].tx
        BY <1>1, <2>1, RowOf
      <3> QED
        BY <3>1 DEF H
    <2> QED
      BY <2>1, <2>2
  <1>3. T = {q \in 1..H : file[q].first = i}
    <2>1. ASSUME NEW q \in 1..H PROVE Confirmed[q].of = file[q].of
      <3>1. Confirmed[q] = IssueOf(file[q])
        OBVIOUS
      <3> QED
        BY <3>1 DEF IssueOf
    <2> QED
      BY <1>2, <2>1
  <1> HIDE DEF T
  <1>4. e \in T /\ \A q \in T : q <= e
    <2>1. ASSUME NEW q \in T, ~ q <= e PROVE FALSE
      <3>1. q \in (e + 1)..H /\ file[q].first = i
        BY <1>1, <1>3, <2>1
      <3> QED
        BY <3>1 DEF IsEnd
    <2> QED
      BY <1>1, <1>3, <2>1
  <1>5. Max(T) = e
    <2>1. T \in SUBSET (0..H) /\ T # {}
      BY <1>3, <1>4
    <2>2. Max(T) \in T /\ \A y \in T : y <= Max(T)
      <3> HIDE DEF H
      <3> QED
        BY <1>1, <2>1, MaxIs
    <2> HIDE DEF H
    <2>3. PICK x : x = Max(T)
      OBVIOUS
    <2>4. x \in T /\ x \in 0..H /\ e <= x /\ x <= e
      BY <1>4, <2>1, <2>2, <2>3
    <2>5. e \in 0..H
      BY <1>4, <2>1
    <2> QED
      BY <1>1, <2>3, <2>4, <2>5
  <1> QED
    BY <1>1, <1>5 DEF Newest, T

\* The database has the transactions of the issues in the chain and no others; a key leads
\* to the row of an issue that has it, for an asset to its newest issue besides, and the key
\* of an issue to no other, but for the names that follow-ons of other assets took with them.
THEOREM DatabaseExactHolds ==
    ASSUME MaxFailPool <= 1
    PROVE  Spec => []DatabaseExact
  <1>1. IInv => DatabaseExact
    <2>1. SUFFICES ASSUME IInv, phase = "up"
                   PROVE  /\ DOMAIN db \cap Txs = {Confirmed[i].tx : i \in DOMAIN Confirmed}
                          /\ \A key \in DOMAIN db : \E i \in DOMAIN Confirmed :
                                /\ key \in KeysOf(Confirmed[i])
                                /\ IssueOf(file[db[key].pos]) = Confirmed[i]
                                /\ Confirmed[i].kind = "asset" =>
                                      file[db[key].chain].tx = Newest(Confirmed[i].tx).tx
                          /\ \A i \in DOMAIN Confirmed : \A key \in KeysOf(Confirmed[i]) \ dropped :
                                key \in DOMAIN db /\ IssueOf(file[db[key].pos]) = Confirmed[i]
      BY DEF DatabaseExact, Quiet
    <2> DEFINE H == header.last
    <2>2. /\ OnDisk /\ header = dbHeader /\ H \in Nat /\ H <= Len(file) /\ file \in Seq(Row)
          /\ chain \in Seq(Seq(Issue)) /\ Len(chain) \in Nat
          /\ Sound(file, H) /\ Apart(file, H, dropped) /\ dropped \in SUBSET Names
          /\ Indexed(file, H, db, dropped)
      BY <2>1, DiskTypes, LenProperties DEF IInv, Up, OnDisk
    <2>3. /\ Confirmed \in Seq(Issue) /\ Len(Confirmed) = H /\ DOMAIN Confirmed = 1..H
          /\ \A p \in 1..H : Confirmed[p] = IssueOf(file[p])
      <3>1. Len(chain) \in 0..Len(chain)
        BY <2>2
      <3>2. UpTo(chain, Len(chain)) = Confirmed /\ UpTo(chain, Len(chain)) \in Seq(Issue)
        BY <2>2, <3>1, UpToIs DEF Confirmed
      <3>3. Len(UpTo(chain, Len(chain))) = H /\ Layered(file, H, chain)
        BY <2>2 DEF OnDisk
      <3>4. \A p \in 1..H : Confirmed[p] = IssueOf(file[p])
        BY <3>1, <3>2, <3>3 DEF Layered
      <3> QED
        BY <3>2, <3>3, <3>4, LenProperties
    <2>4. ASSUME NEW p \in 1..H
          PROVE  /\ KeysOf(Confirmed[p]) = KeysOf(file[p]) /\ file[p] \in Row
                 /\ Confirmed[p].kind = file[p].kind /\ Confirmed[p].tx = file[p].tx
      <3>1. file[p] \in Row
        <4>1. p \in 1..Len(file)
          BY <2>2, LenProperties
        <4> QED
          BY <2>2, <4>1, ElementOfSeq
      <3>2. Confirmed[p] = IssueOf(file[p])
        BY <2>3
      <3>3. KeysOf(IssueOf(file[p])) = KeysOf(file[p])
        BY <3>1, IssueOfRow
      <3>4. IssueOf(file[p]).kind = file[p].kind /\ IssueOf(file[p]).tx = file[p].tx
        BY DEF IssueOf
      <3> QED
        BY <3>1, <3>2, <3>3, <3>4
    <2>5. ASSUME NEW key \in DOMAIN db
          PROVE  /\ db[key].pos \in 1..H /\ key \in KeysOf(file[db[key].pos])
                 /\ file[db[key].pos].kind = "asset" =>
                       IsEnd(file, db[key].pos, H, db[key].chain)
      BY <2>2 DEF Indexed, LeadsTo
    <2>6. DOMAIN db \cap Txs = {Confirmed[i].tx : i \in DOMAIN Confirmed}
      <3>1. ASSUME NEW p \in 1..H PROVE Confirmed[p].tx \in DOMAIN db \cap Txs
        <4>1. file[p].tx \in DOMAIN db
          <5> HIDE DEF H
          <5> QED
            BY <2>2, FoundByTx
        <4> QED
          BY <2>4, <4>1 DEF Row
      <3>2. ASSUME NEW key \in DOMAIN db \cap Txs PROVE \E p \in 1..H : key = Confirmed[p].tx
        <4> DEFINE p == db[key].pos
        <4>1. p \in 1..H /\ key \in KeysOf(file[p])
          BY <2>5
        <4> HIDE DEF p
        <4>2. key = Confirmed[p].tx
          BY <2>4, <4>1, KeysOfRow
        <4> QED
          BY <4>1, <4>2
      <3> QED
        BY <2>3, <3>1, <3>2
    <2>7. ASSUME NEW key \in DOMAIN db
          PROVE  \E i \in DOMAIN Confirmed :
                    /\ key \in KeysOf(Confirmed[i])
                    /\ IssueOf(file[db[key].pos]) = Confirmed[i]
                    /\ Confirmed[i].kind = "asset" =>
                          file[db[key].chain].tx = Newest(Confirmed[i].tx).tx
      <3> DEFINE p == db[key].pos
                 e == db[key].chain
      <3>1. /\ p \in 1..H /\ key \in KeysOf(file[p])
            /\ file[p].kind = "asset" => IsEnd(file, p, H, e)
        BY <2>5
      <3> HIDE DEF p, e
      <3>2. ASSUME Confirmed[p].kind = "asset" PROVE file[e].tx = Newest(Confirmed[p].tx).tx
        <4>1. file[p].kind = "asset" /\ IsEnd(file, p, H, e)
          BY <2>4, <3>1, <3>2
        <4>2. Newest(file[p].tx) = Confirmed[e] /\ e \in 1..H
          BY <2>2, <2>3, <3>1, <4>1, NewestIs
        <4>3. Confirmed[e].tx = file[e].tx /\ Confirmed[p].tx = file[p].tx
          BY <2>4, <3>1, <4>2
        <4> QED
          BY <4>2, <4>3
      <3>3. key \in KeysOf(Confirmed[p]) /\ IssueOf(file[p]) = Confirmed[p] /\ p \in DOMAIN Confirmed
        BY <2>3, <2>4, <3>1
      <3> QED
        BY <3>2, <3>3 DEF p, e
    <2>8. ASSUME NEW i \in DOMAIN Confirmed, NEW key \in KeysOf(Confirmed[i]) \ dropped
          PROVE  key \in DOMAIN db /\ IssueOf(file[db[key].pos]) = Confirmed[i]
      <3>1. i \in 1..H /\ key \in KeysOf(file[i]) \ dropped
        BY <2>3, <2>4
      <3>2. key \in DOMAIN db
        BY <2>2, <3>1 DEF Indexed
      <3>3. db[key].pos \in 1..H /\ key \in KeysOf(file[db[key].pos])
        BY <2>5, <3>2
      <3>4. db[key].pos = i
        BY <2>2, <3>1, <3>3 DEF Apart
      <3> QED
        BY <2>3, <3>1, <3>2, <3>4
    <2> QED
      BY <2>6, <2>7, <2>8
  <1> QED
    BY <1>1, Invariance, PTL

-----------------------------------------------------------------------------
(* Members of sequences and their sums.                                    *)

\* f[i] is what the first i members of s have at the places in T.
Takes(f, s, T) ==
    /\ f[0] = <<>>
    /\ \A i \in 1..Len(s) : f[i] = IF i \in T THEN Append(f[i - 1], s[i]) ELSE f[i - 1]

\* The same, with the types.
TakenFrom(S, f, s, T) == s \in Seq(S) /\ f \in [0..Len(s) -> Seq(S)] /\ Takes(f, s, T)

\* Behind its first o members t has the issues of s, and at the places in G some of those
\* at the places in F ...
Follows(t, G, o, s, F) ==
    /\ o \in Nat /\ o + Len(s) <= Len(t)
    /\ \A i \in 1..Len(s) : /\ t[o + i].tx = s[i].tx
                            /\ t[o + i].quantity = s[i].quantity
                            /\ o + i \in G => i \in F

\* ... or all.
FollowsAll(t, G, o, s, F) ==
    Follows(t, G, o, s, F) /\ \A i \in 1..Len(s) : i \in F => o + i \in G

LEMMA WhereIs ==
    ASSUME NEW S, NEW s \in Seq(S), NEW T
    PROVE  \E f \in [0..Len(s) -> Seq(S)] : Takes(f, s, T) /\ Where(s, T) = f[Len(s)]
  <1> DEFINE n == Len(s)
             is(w) == w = [i \in 0..n |-> IF i = 0 THEN <<>>
                                            ELSE IF i \in T THEN Append(w[i - 1], s[i])
                                            ELSE w[i - 1]]
             taken == CHOOSE w : is(w)
             rule == [i \in 1..n |-> [v \in Seq(S) |-> IF i \in T THEN Append(v, s[i]) ELSE v]]
  <1>1. n \in Nat /\ \A i \in 1..n : s[i] \in S
    BY LenProperties, ElementOfSeq
  <1>2. rule \in [1..n -> [Seq(S) -> Seq(S)]]
    BY <1>1, AppendProperties
  <1>3. <<>> \in Seq(S)
    BY EmptySeq
  <1>4. PICK f \in [0..n -> Seq(S)] : Recursive(f, n, <<>>, rule)
    <2> HIDE DEF rule
    <2> QED
      BY <1>1, <1>2, <1>3, Recursion
  <1>5. f[0] = <<>> /\ \A i \in 1..n : f[i] = IF i \in T THEN Append(f[i - 1], s[i]) ELSE f[i - 1]
    <2>1. f[0] = <<>>
      BY <1>4 DEF Recursive
    <2>2. ASSUME NEW i \in 1..n
          PROVE  f[i] = IF i \in T THEN Append(f[i - 1], s[i]) ELSE f[i - 1]
      <3>1. f[i] = rule[i][f[i - 1]]
        <4> HIDE DEF rule
        <4> QED
          BY <1>4 DEF Recursive
      <3>2. f[i - 1] \in Seq(S)
        BY <1>1, <1>4
      <3>3. rule[i] = [v \in Seq(S) |-> IF i \in T THEN Append(v, s[i]) ELSE v]
        OBVIOUS
      <3> QED
        BY <3>1, <3>2, <3>3
    <2> QED
      BY <2>1, <2>2
  <1>6. is(f)
    <2>1. \A i \in 0..n : f[i] = IF i = 0 THEN <<>>
                                   ELSE IF i \in T THEN Append(f[i - 1], s[i])
                                   ELSE f[i - 1]
      <3> HIDE DEF n
      <3>1. \A i \in 0..n : i # 0 => i \in 1..n
        BY <1>1
      <3> QED
        BY <1>5, <3>1
    <2>2. f = [i \in 0..n |-> f[i]]
      BY <1>4
    <2> QED
      BY <2>1, <2>2
  <1>7. is(taken)
    <2> HIDE DEF is
    <2> QED
      BY <1>6
  <1>8. Where(s, T) = taken[n]
    BY DEF Where
  <1> HIDE DEF taken
  <1>9. /\ taken \in [0..n -> Seq(S)]
        /\ Takes(taken, s, T)
    <2>1. taken[0] = <<>> /\ \A i \in 1..n : taken[i] = IF i \in T THEN Append(taken[i - 1], s[i])
                                                                   ELSE taken[i - 1]
      <3>1. 0 \in 0..n /\ \A i \in 1..n : i \in 0..n /\ i # 0
        BY <1>1
      <3> QED
        BY <1>7, <3>1
    <2> DEFINE R == {i \in 0..n : taken[i] \in Seq(S)}
    <2>2. 0 \in R
      <3>1. 0 \in 0..n /\ taken[0] \in Seq(S)
        BY <1>1, <1>3, <2>1
      <3> QED
        BY <3>1
    <2>3. ASSUME NEW m \in 0..(n - 1), m \in R PROVE m + 1 \in R
      <3>1. PICK k \in 1..n : k = m + 1
        BY <1>1
      <3>2. k - 1 = m /\ k \in 0..n /\ taken[m] \in Seq(S) /\ s[k] \in S
        BY <1>1, <2>3, <3>1
      <3>3. taken[k] = IF k \in T THEN Append(taken[k - 1], s[k]) ELSE taken[k - 1]
        BY <2>1
      <3>4. Append(taken[m], s[k]) \in Seq(S)
        BY <3>2, AppendProperties
      <3>5. taken[k] \in Seq(S)
        BY <3>2, <3>3, <3>4
      <3> QED
        BY <3>1, <3>2, <3>5
    <2>4. \A i \in 0..n : taken[i] \in Seq(S)
      <3>1. 0..n \subseteq R
        <4> HIDE DEF R
        <4> QED
          BY <1>1, <2>2, <2>3, Induction
      <3> QED
        BY <3>1
    <2>5. DOMAIN taken = 0..n /\ taken = [i \in 0..n |-> taken[i]]
      BY <1>7
    <2> QED
      BY <2>1, <2>4, <2>5 DEF Takes
  <1> QED
    BY <1>8, <1>9

LEMMA TakenIs ==
    ASSUME NEW S, NEW s \in Seq(S), NEW n, Len(s) = n, NEW T
    PROVE  \E f : TakenFrom(S, f, s, T) /\ Where(s, T) = f[n]
  <1>1. \E f \in [0..Len(s) -> Seq(S)] : Takes(f, s, T) /\ Where(s, T) = f[Len(s)]
    BY WhereIs
  <1> QED
    BY <1>1 DEF TakenFrom

\* The first n members and places of two sequences are the same.
Alike(s, T, t, U, n) ==
    /\ n \in Nat /\ n <= Len(s) /\ n <= Len(t)
    /\ \A i \in 1..n : s[i] = t[i] /\ (i \in T <=> i \in U)

\* Sequences that begin alike have the same first members at the same places.
LEMMA TakesSame ==
    ASSUME NEW S, NEW s, NEW t, NEW T, NEW U, NEW n, Alike(s, T, t, U, n),
           NEW f, TakenFrom(S, f, s, T), NEW g, TakenFrom(S, g, t, U)
    PROVE  f[n] = g[n]
  <1>0. /\ s \in Seq(S) /\ t \in Seq(S) /\ n \in Nat /\ n <= Len(s) /\ n <= Len(t)
        /\ Takes(f, s, T) /\ Takes(g, t, U)
        /\ \A i \in 1..n : s[i] = t[i] /\ (i \in T <=> i \in U)
    BY DEF Alike, TakenFrom
  <1> DEFINE R == {i \in 0..n : f[i] = g[i]}
  <1>1. Len(s) \in Nat /\ Len(t) \in Nat /\ \A i \in 1..n : i \in 1..Len(s) /\ i \in 1..Len(t)
    BY <1>0, LenProperties
  <1>2. 0 \in R
    BY <1>0 DEF Takes
  <1>3. ASSUME NEW m \in 0..(n - 1), m \in R PROVE m + 1 \in R
    <2>1. PICK k \in 1..n : k = m + 1
      BY <1>0
    <2>2. k - 1 = m /\ f[m] = g[m] /\ s[k] = t[k] /\ (k \in T <=> k \in U)
      BY <1>0, <1>3, <2>1
    <2>3. /\ f[k] = IF k \in T THEN Append(f[k - 1], s[k]) ELSE f[k - 1]
          /\ g[k] = IF k \in U THEN Append(g[k - 1], t[k]) ELSE g[k - 1]
      BY <1>0, <1>1 DEF Takes
    <2> QED
      BY <2>1, <2>2, <2>3
  <1> HIDE DEF R
  <1>4. 0..n \subseteq R
    BY <1>0, <1>2, <1>3, Induction
  <1>5. n \in 0..n
    BY <1>0
  <1> QED
    BY <1>4, <1>5 DEF R

\* There is nothing new where there are no places.
Skips(s, T, m, n) ==
    /\ n \in Nat /\ n <= Len(s) /\ m \in 0..n
    /\ \A i \in (m + 1)..n : i \notin T

LEMMA TakesNothing ==
    ASSUME NEW S, NEW s, NEW T, NEW f, TakenFrom(S, f, s, T), NEW m, NEW n, Skips(s, T, m, n)
    PROVE  f[n] = f[m]
  <1>0. /\ s \in Seq(S) /\ Takes(f, s, T) /\ n \in Nat /\ n <= Len(s) /\ m \in 0..n
        /\ \A i \in (m + 1)..n : i \notin T
    BY DEF TakenFrom, Skips
  <1> DEFINE R == {i \in 0..n : i <= m \/ f[i] = f[m]}
  <1>1. Len(s) \in Nat /\ \A i \in 1..n : i \in 1..Len(s)
    BY <1>0, LenProperties
  <1>2. 0 \in R
    BY <1>0
  <1>3. ASSUME NEW x \in 0..(n - 1), x \in R PROVE x + 1 \in R
    <2>1. PICK k \in 1..n : k = x + 1
      BY <1>0
    <2>2. CASE k <= m
      BY <1>0, <2>1, <2>2
    <2>3. CASE ~ k <= m
      <3>1. k \in (m + 1)..n /\ k - 1 = x /\ (x <= m => x = m)
        BY <1>0, <2>1, <2>3
      <3>2. f[k] = f[k - 1]
        BY <1>0, <1>1, <3>1 DEF Takes
      <3> QED
        BY <1>0, <1>3, <2>1, <3>1, <3>2
    <2> QED
      BY <1>0, <2>2, <2>3
  <1> HIDE DEF R
  <1>4. 0..n \subseteq R
    BY <1>0, <1>2, <1>3, Induction
  <1>5. n \in 0..n
    BY <1>0
  <1> QED
    BY <1>0, <1>4, <1>5 DEF R

\* f[i] is the quantity of the first i members of s.
Sums(f, s) == f[0] = 0 /\ \A i \in 1..Len(s) : f[i] = f[i - 1] + s[i].quantity
Counted(S) == \A x \in S : x.quantity \in Nat

LEMMA QuantityIs ==
    ASSUME NEW S, Counted(S), NEW s \in Seq(S)
    PROVE  \E f \in [0..Len(s) -> Nat] : Sums(f, s) /\ Quantity(s) = f[Len(s)]
  <1> DEFINE n == Len(s)
             is(w) == w = [i \in 0..n |-> IF i = 0 THEN 0 ELSE w[i - 1] + s[i].quantity]
             sum == CHOOSE w : is(w)
             rule == [i \in 1..n |-> [v \in Nat |-> v + s[i].quantity]]
  <1>1. n \in Nat /\ \A i \in 1..n : s[i].quantity \in Nat
    BY LenProperties, ElementOfSeq DEF Counted
  <1>2. rule \in [1..n -> [Nat -> Nat]]
    <2> HIDE DEF n
    <2> QED
      BY <1>1
  <1>3. PICK f \in [0..n -> Nat] : Recursive(f, n, 0, rule)
    <2> HIDE DEF rule
    <2> QED
      BY <1>1, <1>2, Recursion
  <1>4. f[0] = 0 /\ \A i \in 1..n : f[i] = f[i - 1] + s[i].quantity
    <2>1. f[0] = 0
      BY <1>3 DEF Recursive
    <2>2. ASSUME NEW i \in 1..n PROVE f[i] = f[i - 1] + s[i].quantity
      <3>1. f[i] = rule[i][f[i - 1]]
        <4> HIDE DEF rule
        <4> QED
          BY <1>3 DEF Recursive
      <3>2. f[i - 1] \in Nat
        <4>1. i - 1 \in 0..n
          BY <1>1
        <4> QED
          BY <1>3, <4>1
      <3>3. rule[i] = [v \in Nat |-> v + s[i].quantity]
        OBVIOUS
      <3> QED
        BY <3>1, <3>2, <3>3
    <2> QED
      BY <2>1, <2>2
  <1>5. is(f)
    <2>1. \A i \in 0..n : f[i] = IF i = 0 THEN 0 ELSE f[i - 1] + s[i].quantity
      <3> HIDE DEF n
      <3>1. \A i \in 0..n : i # 0 => i \in 1..n
        BY <1>1
      <3> QED
        BY <1>4, <3>1
    <2>2. f = [i \in 0..n |-> f[i]]
      BY <1>3
    <2> QED
      BY <2>1, <2>2
  <1>6. is(sum)
    <2> HIDE DEF is
    <2> QED
      BY <1>5
  <1>7. Quantity(s) = sum[n]
    BY DEF Quantity
  <1> HIDE DEF sum
  <1>8. Sums(sum, s)
    <2>1. 0 \in 0..n /\ \A i \in 1..n : i \in 0..n /\ i # 0
      BY <1>1
    <2> QED
      BY <1>6, <2>1 DEF Sums
  <1> DEFINE R == {i \in 0..n : sum[i] = f[i]}
  <1>9. 0 \in R
    BY <1>1, <1>4, <1>8 DEF Sums
  <1>10. ASSUME NEW m \in 0..(n - 1), m \in R PROVE m + 1 \in R
    <2>1. PICK k \in 1..n : k = m + 1
      BY <1>1
    <2>2. k - 1 = m /\ k \in 0..n /\ sum[m] = f[m]
      BY <1>1, <1>10, <2>1
    <2>3. sum[k] = sum[k - 1] + s[k].quantity /\ f[k] = f[k - 1] + s[k].quantity
      BY <1>4, <1>8 DEF Sums
    <2> QED
      BY <2>1, <2>2, <2>3
  <1>11. 0..n \subseteq R
    <2> HIDE DEF R
    <2> QED
      BY <1>1, <1>9, <1>10, Induction
  <1>12. sum[n] = f[n]
    BY <1>1, <1>11
  <1>13. Sums(f, s)
    BY <1>4 DEF Sums
  <1> QED
    BY <1>3, <1>7, <1>12, <1>13

LEMMA QuantityNat ==
    ASSUME NEW S, Counted(S), NEW s \in Seq(S)
    PROVE  Quantity(s) \in Nat /\ Quantity(<<>>) = 0
  <1>1. PICK f \in [0..Len(s) -> Nat] : Sums(f, s) /\ Quantity(s) = f[Len(s)]
    BY QuantityIs
  <1>2. <<>> \in Seq(S) /\ Len(<<>>) = 0 /\ Len(s) \in Nat
    BY EmptySeq, LenProperties
  <1>3. PICK g \in [0..Len(<<>>) -> Nat] : Sums(g, <<>>) /\ Quantity(<<>>) = g[Len(<<>>)]
    BY <1>2, QuantityIs
  <1> QED
    BY <1>1, <1>2, <1>3 DEF Sums

\* The quantity of one member more at either end.
LEMMA QuantityOne ==
    ASSUME NEW S, Counted(S), NEW s \in Seq(S), NEW x \in S
    PROVE  /\ Quantity(<<>>) = 0
           /\ Quantity(s) \in Nat
           /\ Quantity(Append(s, x)) = Quantity(s) + x.quantity
           /\ Quantity(<<x>> \o s) = x.quantity + Quantity(s)
  <1> DEFINE n == Len(s)
             t == Append(s, x)
             u == <<x>> \o s
  <1>1. Quantity(<<>>) = 0
    BY QuantityNat
  <1>2. PICK f \in [0..n -> Nat] : Sums(f, s) /\ Quantity(s) = f[n]
    BY QuantityIs
  <1>3. n \in Nat /\ x.quantity \in Nat /\ \A i \in 1..n : s[i].quantity \in Nat
    BY LenProperties, ElementOfSeq DEF Counted
  <1>4. /\ t \in Seq(S) /\ Len(t) = n + 1 /\ \A i \in 1..n : t[i] = s[i]
        /\ t[n + 1] = x
    BY AppendProperties, LenProperties
  <1>5. /\ u \in Seq(S) /\ Len(u) = n + 1 /\ u[1] = x
        /\ \A i \in 1..n : u[i + 1] = s[i]
    <2> DEFINE v == <<x>>
    <2>1. v \in Seq(S) /\ Len(v) = 1 /\ v[1] = x
      OBVIOUS
    <2> HIDE DEF v
    <2>2. /\ v \o s \in Seq(S) /\ Len(v \o s) = Len(v) + Len(s)
          /\ \A i \in 1..(Len(v) + Len(s)) :
                 (v \o s)[i] = IF i <= Len(v) THEN v[i] ELSE s[i - Len(v)]
      BY <2>1, ConcatProperties
    <2>3. ASSUME NEW i \in 1..n PROVE (v \o s)[i + 1] = s[i]
      <3>1. PICK k \in 1..(1 + n) : k = i + 1
        BY <1>3
      <3>2. ~ k <= 1 /\ k - 1 = i
        BY <3>1
      <3> QED
        BY <2>1, <2>2, <3>1, <3>2
    <2>4. (v \o s)[1] = x
      <3>1. 1 \in 1..(1 + n)
        BY <1>3
      <3> QED
        BY <2>1, <2>2, <3>1
    <2>5. Len(v \o s) = n + 1
      BY <1>3, <2>1, <2>2
    <2> QED
      BY <2>2, <2>3, <2>4, <2>5 DEF v
  <1> HIDE DEF n, t, u
  <1>6. Quantity(t) = Quantity(s) + x.quantity
    <2>1. PICK g \in [0..Len(t) -> Nat] : Sums(g, t) /\ Quantity(t) = g[Len(t)]
      BY <1>4, QuantityIs
    <2> DEFINE R == {i \in 0..n : g[i] = f[i]}
    <2>2. 0 \in R
      BY <1>2, <1>3, <2>1 DEF Sums
    <2>3. ASSUME NEW m \in 0..(n - 1), m \in R PROVE m + 1 \in R
      <3>1. PICK k \in 1..n : k = m + 1
        BY <1>3
      <3>2. k - 1 = m /\ k \in 1..(n + 1) /\ g[m] = f[m]
        BY <1>3, <2>3, <3>1
      <3>3. g[k] = g[k - 1] + t[k].quantity
        BY <1>4, <2>1, <3>2 DEF Sums
      <3>4. f[k] = f[k - 1] + s[k].quantity
        BY <1>2 DEF Sums, n
      <3> QED
        BY <1>4, <3>1, <3>2, <3>3, <3>4
    <2>4. g[n] = f[n]
      <3>1. 0..n \subseteq R
        <4> HIDE DEF R
        <4> QED
          BY <1>3, <2>2, <2>3, Induction
      <3> QED
        BY <1>3, <3>1
    <2>5. g[n + 1] = g[n] + x.quantity
      <3>1. PICK k \in 1..Len(t) : k = n + 1
        BY <1>3, <1>4
      <3>2. k - 1 = n
        BY <1>3, <3>1
      <3>3. g[k] = g[k - 1] + t[k].quantity
        BY <2>1 DEF Sums
      <3> QED
        BY <1>4, <3>1, <3>2, <3>3
    <2> QED
      BY <1>2, <1>4, <2>1, <2>4, <2>5 DEF n
  <1>7. Quantity(u) = x.quantity + Quantity(s)
    <2>1. PICK g \in [0..Len(u) -> Nat] : Sums(g, u) /\ Quantity(u) = g[Len(u)]
      BY <1>5, QuantityIs
    <2> DEFINE R == {i \in 0..n : g[i + 1] = x.quantity + f[i]}
    <2>2. 0 \in R
      <3>1. 1 \in 1..Len(u) /\ 1 - 1 = 0 /\ 0 + 1 = 1
        BY <1>3, <1>5
      <3>2. g[1] = g[0] + u[1].quantity /\ g[0] = 0 /\ f[0] = 0
        BY <1>2, <2>1, <3>1 DEF Sums
      <3> QED
        BY <1>3, <1>5, <3>1, <3>2
    <2>3. ASSUME NEW m \in 0..(n - 1), m \in R PROVE m + 1 \in R
      <3>1. PICK k \in 1..n : k = m + 1
        BY <1>3
      <3>2. PICK j \in 1..(n + 1) : j = k + 1
        BY <1>3
      <3>3. k - 1 = m /\ j - 1 = m + 1 /\ g[m + 1] = x.quantity + f[m] /\ k \in 1..Len(s)
        BY <1>3, <2>3, <3>1, <3>2 DEF n
      <3>4. g[j] = g[j - 1] + u[j].quantity /\ u[j] = s[k]
        BY <1>5, <2>1, <3>2 DEF Sums
      <3>5. f[k] = f[k - 1] + s[k].quantity
        BY <1>2, <3>3 DEF Sums
      <3>6. f[m] \in Nat /\ s[k].quantity \in Nat
        BY <1>2, <1>3
      <3>7. g[k + 1] = x.quantity + f[k]
        BY <1>3, <3>2, <3>3, <3>4, <3>5, <3>6
      <3> QED
        BY <3>1, <3>7
    <2>4. g[n + 1] = x.quantity + f[n]
      <3>1. 0..n \subseteq R
        <4> HIDE DEF R
        <4> QED
          BY <1>3, <2>2, <2>3, Induction
      <3> QED
        BY <1>3, <3>1
    <2> QED
      BY <1>2, <1>5, <2>1, <2>4
  <1>8. Quantity(s) \in Nat
    BY <1>2, <1>3
  <1> QED
    BY <1>1, <1>6, <1>7, <1>8 DEF t, u

\* The quantity of some members grows with the sequence.
LEMMA QuantityGrows ==
    ASSUME NEW S, Counted(S), NEW s \in Seq(S), NEW T, NEW f \in [0..Len(s) -> Seq(S)],
           Takes(f, s, T), NEW n \in 0..Len(s), NEW m \in 0..n
    PROVE  Quantity(f[m]) <= Quantity(f[n]) /\ Quantity(f[m]) \in Nat
  <1> DEFINE R == {i \in 0..n : i < m \/ Quantity(f[m]) <= Quantity(f[i])}
  <1>1. Len(s) \in Nat /\ n \in Nat /\ m \in Nat /\ n <= Len(s)
    BY LenProperties
  <1>2. ASSUME NEW i \in 0..n PROVE f[i] \in Seq(S)
    BY <1>1
  <1>3. ASSUME NEW i \in 0..n PROVE Quantity(f[i]) \in Nat
    BY <1>2, QuantityNat
  <1>4. 0 \in R
    <2>1. ~ 0 < m => Quantity(f[m]) <= Quantity(f[0])
      <3>1. ~ 0 < m => m = 0
        BY <1>1
      <3> QED
        BY <1>1, <1>3, <3>1
    <2> QED
      BY <1>1, <2>1
  <1>5. ASSUME NEW x \in 0..(n - 1), x \in R PROVE x + 1 \in R
    <2>1. PICK k \in 1..n : k = x + 1
      BY <1>1
    <2>2. k - 1 = x /\ x \in 0..n /\ k \in 0..n /\ k \in 1..Len(s)
      BY <1>1, <2>1
    <2>3. CASE k < m
      BY <2>1, <2>2, <2>3
    <2>4. CASE k = m
      BY <1>3, <2>1, <2>2, <2>4
    <2>5. CASE k > m
      <3>1. Quantity(f[m]) <= Quantity(f[x])
        BY <1>1, <1>5, <2>1, <2>5
      <3>2. f[k] = IF k \in T THEN Append(f[x], s[k]) ELSE f[x]
        BY <2>2 DEF Takes
      <3>3. s[k] \in S /\ s[k].quantity \in Nat
        BY <2>2, ElementOfSeq DEF Counted
      <3>4. Quantity(Append(f[x], s[k])) = Quantity(f[x]) + s[k].quantity
        BY <1>2, <2>2, <3>3, QuantityOne
      <3>5. Quantity(f[x]) <= Quantity(f[k])
        <4>1. Quantity(f[x]) \in Nat
          BY <1>3, <2>2
        <4>2. CASE k \in T
          <5>1. Quantity(f[k]) = Quantity(f[x]) + s[k].quantity
            BY <3>2, <3>4, <4>2
          <5> QED
            BY <3>3, <4>1, <5>1
        <4>3. CASE k \notin T
          <5>1. Quantity(f[k]) = Quantity(f[x])
            BY <3>2, <4>3
          <5> QED
            BY <4>1, <5>1
        <4> QED
          BY <4>2, <4>3
      <3>6. Quantity(f[m]) \in Nat /\ Quantity(f[x]) \in Nat /\ Quantity(f[k]) \in Nat
        BY <1>1, <1>3, <2>2
      <3>7. Quantity(f[m]) <= Quantity(f[k])
        BY <3>1, <3>5, <3>6
      <3> QED
        BY <2>1, <2>2, <3>7
    <2> QED
      BY <1>1, <2>3, <2>4, <2>5
  <1>6. 0..n \subseteq R
    <2> HIDE DEF R
    <2> QED
      BY <1>1, <1>4, <1>5, Induction
  <1> QED
    BY <1>1, <1>3, <1>6

\* A sequence of issues that has the issues of some rows behind its first o members has at
\* most their quantity more at some of their places, and exactly that at all of them.
LEMMA QuantityUpTo ==
    ASSUME NEW S, Counted(S), NEW s, NEW F, NEW f, TakenFrom(S, f, s, F),
           NEW U, Counted(U), NEW t, NEW G, NEW g, TakenFrom(U, g, t, G),
           NEW o, Follows(t, G, o, s, F)
    PROVE  /\ Quantity(g[o + Len(s)]) <= Quantity(g[o]) + Quantity(f[Len(s)])
           /\ FollowsAll(t, G, o, s, F) =>
                  Quantity(g[o + Len(s)]) = Quantity(g[o]) + Quantity(f[Len(s)])
  <1>0. /\ s \in Seq(S) /\ f \in [0..Len(s) -> Seq(S)] /\ Takes(f, s, F)
        /\ t \in Seq(U) /\ g \in [0..Len(t) -> Seq(U)] /\ Takes(g, t, G)
        /\ o \in Nat /\ o + Len(s) <= Len(t)
        /\ \A i \in 1..Len(s) : t[o + i].quantity = s[i].quantity /\ (o + i \in G => i \in F)
    BY DEF TakenFrom, Follows
  <1> DEFINE n == Len(s)
             all == \A i \in 1..n : i \in F => o + i \in G
             Q(i) == Quantity(f[i])
             P(i) == Quantity(g[o + i])
             R == {i \in 0..n : P(i) <= P(0) + Q(i) /\ (all => P(i) = P(0) + Q(i))}
  <1>1. n \in Nat /\ Len(t) \in Nat /\ o + n <= Len(t)
    BY <1>0, LenProperties
  <1>2. ASSUME NEW i \in 0..n
        PROVE  f[i] \in Seq(S) /\ g[o + i] \in Seq(U)
    <2>1. o + i \in 0..Len(t)
      BY <1>0, <1>1
    <2> QED
      BY <1>0, <2>1
  <1>3. ASSUME NEW i \in 0..n PROVE Q(i) \in Nat /\ P(i) \in Nat
    BY <1>2, QuantityNat
  <1>4. Q(0) = 0
    <2>1. f[0] = <<>>
      BY <1>0 DEF Takes
    <2> QED
      BY <1>0, <2>1, QuantityNat
  <1>5. ASSUME NEW i \in 1..n
        PROVE  /\ Q(i) = Q(i - 1) + (IF i \in F THEN s[i].quantity ELSE 0)
               /\ P(i) = P(i - 1) + (IF o + i \in G THEN s[i].quantity ELSE 0)
               /\ s[i].quantity \in Nat
    <2>1. PICK j \in 0..n : j = i - 1
      BY <1>1
    <2>2. PICK k \in 1..Len(t) : k = o + i
      BY <1>0, <1>1
    <2>3. k - 1 = o + j
      BY <1>0, <2>1, <2>2
    <2>4. s[i] \in S /\ s[i].quantity \in Nat /\ t[k] \in U /\ t[k].quantity = s[i].quantity
      BY <1>0, <2>2, ElementOfSeq DEF Counted
    <2>5. f[j] \in Seq(S) /\ g[o + j] \in Seq(U)
      BY <1>2
    <2>6. Quantity(Append(f[j], s[i])) = Quantity(f[j]) + s[i].quantity
      BY <2>4, <2>5, QuantityOne
    <2>7. Quantity(Append(g[o + j], t[k])) = Quantity(g[o + j]) + t[k].quantity
      BY <2>4, <2>5, QuantityOne
    <2>8. f[i] = IF i \in F THEN Append(f[j], s[i]) ELSE f[j]
      BY <1>0, <2>1 DEF Takes
    <2>9. g[k] = IF k \in G THEN Append(g[o + j], t[k]) ELSE g[o + j]
      BY <1>0, <2>3 DEF Takes
    <2>10. Q(j) \in Nat /\ P(j) \in Nat
      BY <1>3
    <2>11. Q(i) = Q(j) + (IF i \in F THEN s[i].quantity ELSE 0)
      <3>1. CASE i \in F
        BY <2>6, <2>8, <3>1
      <3>2. CASE i \notin F
        <4>1. Q(i) = Q(j)
          BY <2>8, <3>2
        <4> QED
          BY <2>10, <3>2, <4>1
      <3> QED
        BY <3>1, <3>2
    <2>12. P(i) = P(j) + (IF k \in G THEN s[i].quantity ELSE 0)
      <3>1. CASE k \in G
        BY <2>2, <2>4, <2>7, <2>9, <3>1
      <3>2. CASE k \notin G
        <4>1. P(i) = P(j)
          BY <2>2, <2>9, <3>2
        <4> QED
          BY <2>10, <3>2, <4>1
      <3> QED
        BY <3>1, <3>2
    <2> QED
      BY <2>1, <2>2, <2>4, <2>11, <2>12
  <1> HIDE DEF Q, P, all
  <1>6. 0 \in R
    <2>1. P(0) \in Nat /\ P(0) = P(0) + Q(0) /\ 0 \in 0..n
      BY <1>1, <1>3, <1>4
    <2> QED
      BY <2>1
  <1>7. ASSUME NEW m \in 0..(n - 1), m \in R PROVE m + 1 \in R
    <2>1. PICK k \in 1..n : k = m + 1
      BY <1>1
    <2>2. k - 1 = m /\ k \in 0..n /\ m \in 0..n
      BY <1>1, <2>1
    <2>3. /\ Q(k) = Q(m) + (IF k \in F THEN s[k].quantity ELSE 0)
          /\ P(k) = P(m) + (IF o + k \in G THEN s[k].quantity ELSE 0)
          /\ s[k].quantity \in Nat
      BY <1>5, <2>2
    <2>4. Q(m) \in Nat /\ P(m) \in Nat /\ P(0) \in Nat
      BY <1>1, <1>3, <2>2
    <2>5. P(m) <= P(0) + Q(m) /\ (all => P(m) = P(0) + Q(m))
      BY <1>7
    <2>6. o + k \in G => k \in F
      BY <1>0, <2>1
    <2>7. P(k) <= P(0) + Q(k)
      BY <2>3, <2>4, <2>5, <2>6
    <2>8. all => P(k) = P(0) + Q(k)
      <3>1. ASSUME all PROVE k \in F <=> o + k \in G
        BY <2>1, <2>6, <3>1 DEF all
      <3> QED
        BY <2>3, <2>4, <2>5, <3>1
    <2> QED
      BY <2>1, <2>2, <2>7, <2>8
  <1>8. n \in R
    <2>1. 0..n \subseteq R
      <3> HIDE DEF R
      <3> QED
        BY <1>1, <1>6, <1>7, Induction
    <2> QED
      BY <1>1, <2>1
  <1>9. o + 0 = o
    BY <1>0
  <1>10. FollowsAll(t, G, o, s, F) => all
    BY DEF FollowsAll, all
  <1> QED
    BY <1>8, <1>9, <1>10 DEF P, Q

\* Two sequences are of the same transactions.
Tells(u, w) == Len(u) = Len(w) /\ \A i \in 1..Len(w) : u[i].tx = w[i].tx

LEMMA TellsOne ==
    ASSUME NEW S, NEW w \in Seq(S), NEW x \in S, NEW U, NEW u \in Seq(U), NEW y \in U,
           Tells(u, w), y.tx = x.tx
    PROVE  Tells(Append(u, y), Append(w, x))
  <1> DEFINE v == Append(u, y)
             z == Append(w, x)
             n == Len(w)
  <1>1. n \in Nat /\ Len(u) = n /\ \A i \in 1..n : u[i].tx = w[i].tx
    BY LenProperties DEF Tells
  <1>2. Len(v) = n + 1 /\ (\A i \in 1..n : v[i] = u[i]) /\ v[n + 1] = y
    BY <1>1, AppendProperties
  <1>3. Len(z) = n + 1 /\ (\A i \in 1..n : z[i] = w[i]) /\ z[n + 1] = x
    BY <1>1, AppendProperties
  <1> HIDE DEF v, z, n
  <1>4. ASSUME NEW i \in 1..(n + 1) PROVE v[i].tx = z[i].tx
    <2>1. CASE i = n + 1
      BY <1>2, <1>3, <2>1
    <2>2. CASE i # n + 1
      <3>1. i \in 1..n
        BY <1>1, <2>2
      <3> QED
        BY <1>1, <1>2, <1>3, <3>1
    <2> QED
      BY <2>1, <2>2
  <1> QED
    BY <1>2, <1>3, <1>4 DEF Tells, v, z

\* A sequence of issues of the transactions of some rows, behind its first o members.
LEMMA TakesTells ==
    ASSUME NEW S, NEW s, NEW F, NEW f, TakenFrom(S, f, s, F),
           NEW U, NEW t, NEW G, NEW g, TakenFrom(U, g, t, G),
           NEW o, FollowsAll(t, G, o, s, F),
           NEW a \in Seq(S), Tells(g[o], a)
    PROVE  Tells(g[o + Len(s)], a \o f[Len(s)])
  <1>0. /\ s \in Seq(S) /\ f \in [0..Len(s) -> Seq(S)] /\ Takes(f, s, F)
        /\ t \in Seq(U) /\ g \in [0..Len(t) -> Seq(U)] /\ Takes(g, t, G)
        /\ o \in Nat /\ o + Len(s) <= Len(t)
        /\ \A i \in 1..Len(s) : t[o + i].tx = s[i].tx /\ (o + i \in G <=> i \in F)
    BY DEF TakenFrom, Follows, FollowsAll
  <1> DEFINE n == Len(s)
             R == {i \in 0..n : Tells(g[o + i], a \o f[i])}
  <1>1. n \in Nat /\ Len(t) \in Nat /\ o + n <= Len(t)
    BY <1>0, LenProperties
  <1>2. 0 \in R
    <2>1. f[0] = <<>> /\ a \o <<>> = a
      BY <1>0, ConcatEmptySeq DEF Takes
    <2>2. Tells(g[o + 0], a \o f[0])
      BY <1>0, <2>1
    <2> QED
      BY <1>1, <2>2
  <1>3. ASSUME NEW m \in 0..(n - 1), m \in R PROVE m + 1 \in R
    <2>1. PICK i \in 1..n : i = m + 1
      BY <1>1
    <2>2. PICK k \in 1..Len(t) : k = o + i
      BY <1>0, <1>1
    <2>3. k - 1 = o + m /\ i - 1 = m /\ m \in 0..n /\ i \in 0..n /\ o + m \in 0..Len(t)
      BY <1>0, <1>1, <2>1, <2>2
    <2>4. s[i] \in S /\ t[k] \in U /\ t[k].tx = s[i].tx /\ (k \in G <=> i \in F)
      BY <1>0, <2>2, ElementOfSeq
    <2>5. f[m] \in Seq(S) /\ g[o + m] \in Seq(U) /\ Tells(g[o + m], a \o f[m])
      BY <1>0, <1>3, <2>3
    <2>6. f[i] = IF i \in F THEN Append(f[m], s[i]) ELSE f[m]
      BY <1>0, <2>3 DEF Takes
    <2>7. g[k] = IF k \in G THEN Append(g[o + m], t[k]) ELSE g[o + m]
      BY <1>0, <2>3 DEF Takes
    <2>8. Tells(g[k], a \o f[i])
      <3>1. CASE k \in G
        <4>1. a \o f[m] \in Seq(S)
          BY <2>5, ConcatProperties
        <4>2. Tells(Append(g[o + m], t[k]), Append(a \o f[m], s[i]))
          BY <2>4, <2>5, <4>1, TellsOne
        <4>3. a \o Append(f[m], s[i]) = Append(a \o f[m], s[i])
          <5>1. \A w \in Seq(S), y \in S : a \o Append(w, y) = Append(a \o w, y)
            BY AppendOfConcat
          <5> QED
            BY <2>4, <2>5, <5>1, Zenon
        <4> QED
          BY <2>4, <2>6, <2>7, <3>1, <4>2, <4>3
      <3>2. CASE k \notin G
        BY <2>4, <2>5, <2>6, <2>7, <3>2
      <3> QED
        BY <3>1, <3>2
    <2> QED
      BY <2>1, <2>2, <2>3, <2>8
  <1>4. 0..n \subseteq R
    <2> HIDE DEF R
    <2> QED
      BY <1>1, <1>2, <1>3, Induction
  <1>5. n \in R
    <2>1. n \in 0..n
      BY <1>1
    <2> HIDE DEF R, n
    <2> QED
      BY <1>4, <2>1
  <1> QED
    BY <1>5

\* Reverse.
LEMMA ReverseIs ==
    ASSUME NEW S, NEW s \in Seq(S), NEW x \in S
    PROVE  /\ Reverse(s) \in Seq(S) /\ Len(Reverse(s)) = Len(s)
           /\ \A i \in 1..Len(s) : Reverse(s)[i] = s[Len(s) - i + 1]
           /\ Reverse(Append(s, x)) = <<x>> \o Reverse(s)
           /\ Reverse(<<>>) = <<>>
  <1> DEFINE n == Len(s)
             r == Reverse(s)
             t == Append(s, x)
             v == <<x>>
             q == v \o r
  <1>1. n \in Nat /\ s = [i \in 1..n |-> s[i]] /\ \A i \in 1..n : s[i] \in S
    BY LenProperties, ElementOfSeq
  <1>2. /\ r \in Seq(S) /\ Len(r) = n
        /\ \A i \in 1..n : r[i] = s[n - i + 1]
    <2> HIDE DEF n
    <2>1. r = [i \in 1..n |-> s[n - i + 1]]
      BY DEF Reverse, n
    <2>2. \A i \in 1..n : n - i + 1 \in 1..n
      BY <1>1
    <2>3. r \in [1..n -> S]
      BY <1>1, <2>1, <2>2
    <2> HIDE DEF r
    <2>4. r \in Seq(S)
      BY <1>1, <2>3, SeqDef
    <2>5. Len(r) = n
      BY <1>1, <2>3, <2>4, LenProperties
    <2> QED
      BY <2>1, <2>4, <2>5
  <1>3. t \in Seq(S) /\ Len(t) = n + 1 /\ (\A i \in 1..n : t[i] = s[i]) /\ t[n + 1] = x
    BY AppendProperties
  <1>4. Reverse(t) = [i \in 1..(n + 1) |-> t[(n + 1) - i + 1]]
    <2>1. Reverse(t) = [i \in 1..Len(t) |-> t[(Len(t) - i) + 1]]
      BY DEF Reverse
    <2> HIDE DEF t, n
    <2> QED
      BY <1>3, <2>1
  <1>5. v \in Seq(S) /\ Len(v) = 1 /\ v[1] = x
    OBVIOUS
  <1> HIDE DEF v, n, r
  <1>6. /\ q \in Seq(S) /\ Len(q) = Len(v) + Len(r)
        /\ \A i \in 1..(Len(v) + Len(r)) : q[i] = IF i <= Len(v) THEN v[i] ELSE r[i - Len(v)]
    BY <1>2, <1>5, ConcatProperties
  <1> HIDE DEF t, q
  <1>7. q = [i \in 1..(n + 1) |-> q[i]]
    <2>1. Len(q) = n + 1 /\ q = [i \in 1..Len(q) |-> q[i]]
      BY <1>1, <1>2, <1>5, <1>6, LenProperties
    <2> QED
      BY <2>1
  <1>8. ASSUME NEW i \in 1..(n + 1) PROVE q[i] = t[(n + 1) - i + 1]
    <2>1. q[i] = IF i <= 1 THEN v[i] ELSE r[i - 1]
      <3>1. i \in 1..(Len(v) + Len(r))
        BY <1>1, <1>2, <1>5
      <3> QED
        BY <1>5, <1>6, <3>1
    <2>2. CASE i = 1
      <3>1. (n + 1) - i + 1 = n + 1
        BY <1>1, <2>2
      <3> QED
        BY <1>3, <1>5, <2>1, <2>2, <3>1
    <2>3. CASE i # 1
      <3>1. PICK j \in 1..n : j = i - 1
        BY <1>1, <2>3
      <3>2. (n + 1) - i + 1 = n - j + 1 /\ n - j + 1 \in 1..n /\ ~ i <= 1
        BY <1>1, <2>3, <3>1
      <3>3. r[j] = s[n - j + 1] /\ t[n - j + 1] = s[n - j + 1]
        BY <1>2, <1>3, <3>2
      <3> QED
        BY <2>1, <3>1, <3>2, <3>3
    <2> QED
      BY <2>2, <2>3
  <1>9. Reverse(t) = q
    BY <1>4, <1>7, <1>8
  <1>10. Reverse(<<>>) = <<>>
    <2>1. Reverse(<<>>) = [i \in 1..Len(<<>>) |-> <<>>[(Len(<<>>) - i) + 1]]
      BY DEF Reverse
    <2>2. Len(<<>>) = 0 /\ <<>> \in Seq(S)
      BY EmptySeq
    <2>3. [i \in 1..0 |-> <<>>[(0 - i) + 1]] = <<>>
      OBVIOUS
    <2> QED
      BY <2>1, <2>2, <2>3
  <1> QED
    BY <1>2, <1>9, <1>10 DEF t, q, r, n, v

-----------------------------------------------------------------------------
(* The chain of an asset.                                                  *)

LEMMA AtOne ==
    ASSUME file \in Seq(Row), NEW w \in Seq(1..Len(file)), NEW p \in 1..Len(file)
    PROVE  /\ At(w) \in Seq(Row)
           /\ At(<<p>> \o w) = <<file[p]>> \o At(w)
           /\ At(<<>>) = <<>> /\ <<p>> \o w \in Seq(1..Len(file)) /\ Len(<<p>> \o w) = Len(w) + 1
  <1> DEFINE n == Len(file)
             l == Len(w)
             v == <<p>>
             x == <<file[p]>>
             u == v \o w
             a == At(w)
             b == x \o a
  <1>1. n \in Nat /\ l \in Nat /\ DOMAIN w = 1..l /\ \A i \in 1..l : w[i] \in 1..n
    BY LenProperties, ElementOfSeq
  <1>2. \A q \in 1..n : file[q] \in Row
    BY ElementOfSeq
  <1>3. v \in Seq(1..n) /\ Len(v) = 1 /\ v[1] = p
    OBVIOUS
  <1>4. x \in Seq(Row) /\ Len(x) = 1 /\ x[1] = file[p]
    BY <1>2
  <1>5. a \in Seq(Row) /\ Len(a) = l /\ \A i \in 1..l : a[i] = file[w[i]]
    <2> HIDE DEF n, l
    <2>1. a = [i \in 1..l |-> file[w[i]]]
      BY <1>1 DEF At
    <2>2. a \in [1..l -> Row]
      BY <1>1, <1>2, <2>1
    <2> HIDE DEF a
    <2>3. a \in Seq(Row)
      BY <1>1, <2>2, SeqDef
    <2>4. Len(a) = l
      BY <1>1, <2>2, <2>3, LenProperties
    <2> QED
      BY <2>1, <2>3, <2>4
  <1> HIDE DEF n, v, x, a
  <1>6. /\ u \in Seq(1..n) /\ Len(u) = Len(v) + l
        /\ \A i \in 1..(Len(v) + l) : u[i] = IF i <= Len(v) THEN v[i] ELSE w[i - Len(v)]
    BY <1>3, ConcatProperties DEF n
  <1>7. /\ b \in Seq(Row) /\ Len(b) = Len(x) + Len(a)
        /\ \A i \in 1..(Len(x) + Len(a)) : b[i] = IF i <= Len(x) THEN x[i] ELSE a[i - Len(x)]
    <2>1. x \in Seq(Row) /\ a \in Seq(Row)
      BY <1>4, <1>5
    <2> QED
      BY <2>1, ConcatProperties
  <1> HIDE DEF u, b, l
  <1>8. Len(u) = l + 1 /\ DOMAIN u = 1..(l + 1)
    BY <1>1, <1>3, <1>6, LenProperties
  <1>9. Len(b) = l + 1 /\ b = [i \in 1..(l + 1) |-> b[i]]
    <2>1. Len(b) = l + 1 /\ b = [i \in 1..Len(b) |-> b[i]]
      BY <1>1, <1>4, <1>5, <1>7, LenProperties
    <2> QED
      BY <2>1
  <1>10. ASSUME NEW i \in 1..(l + 1) PROVE b[i] = file[u[i]]
    <2>1. CASE i = 1
      <3>1. i <= 1 /\ i \in 1..(1 + l)
        BY <1>1, <2>1
      <3>2. u[i] = p
        BY <1>3, <1>6, <2>1, <3>1
      <3>3. b[i] = file[p]
        BY <1>4, <1>5, <1>7, <2>1, <3>1
      <3> QED
        BY <3>2, <3>3
    <2>2. CASE i # 1
      <3>1. PICK j \in 1..l : j = i - 1
        BY <1>1, <2>2
      <3>2. ~ i <= 1 /\ i \in 1..(1 + l)
        BY <1>1, <2>2
      <3>3. u[i] = w[j]
        BY <1>3, <1>6, <3>1, <3>2
      <3>4. b[i] = a[j]
        BY <1>4, <1>5, <1>7, <3>1, <3>2
      <3> QED
        BY <1>5, <3>3, <3>4
    <2> QED
      BY <2>1, <2>2
  <1>11. At(u) = b
    <2>1. At(u) = [i \in 1..(l + 1) |-> file[u[i]]]
      BY <1>8 DEF At
    <2> QED
      BY <1>9, <1>10, <2>1
  <1>12. At(<<>>) = <<>>
    <2>1. At(<<>>) = [i \in DOMAIN <<>> |-> file[<<>>[i]]]
      BY DEF At
    <2>2. DOMAIN <<>> = {}
      OBVIOUS
    <2> QED
      BY <2>1, <2>2
  <1> QED
    BY <1>5, <1>6, <1>8, <1>11, <1>12 DEF u, v, b, x, a, n, l

\* The walk from the end of an asset's chain meets the rows of the asset, the newest first.
LEMMA ChainIs ==
    ASSUME file \in Seq(Row), NEW H \in Nat, Sound(file, H), NEW g \in 1..H,
           NEW e, IsEnd(file, g, H, e), NEW row, row.first = g, row.chain = e,
           NEW s, Len(s) = H, \A p \in 1..H : s[p] = file[p],
           NEW G \in SUBSET (1..H), \A p \in 1..H : p \in G <=> file[p].first = g,
           NEW f, TakenFrom(Row, f, s, G)
    PROVE  /\ ~Broken(ChainOf(row))
           /\ At(ChainOf(row)) = Reverse(f[H])
           /\ Quantity(At(ChainOf(row))) = Quantity(f[H])
  <1> DEFINE n == Len(file)
             is(w) == w = [p \in 0..n |->
                             IF p \in {0, row.first}
                               THEN <<p>>
                               ELSE <<p>> \o (IF file[p].last \in 0..(p - 1)
                                                THEN w[file[p].last] ELSE <<0>>)]
             walk == CHOOSE w : is(w)
             par == [p \in 1..n |-> IF file[p].last \in 0..(p - 1) THEN file[p].last ELSE 0]
             rule == [p \in 1..n |-> [v \in Seq(Nat) |-> IF p = g THEN <<p>> ELSE <<p>> \o v]]
  <1>1. /\ n \in Nat /\ H \in 0..n /\ Counted(Row)
        /\ s \in Seq(Row) /\ f \in [0..H -> Seq(Row)]
    <2>1. n \in Nat /\ H \in 0..n
      BY LenProperties DEF Sound
    <2>2. Counted(Row)
      <3>1. \A x \in Row : x.quantity \in {0} \cup Quantities
        BY DEF Row
      <3>2. {0} \cup Quantities \subseteq Nat
        BY EntityAssumption
      <3> QED
        BY <3>1, <3>2 DEF Counted
    <2> QED
      BY <2>1, <2>2 DEF TakenFrom
  <1>0. ASSUME NEW x \in 0..H, NEW y \in 0..x, \A q \in (y + 1)..x : q \notin G
        PROVE  f[x] = f[y]
    <2>1. Skips(s, G, y, x)
      BY <1>0, <1>1 DEF Skips
    <2> QED
      BY <2>1, TakesNothing
  <1>2. PICK h \in [0..n -> Seq(Nat)] : AlongTree(h, n, par, <<0>>, rule)
    <2>1. \A p \in 1..n : par[p] \in 0..(p - 1)
      <3> HIDE DEF n
      <3> QED
        BY <1>1
    <2>2. <<0>> \in Seq(Nat)
      OBVIOUS
    <2>3. rule \in [1..n -> [Seq(Nat) -> Seq(Nat)]]
      <3>1. ASSUME NEW p \in 1..n, NEW v \in Seq(Nat)
            PROVE  <<p>> \in Seq(Nat) /\ <<p>> \o v \in Seq(Nat)
        <4>1. p \in Nat
          BY <1>1
        <4> HIDE DEF n, par, rule
        <4>2. <<p>> \in Seq(Nat)
          BY <4>1
        <4> QED
          BY <4>2, ConcatProperties
      <3> QED
        BY <3>1
    <2> HIDE DEF par, rule, n
    <2> QED
      BY <1>1, <2>1, <2>2, <2>3, TreeRecursion
  <1>3. h[0] = <<0>> /\ \A p \in 1..n : h[p] = IF p = g THEN <<p>> ELSE <<p>> \o h[par[p]]
    <2>1. h[0] = <<0>>
      BY <1>2 DEF AlongTree
    <2>2. ASSUME NEW p \in 1..n PROVE h[p] = IF p = g THEN <<p>> ELSE <<p>> \o h[par[p]]
      <3>1. h[p] = rule[p][h[par[p]]]
        <4> HIDE DEF rule, par
        <4> QED
          BY <1>2 DEF AlongTree
      <3>2. par[p] \in 0..n
        <4>1. par[p] = IF file[p].last \in 0..(p - 1) THEN file[p].last ELSE 0
          OBVIOUS
        <4>2. p \in Int /\ 1 <= p /\ p <= n
          BY <1>1
        <4> HIDE DEF n, par
        <4>3. par[p] \in 0..(p - 1)
          BY <4>1, <4>2
        <4> QED
          BY <1>1, <4>2, <4>3
      <3>3. h[par[p]] \in Seq(Nat)
        <4> HIDE DEF par
        <4> QED
          BY <3>2
      <3>4. rule[p] = [v \in Seq(Nat) |-> IF p = g THEN <<p>> ELSE <<p>> \o v]
        OBVIOUS
      <3> HIDE DEF rule, par
      <3> QED
        BY <3>1, <3>3, <3>4
    <2> QED
      BY <2>1, <2>2
  <1>4. is(h)
    <2>1. ASSUME NEW p \in 0..n
          PROVE  h[p] = IF p \in {0, row.first}
                          THEN <<p>>
                          ELSE <<p>> \o (IF file[p].last \in 0..(p - 1)
                                           THEN h[file[p].last] ELSE <<0>>)
      <3>1. CASE p = 0
        BY <1>3, <3>1
      <3>2. CASE p # 0
        <4>1. p \in 1..n
          BY <1>1, <3>2
        <4>2. h[p] = IF p = g THEN <<p>> ELSE <<p>> \o h[par[p]]
          BY <1>3, <4>1
        <4>3. par[p] = IF file[p].last \in 0..(p - 1) THEN file[p].last ELSE 0
          BY <4>1
        <4> HIDE DEF par
        <4>4. h[par[p]] = IF file[p].last \in 0..(p - 1) THEN h[file[p].last] ELSE <<0>>
          BY <1>3, <4>3
        <4> QED
          BY <3>2, <4>2, <4>4
      <3> QED
        BY <3>1, <3>2
    <2>2. h = [p \in 0..n |-> h[p]]
      BY <1>2
    <2> QED
      BY <2>1, <2>2
  <1>5. is(walk)
    <2> HIDE DEF is
    <2> QED
      BY <1>4
  <1>6. ChainOf(row) = walk[e]
    <2>1. ~ row.first < 0
      OBVIOUS
    <2> QED
      BY <2>1 DEF ChainOf
  <1> HIDE DEF walk
  <1>7. \A p \in 0..n : walk[p] = IF p \in {0, g}
                                    THEN <<p>>
                                    ELSE <<p>> \o (IF file[p].last \in 0..(p - 1)
                                                     THEN walk[file[p].last] ELSE <<0>>)
    BY <1>5
  <1> DEFINE Told(p) == /\ walk[p] \in Seq(1..n) /\ Len(walk[p]) > 0
                         /\ At(walk[p]) = Reverse(f[p])
                         /\ Quantity(At(walk[p])) = Quantity(f[p])
             R == {p \in 0..H : p \in G => Told(p)}
  <1>8. 0 \in R
    BY <1>1
  <1> HIDE DEF is
  <1>9. ASSUME NEW p \in 1..H, par[p] \in R PROVE p \in R
    <2>1. SUFFICES ASSUME p \in G PROVE Told(p)
      BY <1>1
    <2>2. /\ p \in 1..n /\ p \in 0..n /\ file[p].first = g /\ file[p] \in Row
          /\ p - 1 \in Nat /\ p - 1 <= H /\ p \in 0..H /\ p - 1 \in 0..H
      BY <1>1, <2>1, RowOf
    <2>3. f[p] = Append(f[p - 1], file[p])
      BY <1>1, <2>1 DEF Takes, TakenFrom
    <2>4. CASE p = g
      <3>1. f[p - 1] = f[0]
        <4>1. ASSUME NEW q \in (0 + 1)..(p - 1) PROVE q \notin G
          <5>1. q \in 1..H /\ ~ g \in 1..q
            BY <2>2, <2>4, <4>1
          <5>2. file[q].first \in 1..q
            BY <5>1, RowOf
          <5> QED
            BY <5>1, <5>2
        <4>2. 0 \in 0..(p - 1)
          BY <2>2
        <4> QED
          BY <1>0, <2>2, <4>1, <4>2
      <3>2. f[0] = <<>>
        BY DEF Takes, TakenFrom
      <3>3. walk[p] = <<p>>
        BY <1>7, <2>2, <2>4
      <3>4. /\ At(<<>>) = <<>> /\ <<>> \in Seq(1..n) /\ <<>> \in Seq(Row)
            /\ Len(<<>>) = 0
        BY <2>2, AtOne, EmptySeq
      <3>5. <<p>> \o <<>> = <<p>>
        BY <2>2
      <3>6. At(<<p>>) = <<file[p]>> \o <<>>
        BY <2>2, <3>4, <3>5, AtOne
      <3>7. Reverse(Append(<<>>, file[p])) = <<file[p]>> \o Reverse(<<>>) /\ Reverse(<<>>) = <<>>
        <4> DEFINE x == file[p]
        <4>1. x \in Row /\ <<>> \in Seq(Row)
          BY <2>2, <3>4
        <4> HIDE DEF x
        <4>2. Reverse(Append(<<>>, x)) = <<x>> \o Reverse(<<>>) /\ Reverse(<<>>) = <<>>
          BY <4>1, ReverseIs
        <4> QED
          BY <4>2 DEF x
      <3>8. /\ Quantity(<<file[p]>> \o <<>>) = file[p].quantity + Quantity(<<>>)
            /\ Quantity(Append(<<>>, file[p])) = Quantity(<<>>) + file[p].quantity
            /\ Quantity(<<>>) = 0 /\ file[p].quantity \in Nat
        <4>1. Quantity(<<>>) = 0 /\ file[p].quantity \in Nat
          BY <1>1, <2>2, <3>4, QuantityNat DEF Counted
        <4> DEFINE x == file[p]
        <4>2. x \in Row /\ Counted(Row)
          BY <1>1, <2>2
        <4> HIDE DEF x
        <4>3. /\ Quantity(<<x>> \o <<>>) = x.quantity + Quantity(<<>>)
              /\ Quantity(Append(<<>>, x)) = Quantity(<<>>) + x.quantity
          BY <3>4, <4>2, QuantityOne
        <4> QED
          BY <4>1, <4>3 DEF x
      <3>9. walk[p] \in Seq(1..n) /\ Len(walk[p]) > 0
        BY <2>2, <3>3
      <3>10. At(walk[p]) = Reverse(f[p])
        BY <2>3, <3>1, <3>2, <3>3, <3>6, <3>7
      <3>11. Quantity(At(walk[p])) = Quantity(f[p])
        <4>1. Quantity(At(walk[p])) = file[p].quantity + Quantity(<<>>)
          BY <3>3, <3>6, <3>8
        <4>2. Quantity(f[p]) = Quantity(<<>>) + file[p].quantity
          BY <2>3, <3>1, <3>2, <3>8
        <4> QED
          BY <3>8, <4>1, <4>2
      <3> QED
        BY <3>9, <3>10, <3>11
    <2>5. CASE p # g
      <3> DEFINE last == file[p].last
      <3>1. IsEnd(file, g, p - 1, last)
        <4>1. file[p].kind = "follow"
          BY <2>2, <2>5, RowOf
        <4>2. Continues(file, p)
          BY <4>1, RowOf
        <4> QED
          BY <2>2, <4>2 DEF Continues
      <3>2. last \in g..(p - 1) /\ file[last].first = g /\ \A q \in (last + 1)..(p - 1) : file[q].first # g
        BY <3>1 DEF IsEnd
      <3> HIDE DEF last
      <3>3. last \in 0..(p - 1) /\ last \in 1..H /\ last \in 0..n
        BY <1>1, <2>2, <3>2
      <3>4. par[p] = last
        BY <2>2, <3>3 DEF last
      <3>5. Told(last)
        <4>1. last \in R /\ last \in G
          BY <1>9, <3>2, <3>3, <3>4
        <4> HIDE DEF Told
        <4> QED
          BY <4>1
      <3>6. walk[p] = <<p>> \o walk[last]
        <4>1. p \notin {0, g}
          BY <2>2, <2>5
        <4> QED
          BY <1>7, <2>2, <3>3, <4>1 DEF last
      <3>7. f[p - 1] = f[last]
        <4>1. ASSUME NEW q \in (last + 1)..(p - 1) PROVE q \notin G
          BY <3>2
        <4> QED
          BY <1>0, <2>2, <3>3, <4>1
      <3>8. f[last] \in Seq(Row)
        <4>1. last \in 0..H
          BY <3>3
        <4> QED
          BY <1>1, <4>1
      <3> HIDE DEF R, par, rule
      <3>9. /\ At(walk[p]) = <<file[p]>> \o At(walk[last]) /\ At(walk[last]) \in Seq(Row)
            /\ walk[p] \in Seq(1..n) /\ Len(walk[p]) = Len(walk[last]) + 1
        <4>1. walk[last] \in Seq(1..Len(file))
          BY <3>5
        <4>2. \A w \in Seq(1..Len(file)) :
                 /\ At(w) \in Seq(Row) /\ At(<<p>> \o w) = <<file[p]>> \o At(w)
                 /\ <<p>> \o w \in Seq(1..Len(file)) /\ Len(<<p>> \o w) = Len(w) + 1
          BY <2>2, AtOne
        <4> QED
          BY <3>6, <4>1, <4>2
      <3>10. Reverse(f[p]) = <<file[p]>> \o Reverse(f[last])
        <4>1. Reverse(Append(f[last], file[p])) = <<file[p]>> \o Reverse(f[last])
          BY <2>2, <3>8, ReverseIs
        <4> QED
          BY <2>3, <3>7, <4>1
      <3>11. Quantity(At(walk[p])) = Quantity(f[p])
        <4>1. Quantity(<<file[p]>> \o At(walk[last])) = file[p].quantity + Quantity(At(walk[last]))
          BY <1>1, <2>2, <3>9, QuantityOne
        <4>2. Quantity(Append(f[last], file[p])) = Quantity(f[last]) + file[p].quantity
          <5> DEFINE x == file[p]
                     w == f[last]
          <5>1. x \in Row /\ Counted(Row) /\ w \in Seq(Row)
            BY <1>1, <2>2, <3>8
          <5> HIDE DEF x, w
          <5>2. Quantity(Append(w, x)) = Quantity(w) + x.quantity
            BY <5>1, QuantityOne
          <5> QED
            BY <5>2 DEF x, w
        <4>3. Quantity(f[last]) \in Nat /\ file[p].quantity \in Nat
          BY <1>1, <2>2, <3>8, QuantityNat DEF Counted
        <4>4. Quantity(At(walk[last])) = Quantity(f[last])
          BY <3>5
        <4>5. Quantity(At(walk[p])) = file[p].quantity + Quantity(f[last])
          BY <3>9, <4>1, <4>4
        <4>6. Quantity(f[p]) = Quantity(f[last]) + file[p].quantity
          BY <2>3, <3>7, <4>2
        <4> QED
          BY <4>3, <4>5, <4>6
      <3>12. Len(walk[p]) > 0
        <4>1. Len(walk[last]) \in Nat
          BY <3>5, LenProperties
        <4> QED
          BY <3>9, <4>1
      <3> QED
        BY <3>5, <3>9, <3>10, <3>11, <3>12
    <2> QED
      BY <2>4, <2>5
  <1>10. Told(e) /\ e \in G
    <2>1. e \in G
      BY DEF IsEnd
    <2>2. 0..H \subseteq R
      <3>1. \A p \in 1..H : par[p] \in 0..(p - 1)
        <4>1. \A p \in 1..H : p \in 1..n
          BY <1>1
        <4> HIDE DEF n
        <4> QED
          BY <1>1, <4>1
      <3> HIDE DEF R, par
      <3> QED
        BY <1>8, <1>9, <3>1, BranchInduction
    <2>3. e \in R
      <3>1. e \in 0..H
        BY <2>1
      <3> QED
        BY <2>2, <3>1
    <2> HIDE DEF Told
    <2> QED
      BY <2>1, <2>3
  <1>11. f[H] = f[e]
    <2>1. e \in 0..H /\ H \in 0..H /\ \A q \in (e + 1)..H : q \notin G
      BY DEF IsEnd
    <2> QED
      BY <1>0, <2>1
  <1>12. ~Broken(ChainOf(row))
    <2> DEFINE w == walk[e]
    <2>1. w \in Seq(1..n) /\ Len(w) \in Nat /\ Len(w) > 0
      BY <1>10, LenProperties
    <2> HIDE DEF w
    <2>2. Len(w) \in 1..Len(w)
      BY <2>1
    <2>3. w[Len(w)] \in 1..n
      BY <2>1, <2>2, ElementOfSeq
    <2>4. Last(w) # 0
      BY <2>3 DEF Last
    <2> QED
      BY <1>6, <2>4 DEF Broken, w
  <1> QED
    BY <1>6, <1>10, <1>11, <1>12

-----------------------------------------------------------------------------
(* The issues the node knows of.                                           *)

\* They are those of the rows in the file and in memory.
LEMMA KnownIs ==
    ASSUME OnDisk, m_MemPool \in Seq(Row)
    PROVE  /\ Confirmed \in Seq(Issue) /\ Len(Confirmed) = dbHeader.last
           /\ \A p \in 1..dbHeader.last : Confirmed[p] = IssueOf(file[p])
           /\ Known \in Seq(Issue) /\ Len(Known) = dbHeader.last + Len(m_MemPool)
           /\ \A p \in 1..dbHeader.last : Known[p] = IssueOf(file[p])
           /\ \A i \in 1..Len(m_MemPool) : Known[dbHeader.last + i] = IssueOf(m_MemPool[i])
  <1> DEFINE H == dbHeader.last
             l == Len(m_MemPool)
             issues == [i \in DOMAIN m_MemPool |-> IssueOf(m_MemPool[i])]
  <1>1. /\ H \in Nat /\ l \in Nat /\ DOMAIN m_MemPool = 1..l
        /\ chain \in Seq(Seq(Issue)) /\ Len(chain) \in Nat
    BY DiskTypes, LenProperties
  <1>2. /\ Confirmed \in Seq(Issue) /\ Len(Confirmed) = H
        /\ \A p \in 1..H : Confirmed[p] = IssueOf(file[p])
    <2>1. Len(chain) \in 0..Len(chain)
      BY <1>1
    <2>2. UpTo(chain, Len(chain)) = Confirmed /\ UpTo(chain, Len(chain)) \in Seq(Issue)
      BY <1>1, <2>1, UpToIs DEF Confirmed
    <2>3. Len(UpTo(chain, Len(chain))) = H /\ Layered(file, header.last, chain)
      BY DEF OnDisk
    <2> QED
      BY <2>1, <2>2, <2>3 DEF Layered
  <1>3. /\ issues \in Seq(Issue) /\ Len(issues) = l
        /\ \A i \in 1..l : issues[i] = IssueOf(m_MemPool[i])
    <2>1. issues = [i \in 1..l |-> IssueOf(m_MemPool[i])]
      BY <1>1
    <2>2. \A i \in 1..l : IssueOf(m_MemPool[i]) \in Issue
      BY ElementOfSeq, IssueOfRow
    <2> HIDE DEF issues, l
    <2>3. issues \in [1..l -> Issue]
      BY <2>1, <2>2
    <2>4. issues \in Seq(Issue)
      BY <1>1, <2>3, SeqDef
    <2> QED
      BY <1>1, <2>1, <2>3, <2>4, LenProperties
  <1>4. Known = Confirmed \o issues
    BY DEF Known
  <1> HIDE DEF issues, H, l
  <1>5. /\ Known \in Seq(Issue) /\ Len(Known) = Len(Confirmed) + Len(issues)
        /\ \A i \in 1..(Len(Confirmed) + Len(issues)) :
               Known[i] = IF i <= Len(Confirmed) THEN Confirmed[i] ELSE issues[i - Len(Confirmed)]
    BY <1>2, <1>3, <1>4, ConcatProperties
  <1>6. ASSUME NEW p \in 1..H PROVE Known[p] = IssueOf(file[p])
    <2>1. p \in 1..(H + l) /\ p <= H
      BY <1>1
    <2> QED
      BY <1>2, <1>3, <1>5, <2>1
  <1>7. ASSUME NEW i \in 1..l PROVE Known[H + i] = IssueOf(m_MemPool[i])
    <2>1. PICK k \in 1..(H + l) : k = H + i
      BY <1>1
    <2>2. ~ k <= H /\ k - H = i
      BY <1>1, <2>1
    <2>3. Known[k] = issues[i]
      BY <1>2, <1>3, <1>5, <2>2
    <2> QED
      BY <1>3, <2>1, <2>3
  <1> QED
    BY <1>2, <1>3, <1>5, <1>6, <1>7 DEF H, l

\* A row belongs to an asset in the file if it has the position of its first row.
LEMMA OfFiled ==
    ASSUME OnDisk, NEW g \in 1..header.last, file[g].kind = "asset",
           NEW q \in 1..header.last
    PROVE  file[q].of = file[g].tx <=> file[q].first = g
  <1> DEFINE H == header.last
             f == file[q].first
  <1>1. H \in Nat /\ file \in Seq(Row) /\ Sound(file, H) /\ file[g].first = g
    BY DiskTypes, RowOf DEF OnDisk
  <1>2. f \in 1..H /\ file[q].of = file[f].tx
    <2>1. f \in 1..q
      BY <1>1, RowOf
    <2>2. file[q].of = file[f].tx
      <3>1. CASE file[q].kind = "follow"
        BY <1>1, <3>1, RowOf DEF Continues
      <3>2. CASE file[q].kind # "follow"
        BY <1>1, <3>2, RowOf DEF Begins
      <3> QED
        BY <3>1, <3>2
    <2> QED
      BY <1>1, <2>1, <2>2
  <1>3. f # g => file[f].tx # file[g].tx
    <2> HIDE DEF f, H
    <2>1. \A x \in 1..H : f # x => file[f].tx # file[x].tx
      BY <1>1, <1>2, RowOf
    <2> QED
      BY <2>1 DEF H
  <1> QED
    BY <1>2, <1>3

\* The database leads to a row of the file by its transaction.
LEMMA FiledKey ==
    ASSUME OnDisk, NEW p \in 1..dbHeader.last
    PROVE  /\ file[p].tx \in DOMAIN db /\ db[file[p].tx].pos = p
           /\ file[p].kind = "asset" => IsEnd(file, p, dbHeader.last, db[file[p].tx].chain)
  <1>1. /\ Indexed(file, dbHeader.last, db, dropped) /\ dropped \in SUBSET Names
        /\ file \in Seq(Row) /\ dbHeader.last \in Nat
    BY DiskTypes DEF OnDisk
  <1>2. Sound(file, dbHeader.last)
    <2>1. header.last \in Nat /\ dbHeader.last \in 0..header.last /\ Len(file) \in Nat
      BY DiskTypes
    <2> QED
      BY <2>1, SoundBefore DEF OnDisk
  <1> QED
    BY <1>1, <1>2, FoundByTx

\* The same in memory, of an asset in the file ...
LEMMA OfWaiting ==
    ASSUME OnDisk, Up, NEW g \in 1..header.last, file[g].kind = "asset",
           NEW i \in 1..Len(m_MemPool)
    PROVE  m_MemPool[i].of = file[g].tx <=> m_MemPool[i].first = g
  <1> DEFINE row == m_MemPool[i]
             a == file[g].tx
  <1>1. /\ Waiting(m_MemPool) /\ m_PrevPos = header.last /\ header = dbHeader
        /\ header.last \in Nat /\ a \in DOMAIN db
        /\ \A j \in 1..Len(m_MemPool) : m_MemPool[j].tx # a
    <2>1. Waiting(m_MemPool) /\ m_PrevPos = header.last /\ header = dbHeader
      BY DEF Up
    <2>2. a \in DOMAIN db
      BY <2>1, FiledKey
    <2>3. ASSUME NEW j \in 1..Len(m_MemPool) PROVE m_MemPool[j].tx # a
      <3>1. m_MemPool[j].tx \in KeysOf(m_MemPool[j])
        BY DEF KeysOf
      <3>2. KeysOf(m_MemPool[j]) \cap DOMAIN db = {}
        BY <2>1, WaitingRow
      <3> QED
        BY <2>2, <3>1, <3>2
    <2> QED
      BY <2>1, <2>2, <2>3, DiskTypes
  <1>2. row \in Row /\ row.first \in Int /\ i \in Int
    BY <1>1, WaitingRow DEF Row
  <1> HIDE DEF row
  <1>3. CASE row.kind # "follow"
    <2>1. row.of = row.tx /\ row.first < 0
      BY <1>1, <1>3, WaitingRow DEF BeginsPool, row
    <2> QED
      BY <1>1, <1>2, <2>1 DEF row
  <1>4. CASE row.kind = "follow" /\ ContinuesPool(m_MemPool, i)
    <2>1. row.first < 0 /\ -row.first \in 1..(i - 1) /\ row.of = m_MemPool[-row.first].tx
      BY <1>4 DEF ContinuesPool, row
    <2>2. PICK j \in 1..Len(m_MemPool) : j = -row.first
      <3>1. Len(m_MemPool) \in Nat
        BY UpTypes
      <3> QED
        BY <1>2, <2>1, <3>1
    <2>3. row.of # a
      BY <1>1, <2>1, <2>2
    <2> QED
      BY <1>2, <2>1, <2>3 DEF row
  <1>5. CASE row.kind = "follow" /\ ContinuesFile(m_MemPool, i)
    <2>1. /\ row.first \in 1..header.last /\ file[row.first].kind = "asset"
          /\ row.of = file[row.first].tx
      BY <1>1, <1>5 DEF ContinuesFile, row
    <2>2. file[row.first].of = a <=> file[row.first].first = g
      BY <2>1, OfFiled
    <2>3. file[row.first].of = file[row.first].tx /\ file[row.first].first = row.first
      BY <1>1, <2>1, DiskTypes, RowOf DEF Begins, OnDisk
    <2> QED
      BY <2>1, <2>2, <2>3 DEF row
  <1> QED
    BY <1>1, <1>3, <1>4, <1>5, WaitingRow DEF row

\* ... and of one in memory.
LEMMA OfWaitingBoth ==
    ASSUME OnDisk, Up, NEW j \in 1..Len(m_MemPool), m_MemPool[j].kind = "asset",
           NEW i \in 1..Len(m_MemPool), m_MemPool[i].of = m_MemPool[j].tx
    PROVE  m_MemPool[i].first = -j
  <1> DEFINE row == m_MemPool[i]
             a == m_MemPool[j].tx
             l == Len(m_MemPool)
  <1>1. /\ Waiting(m_MemPool) /\ m_PrevPos = dbHeader.last /\ l \in Nat
        /\ m_MemPool[j].first = -j
    BY UpTypes, WaitingRow DEF Up, BeginsPool
  <1>2. row \in Row /\ row.first \in Int
    BY <1>1, WaitingRow DEF Row
  <1>3. ASSUME NEW k \in 1..l, m_MemPool[k].tx = a PROVE k = j
    <2>1. a \in KeysOf(m_MemPool[k]) /\ a \in KeysOf(m_MemPool[j])
      BY <1>3 DEF KeysOf
    <2>2. k # j => KeysOf(m_MemPool[k]) \cap KeysOf(m_MemPool[j]) = {}
      BY <1>1 DEF Waiting, Apart
    <2> QED
      BY <2>1, <2>2
  <1> HIDE DEF row
  <1>4. CASE row.kind # "follow"
    <2>1. row.of = row.tx
      BY <1>1, <1>4, WaitingRow DEF BeginsPool, row
    <2>2. i = j
      BY <1>3, <2>1 DEF row
    <2> QED
      BY <1>1, <2>2
  <1>5. CASE row.kind = "follow" /\ ContinuesPool(m_MemPool, i)
    <2>1. -row.first \in 1..(i - 1) /\ row.of = m_MemPool[-row.first].tx
      BY <1>5 DEF ContinuesPool, row
    <2>2. PICK k \in 1..l : k = -row.first
      BY <1>1, <1>2, <2>1
    <2>3. k = j
      BY <1>3, <2>1, <2>2 DEF row
    <2> QED
      BY <1>2, <2>2, <2>3 DEF row
  <1>6. CASE row.kind = "follow" /\ ContinuesFile(m_MemPool, i)
    <2>1. row.first \in 1..dbHeader.last /\ row.of = file[row.first].tx
      BY <1>1, <1>6 DEF ContinuesFile, row
    <2>2. a \in DOMAIN db
      BY <2>1, FiledKey DEF row
    <2>3. a \in KeysOf(m_MemPool[j]) /\ KeysOf(m_MemPool[j]) \cap DOMAIN db = {}
      BY <1>1, WaitingRow DEF KeysOf
    <2> QED
      BY <2>2, <2>3
  <1> QED
    BY <1>1, <1>4, <1>5, <1>6, WaitingRow DEF row

-----------------------------------------------------------------------------
(* What is reported of an asset.                                           *)

\* The newest first: the rows in memory, then those of the file.
LEMMA ReportIs ==
    ASSUME NEW v \in Seq(Row), NEW u \in Seq(Row), NEW issues \in Seq(Issue),
           Tells(issues, u \o v)
    PROVE  [i \in DOMAIN (Reverse(v) \o Reverse(u)) |-> (Reverse(v) \o Reverse(u))[i].tx]
               = Reverse([j \in DOMAIN issues |-> issues[j].tx])
  <1> DEFINE x == Reverse(v)
             y == Reverse(u)
             rows == x \o y
             w == u \o v
             m == Len(v)
             k == Len(u)
             n == k + m
             txs == [j \in DOMAIN issues |-> issues[j].tx]
  <1>1. m \in Nat /\ k \in Nat /\ n \in Nat
    BY LenProperties
  <1>2. /\ x \in Seq(Row) /\ Len(x) = m /\ \A i \in 1..m : x[i] = v[m - i + 1]
        /\ y \in Seq(Row) /\ Len(y) = k /\ \A i \in 1..k : y[i] = u[k - i + 1]
    <2>1. \A s \in Seq(Row) : /\ Reverse(s) \in Seq(Row) /\ Len(Reverse(s)) = Len(s)
                              /\ \A i \in 1..Len(s) : Reverse(s)[i] = s[Len(s) - i + 1]
      <3>1. ASSUME NEW s \in Seq(Row)
            PROVE  /\ Reverse(s) \in Seq(Row) /\ Len(Reverse(s)) = Len(s)
                   /\ \A i \in 1..Len(s) : Reverse(s)[i] = s[Len(s) - i + 1]
        <4>1. Reverse(s) = [i \in 1..Len(s) |-> s[Len(s) - i + 1]]
          BY DEF Reverse
        <4>2. Len(s) \in Nat /\ \A i \in 1..Len(s) : Len(s) - i + 1 \in 1..Len(s)
          BY LenProperties
        <4>3. Reverse(s) \in [1..Len(s) -> Row]
          BY <4>1, <4>2, ElementOfSeq
        <4> DEFINE r == Reverse(s)
        <4> HIDE DEF r
        <4>4. r \in Seq(Row)
          BY <4>2, <4>3, SeqDef DEF r
        <4>5. Len(r) = Len(s)
          BY <4>2, <4>3, <4>4, LenProperties DEF r
        <4> QED
          BY <4>1, <4>4, <4>5 DEF r
      <3> QED
        BY <3>1
    <2> QED
      BY <2>1
  <1>3. /\ w \in Seq(Row) /\ Len(w) = n
        /\ \A i \in 1..n : w[i] = IF i <= k THEN u[i] ELSE v[i - k]
    BY ConcatProperties
  <1> HIDE DEF x, y, w, m, k
  <1>4. /\ rows \in Seq(Row) /\ Len(rows) = Len(x) + Len(y)
        /\ \A i \in 1..(Len(x) + Len(y)) : rows[i] = IF i <= Len(x) THEN x[i] ELSE y[i - Len(x)]
    BY <1>2, ConcatProperties
  <1> HIDE DEF rows, n
  <1>5. DOMAIN rows = 1..n
    BY <1>1, <1>2, <1>4, LenProperties DEF n
  <1>6. Len(issues) = n /\ DOMAIN issues = 1..n /\ \A i \in 1..n : issues[i].tx = w[i].tx
    BY <1>3, LenProperties DEF Tells, w
  <1>7. Reverse(txs) = [i \in 1..n |-> issues[n - i + 1].tx]
    <2>1. txs = [j \in 1..n |-> issues[j].tx]
      BY <1>6
    <2>2. Len(txs) = n
      BY <1>1, <1>6, <2>1, LenProperties DEF n
    <2>3. Reverse(txs) = [i \in 1..n |-> txs[(n - i) + 1]]
      <3> HIDE DEF txs
      <3> QED
        BY <2>2 DEF Reverse
    <2>4. \A i \in 1..n : n - i + 1 \in 1..n
      BY <1>1
    <2> HIDE DEF txs
    <2>5. \A i \in 1..n : txs[n - i + 1] = issues[n - i + 1].tx
      BY <2>1, <2>4
    <2> QED
      BY <2>3, <2>5
  <1>8. ASSUME NEW i \in 1..n PROVE rows[i] = w[n - i + 1]
    <2>1. n = k + m
      BY DEF n
    <2>2. rows[i] = IF i <= m THEN x[i] ELSE y[i - m]
      <3>1. Len(x) = m /\ Len(y) = k
        BY <1>2
      <3>2. i \in 1..(Len(x) + Len(y))
        BY <1>1, <2>1, <3>1
      <3>3. rows[i] = IF i <= Len(x) THEN x[i] ELSE y[i - Len(x)]
        BY <1>4, <3>2
      <3> QED
        BY <3>1, <3>3
    <2>3. PICK j \in 1..n : j = n - i + 1
      BY <1>1
    <2>4. CASE i <= m
      <3>1. i \in 1..m /\ ~ j <= k /\ j - k = m - i + 1
        BY <1>1, <2>1, <2>3, <2>4
      <3>2. rows[i] = v[m - i + 1]
        BY <1>2, <2>2, <2>4, <3>1
      <3>3. w[j] = v[j - k]
        BY <1>3, <2>1, <3>1
      <3> QED
        BY <2>3, <3>1, <3>2, <3>3
    <2>5. CASE ~ i <= m
      <3>1. PICK q \in 1..k : q = i - m
        BY <1>1, <2>1, <2>5
      <3>2. j <= k /\ j = k - q + 1
        BY <1>1, <2>1, <2>3, <2>5, <3>1
      <3>3. w[j] = u[j]
        BY <1>3, <3>2
      <3>4. y[q] = u[k - q + 1]
        BY <1>2
      <3> QED
        BY <2>2, <2>3, <2>5, <3>1, <3>2, <3>3, <3>4
    <2> QED
      BY <2>4, <2>5
  <1>9. ASSUME NEW i \in 1..n PROVE rows[i].tx = issues[n - i + 1].tx
    <2>1. n - i + 1 \in 1..n
      BY <1>1
    <2> QED
      BY <1>6, <1>8, <2>1
  <1>10. [i \in DOMAIN rows |-> rows[i].tx] = Reverse(txs)
    BY <1>5, <1>7, <1>9
  <1> QED
    BY <1>10 DEF rows, x, y

LEMMA BothCounted == Counted(Row) /\ Counted(Issue)
  <1>1. {0} \cup Quantities \subseteq Nat
    BY EntityAssumption
  <1>2. \A x \in Row : x.quantity \in {0} \cup Quantities
    BY DEF Row
  <1>3. \A x \in Issue : x.quantity \in {0} \cup Quantities
    BY DEF Issue
  <1> QED
    BY <1>1, <1>2, <1>3 DEF Counted

\* The walk through the file and the rows in memory tell what the issues tell.
LEMMA ReportExact ==
    ASSUME OnDisk, Up, NEW g \in 1..header.last, file[g].kind = "asset",
           NEW row, row.first = g, IsEnd(file, g, header.last, row.chain)
    PROVE  LET issues == IssuesOf(file[g].tx, Known)
           IN  /\ GetFollowOns(row) = Reverse([j \in DOMAIN issues |-> issues[j].tx])
               /\ GetTotalQuantity(row) = Quantity(issues)
  <1> DEFINE H == header.last
             l == Len(m_MemPool)
             a == file[g].tx
             s == SubSeq(file, 1, H)
             F == {p \in 1..H : file[p].first = g}
             V == {i \in DOMAIN m_MemPool : m_MemPool[i].first = row.first}
             K == {i \in DOMAIN Known : Known[i].of = a}
             issues == IssuesOf(a, Known)
  <1>1. /\ H \in Nat /\ H \in 0..Len(file) /\ file \in Seq(Row) /\ m_MemPool \in Seq(Row) /\ l \in Nat
        /\ dbHeader.last = H /\ DOMAIN m_MemPool = 1..l /\ Sound(file, H)
    BY DiskTypes, UpTypes, LenProperties DEF OnDisk
  <1>2. s \in Seq(Row) /\ Len(s) = H /\ \A p \in 1..H : s[p] = file[p]
    BY <1>1, PrefixOf
  <1>3. /\ Known \in Seq(Issue) /\ Len(Known) = H + l /\ DOMAIN Known = 1..(H + l)
        /\ \A p \in 1..H : Known[p] = IssueOf(file[p])
        /\ \A i \in 1..l : Known[H + i] = IssueOf(m_MemPool[i])
    BY <1>1, KnownIs, LenProperties
  <1>4. PICK f : TakenFrom(Row, f, s, F) /\ Where(s, F) = f[H]
    <2> HIDE DEF F, s, H
    <2> QED
      BY <1>2, TakenIs
  <1>5. PICK v : TakenFrom(Row, v, m_MemPool, V) /\ Where(m_MemPool, V) = v[l]
    <2> HIDE DEF V
    <2> QED
      BY <1>1, TakenIs
  <1>6. PICK h : TakenFrom(Issue, h, Known, K) /\ Where(Known, K) = h[H + l]
    <2> HIDE DEF K, H, l
    <2> QED
      BY <1>3, TakenIs
  <1>7. FollowsAll(Known, K, 0, s, F)
    <2>1. ASSUME NEW p \in 1..H
          PROVE  /\ 0 + p \in K <=> p \in F
                 /\ Known[0 + p].quantity = s[p].quantity /\ Known[0 + p].tx = s[p].tx
      <3>1. Known[p] = IssueOf(file[p]) /\ s[p] = file[p] /\ 0 + p = p /\ p \in DOMAIN Known
        BY <1>1, <1>2, <1>3
      <3>2. file[p].of = a <=> file[p].first = g
        BY OfFiled
      <3>3. /\ IssueOf(file[p]).of = file[p].of /\ IssueOf(file[p]).quantity = file[p].quantity
            /\ IssueOf(file[p]).tx = file[p].tx
        BY DEF IssueOf
      <3> QED
        BY <3>1, <3>2, <3>3
    <2>2. 0 \in Nat /\ 0 + Len(s) <= Len(Known)
      BY <1>1, <1>2, <1>3
    <2> HIDE DEF H, s, F, K
    <2> QED
      BY <1>2, <2>1, <2>2 DEF Follows, FollowsAll
  <1>8. FollowsAll(Known, K, H, m_MemPool, V)
    <2>1. ASSUME NEW i \in 1..l
          PROVE  /\ H + i \in K <=> i \in V
                 /\ Known[H + i].quantity = m_MemPool[i].quantity
                 /\ Known[H + i].tx = m_MemPool[i].tx
      <3>0. H + i \in 1..(H + l) /\ H + i \in Int
        BY <1>1
      <3>1. Known[H + i] = IssueOf(m_MemPool[i]) /\ H + i \in DOMAIN Known
        <4> HIDE DEF H, l
        <4> QED
          BY <1>3, <3>0
      <3>2. m_MemPool[i].of = a <=> m_MemPool[i].first = g
        BY OfWaiting
      <3>3. /\ IssueOf(m_MemPool[i]).of = m_MemPool[i].of
            /\ IssueOf(m_MemPool[i]).quantity = m_MemPool[i].quantity
            /\ IssueOf(m_MemPool[i]).tx = m_MemPool[i].tx
        BY DEF IssueOf
      <3>4. i \in V <=> m_MemPool[i].first = g
        BY <1>1
      <3> QED
        BY <3>1, <3>2, <3>3, <3>4
    <2>2. H \in Nat /\ H + l <= Len(Known)
      BY <1>1, <1>3
    <2> HIDE DEF H, V, K
    <2> QED
      BY <2>1, <2>2 DEF Follows, FollowsAll
  <1>9. /\ ~Broken(ChainOf(row)) /\ At(ChainOf(row)) = Reverse(f[H])
        /\ Quantity(At(ChainOf(row))) = Quantity(f[H])
    <2> DEFINE e == row.chain
    <2>1. IsEnd(file, g, H, e) /\ row.chain = e /\ row.first = g /\ g \in 1..H
      OBVIOUS
    <2>2. F \in SUBSET (1..H) /\ \A p \in 1..H : p \in F <=> file[p].first = g
      OBVIOUS
    <2> HIDE DEF e, H, s, F
    <2> QED
      BY <1>1, <1>2, <1>4, <2>1, <2>2, ChainIs
  <1>10. PoolOf(row) = v[l] /\ issues = h[H + l]
    BY <1>5, <1>6 DEF PoolOf, IssuesOf
  <1> HIDE DEF F, V, K, s, issues, H, l
  <1>11. /\ f[H] \in Seq(Row) /\ v[l] \in Seq(Row) /\ h[H + l] \in Seq(Issue)
         /\ h[0] = <<>> /\ <<>> \in Seq(Row)
    <2>1. H \in 0..H /\ l \in 0..l /\ H + l \in 0..(H + l)
      BY <1>1
    <2>2. /\ f \in [0..H -> Seq(Row)] /\ v \in [0..l -> Seq(Row)]
          /\ h \in [0..(H + l) -> Seq(Issue)] /\ h[0] = <<>>
      BY <1>2, <1>3, <1>4, <1>5, <1>6 DEF TakenFrom, Takes, l
    <2> QED
      BY <2>1, <2>2, EmptySeq
  <1>12. Len(s) = H /\ Len(m_MemPool) = l /\ 0 + H = H
    BY <1>1, <1>2 DEF l
  <1>13. Tells(h[H + l], f[H] \o v[l])
    <2>1. Tells(h[0], <<>>)
      BY <1>11 DEF Tells
    <2>2. Tells(h[0 + Len(s)], <<>> \o f[Len(s)])
      BY <1>4, <1>6, <1>7, <1>11, <2>1, TakesTells
    <2>3. Tells(h[H], f[H])
      BY <1>11, <1>12, <2>2, ConcatEmptySeq
    <2>4. Tells(h[H + Len(m_MemPool)], f[H] \o v[Len(m_MemPool)])
      BY <1>5, <1>6, <1>8, <1>11, <2>3, TakesTells
    <2> QED
      BY <1>12, <2>4
  <1>14. Quantity(h[H + l]) = Quantity(f[H]) + Quantity(v[l])
    <2>1. \A t, G, o, x, y : FollowsAll(t, G, o, x, y) => Follows(t, G, o, x, y)
      BY DEF FollowsAll
    <2>2. Quantity(h[0 + Len(s)]) = Quantity(h[0]) + Quantity(f[Len(s)])
      BY <1>4, <1>6, <1>7, <2>1, BothCounted, QuantityUpTo
    <2>3. Quantity(h[0]) = 0 /\ Quantity(f[H]) \in Nat
      <3>1. Quantity(<<>>) = 0 /\ Quantity(f[H]) \in Nat
        BY <1>11, BothCounted, QuantityNat
      <3> QED
        BY <1>11, <3>1
    <2>4. Quantity(h[H]) = Quantity(f[H])
      BY <1>12, <2>2, <2>3
    <2>5. Quantity(h[H + Len(m_MemPool)]) = Quantity(h[H]) + Quantity(v[Len(m_MemPool)])
      BY <1>5, <1>6, <1>8, <2>1, BothCounted, QuantityUpTo
    <2> QED
      BY <1>12, <2>4, <2>5
  <1>15. GetFollowOns(row) = Reverse([j \in DOMAIN issues |-> issues[j].tx])
    <2> DEFINE x == v[l]
               y == f[H]
               rows == Reverse(x) \o Reverse(y)
    <2>1. GetFollowOns(row) = [i \in DOMAIN rows |-> rows[i].tx]
      BY <1>9, <1>10 DEF GetFollowOns
    <2>2. Tells(issues, y \o x) /\ issues \in Seq(Issue)
      BY <1>10, <1>11, <1>13
    <2>3. x \in Seq(Row) /\ y \in Seq(Row)
      BY <1>11
    <2> HIDE DEF x, y
    <2> QED
      BY <2>1, <2>2, <2>3, ReportIs
  <1>16. GetTotalQuantity(row) = Quantity(issues)
    <2>1. GetTotalQuantity(row) = Quantity(v[l]) + Quantity(f[H])
      BY <1>9, <1>10 DEF GetTotalQuantity
    <2>2. Quantity(v[l]) \in Nat /\ Quantity(f[H]) \in Nat
      BY <1>11, BothCounted, QuantityNat
    <2> QED
      BY <1>10, <1>14, <2>1, <2>2
  <1> QED
    BY <1>15, <1>16 DEF issues

\* What the node reports of an asset with a confirmed issue is what the blocks and the rows
\* in memory issued, in their order.
THEOREM ChainsExactHolds ==
    ASSUME MaxFailPool <= 1
    PROVE  Spec => []ChainsExact
  <1>1. IInv => ChainsExact
    <2>1. SUFFICES ASSUME IInv, phase = "up",
                          NEW i \in DOMAIN Confirmed, Confirmed[i].kind = "asset",
                          NEW row \in GetEntity(Confirmed[i].tx)
                   PROVE  LET issues == IssuesOf(Confirmed[i].tx, Known)
                          IN  /\ GetFollowOns(row) = Reverse([j \in DOMAIN issues |-> issues[j].tx])
                              /\ GetTotalQuantity(row) = Quantity(issues)
      BY DEF ChainsExact, Quiet
    <2>2. /\ OnDisk /\ Up /\ header = dbHeader /\ m_MemPool \in Seq(Row)
          /\ header.last \in Nat /\ header.last <= Len(file)
      BY <2>1, DiskTypes, UpTypes DEF IInv, Up
    <2>3. i \in 1..header.last /\ Confirmed[i] = IssueOf(file[i])
      BY <2>2, KnownIs, LenProperties
    <2>4. file[i].kind = "asset" /\ Confirmed[i].tx = file[i].tx
      BY <2>1, <2>3 DEF IssueOf
    <2> DEFINE a == file[i].tx
    <2>5. /\ a \in DOMAIN db /\ db[a].pos = i /\ IsEnd(file, i, header.last, db[a].chain)
      <3>1. i \in 1..dbHeader.last /\ header.last = dbHeader.last
        BY <2>2, <2>3
      <3> QED
        BY <2>2, <2>4, <3>1, FiledKey
    <2>6. file[i] \in Row /\ i \in DOMAIN file /\ file[i].first = i
      <3>1. file \in Seq(Row) /\ Sound(file, header.last) /\ DOMAIN file = 1..Len(file)
        BY <2>2, DiskTypes DEF OnDisk
      <3> QED
        BY <2>2, <2>3, <2>4, <3>1, RowOf
    <2>7. row = [file[i] EXCEPT !.chain = db[a].chain]
      BY <2>1, <2>4, <2>5, <2>6 DEF GetEntity
    <2>8. row.first = i /\ row.chain = db[a].chain
      BY <2>6, <2>7 DEF Row
    <2>9. IsEnd(file, i, header.last, row.chain)
      BY <2>5, <2>8
    <2> QED
      BY <2>2, <2>3, <2>4, <2>8, <2>9, ReportExact
  <1> QED
    BY <1>1, Invariance, PTL

-----------------------------------------------------------------------------
(* The limit.                                                              *)
Bounded(issues) ==
    \A asset \in Txs :
        Quantity(IssuesOf(asset, issues)) \in Nat /\ Quantity(IssuesOf(asset, issues)) <= MaxQuantity

Within == Bounded(Known)

\* The issues that come first of some that keep to the limit keep to it.
Starts(l, k) ==
    /\ l \in Seq(Issue) /\ k \in Seq(Issue) /\ Len(l) <= Len(k)
    /\ \A i \in 1..Len(l) : l[i] = k[i]

LEMMA BoundedBefore ==
    ASSUME NEW k, NEW l, Starts(l, k), Bounded(k)
    PROVE  Bounded(l)
  <1> SUFFICES ASSUME NEW asset \in Txs
               PROVE  /\ Quantity(IssuesOf(asset, l)) \in Nat
                      /\ Quantity(IssuesOf(asset, l)) <= MaxQuantity
    BY DEF Bounded
  <1> DEFINE n == Len(l)
             m == Len(k)
             L == {i \in DOMAIN l : l[i].of = asset}
             K == {i \in DOMAIN k : k[i].of = asset}
  <1>1. /\ l \in Seq(Issue) /\ k \in Seq(Issue) /\ n \in Nat /\ m \in Nat /\ n <= m
        /\ DOMAIN l = 1..n /\ DOMAIN k = 1..m
    BY LenProperties DEF Starts
  <1>2. \A i \in 1..n : l[i] = k[i] /\ (i \in L <=> i \in K)
    BY <1>1 DEF Starts
  <1>3. IssuesOf(asset, l) = Where(l, L) /\ IssuesOf(asset, k) = Where(k, K)
    BY DEF IssuesOf
  <1> HIDE DEF L, K
  <1>4. PICK f : TakenFrom(Issue, f, l, L) /\ Where(l, L) = f[n]
    BY <1>1, TakenIs
  <1>5. PICK g : TakenFrom(Issue, g, k, K) /\ Where(k, K) = g[m]
    BY <1>1, TakenIs
  <1>6. /\ Takes(f, l, L) /\ Takes(g, k, K) /\ g \in [0..m -> Seq(Issue)]
    BY <1>4, <1>5 DEF TakenFrom
  <1>7. f[n] = g[n]
    <2>1. Alike(l, L, k, K, n)
      BY <1>1, <1>2 DEF Alike
    <2> QED
      BY <1>4, <1>5, <2>1, TakesSame
  <1>8. Quantity(g[n]) <= Quantity(g[m]) /\ Quantity(g[n]) \in Nat
    <2>1. m \in 0..Len(k) /\ n \in 0..m
      BY <1>1
    <2> QED
      BY <1>1, <1>6, <2>1, BothCounted, QuantityGrows
  <1>9. Quantity(g[m]) \in Nat /\ Quantity(g[m]) <= MaxQuantity /\ MaxQuantity \in Nat
    BY <1>3, <1>5, EntityAssumption DEF Bounded
  <1> QED
    BY <1>3, <1>4, <1>7, <1>8, <1>9

\* The issues of an asset, with one issue more.
LEMMA IssuesOne ==
    ASSUME NEW k \in Seq(Issue), NEW x \in Issue, NEW asset
    PROVE  Quantity(IssuesOf(asset, Append(k, x))) =
               IF x.of = asset THEN Quantity(IssuesOf(asset, k)) + x.quantity
                               ELSE Quantity(IssuesOf(asset, k))
  <1> DEFINE n == Len(k)
             l == Append(k, x)
             L == {i \in DOMAIN l : l[i].of = asset}
             K == {i \in DOMAIN k : k[i].of = asset}
  <1>1. /\ n \in Nat /\ l \in Seq(Issue) /\ Len(l) = n + 1 /\ l[n + 1] = x
        /\ \A i \in 1..n : l[i] = k[i]
    BY AppendProperties, LenProperties
  <1> HIDE DEF l
  <1>2. DOMAIN k = 1..n /\ DOMAIN l = 1..(n + 1)
    BY <1>1, LenProperties
  <1>3. /\ \A i \in 1..n : i \in L <=> i \in K
        /\ n + 1 \in L <=> x.of = asset
    BY <1>1, <1>2
  <1>4. IssuesOf(asset, l) = Where(l, L) /\ IssuesOf(asset, k) = Where(k, K)
    BY DEF IssuesOf
  <1> HIDE DEF L, K
  <1>5. PICK f : TakenFrom(Issue, f, l, L) /\ Where(l, L) = f[n + 1]
    BY <1>1, TakenIs
  <1>6. PICK g : TakenFrom(Issue, g, k, K) /\ Where(k, K) = g[n]
    BY <1>1, TakenIs
  <1>7. f[n] = g[n] /\ g[n] \in Seq(Issue)
    <2>1. Takes(f, l, L) /\ Takes(g, k, K) /\ g \in [0..n -> Seq(Issue)]
      BY <1>5, <1>6 DEF TakenFrom
    <2>2. n <= Len(l) /\ n <= Len(k) /\ n \in 0..n
      BY <1>1
    <2>3. f[n] = g[n]
      <3>1. Alike(l, L, k, K, n)
        BY <1>1, <1>3, <2>2 DEF Alike
      <3> QED
        BY <1>5, <1>6, <3>1, TakesSame
    <2> QED
      BY <2>1, <2>2, <2>3
  <1>8. f[n + 1] = IF n + 1 \in L THEN Append(f[n], x) ELSE f[n]
    <2>1. PICK j \in 1..Len(l) : j = n + 1
      BY <1>1
    <2>2. j - 1 = n
      BY <1>1, <2>1
    <2>3. f[j] = IF j \in L THEN Append(f[j - 1], l[j]) ELSE f[j - 1]
      BY <1>5 DEF TakenFrom, Takes
    <2> QED
      BY <1>1, <2>1, <2>2, <2>3
  <1>9. Quantity(Append(g[n], x)) = Quantity(g[n]) + x.quantity
    BY <1>7, BothCounted, QuantityOne
  <1>10. CASE x.of = asset
    BY <1>3, <1>4, <1>5, <1>6, <1>7, <1>8, <1>9, <1>10 DEF l
  <1>11. CASE x.of # asset
    BY <1>3, <1>4, <1>5, <1>6, <1>7, <1>8, <1>11 DEF l
  <1> QED
    BY <1>10, <1>11

LEMMA WithinIs == Within' <=> Bounded(Known')
  BY DEF Within, Bounded, IssuesOf, Where, Quantity

\* A row in memory keeps to the limit if its asset does with it.
LEMMA InsertWithin ==
    ASSUME OnDisk, Up, NEW row \in Row, Insert(row), Within,
           Quantity(IssuesOf(row.of, Known)) + row.quantity <= MaxQuantity
    PROVE  Within'
  <1> DEFINE x == IssueOf(row)
             new == Append(m_MemPool, row)
             issues == [i \in DOMAIN m_MemPool |-> IssueOf(m_MemPool[i])]
             more == [i \in DOMAIN new |-> IssueOf(new[i])]
             l == Len(m_MemPool)
  <1>1. m_MemPool' = new /\ chain' = chain
    BY DEF Insert
  <1>2. /\ m_MemPool \in Seq(Row) /\ l \in Nat /\ DOMAIN m_MemPool = 1..l
        /\ new \in Seq(Row) /\ DOMAIN new = 1..(l + 1) /\ new[l + 1] = row
        /\ \A i \in 1..l : new[i] = m_MemPool[i]
    <2>1. m_MemPool \in Seq(Row) /\ l \in Nat /\ DOMAIN m_MemPool = 1..l
      BY UpTypes, LenProperties
    <2>2. new \in Seq(Row) /\ Len(new) = l + 1 /\ new[l + 1] = row /\ \A i \in 1..l : new[i] = m_MemPool[i]
      BY <2>1, AppendProperties
    <2> HIDE DEF new
    <2> QED
      BY <2>1, <2>2, LenProperties
  <1>3. x \in Issue /\ x.of = row.of /\ x.quantity = row.quantity
    BY IssueOfRow DEF IssueOf
  <1>4. issues \in Seq(Issue) /\ Confirmed \in Seq(Issue) /\ Known \in Seq(Issue)
    <2>1. issues = [i \in 1..l |-> IssueOf(m_MemPool[i])]
      BY <1>2
    <2>2. \A i \in 1..l : IssueOf(m_MemPool[i]) \in Issue
      BY <1>2, ElementOfSeq, IssueOfRow
    <2> HIDE DEF issues
    <2>3. issues \in [1..l -> Issue]
      BY <2>1, <2>2
    <2>4. issues \in Seq(Issue)
      BY <1>2, <2>3, SeqDef
    <2>5. Confirmed \in Seq(Issue) /\ Known \in Seq(Issue)
      BY <1>2, KnownIs
    <2> QED
      BY <2>4, <2>5
  <1>5. more = Append(issues, x)
    <2> DEFINE b == Append(issues, x)
    <2>1. Len(issues) = l
      BY <1>2, <1>4, LenProperties
    <2>2. /\ b \in Seq(Issue) /\ Len(b) = l + 1 /\ b[l + 1] = x
          /\ \A i \in 1..l : b[i] = issues[i]
      <3> HIDE DEF issues, x
      <3> QED
        BY <1>3, <1>4, <2>1, AppendProperties
    <2>3. \A i \in 1..l : issues[i] = IssueOf(new[i])
      BY <1>2
    <2> HIDE DEF b, new
    <2>4. b = [i \in 1..(l + 1) |-> b[i]]
      <3>1. b = [i \in 1..Len(b) |-> b[i]]
        BY <2>2, LenProperties
      <3> QED
        BY <2>2, <3>1
    <2>5. ASSUME NEW i \in 1..(l + 1) PROVE b[i] = IssueOf(new[i])
      <3>1. CASE i = l + 1
        BY <1>2, <2>2, <3>1
      <3>2. CASE i # l + 1
        <4>1. i \in 1..l
          BY <1>2, <3>2
        <4> QED
          BY <2>2, <2>3, <4>1
      <3> QED
        BY <3>1, <3>2
    <2>6. more = [i \in 1..(l + 1) |-> IssueOf(new[i])]
      BY <1>2
    <2>7. more = b
      BY <2>4, <2>5, <2>6
    <2> QED
      BY <2>7 DEF b
  <1>6. Known' = Append(Known, x)
    <2>1. Known' = Confirmed \o more
      BY <1>1 DEF Known, Confirmed
    <2>2. Known = Confirmed \o issues
      BY DEF Known
    <2>3. Confirmed \o Append(issues, x) = Append(Confirmed \o issues, x)
      <3> HIDE DEF issues, x
      <3> QED
        BY <1>3, <1>4, AppendOfConcat
    <2> QED
      BY <1>5, <2>1, <2>2, <2>3
  <1>7. ASSUME NEW asset \in Txs
        PROVE  /\ Quantity(IssuesOf(asset, Append(Known, x))) \in Nat
               /\ Quantity(IssuesOf(asset, Append(Known, x))) <= MaxQuantity
    <2>1. Quantity(IssuesOf(asset, Known)) \in Nat /\ Quantity(IssuesOf(asset, Known)) <= MaxQuantity
      BY DEF Within, Bounded
    <2>2. Quantity(IssuesOf(asset, Append(Known, x))) =
               IF x.of = asset THEN Quantity(IssuesOf(asset, Known)) + x.quantity
                               ELSE Quantity(IssuesOf(asset, Known))
      <3> HIDE DEF x
      <3> QED
        BY <1>3, <1>4, IssuesOne
    <2>3. x.quantity \in Nat
      BY <1>3, BothCounted DEF Counted
    <2> HIDE DEF x
    <2>4. CASE x.of = asset
      BY <1>3, <2>1, <2>2, <2>3, <2>4
    <2>5. CASE x.of # asset
      BY <2>1, <2>2, <2>5
    <2> QED
      BY <2>4, <2>5
  <1>8. Within' <=> Bounded(Known')
    BY WithinIs
  <1>9. Bounded(Append(Known, x))
    BY <1>7 DEF Bounded
  <1> QED
    BY <1>6, <1>8, <1>9

\* No row in the file belongs to an asset whose transaction is not in the database.
LEMMA FiledOther ==
    ASSUME OnDisk, NEW tx, tx \notin DOMAIN db, NEW p \in 1..dbHeader.last
    PROVE  file[p].of # tx
  <1> DEFINE H == dbHeader.last
             g == file[p].first
  <1>1. H \in Nat /\ file \in Seq(Row) /\ Sound(file, H)
    BY DiskTypes, SoundBefore DEF OnDisk
  <1>2. g \in 1..H
    <2>1. g \in 1..p
      BY <1>1, RowOf
    <2> QED
      BY <1>1, <2>1
  <1>3. file[p].of = file[g].tx
    <2>1. CASE file[p].kind = "follow"
      BY <1>1, <2>1, RowOf DEF Continues
    <2>2. CASE file[p].kind # "follow"
      BY <1>1, <2>2, RowOf DEF Begins
    <2> QED
      BY <2>1, <2>2
  <1>4. file[g].tx \in DOMAIN db
    BY <1>2, FiledKey
  <1> QED
    BY <1>3, <1>4

\* Nothing of an asset is known whose transaction is not known.
LEMMA NothingKnown ==
    ASSUME OnDisk, Up, NEW tx, tx \notin DOMAIN db,
           \A i \in 1..Len(m_MemPool) : m_MemPool[i].tx # tx
    PROVE  \A i \in DOMAIN Known : Known[i].of # tx
  <1> DEFINE H == header.last
             l == Len(m_MemPool)
  <1>1. /\ H \in Nat /\ file \in Seq(Row) /\ m_MemPool \in Seq(Row) /\ l \in Nat
        /\ dbHeader.last = H /\ m_PrevPos = H /\ Sound(file, H) /\ Waiting(m_MemPool)
    BY DiskTypes, UpTypes DEF OnDisk, Up
  <1>2. /\ DOMAIN Known = 1..(H + l)
        /\ \A p \in 1..H : Known[p] = IssueOf(file[p])
        /\ \A i \in 1..l : Known[H + i] = IssueOf(m_MemPool[i])
    BY <1>1, KnownIs, LenProperties
  <1>3. \A p \in 1..H : file[p].tx # tx
    BY <1>1, FiledKey
  <1>4. ASSUME NEW p \in 1..H PROVE Known[p].of # tx
    <2>1. Known[p] = IssueOf(file[p]) /\ IssueOf(file[p]).of = file[p].of
      BY <1>2 DEF IssueOf
    <2>2. file[p].of # tx
      BY <1>1, FiledOther
    <2> QED
      BY <2>1, <2>2
  <1>5. ASSUME NEW i \in 1..l PROVE Known[H + i].of # tx
    <2> DEFINE row == m_MemPool[i]
    <2>0. row \in Row
      BY <1>1, ElementOfSeq
    <2>1. row \in Row /\ row.first \in Int /\ i \in Int
      <3> HIDE DEF row
      <3> QED
        BY <1>1, <2>0 DEF Row
    <2>2. Known[H + i].of = row.of
      <3>1. Known[H + i] = IssueOf(row) /\ IssueOf(row).of = row.of
        BY <1>2 DEF IssueOf
      <3> QED
        BY <3>1
    <2>3. CASE row.kind # "follow"
      <3>1. row.of = row.tx
        BY <1>1, <2>3, WaitingRow DEF BeginsPool
      <3> QED
        BY <2>2, <3>1
    <2>4. CASE row.kind = "follow" /\ ContinuesPool(m_MemPool, i)
      <3>1. -row.first \in 1..(i - 1) /\ row.of = m_MemPool[-row.first].tx
        BY <2>4 DEF ContinuesPool
      <3> HIDE DEF row
      <3>2. PICK k \in 1..l : k = -row.first
        BY <1>1, <2>1, <3>1
      <3> QED
        BY <2>2, <3>1, <3>2
    <2>5. CASE row.kind = "follow" /\ ContinuesFile(m_MemPool, i)
      <3>1. row.first \in 1..H /\ row.of = file[row.first].tx
        BY <1>1, <2>5 DEF ContinuesFile
      <3> QED
        BY <1>3, <2>2, <3>1
    <2> QED
      BY <1>1, <2>3, <2>4, <2>5, WaitingRow
  <1>6. ASSUME NEW i \in 1..(H + l) PROVE Known[i].of # tx
    <2>1. CASE i <= H
      <3>1. i \in 1..H
        BY <2>1
      <3> QED
        BY <1>4, <3>1
    <2>2. CASE ~ i <= H
      <3>1. PICK j \in 1..l : j = i - H
        BY <1>1, <2>2
      <3>2. H + j = i
        BY <1>1, <3>1
      <3> QED
        BY <1>5, <3>2
    <2> QED
      BY <2>1, <2>2
  <1> QED
    BY <1>2, <1>6

\* Then its quantity is none.
LEMMA QuantityOfNothing ==
    ASSUME NEW k \in Seq(Issue), NEW asset, \A i \in DOMAIN k : k[i].of # asset
    PROVE  Quantity(IssuesOf(asset, k)) = 0
  <1> DEFINE n == Len(k)
             K == {i \in DOMAIN k : k[i].of = asset}
  <1>1. n \in Nat /\ n <= Len(k) /\ 0 \in 0..n
    BY LenProperties
  <1>2. IssuesOf(asset, k) = Where(k, K)
    BY DEF IssuesOf
  <1>3. \A i \in 1..n : i \notin K
    OBVIOUS
  <1> HIDE DEF K
  <1>4. PICK f : TakenFrom(Issue, f, k, K) /\ Where(k, K) = f[n]
    BY <1>1, TakenIs
  <1>5. f[n] = f[0]
    <2>1. Skips(k, K, 0, n)
      BY <1>1, <1>3 DEF Skips
    <2> QED
      BY <1>4, <2>1, TakesNothing
  <1>6. f[0] = <<>> /\ <<>> \in Seq(Issue)
    BY <1>4, EmptySeq DEF TakenFrom, Takes
  <1> QED
    BY <1>2, <1>4, <1>5, <1>6, BothCounted, QuantityNat

\* Of an asset in memory at most what is reported has been issued.
LEMMA ReportAtMost ==
    ASSUME OnDisk, Up, NEW j \in 1..Len(m_MemPool), m_MemPool[j].kind = "asset",
           NEW row, row.first = -j
    PROVE  /\ Quantity(IssuesOf(m_MemPool[j].tx, Known)) <= GetTotalQuantity(row)
           /\ GetTotalQuantity(row) \in Nat
  <1> DEFINE H == header.last
             l == Len(m_MemPool)
             a == m_MemPool[j].tx
             V == {i \in DOMAIN m_MemPool : m_MemPool[i].first = row.first}
             K == {i \in DOMAIN Known : Known[i].of = a}
             issues == IssuesOf(a, Known)
  <1>1. /\ H \in Nat /\ file \in Seq(Row) /\ m_MemPool \in Seq(Row) /\ l \in Nat
        /\ dbHeader.last = H /\ m_PrevPos = H /\ Sound(file, H) /\ Waiting(m_MemPool)
        /\ DOMAIN m_MemPool = 1..l
    BY DiskTypes, UpTypes, LenProperties DEF OnDisk, Up
  <1>2. /\ Known \in Seq(Issue) /\ Len(Known) = H + l /\ DOMAIN Known = 1..(H + l)
        /\ \A p \in 1..H : Known[p] = IssueOf(file[p])
        /\ \A i \in 1..l : Known[H + i] = IssueOf(m_MemPool[i])
    BY <1>1, KnownIs, LenProperties
  <1>3. a \notin DOMAIN db
    <2>1. a \in KeysOf(m_MemPool[j]) /\ KeysOf(m_MemPool[j]) \cap DOMAIN db = {}
      BY <1>1, WaitingRow DEF KeysOf
    <2> QED
      BY <2>1
  <1>4. ASSUME NEW p \in 1..H PROVE p \notin K
    <2>1. Known[p] = IssueOf(file[p]) /\ IssueOf(file[p]).of = file[p].of
      BY <1>2 DEF IssueOf
    <2>2. file[p].of # a
      BY <1>1, <1>3, FiledOther
    <2> QED
      BY <2>1, <2>2
  <1>5. Follows(Known, K, H, m_MemPool, V)
    <2>1. ASSUME NEW i \in 1..l
          PROVE  /\ H + i \in K => i \in V
                 /\ Known[H + i].quantity = m_MemPool[i].quantity
                 /\ Known[H + i].tx = m_MemPool[i].tx
      <3>1. Known[H + i] = IssueOf(m_MemPool[i])
        BY <1>2
      <3>2. m_MemPool[i].of = a => m_MemPool[i].first = -j
        BY OfWaitingBoth
      <3>3. /\ IssueOf(m_MemPool[i]).of = m_MemPool[i].of
            /\ IssueOf(m_MemPool[i]).quantity = m_MemPool[i].quantity
            /\ IssueOf(m_MemPool[i]).tx = m_MemPool[i].tx
        BY DEF IssueOf
      <3>4. i \in V <=> m_MemPool[i].first = -j
        BY <1>1
      <3> QED
        BY <3>1, <3>2, <3>3, <3>4
    <2>2. H \in Nat /\ H + l <= Len(Known)
      BY <1>1, <1>2
    <2> HIDE DEF H, V, K
    <2> QED
      BY <2>1, <2>2 DEF Follows
  <1>6. issues = Where(Known, K) /\ PoolOf(row) = Where(m_MemPool, V)
    BY DEF IssuesOf, PoolOf
  <1> HIDE DEF V, K, issues, H, l
  <1>7. PICK v : TakenFrom(Row, v, m_MemPool, V) /\ Where(m_MemPool, V) = v[l]
    BY <1>1, TakenIs DEF l
  <1>8. PICK h : TakenFrom(Issue, h, Known, K) /\ Where(Known, K) = h[H + l]
    BY <1>2, TakenIs
  <1>9. h[H] = <<>>
    <2>1. Skips(Known, K, 0, H)
      BY <1>1, <1>2, <1>4 DEF Skips
    <2>2. h[H] = h[0]
      BY <1>8, <2>1, TakesNothing
    <2> QED
      BY <1>8, <2>2 DEF TakenFrom, Takes
  <1>10. Quantity(h[H + l]) <= Quantity(h[H]) + Quantity(v[l])
    <2>1. Quantity(h[H + Len(m_MemPool)]) <= Quantity(h[H]) + Quantity(v[Len(m_MemPool)])
      BY <1>5, <1>7, <1>8, BothCounted, QuantityUpTo
    <2> QED
      BY <2>1 DEF l
  <1>11. v[l] \in Seq(Row) /\ <<>> \in Seq(Row) /\ <<>> \in Seq(Issue)
    <2>1. l \in 0..l /\ v \in [0..l -> Seq(Row)]
      BY <1>1, <1>7 DEF TakenFrom, l
    <2> QED
      BY <2>1, EmptySeq
  <1>12. GetTotalQuantity(row) = Quantity(v[l]) + Quantity(<<>>)
    <2>1. j \in Nat /\ -j < 0
      BY <1>1 DEF l
    <2>2. ChainOf(row) = <<>>
      BY <2>1 DEF ChainOf
    <2>3. ~Broken(<<>>)
      BY DEF Broken
    <2>4. At(<<>>) = <<>>
      <3>1. At(<<>>) = [i \in DOMAIN <<>> |-> file[<<>>[i]]]
        BY DEF At
      <3>2. DOMAIN <<>> = {}
        OBVIOUS
      <3> QED
        BY <3>1, <3>2
    <2> QED
      BY <1>6, <1>7, <2>2, <2>3, <2>4 DEF GetTotalQuantity
  <1>13. Quantity(v[l]) \in Nat /\ Quantity(<<>>) = 0
    BY <1>11, BothCounted, QuantityNat
  <1>14. Quantity(h[H + l]) <= Quantity(<<>>) + Quantity(v[l])
    BY <1>9, <1>10
  <1>15. Quantity(issues) = Quantity(h[H + l])
    BY <1>6, <1>8
  <1>16. Quantity(issues) <= GetTotalQuantity(row) /\ GetTotalQuantity(row) \in Nat
    <2>1. \A x, y, z \in Int : x <= y + z /\ y = 0 => x <= z + y /\ z + y = z
      OBVIOUS
    <2>2. Quantity(issues) \in Int
      <3>1. H + l \in 0..(H + l) /\ h \in [0..(H + l) -> Seq(Issue)]
        BY <1>1, <1>2, <1>8 DEF TakenFrom, l
      <3>2. h[H + l] \in Seq(Issue)
        BY <3>1
      <3>3. Quantity(h[H + l]) \in Nat
        BY <3>2, BothCounted, QuantityNat
      <3> QED
        BY <1>15, <3>3
    <2> QED
      BY <1>12, <1>13, <1>14, <1>15, <2>2
  <1> QED
    BY <1>16 DEF issues

\* The last row of an asset that the node has seen is one it numbered itself.
LEMMA LastPosIs ==
    ASSUME OnDisk, Up, NEW genesis, genesis.chain \in Int
    PROVE  LastPos(genesis) \in Int
  <1> DEFINE last == LastPos(genesis)
             n == Len(m_MemPool) + 1
             B == {i \in DOMAIN m_MemPool : /\ m_MemPool[i].kind = "follow"
                                            /\ m_MemPool[i].first = genesis.first}
  <1>1. DOMAIN m_MemPool = 1..(n - 1) /\ n \in Nat
    BY UpTypes, LenProperties
  <1>2. B \in SUBSET (0..n)
    <2> HIDE DEF n
    <2> QED
      BY <1>1
  <1>3. last = IF B = {} THEN genesis.chain ELSE m_Pos + Max(B) - 1
    BY DEF LastPos
  <1>4. B # {} => Max(B) \in 0..n
    <2> HIDE DEF B, n
    <2> QED
      BY <1>1, <1>2, MaxIs
  <1> HIDE DEF B, n, last
  <1>5. last \in Int
    BY <1>1, <1>3, <1>4, UpTypes
  <1> QED
    BY <1>5 DEF last

\* The inserts keep to the limit, ...
LEMMA InsertEntityWithin ==
    ASSUME OnDisk, Up, NEW tx \in Txs, NEW name \in Names \cup {NoName}, InsertEntity(tx, name),
           Within
    PROVE  Within'
  <1> DEFINE row == NewRow(tx, "stream", tx, name, 0, -1, 0)
  <1>1. Insert(row)
    BY DEF InsertEntity
  <1>2. row \in Row /\ row.of = tx
    <2>1. m_Block \in Int /\ "stream" \in Kinds /\ 0 \in {0} \cup Quantities /\ -1 \in Int
      BY UpTypes DEF Kinds
    <2> QED
      BY <2>1, NewRowIs
  <1>3. row.quantity = 0
    BY DEF NewRow
  <1> HIDE DEF row
  <1>4. Quantity(IssuesOf(tx, Known)) \in Nat /\ Quantity(IssuesOf(tx, Known)) <= MaxQuantity
    BY DEF Within, Bounded
  <1>5. Quantity(IssuesOf(tx, Known)) + row.quantity <= MaxQuantity
    BY <1>3, <1>4
  <1> QED
    BY <1>1, <1>2, <1>5, InsertWithin

LEMMA InsertAssetWithin ==
    ASSUME OnDisk, Up, NEW tx \in Txs, NEW name \in Names \cup {NoName},
           NEW quantity \in Quantities, InsertAsset(tx, name, quantity), Within
    PROVE  Within'
  <1> DEFINE n == Len(m_MemPool) + 1
             row == NewRow(tx, "asset", tx, name, quantity, -n, 0)
  <1>1. Insert(row)
    BY DEF InsertAsset
  <1>2. row \in Row /\ row.of = tx /\ row.tx = tx
    <2>1. m_Block \in Int /\ "asset" \in Kinds /\ quantity \in {0} \cup Quantities /\ -n \in Int
      BY UpTypes DEF Kinds
    <2> HIDE DEF n
    <2> QED
      BY <2>1, NewRowIs
  <1>3. row.quantity = quantity
    BY DEF NewRow
  <1> HIDE DEF row
  <1>4. tx \notin DOMAIN db /\ \A i \in 1..Len(m_MemPool) : m_MemPool[i].tx # tx
    <2>1. Unknown(row) /\ Waiting(m_MemPool)
      BY <1>1 DEF Insert, Up
    <2>2. /\ KeysOf(row) \cap DOMAIN db = {}
          /\ \A i \in 1..Len(m_MemPool) : KeysOf(row) \cap KeysOf(m_MemPool[i]) = {}
      BY <2>1, UnknownIs
    <2>3. tx \in KeysOf(row) /\ \A i \in 1..Len(m_MemPool) : m_MemPool[i].tx \in KeysOf(m_MemPool[i])
      BY <1>2 DEF KeysOf
    <2> QED
      BY <2>2, <2>3
  <1>5. Quantity(IssuesOf(tx, Known)) = 0
    <2>1. \A i \in DOMAIN Known : Known[i].of # tx
      BY <1>4, NothingKnown
    <2>2. Known \in Seq(Issue)
      BY UpTypes, KnownIs
    <2> QED
      BY <2>1, <2>2, QuantityOfNothing
  <1>6. Quantity(IssuesOf(tx, Known)) + row.quantity <= MaxQuantity
    BY <1>3, <1>5, EntityAssumption
  <1> QED
    BY <1>1, <1>2, <1>6, InsertWithin

\* ... a follow-on because what the node reports of its asset is all there is of it.
LEMMA InsertAssetFollowOnWithin ==
    ASSUME OnDisk, Up, NEW tx \in Txs, NEW original,
           NEW name \in Names \cup {NoName}, NEW quantity \in Quantities,
           InsertAssetFollowOn(tx, original, name, quantity), Within
    PROVE  Within'
  <1>1. PICK genesis \in GetEntity(original) :
          /\ genesis.kind = "asset" /\ Fits(genesis, quantity)
          /\ Insert(NewRow(tx, "follow", genesis.of, name, quantity, genesis.first,
                           LastPos(genesis)))
    BY DEF InsertAssetFollowOn
  <1> DEFINE row == NewRow(tx, "follow", genesis.of, name, quantity, genesis.first,
                           LastPos(genesis))
             a == genesis.of
  <1>2. /\ genesis.of \in Txs /\ genesis.first \in Int /\ genesis.chain \in Int
        /\ \/ /\ genesis.first \in 1..m_PrevPos
              /\ file[genesis.first].kind = "asset" /\ genesis.of = file[genesis.first].tx
              /\ IsEnd(file, genesis.first, m_PrevPos, genesis.chain)
           \/ /\ genesis.first < 0 /\ -genesis.first \in 1..Len(m_MemPool)
              /\ m_MemPool[-genesis.first].kind = "asset"
              /\ genesis.of = m_MemPool[-genesis.first].tx
    BY <1>1, GenesisIs
  <1>3. row \in Row /\ row.of = a
    <2>1. LastPos(genesis) \in Int
      BY <1>2, LastPosIs
    <2>2. m_Block \in Int /\ "follow" \in Kinds /\ quantity \in {0} \cup Quantities
      BY UpTypes DEF Kinds
    <2> DEFINE first == genesis.first
               last == LastPos(genesis)
    <2>3. a \in Txs /\ first \in Int /\ last \in Int
      BY <1>2, <2>1
    <2> HIDE DEF a, first, last
    <2>4. LET r == NewRow(tx, "follow", a, name, quantity, first, last)
          IN  /\ r \in Row /\ r.block = m_Block + 1
              /\ r.tx = tx /\ r.kind = "follow" /\ r.of = a
              /\ r.first = first /\ r.last = last
      BY <2>2, <2>3, NewRowIs
    <2> QED
      BY <2>4 DEF a, first, last
  <1>4. row.quantity = quantity
    BY DEF NewRow
  <1>5. Quantity(IssuesOf(a, Known)) <= GetTotalQuantity(genesis) /\ GetTotalQuantity(genesis) \in Int
    <2>1. Quantity(IssuesOf(a, Known)) \in Nat
      BY <1>2 DEF Within, Bounded
    <2>2. CASE genesis.first \in 1..m_PrevPos
      <3> DEFINE g == genesis.first
      <3>1. /\ g \in 1..header.last /\ file[g].kind = "asset" /\ a = file[g].tx
            /\ IsEnd(file, g, header.last, genesis.chain)
        BY <1>2, <2>2, UpTypes
      <3>2. GetTotalQuantity(genesis) = Quantity(IssuesOf(file[g].tx, Known))
        BY <3>1, ReportExact
      <3> QED
        BY <2>1, <3>1, <3>2
    <2>3. CASE genesis.first \notin 1..m_PrevPos
      <3>1. PICK j \in 1..Len(m_MemPool) : j = -genesis.first
        BY <1>2, <2>3
      <3>2. genesis.first = -j /\ m_MemPool[j].kind = "asset" /\ a = m_MemPool[j].tx
        BY <1>2, <2>3, <3>1
      <3> QED
        BY <3>2, ReportAtMost
    <2> QED
      BY <2>2, <2>3
  <1>6. Quantity(IssuesOf(row.of, Known)) + row.quantity <= MaxQuantity
    <2>1. GetTotalQuantity(genesis) + quantity <= MaxQuantity
      BY <1>1 DEF Fits
    <2>2. quantity \in Nat /\ MaxQuantity \in Nat /\ Quantity(IssuesOf(a, Known)) \in Nat
      BY <1>2, EntityAssumption DEF Within, Bounded
    <2> HIDE DEF row, a
    <2> QED
      BY <1>3, <1>4, <1>5, <2>1, <2>2
  <1> QED
    BY <1>1, <1>3, <1>6, InsertWithin

\* Without the rows in memory, and with fewer blocks, there are fewer issues.
LEMMA FewerWithin ==
    ASSUME OnDisk, m_MemPool \in Seq(Row), Within, m_MemPool' = <<>>,
           \/ chain' = chain
           \/ dbHeader = header /\ \E b \in 0..Len(chain) : chain' = SubSeq(chain, 1, b)
    PROVE  Within'
  <1> DEFINE H == dbHeader.last
  <1>1. /\ Confirmed \in Seq(Issue) /\ Len(Confirmed) = H
        /\ \A p \in 1..H : Confirmed[p] = IssueOf(file[p])
        /\ Known \in Seq(Issue) /\ Len(Known) = H + Len(m_MemPool)
        /\ \A p \in 1..H : Known[p] = IssueOf(file[p])
    BY KnownIs
  <1>2. H \in Nat /\ Len(m_MemPool) \in Nat /\ chain \in Seq(Seq(Issue))
    BY DiskTypes, LenProperties
  <1>3. Known' = FlattenSeq(chain') \o <<>>
    <2>1. Known' = Confirmed' \o [i \in DOMAIN m_MemPool' |-> IssueOf(m_MemPool'[i])]
      BY DEF Known, IssueOf
    <2>2. [i \in DOMAIN m_MemPool' |-> IssueOf(m_MemPool'[i])] = <<>>
      OBVIOUS
    <2> QED
      BY <2>1, <2>2 DEF Confirmed
  <1>4. CASE chain' = chain
    <2>1. Known' = Confirmed
      BY <1>1, <1>3, <1>4, ConcatEmptySeq DEF Confirmed
    <2>2. Starts(Confirmed, Known)
      BY <1>1, <1>2 DEF Starts
    <2> QED
      BY <2>1, <2>2, WithinIs, BoundedBefore DEF Within
  <1>5. ASSUME dbHeader = header, NEW b \in 0..Len(chain), chain' = SubSeq(chain, 1, b)
        PROVE  Within'
    <2> DEFINE u == UpTo(chain, b)
    <2>1. u \in Seq(Issue)
      BY <1>2, UpToIs
    <2>2. FlattenSeq(chain') = u
      BY <1>5 DEF UpTo
    <2>3. Known' = u
      <3> HIDE DEF u
      <3> QED
        BY <1>3, <2>1, <2>2, ConcatEmptySeq
    <2>4. Len(u) \in 0..H /\ \A p \in 1..Len(u) : u[p] = IssueOf(file[p])
      <3>1. Layered(file, H, chain)
        BY <1>5 DEF OnDisk
      <3> QED
        BY <3>1 DEF Layered
    <2> HIDE DEF u, H
    <2>5. Starts(u, Known)
      <3>1. ASSUME NEW p \in 1..Len(u) PROVE u[p] = Known[p]
        <4>1. p \in 1..H
          BY <1>2, <2>4
        <4> QED
          BY <1>1, <2>4, <4>1
      <3>2. Len(u) <= Len(Known)
        BY <1>1, <1>2, <2>4
      <3> QED
        BY <1>1, <2>1, <3>1, <3>2 DEF Starts
    <2> QED
      BY <2>3, <2>5, WithinIs, BoundedBefore DEF Within
  <1> QED
    BY <1>4, <1>5

\* A commit changes what is confirmed and not what is known.
LEMMA CommitLedgerWithin ==
    ASSUME OnDisk, Up, CommitLedger, Within
    PROVE  Within'
  <1>1. m_MemPool' = Placed /\ chain' = chain
    BY DEF CommitLedger
  <1>2. /\ Placed \in Seq(Row) /\ Len(Placed) = Len(m_MemPool)
        /\ \A i \in 1..Len(m_MemPool) : PlacedAs(m_MemPool[i], Placed[i], i)
    BY UpTypes, PlacedIs DEF Up
  <1>3. DOMAIN Placed = DOMAIN m_MemPool /\ DOMAIN m_MemPool = 1..Len(m_MemPool)
    BY <1>2, UpTypes, LenProperties
  <1>4. \A i \in DOMAIN m_MemPool : IssueOf(Placed[i]) = IssueOf(m_MemPool[i])
    BY <1>2, <1>3 DEF PlacedAs, IssueOf
  <1>5. [i \in DOMAIN Placed |-> IssueOf(Placed[i])]
            = [i \in DOMAIN m_MemPool |-> IssueOf(m_MemPool[i])]
    BY <1>3, <1>4
  <1>6. Known' = Known
    <2>1. Known' = Confirmed' \o [i \in DOMAIN m_MemPool' |-> IssueOf(m_MemPool'[i])]
      BY DEF Known, IssueOf
    <2>2. Confirmed' = Confirmed
      BY <1>1 DEF Confirmed
    <2> QED
      BY <1>1, <1>5, <2>1, <2>2 DEF Known
  <1> QED
    BY <1>6, WithinIs DEF Within

LEMMA CommitDatabaseWithin ==
    ASSUME OnDisk, Committing, CommitDatabase, Within
    PROVE  Within'
  <1> DEFINE issues == [i \in DOMAIN m_MemPool |-> IssueOf(m_MemPool[i])]
             l == Len(m_MemPool)
  <1>1. m_MemPool' = <<>> /\ chain' = Append(chain, issues)
    BY DEF CommitDatabase
  <1>2. m_MemPool \in Seq(Row) /\ l \in Nat /\ DOMAIN m_MemPool = 1..l /\ chain \in Seq(Seq(Issue))
    BY DiskTypes, LenProperties DEF Committing
  <1>3. issues \in Seq(Issue)
    <2>1. \A i \in 1..l : IssueOf(m_MemPool[i]) \in Issue
      BY <1>2, ElementOfSeq, IssueOfRow
    <2>2. issues \in [1..l -> Issue]
      BY <1>2, <2>1
    <2> QED
      BY <1>2, <2>2, SeqDef
  <1>4. Known' = FlattenSeq(chain') \o <<>>
    <2>1. Known' = Confirmed' \o [i \in DOMAIN m_MemPool' |-> IssueOf(m_MemPool'[i])]
      BY DEF Known, IssueOf
    <2>2. [i \in DOMAIN m_MemPool' |-> IssueOf(m_MemPool'[i])] = <<>>
      BY <1>1
    <2> QED
      BY <2>1, <2>2 DEF Confirmed
  <1>5. Known = Confirmed \o issues
    BY DEF Known
  <1> HIDE DEF issues
  <1>6. FlattenSeq(chain') = Confirmed \o issues
    BY <1>1, <1>2, <1>3, FlattenOne DEF Confirmed
  <1>7. Known \in Seq(Issue)
    BY <1>2, KnownIs
  <1>8. Known' = Known
    BY <1>4, <1>5, <1>6, <1>7, ConcatEmptySeq
  <1> QED
    BY <1>8, WithinIs DEF Within

LEMMA SameWithin ==
    ASSUME UNCHANGED <<m_MemPool, chain>>, Within
    PROVE  Within'
  <1>1. Known' = Known
    BY DEF Known, Confirmed, IssueOf
  <1> QED
    BY <1>1, WithinIs DEF Within

LEMMA NextWithin ==
    ASSUME IInv, [Next]_vars, Within
    PROVE  Within'
  <1>1. OnDisk
    BY DEF IInv
  <1>2. (phase = "up" => Up) /\ (phase = "commit" => Committing)
        /\ (phase = "rollback" => m_MemPool = <<>>)
    BY DEF IInv
  <1>3. phase \in {"up", "commit", "rollback"} => m_MemPool \in Seq(Row)
    BY <1>2, EmptySeq DEF Up, Waiting, Committing
  <1>4. ASSUME NEW tx \in Txs, NEW name \in Names \cup {NoName}, InsertEntity(tx, name)
        PROVE  Within'
    <2>1. Up
      BY <1>2, <1>4 DEF InsertEntity, HasRoom
    <2> QED
      BY <1>1, <1>4, <2>1, InsertEntityWithin
  <1>5. ASSUME NEW tx \in Txs, NEW name \in Names \cup {NoName}, NEW quantity \in Quantities,
               InsertAsset(tx, name, quantity)
        PROVE  Within'
    <2>1. Up
      BY <1>2, <1>5 DEF InsertAsset, HasRoom
    <2> QED
      BY <1>1, <1>5, <2>1, InsertAssetWithin
  <1>6. ASSUME NEW tx \in Txs, NEW original \in Txs, NEW name \in Names \cup {NoName},
               NEW quantity \in Quantities, InsertAssetFollowOn(tx, original, name, quantity)
        PROVE  Within'
    <2>1. Up
      BY <1>2, <1>6 DEF InsertAssetFollowOn, HasRoom
    <2> QED
      BY <1>1, <1>6, <2>1, InsertAssetFollowOnWithin
  <1>7. CASE ClearMemPool
    <2>1. phase = "up" /\ m_MemPool' = <<>> /\ chain' = chain
      BY <1>7 DEF ClearMemPool
    <2> QED
      BY <1>1, <1>3, <2>1, FewerWithin
  <1>8. CASE CommitLedger
    <2>1. Up
      BY <1>2, <1>8 DEF CommitLedger
    <2> QED
      BY <1>1, <1>8, <2>1, CommitLedgerWithin
  <1>9. CASE CommitDatabase
    <2>1. Committing
      BY <1>2, <1>9 DEF CommitDatabase
    <2> QED
      BY <1>1, <1>9, <2>1, CommitDatabaseWithin
  <1>10. ASSUME NEW k \in 0..(MaxPool - 1), LedgerFails(k)
         PROVE  Within'
    <2>1. phase = "up" /\ m_MemPool' = <<>> /\ chain' = chain
      BY <1>10 DEF LedgerFails
    <2> QED
      BY <1>1, <1>3, <2>1, FewerWithin
  <1>11. CASE RollBack
    <2>1. phase = "up"
      BY <1>11 DEF RollBack
    <2>2. PICK block \in 0..(Len(chain) - 1) :
              /\ RollBackDatabase(batch, block) \/ RollBackFails(batch, block)
              /\ chain' = SubSeq(chain, 1, block)
      BY <1>11 DEF RollBack
    <2>3. m_MemPool' = <<>>
      BY <2>2 DEF RollBackDatabase, RollBackFails
    <2>4. block \in 0..Len(chain) /\ dbHeader = header
      <3>1. Len(chain) \in Nat
        BY <1>1, DiskTypes
      <3> QED
        BY <1>2, <2>1, <3>1 DEF Up
    <2> QED
      BY <1>1, <1>3, <2>1, <2>2, <2>3, <2>4, FewerWithin
  <1>12. CASE DatabaseFails
    <2>1. phase = "commit" /\ m_MemPool' = <<>> /\ chain' = chain
      BY <1>12 DEF DatabaseFails, RollBackDatabase, RollBackFails
    <2> QED
      BY <1>1, <1>3, <2>1, FewerWithin
  <1>13. CASE RollBackHeader
    BY <1>13, SameWithin DEF RollBackHeader
  <1>14. CASE Crash
    <2>1. phase \in {"up", "commit", "rollback"} /\ m_MemPool' = <<>> /\ chain' = chain
      BY <1>14 DEF Crash
    <2> QED
      BY <1>1, <1>3, <2>1, FewerWithin
  <1>15. CASE Initialize
    BY <1>15, SameWithin DEF Initialize
  <1>16. CASE UNCHANGED vars
    BY <1>16, SameWithin DEF vars, memory
  <1> QED
    BY <1>4, <1>5, <1>6, <1>7, <1>8, <1>9, <1>10, <1>11, <1>12, <1>13, <1>14, <1>15, <1>16
       DEF Next

LEMMA InitWithin ==
    ASSUME Init
    PROVE  Within
  <1>1. OnDisk /\ m_MemPool = <<>> /\ dbHeader.last = 0
    BY InitHolds DEF IInv, Init
  <1>2. <<>> \in Seq(Row) /\ <<>> \in Seq(Issue) /\ Len(<<>>) = 0
    BY EmptySeq
  <1>3. Known \in Seq(Issue) /\ DOMAIN Known = {}
    <2>1. Known \in Seq(Issue) /\ Len(Known) = 0
      BY <1>1, <1>2, KnownIs
    <2> QED
      BY <2>1, LenProperties
  <1>4. \A asset \in Txs : Quantity(IssuesOf(asset, Known)) = 0
    BY <1>3, QuantityOfNothing
  <1> QED
    BY <1>4, EntityAssumption DEF Within, Bounded

\* No asset exceeds the largest quantity, whatever is confirmed, rolled back and issued
\* again.
THEOREM QuantityBoundedHolds ==
    ASSUME MaxFailPool <= 1
    PROVE  Spec => []QuantityBounded
  <1>1. Init => Within
    BY InitWithin
  <1>2. IInv /\ Within /\ [Next]_vars => Within'
    BY NextWithin
  <1>3. Within => QuantityBounded
    BY DEF Within, Bounded, QuantityBounded
  <1> QED
    BY <1>1, <1>2, <1>3, Invariance, PTL DEF Spec

=============================================================================
