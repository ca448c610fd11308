------------------------- MODULE PermissionsProofs --------------------------
(***************************************************************************)
(* For every set of addresses and types, every ledger and every order of   *)
(* the calls: the rows of a key are linked without a gap, whether they are *)
(* in the file or in memory, and the database names the last one in the    *)
(* file; the counts of administrators and miners that are kept up to date  *)
(* row by row are the numbers of addresses that hold the permission; every *)
(* decision of the administrators has the votes it needs; and Permissions  *)
(* implements PermissionHistory.                                           *)
(*                                                                         *)
(* The rows of the file and those in memory are one sequence here, All,    *)
(* whose element i is the row with the number i.                           *)
(***************************************************************************)
EXTENDS Permissions, OrderLemmas, FiniteSetTheorems

\* Row i is the last one of key k before row n; 0 if there is none.
LastIn(s, k, n, i) ==
    /\ i \in 0..(n - 1)
    /\ i # 0 => s[i].key = k
    /\ \A j \in (i + 1)..(n - 1) : s[j].key # k

Linked(s) ==
    \A i \in 1..Len(s) :
        /\ s[i].prev \in 0..(i - 1)
        /\ s[i].key \in LinkedKeys => LastIn(s, s[i].key, i, s[i].prev)

\* What row i says of its key.
RangeAt(s, i) == IF i = 0 THEN <<0, 0>> ELSE <<s[i].from, s[i].to>>

All == ledger \o m_MemPool

-----------------------------------------------------------------------------
(* Rows in a sequence.                                                     *)

LEMMA LastInUnique ==
    ASSUME NEW s, NEW k, NEW n \in Nat, NEW i, NEW j, LastIn(s, k, n, i), LastIn(s, k, n, j)
    PROVE  i = j
  BY DEF LastIn

\* Only the keys of the rows before n matter.
LEMMA LastInSame ==
    ASSUME NEW s, NEW t, NEW k, NEW n \in Nat, NEW i, LastIn(s, k, n, i),
           \A j \in 1..(n - 1) : t[j].key = s[j].key
    PROVE  LastIn(t, k, n, i)
  BY DEF LastIn

\* Rows of other keys change nothing.
LEMMA LastInLater ==
    ASSUME NEW s, NEW k, NEW n \in Nat, NEW m \in Nat, n <= m, NEW i, LastIn(s, k, n, i),
           \A j \in n..(m - 1) : s[j].key # k
    PROVE  LastIn(s, k, m, i)
  BY DEF LastIn

\* There is always one.
LEMMA LastInExists ==
    ASSUME NEW s, NEW k, NEW n \in Nat \ {0}
    PROVE  \E i \in 0..(n - 1) : LastIn(s, k, n, i)
  <1> DEFINE T == {i \in 0..(n - 1) : i = 0 \/ s[i].key = k}
  <1>1. 0 \in T /\ T \in SUBSET (0..(n - 1)) /\ n - 1 \in Nat
    OBVIOUS
  <1>2. PICK i \in T : \A j \in T : j <= i
    BY <1>1, Greatest
  <1>3. \A j \in (i + 1)..(n - 1) : s[j].key # k
    BY <1>2
  <1> QED
    BY <1>2, <1>3 DEF LastIn

\* t is the first rows of s, all of them perhaps.
FirstOf(t, s) == Len(t) <= Len(s) /\ \A i \in 1..Len(t) : t[i] = s[i]

LEMMA Joined ==
    ASSUME NEW S, NEW s \in Seq(S), NEW t \in Seq(S)
    PROVE  /\ Len(s) \in Nat /\ Len(t) \in Nat
           /\ s \o t \in Seq(S) /\ Len(s \o t) = Len(s) + Len(t)
           /\ \A i \in 1..Len(s) : (s \o t)[i] = s[i]
           /\ \A i \in 1..Len(t) : (s \o t)[Len(s) + i] = t[i]
           /\ \A i \in 1..(Len(s) + Len(t)) :
                 (s \o t)[i] = IF i <= Len(s) THEN s[i] ELSE t[i - Len(s)]
  <1>1. Len(s) \in Nat /\ Len(t) \in Nat
    BY LenProperties
  <1>2. /\ s \o t \in Seq(S) /\ Len(s \o t) = Len(s) + Len(t)
        /\ \A i \in 1..(Len(s) + Len(t)) :
              (s \o t)[i] = IF i <= Len(s) THEN s[i] ELSE t[i - Len(s)]
    BY <1>1, ConcatProperties
  <1>3. \A i \in 1..Len(t) : (s \o t)[Len(s) + i] = t[i]
    <2> TAKE i \in 1..Len(t)
    <2>1. /\ Len(s) + i \in 1..(Len(s) + Len(t)) /\ ~(Len(s) + i <= Len(s))
          /\ Len(s) + i - Len(s) = i
      BY <1>1
    <2> QED
      BY <1>2, <2>1
  <1>4. \A i \in 1..Len(s) : (s \o t)[i] = s[i]
    BY <1>1, <1>2
  <1> QED
    BY <1>1, <1>2, <1>3, <1>4

\* One more row behind the rows in memory is one more row.
LEMMA JoinedOne ==
    ASSUME NEW S, NEW s \in Seq(S), NEW t \in Seq(S), NEW r \in S
    PROVE  /\ Len(s \o t) \in Nat
           /\ s \o Append(t, r) \in Seq(S) /\ Append(t, r) \in Seq(S)
           /\ Len(s \o Append(t, r)) = Len(s \o t) + 1
           /\ FirstOf(s \o t, s \o Append(t, r))
           /\ (s \o Append(t, r))[Len(s \o t) + 1] = r
  <1> DEFINE u == Append(t, r)
  <1>1. /\ u \in Seq(S) /\ Len(u) = Len(t) + 1 /\ u[Len(t) + 1] = r
        /\ \A i \in 1..Len(t) : u[i] = t[i]
    BY AppendProperties
  <1> HIDE DEF u
  <1>2. /\ Len(s) \in Nat /\ Len(t) \in Nat /\ Len(s \o t) = Len(s) + Len(t)
        /\ \A i \in 1..(Len(s) + Len(t)) :
              (s \o t)[i] = IF i <= Len(s) THEN s[i] ELSE t[i - Len(s)]
    BY Joined
  <1>3. /\ s \o u \in Seq(S) /\ Len(s \o u) = Len(s) + Len(u)
        /\ \A i \in 1..(Len(s) + Len(u)) :
              (s \o u)[i] = IF i <= Len(s) THEN s[i] ELSE u[i - Len(s)]
    <2>1. u \in Seq(S)
      BY <1>1
    <2> QED
      BY <2>1, Joined
  <1>4. Len(s \o t) \in Nat /\ Len(s \o u) = Len(s \o t) + 1
    BY <1>1, <1>2, <1>3
  <1>5. ASSUME NEW i \in 1..Len(s \o t) PROVE (s \o u)[i] = (s \o t)[i]
    <2>1. CASE i <= Len(s)
      BY <1>1, <1>2, <1>3, <2>1
    <2>2. CASE ~(i <= Len(s))
      <3>1. i - Len(s) \in 1..Len(t) /\ i \in 1..(Len(s) + Len(u))
        BY <1>1, <1>2, <2>2
      <3> QED
        BY <1>1, <1>2, <1>3, <2>2, <3>1
    <2> QED
      BY <2>1, <2>2
  <1>6. (s \o u)[Len(s \o t) + 1] = r
    <2>1. /\ Len(s \o t) + 1 \in 1..(Len(s) + Len(u)) /\ ~(Len(s \o t) + 1 <= Len(s))
          /\ Len(s \o t) + 1 - Len(s) = Len(t) + 1
      BY <1>1, <1>2
    <2> QED
      BY <1>1, <1>3, <2>1
  <1>7. FirstOf(s \o t, s \o u)
    BY <1>4, <1>5 DEF FirstOf
  <1> QED
    BY <1>1, <1>3, <1>4, <1>6, <1>7 DEF u

\* Links hold in the first rows of a ledger, ...
LEMMA LinkedPrefix ==
    ASSUME NEW s, NEW t, Len(s) \in Nat, Len(t) \in Nat, Linked(s), FirstOf(t, s)
    PROVE  Linked(t)
  <1>1. SUFFICES ASSUME NEW i \in 1..Len(t)
                 PROVE  /\ t[i].prev \in 0..(i - 1)
                        /\ t[i].key \in LinkedKeys => LastIn(t, t[i].key, i, t[i].prev)
    BY DEF Linked
  <1>2. t[i] = s[i] /\ \A j \in 1..(i - 1) : t[j].key = s[j].key
    BY DEF FirstOf
  <1>3. i \in 1..Len(s) /\ i \in Nat
    BY DEF FirstOf
  <1>4. t[i].key \in LinkedKeys => LastIn(s, t[i].key, i, t[i].prev)
    BY <1>2, <1>3 DEF Linked
  <1> QED
    BY <1>2, <1>3, <1>4, LastInSame DEF Linked

\* ... and with one row more that links to the last of its key.
LEMMA LinkedAppend ==
    ASSUME NEW s, NEW t, Len(s) \in Nat, Len(t) = Len(s) + 1, Linked(s), FirstOf(s, t),
           t[Len(t)].prev \in 0..Len(s),
           t[Len(t)].key \in LinkedKeys => LastIn(s, t[Len(t)].key, Len(t), t[Len(t)].prev)
    PROVE  Linked(t)
  <1>1. SUFFICES ASSUME NEW i \in 1..Len(t)
                 PROVE  /\ t[i].prev \in 0..(i - 1)
                        /\ t[i].key \in LinkedKeys => LastIn(t, t[i].key, i, t[i].prev)
    BY DEF Linked
  <1>2. i = Len(t) \/ i \in 1..Len(s)
    OBVIOUS
  <1>3. /\ t[i].prev \in 0..(i - 1)
        /\ t[i].key \in LinkedKeys => LastIn(s, t[i].key, i, t[i].prev)
    <2>1. CASE i = Len(t)
      BY <2>1
    <2>2. CASE i \in 1..Len(s)
      BY <2>2 DEF Linked, FirstOf
    <2> QED
      BY <1>2, <2>1, <2>2
  <1>4. i \in Nat /\ \A j \in 1..(i - 1) : t[j].key = s[j].key
    BY DEF FirstOf
  <1> QED
    BY <1>3, <1>4, LastInSame

-----------------------------------------------------------------------------
(***************************************************************************)
(* The inductive invariant.  That a row was decided by a natural number of *)
(* administrators needs the counts to be right, and comes with them below. *)
(***************************************************************************)
IntRows ==
    [key : LinkedKeys \cup IndexKeys, prev : Nat, received : Nat,
     gfrom : Nat, gto : Nat, from : Nat, to : Nat,
     admin : Addresses \cup Nat, ts : Nat, consensus : Int]
CountRecords == [admin : Int, mine : Int]

Typed ==
    /\ m_Block \in Blocks
    /\ ledger \in Seq(IntRows) /\ m_MemPool \in Seq(IntRows)
    /\ m_Row = Len(ledger) + Len(m_MemPool) + 1
    /\ db \in [Keys -> [from : Nat, to : Nat, row : Nat]]
    /\ listed \subseteq PermKeys
    /\ counts \in CountRecords /\ cleared \in CountRecords
    /\ checkpoint \in [row : Nat, counts : CountRecords, size : Nat]
    /\ copied \in [pool : Seq(IntRows), counts : CountRecords]
    /\ call \in Calls

\* The database names the last row of every key in the file, with its range.
DbAt(s) ==
    \A k \in LinkedKeys : /\ LastIn(s, k, Len(s) + 1, db[k].row)
                          /\ <<db[k].from, db[k].to>> = RangeAt(s, db[k].row)

\* What the caller that holds cs_main may go back to.
InCall ==
    /\ call \in {"tx", "blocktx"} =>
          /\ checkpoint.size <= Len(m_MemPool)
          /\ checkpoint.row = Len(ledger) + checkpoint.size + 1
    /\ call = "copied" => copied.pool = m_MemPool
    /\ call = "cleared" => m_MemPool = <<>> /\ Linked(ledger \o copied.pool)

\* The rows of the file are in the order of their blocks, those in memory are of the
\* next block.
Received ==
    /\ \A i \in 1..Len(ledger) : /\ ledger[i].received \in 0..m_Block
                                 /\ \A j \in 1..i : ledger[j].received <= ledger[i].received
    /\ \A i \in 1..Len(m_MemPool) : m_MemPool[i].received = m_Block + 1
    /\ call \in {"copied", "cleared"} =>
          \A i \in 1..Len(copied.pool) : copied.pool[i].received = m_Block + 1

LInv == Typed /\ Linked(All) /\ DbAt(ledger) /\ InCall /\ Received

-----------------------------------------------------------------------------
(* What the model's operators say of All.                                  *)

\* The file, then the rows in memory.
LEMMA AllRows ==
    ASSUME Typed
    PROVE  /\ Len(ledger) \in Nat /\ Len(m_MemPool) \in Nat
           /\ Base = Len(ledger) + 1 /\ m_Row \in Nat
           /\ All \in Seq(IntRows) /\ Len(All) = m_Row - 1
           /\ \A i \in 1..Len(ledger) : All[i] = ledger[i]
           /\ \A i \in 1..Len(m_MemPool) : All[Len(ledger) + i] = m_MemPool[i]
           /\ \A i \in 1..(m_Row - 1) : Row(i) = All[i] /\ All[i] \in IntRows
  <1>1. ledger \in Seq(IntRows) /\ m_MemPool \in Seq(IntRows)
    BY DEF Typed
  <1>2. Len(ledger) \in Nat /\ Len(m_MemPool) \in Nat
    BY <1>1, LenProperties
  <1>3. m_Row = Len(ledger) + Len(m_MemPool) + 1
    BY DEF Typed
  <1>4. Base = Len(ledger) + 1 /\ m_Row \in Nat
    BY <1>2, <1>3 DEF Base
  <1>5. /\ All \in Seq(IntRows) /\ Len(All) = m_Row - 1
        /\ \A i \in 1..Len(All) : All[i] = IF i <= Len(ledger) THEN ledger[i]
                                           ELSE m_MemPool[i - Len(ledger)]
        /\ \A i \in 1..Len(ledger) : All[i] = ledger[i]
        /\ \A i \in 1..Len(m_MemPool) : All[Len(ledger) + i] = m_MemPool[i]
    BY <1>1, <1>2, <1>3, Joined DEF All
  <1>6. \A i \in 1..(m_Row - 1) : All[i] \in IntRows
    BY <1>5, <1>2, <1>3, ElementOfSeq
  <1>7. \A i \in 1..(m_Row - 1) : Row(i) = All[i]
    <2> TAKE i \in 1..(m_Row - 1)
    <2>1. CASE i <= Len(ledger)
      BY <1>2, <1>3, <1>4, <1>5, <2>1 DEF Row
    <2>2. CASE i > Len(ledger)
      <3>1. i - Base + 1 = i - Len(ledger)
        BY <1>2, <1>4
      <3> QED
        BY <1>2, <1>3, <1>4, <1>5, <2>2, <3>1 DEF Row
    <2> QED
      BY <1>2, <2>1, <2>2
  <1> QED
    BY <1>2, <1>4, <1>5, <1>6, <1>7

\* The database names a row of All.
LEMMA DbInAll ==
    ASSUME Typed, DbAt(ledger), NEW k \in LinkedKeys
    PROVE  /\ LastIn(All, k, Base, db[k].row)
           /\ <<db[k].from, db[k].to>> = RangeAt(All, db[k].row)
  <1>1. /\ LastIn(ledger, k, Len(ledger) + 1, db[k].row)
        /\ <<db[k].from, db[k].to>> = RangeAt(ledger, db[k].row)
    BY DEF DbAt
  <1>2. db[k].row \in 0..Len(ledger)
    BY <1>1, AllRows DEF LastIn
  <1>3. RangeAt(All, db[k].row) = RangeAt(ledger, db[k].row)
    BY <1>2, AllRows DEF RangeAt
  <1>4. Base \in Nat /\ Base = Len(ledger) + 1 /\ \A i \in 1..(Base - 1) : All[i].key = ledger[i].key
    BY AllRows
  <1> QED
    BY <1>1, <1>3, <1>4, LastInSame

\* GetPermission's walk over the rows in memory ends at the last row of the key.
LEMMA TipIsLast ==
    ASSUME Typed, Linked(All), DbAt(ledger), NEW k \in LinkedKeys
    PROVE  LastIn(All, k, m_Row, Tip(k)) /\ Tip(k) \in {db[k].row} \cup PoolOf(k)
  <1> DEFINE d == db[k].row
             C == {d} \cup PoolOf(k)
             P(t) == \A i \in PoolOf(k) : Row(i).prev # t
  <1>1. LastIn(All, k, Base, d) /\ d \in 0..(Base - 1)
    BY DbInAll DEF LastIn
  <1>2. Base \in 1..m_Row /\ m_Row \in Nat \ {0} /\ Len(All) = m_Row - 1
    BY AllRows DEF Base
  <1>3. \A i \in 1..(m_Row - 1) : Row(i) = All[i]
    BY AllRows
  <1>4. PoolOf(k) = {i \in Base..(m_Row - 1) : All[i].key = k}
    BY <1>2, <1>3 DEF PoolOf
  <1>5. \A i \in PoolOf(k) : /\ LastIn(All, k, i, Row(i).prev) /\ i \in Base..(m_Row - 1)
                            /\ Row(i).prev \in 0..(i - 1) /\ Row(i) = All[i]
    BY <1>2, <1>3, <1>4 DEF Linked
  <1> HIDE DEF d
  <1>6. PICK l \in 0..(m_Row - 1) : LastIn(All, k, m_Row, l)
    BY <1>2, LastInExists
  <1>7. l < Base => l = d
    <2> HAVE l < Base
    <2>1. LastIn(All, k, Base, l)
      BY <1>2, <1>6 DEF LastIn
    <2> QED
      BY <1>1, <1>2, <2>1, LastInUnique
  <1>8. l \in C
    BY <1>2, <1>4, <1>6, <1>7 DEF LastIn
  <1>9. \A i \in PoolOf(k) : i <= l
    BY <1>2, <1>4, <1>6 DEF LastIn
  <1>10. P(l)
    BY <1>2, <1>5, <1>9
  <1>11. ASSUME NEW t \in C, P(t), t # l PROVE FALSE
    <2>1. t \in 0..(m_Row - 1) /\ (t # 0 => All[t].key = k)
      BY <1>1, <1>2, <1>4 DEF LastIn
    <2>2. t < l /\ l >= Base /\ l \in PoolOf(k)
      BY <1>1, <1>2, <1>4, <1>7, <1>8, <1>9, <1>11, <2>1
    <2> DEFINE T == {i \in PoolOf(k) : i > t}
    <2>3. T \in SUBSET Nat /\ l \in T
      BY <1>2, <1>4, <2>2
    <2>4. PICK i \in T : \A j \in T : i <= j
      BY <2>3, Least
    <2>5. i \in PoolOf(k) /\ i > t /\ i \in Nat /\ i \in Base..(m_Row - 1)
      BY <1>2, <1>5
    <2>6. ASSUME NEW j \in (t + 1)..(i - 1), All[j].key = k PROVE FALSE
      <3>1. CASE j >= Base
        <4>1. j \in T
          BY <1>2, <1>4, <2>1, <2>5, <2>6, <3>1
        <4> QED
          BY <2>4, <2>5, <4>1, <2>1
      <3>2. CASE j < Base
        <4>1. t = d
          BY <1>2, <1>4, <2>1, <3>2
        <4> QED
          BY <1>1, <1>2, <2>1, <2>6, <3>2, <4>1 DEF LastIn
      <3> QED
        BY <1>2, <2>1, <2>5, <3>1, <3>2
    <2>7. LastIn(All, k, i, t)
      BY <2>1, <2>5, <2>6 DEF LastIn
    <2>8. Row(i).prev = t
      BY <1>5, <2>5, <2>7, LastInUnique
    <2> QED
      BY <1>11, <2>5, <2>8
  <1>12. Tip(k) = l
    BY <1>8, <1>10, <1>11 DEF Tip, d
  <1> QED
    BY <1>6, <1>8, <1>12 DEF d

\* GetPermission reads the range of that row.
LEMMA HeldIs ==
    ASSUME Typed, Linked(All), DbAt(ledger), NEW k \in LinkedKeys
    PROVE  Held(k) = RangeAt(All, Tip(k)) /\ Held(k) \in Nat \X Nat
  <1>1. Tip(k) \in PoolOf(k) => Held(k) = RangeAt(All, Tip(k)) /\ Held(k) \in Nat \X Nat
    <2> HAVE Tip(k) \in PoolOf(k)
    <2>1. Tip(k) \in 1..(m_Row - 1)
      BY AllRows DEF PoolOf
    <2>2. Row(Tip(k)) = All[Tip(k)] /\ All[Tip(k)] \in IntRows /\ Tip(k) # 0
      BY <2>1, AllRows
    <2>3. Held(k) = <<Row(Tip(k)).from, Row(Tip(k)).to>>
      BY DEF Held
    <2> QED
      BY <2>2, <2>3 DEF RangeAt, IntRows
  <1>2. Tip(k) \notin PoolOf(k) => Held(k) = RangeAt(All, Tip(k)) /\ Held(k) \in Nat \X Nat
    <2> HAVE Tip(k) \notin PoolOf(k)
    <2>1. Tip(k) = db[k].row
      BY TipIsLast
    <2>2. Held(k) = <<db[k].from, db[k].to>>
      BY DEF Held
    <2>3. db[k] \in [from : Nat, to : Nat, row : Nat]
      BY DEF Typed, Keys
    <2> QED
      BY <2>1, <2>2, <2>3, DbInAll
  <1> QED
    BY <1>1, <1>2

-----------------------------------------------------------------------------
(* The steps.                                                              *)

LEMMA ConsensusInt ==
    ASSUME Typed, NEW type \in Types
    PROVE  AdminConsensus(type) \in Int
  <1>1. /\ counts.admin \in Int /\ ConsensusShare[type] \in Int /\ Granularity \in Nat
        /\ Granularity # 0
    BY PermissionsAssumption DEF Typed, CountRecords
  <1>2. \A x \in Int : x \div Granularity \in Int
    BY <1>1
  <1>3. counts.admin * ConsensusShare[type] - 1 \in Int
    BY <1>1
  <1>4. (counts.admin * ConsensusShare[type] - 1) \div Granularity \in Int
    BY <1>2, <1>3
  <1> QED
    BY <1>4 DEF AdminConsensus

\* A row that was not decided keeps the range of the key.
NotDecided(q, f, t) == [q EXCEPT !.consensus = 0, !.from = f, !.to = t]

LEMMA NotDecidedIs ==
    ASSUME NEW q \in IntRows, NEW f \in Nat, NEW t \in Nat
    PROVE  LET u == NotDecided(q, f, t)
           IN  /\ u \in IntRows /\ u.from = f /\ u.to = t /\ u.consensus = 0
               /\ u.key = q.key /\ u.prev = q.prev /\ u.received = q.received
               /\ u.admin = q.admin /\ u.gfrom = q.gfrom /\ u.gto = q.gto
  <1> DEFINE q1 == [q EXCEPT !.consensus = 0]
             q2 == [q1 EXCEPT !.from = f]
             u == [q2 EXCEPT !.to = t]
  <1>1. NotDecided(q, f, t) = u
    BY DEF NotDecided, IntRows
  <1>2. q1 \in IntRows /\ q1.consensus = 0
    BY DEF IntRows
  <1>3. /\ q1.key = q.key /\ q1.prev = q.prev /\ q1.received = q.received
        /\ q1.admin = q.admin /\ q1.gfrom = q.gfrom /\ q1.gto = q.gto
    BY DEF IntRows
  <1> HIDE DEF q1
  <1>4. q2 \in IntRows /\ q2.from = f /\ q2.consensus = q1.consensus
    BY <1>2 DEF IntRows
  <1>5. /\ q2.key = q1.key /\ q2.prev = q1.prev /\ q2.received = q1.received
        /\ q2.admin = q1.admin /\ q2.gfrom = q1.gfrom /\ q2.gto = q1.gto
    BY <1>2 DEF IntRows
  <1> HIDE DEF q2
  <1>6. u \in IntRows /\ u.to = t /\ u.consensus = q2.consensus /\ u.from = q2.from
    BY <1>4 DEF IntRows
  <1>7. /\ u.key = q2.key /\ u.prev = q2.prev /\ u.received = q2.received
        /\ u.admin = q2.admin /\ u.gfrom = q2.gfrom /\ u.gto = q2.gto
    BY <1>4 DEF IntRows
  <1> HIDE DEF u
  <1> QED
    BY <1>1, <1>2, <1>3, <1>4, <1>5, <1>6, <1>7

\* A new grant: its row, and its link.
LEMMA NewRowIs ==
    ASSUME LInv, NEW a \in Addresses, NEW k \in PermKeys, NEW range \in Ranges,
           NEW ts \in Timestamps
    PROVE  LET r == NewRow(a, k, range, ts)
           IN  /\ r \in IntRows /\ r.key = k /\ r.prev = Tip(k) /\ r.received = m_Block + 1
               /\ r.admin \in {a, k[1]} /\ r.gfrom = range[1] /\ r.gto = range[2]
               /\ <<r.from, r.to>> \in {range, Held(k)}
               /\ r.consensus \in {0, AdminConsensus(k[2])}
  <1> DEFINE adm == IF counts.admin = 0 THEN k[1] ELSE a
             q == [key |-> k, prev |-> Tip(k), received |-> m_Block + 1,
                   gfrom |-> range[1], gto |-> range[2],
                   from |-> range[1], to |-> range[2],
                   admin |-> adm, ts |-> ts, consensus |-> AdminConsensus(k[2])]
             u == NotDecided(q, Held(k)[1], Held(k)[2])
  <1>1. /\ Held(k) \in Nat \X Nat /\ Tip(k) \in Nat /\ k[1] \in Addresses /\ k[2] \in Types
        /\ k \in LinkedKeys
    <2>1. k \in LinkedKeys /\ k[1] \in Addresses /\ k[2] \in Types
      BY DEF PermKeys, LinkedKeys
    <2> QED
      BY <2>1, HeldIs, TipIsLast DEF LInv, LastIn
  <1>2. range \in Nat \X Nat /\ ts \in Nat /\ m_Block + 1 \in Nat
    BY PermissionsAssumption DEF LInv, Typed, Blocks
  <1>3. AdminConsensus(k[2]) \in Int
    BY <1>1, ConsensusInt DEF LInv
  <1>4. adm \in {a, k[1]} /\ adm \in Addresses
    BY <1>1
  <1>5. Held(k) = <<Held(k)[1], Held(k)[2]>> /\ range = <<range[1], range[2]>>
    BY <1>1, <1>2
  <1>6. NewRow(a, k, range, ts) = IF Decided(q, q.consensus) THEN q ELSE u
    BY DEF NewRow, NotDecided
  <1> HIDE DEF adm
  <1>7. q \in IntRows
    BY <1>1, <1>2, <1>3, <1>4 DEF IntRows
  <1>8. /\ u \in IntRows /\ u.key = k /\ u.prev = Tip(k) /\ u.received = m_Block + 1
        /\ u.admin = adm /\ u.gfrom = range[1] /\ u.gto = range[2]
        /\ u.from = Held(k)[1] /\ u.to = Held(k)[2] /\ u.consensus = 0
    <2>1. /\ q.key = k /\ q.prev = Tip(k) /\ q.received = m_Block + 1
          /\ q.admin = adm /\ q.gfrom = range[1] /\ q.gto = range[2]
          /\ Held(k)[1] \in Nat /\ Held(k)[2] \in Nat
      BY <1>1
    <2> HIDE DEF q
    <2>2. /\ u \in IntRows /\ u.from = Held(k)[1] /\ u.to = Held(k)[2] /\ u.consensus = 0
          /\ u.key = q.key /\ u.prev = q.prev /\ u.received = q.received
          /\ u.admin = q.admin /\ u.gfrom = q.gfrom /\ u.gto = q.gto
      <3> DEFINE f == Held(k)[1]
                 t == Held(k)[2]
                 v == NotDecided(q, f, t)
      <3>1. f \in Nat /\ t \in Nat
        BY <2>1
      <3> HIDE DEF f, t
      <3>2. /\ v \in IntRows /\ v.from = f /\ v.to = t /\ v.consensus = 0
            /\ v.key = q.key /\ v.prev = q.prev /\ v.received = q.received
            /\ v.admin = q.admin /\ v.gfrom = q.gfrom /\ v.gto = q.gto
        BY <1>7, <3>1, NotDecidedIs
      <3> HIDE DEF v
      <3>3. u = v
        BY DEF v, f, t
      <3> HIDE DEF u
      <3> QED
        BY <3>2, <3>3 DEF f, t
    <2> HIDE DEF u
    <2> QED
      BY <2>1, <2>2
  <1>9. CASE NewRow(a, k, range, ts) = q
    BY <1>4, <1>5, <1>7, <1>9
  <1>10. CASE NewRow(a, k, range, ts) = u
    <2> HIDE DEF u
    <2> QED
      BY <1>4, <1>5, <1>8, <1>10
  <1> QED
    BY <1>6, <1>9, <1>10

LEMMA InitLInv == ASSUME Init PROVE LInv
  <1>1. ledger = <<>> /\ m_MemPool = <<>> /\ call = "none" /\ m_Block = -1 /\ m_Row = 1
    BY DEF Init
  <1>2. /\ Len(ledger) = 0 /\ ledger \in Seq(IntRows)
        /\ Len(m_MemPool) = 0 /\ m_MemPool \in Seq(IntRows)
    BY <1>1, EmptySeq
  <1>3. NoCount \in CountRecords
    BY DEF NoCount, CountRecords
  <1>4. /\ checkpoint = [row |-> 1, counts |-> NoCount, size |-> 0]
        /\ copied = [pool |-> <<>>, counts |-> NoCount]
    BY DEF Init
  <1>5. checkpoint \in [row : Nat, counts : CountRecords, size : Nat]
    BY <1>3, <1>4
  <1>6. copied \in [pool : Seq(IntRows), counts : CountRecords]
    BY <1>1, <1>2, <1>3, <1>4
  <1>7. db \in [Keys -> [from : Nat, to : Nat, row : Nat]]
    BY DEF Init, NoEntry
  <1>8. Typed
    BY <1>1, <1>2, <1>3, <1>5, <1>6, <1>7, PermissionsAssumption
       DEF Typed, Init, Blocks, Calls
  <1>9. Linked(All)
    <2>1. Len(All) = 0
      BY <1>1, <1>8, AllRows
    <2> QED
      BY <2>1 DEF Linked
  <1>10. DbAt(ledger)
    BY <1>2 DEF DbAt, LastIn, RangeAt, Init, NoEntry, LinkedKeys, Keys
  <1> QED
    BY <1>1, <1>2, <1>8, <1>9, <1>10 DEF LInv, InCall, Received

LEMMA SetPermissionLInv ==
    ASSUME LInv, NEW a \in Addresses, NEW k \in PermKeys, NEW range \in Ranges,
           NEW ts \in Timestamps, SetPermission(a, k, range, ts)
    PROVE  LInv'
  <1> DEFINE r == NewRow(a, k, range, ts)
  <1>1. /\ r \in IntRows /\ r.key = k /\ r.prev = Tip(k) /\ r.received = m_Block + 1
    BY NewRowIs
  <1>2. /\ m_MemPool' = Append(m_MemPool, r) /\ m_Row' = m_Row + 1
        /\ call \in {"tx", "blocktx"}
        /\ UNCHANGED <<m_Block, files, saved, call>>
    BY DEF SetPermission
  <1> HIDE DEF r
  <1>3. Typed
    BY DEF LInv
  <1>4. m_MemPool \in Seq(IntRows)
    BY <1>3 DEF Typed
  <1>5. /\ m_MemPool' \in Seq(IntRows) /\ Len(m_MemPool') = Len(m_MemPool) + 1
        /\ m_MemPool'[Len(m_MemPool) + 1] = r
        /\ \A i \in 1..Len(m_MemPool) : m_MemPool'[i] = m_MemPool[i]
    BY <1>1, <1>2, <1>4, AppendProperties
  <1>6. counts' \in CountRecords /\ cleared' \in CountRecords
    <2> DEFINE now == InForce(<<r.from, r.to>>, m_Block + 1)
               step == IF now = GetPermission(k) THEN 0 ELSE IF now THEN 1 ELSE -1
    <2>1. step \in Int
      OBVIOUS
    <2>2. /\ counts' = IF k[2] \in {"admin", "mine"}
                       THEN [counts EXCEPT ![k[2]] = @ + step] ELSE counts
          /\ cleared' = IF m_MemPool = <<>> THEN counts ELSE cleared
      BY DEF SetPermission, r
    <2>3. counts \in CountRecords /\ cleared \in CountRecords
      BY <1>3 DEF Typed
    <2> HIDE DEF step
    <2> QED
      BY <2>1, <2>2, <2>3 DEF CountRecords
  <1>7. Typed'
    <2>1. m_Row' = Len(ledger') + Len(m_MemPool') + 1
      BY <1>2, <1>3, <1>5, AllRows DEF Typed, files
    <2> QED
      BY <1>2, <1>3, <1>5, <1>6, <2>1 DEF Typed, files, saved
  <1>8. /\ Len(All') = Len(All) + 1 /\ Len(All) \in Nat /\ FirstOf(All, All')
        /\ All'[Len(All')] = r
    <2>1. All' = ledger \o Append(m_MemPool, r)
      BY <1>2 DEF files, All
    <2>2. ledger \in Seq(IntRows)
      BY <1>3 DEF Typed
    <2> QED
      BY <1>1, <1>4, <2>1, <2>2, JoinedOne DEF All
  <1>9. Linked(All')
    <2>1. LastIn(All, k, m_Row, Tip(k)) /\ Len(All') = m_Row
      <3>1. k \in LinkedKeys
        BY DEF LinkedKeys
      <3> QED
        BY <1>8, <3>1, TipIsLast, AllRows DEF LInv
    <2> QED
      BY <1>1, <1>8, <2>1, LinkedAppend DEF LInv, LastIn
  <1>10. DbAt(ledger)'
    BY <1>2 DEF LInv, DbAt, files
  <1>11. InCall'
    BY <1>2, <1>3, <1>5, AllRows DEF LInv, InCall, files, saved, Typed
  <1>12. Received'
    <2>1. \A i \in 1..Len(m_MemPool') : m_MemPool'[i].received = m_Block' + 1
      BY <1>1, <1>2, <1>3, <1>5, AllRows DEF LInv, Received
    <2> QED
      BY <1>2, <2>1 DEF LInv, Received, files, saved
  <1> QED
    BY <1>7, <1>9, <1>10, <1>11, <1>12 DEF LInv

\* The file alone is the first rows of All.
LEMMA FileLinked ==
    ASSUME LInv
    PROVE  /\ Linked(ledger \o <<>>) /\ ledger \o <<>> = ledger
           /\ Len(ledger) \in Nat /\ Len(m_MemPool) \in Nat /\ FirstOf(ledger, All)
  <1>1. ledger \in Seq(IntRows) /\ m_MemPool \in Seq(IntRows) /\ Linked(All)
    BY DEF LInv, Typed
  <1>2. ledger \o <<>> = ledger
    BY <1>1, ConcatEmptySeq
  <1>3. /\ Len(ledger) \in Nat /\ Len(All) \in Nat /\ Len(m_MemPool) \in Nat
        /\ FirstOf(ledger, All)
    BY <1>1, Joined DEF All, FirstOf
  <1> QED
    BY <1>1, <1>2, <1>3, LinkedPrefix

\* So do the file and the first rows in memory.
LEMMA PoolPrefixLinked ==
    ASSUME LInv, NEW n \in 0..Len(m_MemPool)
    PROVE  /\ Linked(ledger \o SubSeq(m_MemPool, 1, n))
           /\ FirstOf(ledger \o SubSeq(m_MemPool, 1, n), All)
           /\ Len(ledger \o SubSeq(m_MemPool, 1, n)) \in Nat
  <1> DEFINE t == SubSeq(m_MemPool, 1, n)
  <1>1. ledger \in Seq(IntRows) /\ m_MemPool \in Seq(IntRows) /\ Linked(All)
    BY DEF LInv, Typed
  <1>2. t \in Seq(IntRows) /\ Len(t) = n /\ \A i \in 1..n : t[i] = m_MemPool[i]
    BY <1>1, PrefixOf
  <1> HIDE DEF t
  <1>3. /\ Len(ledger) \in Nat /\ Len(m_MemPool) \in Nat /\ Len(All) = Len(ledger) + Len(m_MemPool)
        /\ \A i \in 1..(Len(ledger) + Len(m_MemPool)) :
              All[i] = IF i <= Len(ledger) THEN ledger[i] ELSE m_MemPool[i - Len(ledger)]
    BY <1>1, Joined DEF All
  <1>4. /\ Len(ledger \o t) = Len(ledger) + n
        /\ \A i \in 1..(Len(ledger) + n) :
              (ledger \o t)[i] = IF i <= Len(ledger) THEN ledger[i] ELSE t[i - Len(ledger)]
    <2>1. ledger \in Seq(IntRows) /\ t \in Seq(IntRows)
      BY <1>1, <1>2
    <2>2. /\ Len(ledger \o t) = Len(ledger) + Len(t)
          /\ \A i \in 1..(Len(ledger) + Len(t)) :
                (ledger \o t)[i] = IF i <= Len(ledger) THEN ledger[i] ELSE t[i - Len(ledger)]
      BY <2>1, Joined
    <2> QED
      BY <1>2, <2>2
  <1>5. ASSUME NEW i \in 1..(Len(ledger) + n) PROVE (ledger \o t)[i] = All[i]
    <2>1. CASE i <= Len(ledger)
      BY <1>3, <1>4, <2>1
    <2>2. CASE ~(i <= Len(ledger))
      <3>1. i - Len(ledger) \in 1..n /\ i \in 1..(Len(ledger) + Len(m_MemPool))
        BY <1>3, <2>2
      <3> QED
        BY <1>2, <1>3, <1>4, <2>2, <3>1
    <2> QED
      BY <2>1, <2>2
  <1>6. /\ Len(ledger \o t) \in Nat /\ Len(All) \in Nat /\ FirstOf(ledger \o t, All)
    BY <1>3, <1>4, <1>5 DEF FirstOf
  <1>7. Linked(ledger \o t)
    BY <1>1, <1>6, LinkedPrefix
  <1> QED
    BY <1>6, <1>7 DEF t

LEMMA SetCheckPointLInv == ASSUME LInv, SetCheckPoint PROVE LInv'
  <1>1. /\ call \in {"none", "block"} /\ call' = IF call = "none" THEN "tx" ELSE "blocktx"
        /\ checkpoint' = [row |-> m_Row, counts |-> counts, size |-> Len(m_MemPool)]
        /\ UNCHANGED <<m_Block, m_Row, m_MemPool, files, counts, cleared, copied>>
    BY DEF SetCheckPoint
  <1>2. /\ m_Row \in Nat /\ Len(m_MemPool) \in Nat /\ Len(ledger) \in Nat
        /\ m_Row = Len(ledger) + Len(m_MemPool) + 1 /\ counts \in CountRecords
    BY AllRows DEF LInv, Typed
  <1>3. /\ checkpoint' \in [row : Nat, counts : CountRecords, size : Nat]
        /\ checkpoint'.row = m_Row /\ checkpoint'.size = Len(m_MemPool)
    BY <1>1, <1>2
  <1>4. Typed'
    BY <1>1, <1>3 DEF LInv, Typed, files, Calls
  <1>5. InCall'
    BY <1>1, <1>2, <1>3 DEF LInv, InCall, files
  <1> QED
    BY <1>1, <1>4, <1>5 DEF LInv, files, All, DbAt, Received

LEMMA AcceptTxLInv == ASSUME LInv, AcceptTx PROVE LInv'
  BY DEF AcceptTx, LInv, Typed, InCall, files, saved, All, DbAt, Received, Calls

LEMMA AbandonBlockLInv == ASSUME LInv, AbandonBlock PROVE LInv'
  BY DEF AbandonBlock, LInv, Typed, InCall, files, saved, All, DbAt, Received, Calls

LEMMA CopyMemPoolLInv == ASSUME LInv, CopyMemPool PROVE LInv'
  <1>1. /\ call = "none" /\ call' = "copied"
        /\ copied' = [pool |-> m_MemPool, counts |-> counts]
        /\ UNCHANGED <<m_Block, m_Row, m_MemPool, files, counts, cleared, checkpoint>>
    BY DEF CopyMemPool
  <1>2. /\ copied' \in [pool : Seq(IntRows), counts : CountRecords]
        /\ copied'.pool = m_MemPool
    BY <1>1 DEF LInv, Typed
  <1>3. Typed'
    BY <1>1, <1>2 DEF LInv, Typed, files, Calls
  <1>4. InCall'
    BY <1>1, <1>2 DEF LInv, InCall, files
  <1>5. Received'
    BY <1>1, <1>2 DEF LInv, Received, files
  <1> QED
    BY <1>1, <1>3, <1>4, <1>5 DEF LInv, files, All, DbAt

LEMMA RollBackToCheckPointLInv == ASSUME LInv, RollBackToCheckPoint PROVE LInv'
  <1> DEFINE n == checkpoint.size
  <1>1. /\ call \in {"tx", "blocktx"} /\ call' = "none"
        /\ m_Row' = checkpoint.row /\ counts' = checkpoint.counts
        /\ m_MemPool' = SubSeq(m_MemPool, 1, n)
        /\ UNCHANGED <<m_Block, files, cleared, saved>>
    BY DEF RollBackToCheckPoint
  <1>2. /\ n \in 0..Len(m_MemPool) /\ checkpoint.row = Len(ledger) + n + 1
        /\ checkpoint.counts \in CountRecords /\ Len(m_MemPool) \in Nat
    BY <1>1, AllRows DEF LInv, Typed, InCall
  <1>3. /\ m_MemPool' \in Seq(IntRows) /\ Len(m_MemPool') = n
        /\ \A i \in 1..n : m_MemPool'[i] = m_MemPool[i]
    BY <1>1, <1>2, PrefixOf DEF LInv, Typed
  <1>4. Typed'
    BY <1>1, <1>2, <1>3 DEF LInv, Typed, files, saved, Calls
  <1>5. Linked(All')
    BY <1>1, <1>2, PoolPrefixLinked DEF All, files
  <1>6. Received'
    <2>1. \A i \in 1..Len(m_MemPool') : m_MemPool'[i].received = m_Block' + 1
      BY <1>1, <1>2, <1>3 DEF LInv, Received
    <2> QED
      BY <1>1, <2>1 DEF LInv, Received, files
  <1> QED
    BY <1>1, <1>4, <1>5, <1>6 DEF LInv, InCall, DbAt, files

LEMMA ClearedTyped == ASSUME Typed PROVE ClearedCounts \in CountRecords
  <1>1. \A type : Cardinality(Counted(db, listed, m_Block, type)) \in Int
    <2> TAKE type
    <2>1. IsFiniteSet(Counted(db, listed, m_Block, type))
      BY PermissionsAssumption, FS_Subset DEF Counted
    <2> QED
      BY <2>1, FS_CardinalityType
  <1>2. UpdateCounts(db, listed, m_Block) \in CountRecords
    BY <1>1 DEF UpdateCounts, CountRecords
  <1> QED
    BY <1>2 DEF ClearedCounts, Typed

LEMMA ClearMemPoolLInv == ASSUME LInv, ClearMemPool PROVE LInv'
  <1>1. /\ m_Row' = Base /\ m_MemPool' = <<>> /\ call \in {"none", "copied"}
        /\ counts' = ClearedCounts /\ cleared' = ClearedCounts
        /\ call' \in {"none", "block", "cleared"} /\ (call' = "cleared" => call = "copied")
        /\ UNCHANGED <<m_Block, files, saved>>
    BY DEF ClearMemPool
  <1>2. m_MemPool' \in Seq(IntRows) /\ Len(m_MemPool') = 0 /\ Base = Len(ledger) + 0 + 1
    BY <1>1, EmptySeq, AllRows DEF LInv
  <1>3. Typed'
    BY <1>1, <1>2, ClearedTyped DEF LInv, Typed, files, saved, Calls
  <1>4. Linked(All')
    BY <1>1, FileLinked DEF All, files
  <1>5. InCall'
    BY <1>1 DEF LInv, InCall, files, saved, All
  <1>6. Received'
    BY <1>1, <1>2 DEF LInv, Received, files, saved
  <1> QED
    BY <1>1, <1>3, <1>4, <1>5, <1>6 DEF LInv, DbAt, files

LEMMA RestoreMemPoolLInv == ASSUME LInv, RestoreMemPool PROVE LInv'
  <1>1. /\ m_Row' = Base + Len(copied.pool) /\ m_MemPool' = copied.pool
        /\ counts' = copied.counts /\ cleared' = ClearedCounts
        /\ call = "cleared" /\ call' = "none"
        /\ UNCHANGED <<m_Block, files, saved>>
    BY DEF RestoreMemPool
  <1>2. copied.pool \in Seq(IntRows) /\ copied.counts \in CountRecords
    BY DEF LInv, Typed
  <1>3. m_Row' = Len(ledger) + Len(m_MemPool') + 1
    BY <1>1, <1>2, AllRows, LenProperties DEF LInv
  <1>4. Typed'
    BY <1>1, <1>2, <1>3, ClearedTyped DEF LInv, Typed, files, saved, Calls
  <1>5. Linked(All')
    BY <1>1 DEF LInv, InCall, All, files
  <1>6. Received'
    BY <1>1 DEF LInv, Received, files, saved
  <1> QED
    BY <1>1, <1>4, <1>5, <1>6 DEF LInv, InCall, DbAt, files

-----------------------------------------------------------------------------
(* Connecting and disconnecting blocks.                                    *)

LEMMA AppendTwo ==
    ASSUME NEW S, NEW s \in Seq(S), NEW x \in S, NEW y \in S
    PROVE  s \o <<x, y>> = Append(Append(s, x), y)
  OBVIOUS

LEMMA BlockRowTyped ==
    ASSUME NEW k \in LinkedKeys \cup IndexKeys, NEW p \in Nat, NEW at \in Nat,
           k[1] \in Addresses \cup Nat
    PROVE  /\ BlockRow(k, p, at) \in IntRows
           /\ BlockRow(k, p, at).key = k /\ BlockRow(k, p, at).prev = p
           /\ BlockRow(k, p, at).received = at /\ BlockRow(k, p, at).consensus = 0
  BY DEF BlockRow, IntRows

\* The rows of a block: those in memory and the two that every block adds.
LEMMA AppendedIs ==
    ASSUME LInv, NEW miner \in Addresses
    PROVE  LET new == Appended(miner)
           IN  /\ new \in Seq(IntRows) /\ Len(new) = Len(m_MemPool) + 2
               /\ \A i \in 1..Len(m_MemPool) : new[i] = m_MemPool[i]
               /\ new[Len(m_MemPool) + 1].key = <<miner, "miner">>
               /\ new[Len(m_MemPool) + 2].key = <<m_Block + 1, "index">>
               /\ \A i \in 1..Len(new) : new[i].received = m_Block + 1
               /\ \A i \in (Len(m_MemPool) + 1)..Len(new) : /\ new[i].key \notin PermKeys
                                                           /\ new[i].consensus = 0
               /\ Linked(ledger \o new)
  <1> DEFINE km == <<miner, "miner">>
             ki == <<m_Block + 1, "index">>
             x  == BlockRow(km, Tip(km), m_Block + 1)
             y  == BlockRow(ki, Base - 1, m_Block + 1)
             p1 == Append(m_MemPool, x)
             new == Append(p1, y)
  <1>1. /\ Typed /\ Linked(All) /\ DbAt(ledger)
        /\ m_MemPool \in Seq(IntRows) /\ ledger \in Seq(IntRows)
        /\ m_Block + 1 \in Nat
    BY DEF LInv, Typed, Blocks
  <1>2. /\ km \in LinkedKeys /\ km[1] = miner /\ ki \in IndexKeys /\ ki[1] = m_Block + 1
        /\ ki \notin LinkedKeys /\ km \notin PermKeys /\ ki \notin PermKeys
    <2>1. "index" # "miner" /\ "miner" \notin Types /\ "index" \notin Types
      BY PermissionsAssumption
    <2>2. km \in LinkedKeys /\ km[1] = miner /\ ki \in IndexKeys /\ ki[1] = m_Block + 1
      BY <1>1 DEF LinkedKeys, MinerKeys, IndexKeys
    <2> QED
      BY <2>1, <2>2 DEF LinkedKeys, MinerKeys, PermKeys
  <1>3. /\ LastIn(All, km, m_Row, Tip(km)) /\ Tip(km) \in 0..(m_Row - 1)
    BY <1>1, <1>2, TipIsLast DEF LastIn
  <1>4. /\ m_Row \in Nat /\ Len(All) = m_Row - 1 /\ Len(m_MemPool) \in Nat
        /\ Len(ledger) \in Nat /\ Base = Len(ledger) + 1
        /\ m_Row = Len(ledger) + Len(m_MemPool) + 1
    BY <1>1, AllRows DEF Typed
  <1> HIDE DEF km, ki
  <1>5. /\ x.consensus = 0 /\ y.consensus = 0
        /\ x \in IntRows /\ x.key = km /\ x.prev = Tip(km) /\ x.received = m_Block + 1
        /\ y \in IntRows /\ y.key = ki /\ y.prev = Len(ledger) /\ y.received = m_Block + 1
    <2>1. Tip(km) \in Nat /\ Base - 1 = Len(ledger) /\ Base - 1 \in Nat
      BY <1>3, <1>4
    <2> QED
      BY <1>1, <1>2, <2>1, BlockRowTyped
  <1>6. Appended(miner) = new
    <2>1. Appended(miner) = m_MemPool \o <<x, y>>
      BY DEF Appended, km, ki
    <2> QED
      BY <1>1, <1>5, <2>1, AppendTwo
  <1> HIDE DEF x, y
  <1>7. /\ p1 \in Seq(IntRows) /\ Len(p1) = Len(m_MemPool) + 1 /\ p1[Len(m_MemPool) + 1] = x
        /\ \A i \in 1..Len(m_MemPool) : p1[i] = m_MemPool[i]
    BY <1>1, <1>5, AppendProperties
  <1>8. /\ Len(All) \in Nat /\ ledger \o p1 \in Seq(IntRows)
        /\ Len(ledger \o p1) = Len(All) + 1
        /\ FirstOf(All, ledger \o p1) /\ (ledger \o p1)[Len(All) + 1] = x
    BY <1>1, <1>5, JoinedOne DEF All
  <1> HIDE DEF p1
  <1>9. /\ new \in Seq(IntRows) /\ Len(new) = Len(p1) + 1 /\ new[Len(p1) + 1] = y
        /\ \A i \in 1..Len(p1) : new[i] = p1[i]
    BY <1>5, <1>7, AppendProperties
  <1>10. /\ Len(ledger \o p1) \in Nat
         /\ Len(ledger \o new) = Len(ledger \o p1) + 1
         /\ FirstOf(ledger \o p1, ledger \o new)
         /\ (ledger \o new)[Len(ledger \o p1) + 1] = y
    <2>1. p1 \in Seq(IntRows)
      BY <1>7
    <2> QED
      BY <1>1, <1>5, <2>1, JoinedOne
  <1> HIDE DEF new
  <1>11. Linked(ledger \o p1)
    <2>1. Len(All) + 1 = m_Row /\ x.prev \in 0..Len(All)
      BY <1>3, <1>4, <1>5
    <2> QED
      BY <1>1, <1>3, <1>5, <1>8, <2>1, LinkedAppend
  <1>12. Linked(ledger \o new)
    <2>1. y.prev \in 0..Len(ledger \o p1) /\ y.key \notin LinkedKeys
      BY <1>2, <1>4, <1>5, <1>8
    <2> QED
      BY <1>10, <1>11, <2>1, LinkedAppend
  <1>13. Len(new) = Len(m_MemPool) + 2 /\ new[Len(m_MemPool) + 2] = y
    BY <1>4, <1>7, <1>9
  <1>14. /\ \A i \in 1..Len(m_MemPool) : new[i] = m_MemPool[i]
         /\ new[Len(m_MemPool) + 1] = x
    BY <1>4, <1>7, <1>9
  <1>15. \A i \in 1..Len(new) : new[i].received = m_Block + 1
    BY <1>4, <1>5, <1>13, <1>14 DEF LInv, Received
  <1>16. \A i \in (Len(m_MemPool) + 1)..Len(new) : new[i].key \notin PermKeys /\ new[i].consensus = 0
    BY <1>2, <1>4, <1>5, <1>13, <1>14
  <1>17. new \in Seq(IntRows)
    BY <1>9
  <1> QED
    BY <1>5, <1>6, <1>12, <1>13, <1>14, <1>15, <1>16, <1>17 DEF km, ki

\* They come behind all the rows there are, and grant nothing.
LEMMA AppendedExtends ==
    ASSUME LInv, NEW miner \in Addresses
    PROVE  LET t == ledger \o Appended(miner)
           IN  /\ Len(All) \in Nat /\ Len(t) \in Nat /\ FirstOf(All, t)
               /\ \A j \in (Len(All) + 1)..Len(t) : t[j].key \notin PermKeys /\ t[j].consensus = 0
  <1> DEFINE new == Appended(miner)
             t == ledger \o new
  <1>1. /\ new \in Seq(IntRows) /\ Len(new) = Len(m_MemPool) + 2
        /\ \A i \in 1..Len(m_MemPool) : new[i] = m_MemPool[i]
        /\ \A i \in (Len(m_MemPool) + 1)..Len(new) : /\ new[i].key \notin PermKeys
                                                    /\ new[i].consensus = 0
    BY AppendedIs
  <1> HIDE DEF new
  <1>2. ledger \in Seq(IntRows) /\ m_MemPool \in Seq(IntRows)
    BY DEF LInv, Typed
  <1>3. /\ Len(ledger) \in Nat /\ Len(m_MemPool) \in Nat
        /\ Len(All) = Len(ledger) + Len(m_MemPool)
        /\ \A i \in 1..(Len(ledger) + Len(m_MemPool)) :
              All[i] = IF i <= Len(ledger) THEN ledger[i] ELSE m_MemPool[i - Len(ledger)]
    BY <1>2, Joined DEF All
  <1>4. /\ Len(t) = Len(ledger) + Len(new)
        /\ \A i \in 1..(Len(ledger) + Len(new)) :
              t[i] = IF i <= Len(ledger) THEN ledger[i] ELSE new[i - Len(ledger)]
    <2>1. new \in Seq(IntRows)
      BY <1>1
    <2> QED
      BY <1>2, <2>1, Joined
  <1> HIDE DEF t
  <1>5. Len(All) \in Nat /\ Len(t) \in Nat /\ Len(All) <= Len(t)
    BY <1>1, <1>3, <1>4
  <1>6. ASSUME NEW i \in 1..Len(All) PROVE t[i] = All[i]
    <2>1. i \in 1..(Len(ledger) + Len(m_MemPool)) /\ i \in 1..(Len(ledger) + Len(new))
      BY <1>1, <1>3
    <2>2. CASE i <= Len(ledger)
      BY <1>3, <1>4, <2>1, <2>2
    <2>3. CASE ~(i <= Len(ledger))
      <3>1. i - Len(ledger) \in 1..Len(m_MemPool)
        BY <1>3, <2>1, <2>3
      <3> QED
        BY <1>1, <1>3, <1>4, <2>1, <2>3, <3>1
    <2> QED
      BY <2>2, <2>3
  <1>7. ASSUME NEW j \in (Len(All) + 1)..Len(t) PROVE t[j].key \notin PermKeys /\ t[j].consensus = 0
    <2>1. /\ j \in 1..(Len(ledger) + Len(new)) /\ ~(j <= Len(ledger))
          /\ j - Len(ledger) \in (Len(m_MemPool) + 1)..Len(new)
      BY <1>1, <1>3, <1>4
    <2> QED
      BY <1>1, <1>4, <2>1
  <1>8. FirstOf(All, t)
    BY <1>5, <1>6 DEF FirstOf
  <1> QED
    BY <1>5, <1>7, <1>8 DEF t, new

LEMMA CommitCannotOpenLInv ==
    ASSUME LInv, NEW miner \in Addresses, CommitCannotOpen(miner)
    PROVE  LInv'
  <1>1. /\ call' = "none" /\ m_Row' = m_Row + 2 /\ m_MemPool' = Appended(miner)
        /\ UNCHANGED <<m_Block, files, counts, cleared, saved>>
    BY DEF CommitCannotOpen
  <1>2. /\ m_MemPool' \in Seq(IntRows) /\ Len(m_MemPool') = Len(m_MemPool) + 2
        /\ \A i \in 1..Len(m_MemPool') : m_MemPool'[i].received = m_Block + 1
        /\ Linked(ledger \o m_MemPool')
    BY <1>1, AppendedIs
  <1>3. m_Row' = Len(ledger) + Len(m_MemPool') + 1
    BY <1>1, <1>2, AllRows DEF LInv, Typed
  <1>4. Typed'
    BY <1>1, <1>2, <1>3 DEF LInv, Typed, files, saved, Calls
  <1>5. Received'
    BY <1>1, <1>2 DEF LInv, Received, files
  <1> QED
    BY <1>1, <1>2, <1>4, <1>5 DEF LInv, InCall, DbAt, All, files

\* The entry a committed block leaves in the database for key k: that of its last row of
\* the key, if it has one.
EntryOf(s, base, k) ==
    \/ (\A i \in 1..Len(s) : s[i].key # k) /\ Indexed(s, base)[k] = db[k]
    \/ \E last \in 1..Len(s) :
          /\ s[last].key = k /\ \A j \in (last + 1)..Len(s) : s[j].key # k
          /\ Indexed(s, base)[k] = [from |-> s[last].from, to |-> s[last].to,
                                    row |-> base + last - 1]

LEMMA IndexedIs ==
    ASSUME NEW s, NEW base \in Nat, NEW k \in Keys, Len(s) \in Nat
    PROVE  EntryOf(s, base, k)
  <1> DEFINE mine == {i \in 1..Len(s) : s[i].key = k}
             last == CHOOSE i \in mine : \A j \in mine : j <= i
  <1>1. Indexed(s, base)[k] =
            IF mine = {} THEN db[k]
            ELSE [from |-> s[last].from, to |-> s[last].to, row |-> base + last - 1]
    BY DEF Indexed
  <1>2. CASE mine = {}
    BY <1>1, <1>2 DEF EntryOf
  <1>3. CASE mine # {}
    <2>1. mine \in SUBSET (0..Len(s))
      OBVIOUS
    <2>2. \E i \in mine : \A j \in mine : j <= i
      <3> HIDE DEF mine
      <3> QED
        BY <1>3, <2>1, Greatest
    <2>3. last \in mine /\ \A j \in mine : j <= last
      BY <2>2
    <2> HIDE DEF last
    <2>4. last \in 1..Len(s) /\ s[last].key = k
      BY <2>3
    <2>5. \A j \in (last + 1)..Len(s) : s[j].key # k
      BY <2>3, <2>4
    <2> QED
      BY <1>1, <1>3, <2>4, <2>5 DEF EntryOf
  <1> QED
    BY <1>2, <1>3

LEMMA CommitLInv == ASSUME LInv, NEW miner \in Addresses, Commit(miner) PROVE LInv'
  <1> DEFINE new == Appended(miner)
  <1>1. /\ call' = "none" /\ m_Row' = m_Row + 2 /\ m_MemPool' = <<>>
        /\ m_Block < MaxBlock /\ m_Block' = m_Block + 1
        /\ ledger' = ledger \o new /\ db' = Indexed(new, Base)
        /\ UNCHANGED saved
    BY DEF Commit
  <1>2. counts' = UpdateCounts(db', listed', m_Block + 1) /\ cleared' = counts'
    BY DEF Commit
  <1>3. listed' = listed \cup {new[i].key : i \in
                         {j \in 1..Len(new) : new[j].key[2] \in {"admin", "mine"}}}
    BY DEF Commit
  <1>4. /\ new \in Seq(IntRows) /\ Len(new) = Len(m_MemPool) + 2
        /\ \A i \in 1..Len(new) : new[i].received = m_Block + 1
        /\ Linked(ledger \o new)
        /\ new[Len(m_MemPool) + 2].key = <<m_Block + 1, "index">>
    BY AppendedIs
  <1> HIDE DEF new
  <1>5. /\ Typed /\ ledger \in Seq(IntRows) /\ DbAt(ledger)
        /\ Len(ledger) \in Nat /\ Len(m_MemPool) \in Nat /\ m_Row = Len(ledger) + Len(m_MemPool) + 1
        /\ Base = Len(ledger) + 1
    BY AllRows DEF LInv, Typed
  <1>6. /\ Len(new) \in Nat /\ ledger' \in Seq(IntRows) /\ Len(ledger') = Len(ledger) + Len(new)
        /\ \A i \in 1..Len(ledger) : ledger'[i] = ledger[i]
        /\ \A i \in 1..Len(new) : ledger'[Len(ledger) + i] = new[i]
        /\ \A i \in 1..(Len(ledger) + Len(new)) :
              ledger'[i] = IF i <= Len(ledger) THEN ledger[i] ELSE new[i - Len(ledger)]
    <2>1. new \in Seq(IntRows)
      BY <1>4
    <2> QED
      BY <1>1, <1>5, <2>1, Joined
  <1>7. m_MemPool' \in Seq(IntRows) /\ Len(m_MemPool') = 0 /\ ledger' \o <<>> = ledger'
    BY <1>1, <1>6, EmptySeq, ConcatEmptySeq
  <1>8. \A i \in 1..Len(new) : new[i] \in IntRows
    BY <1>4, <1>6, ElementOfSeq
  <1>9. ASSUME NEW k \in Keys
        PROVE  EntryOf(new, Base, k)
    <2>1. Base \in Nat /\ Len(new) \in Nat
      BY <1>5, <1>6
    <2> QED
      BY <2>1, IndexedIs
  <1>10. db' \in [Keys -> [from : Nat, to : Nat, row : Nat]]
    <2>1. ASSUME NEW k \in Keys
          PROVE  Indexed(new, Base)[k] \in [from : Nat, to : Nat, row : Nat]
      <3>1. db[k] \in [from : Nat, to : Nat, row : Nat]
        BY <1>5 DEF Typed
      <3>2. ASSUME NEW last \in 1..Len(new),
                   Indexed(new, Base)[k] = [from |-> new[last].from, to |-> new[last].to,
                                            row |-> Base + last - 1]
            PROVE  Indexed(new, Base)[k] \in [from : Nat, to : Nat, row : Nat]
        <4>1. new[last].from \in Nat /\ new[last].to \in Nat
          BY <1>8 DEF IntRows
        <4>2. Base + last - 1 \in Nat
          BY <1>5, <1>6
        <4> QED
          BY <3>2, <4>1, <4>2
      <3> QED
        BY <1>9, <3>1, <3>2 DEF EntryOf
    <2>2. Indexed(new, Base) = [k \in Keys |-> Indexed(new, Base)[k]]
      BY DEF Indexed
    <2> HIDE DEF Indexed
    <2> QED
      BY <1>1, <2>1, <2>2
  <1>11. listed' \subseteq PermKeys
    <2>1. \A i \in 1..Len(new) : new[i].key[2] \in {"admin", "mine"} => new[i].key \in PermKeys
      <3> TAKE i \in 1..Len(new)
      <3>1. new[i].key \in LinkedKeys \cup IndexKeys
        BY <1>8 DEF IntRows
      <3> QED
        BY <3>1 DEF LinkedKeys, MinerKeys, IndexKeys
    <2> QED
      BY <1>3, <1>5, <2>1 DEF Typed
  <1>12. counts' \in CountRecords /\ cleared' \in CountRecords
    <2>1. ASSUME NEW type PROVE Cardinality(Counted(db', listed', m_Block + 1, type)) \in Int
      <3>1. IsFiniteSet(Counted(db', listed', m_Block + 1, type))
        BY PermissionsAssumption, FS_Subset DEF Counted
      <3> QED
        BY <3>1, FS_CardinalityType
    <2> QED
      BY <1>2, <2>1 DEF UpdateCounts, CountRecords
  <1>13. m_Block' \in Blocks
    BY <1>1, <1>5, PermissionsAssumption DEF Typed, Blocks
  <1>14. m_Row' = Len(ledger') + Len(m_MemPool') + 1
    BY <1>1, <1>4, <1>5, <1>6, <1>7
  <1>15. Typed'
    BY <1>1, <1>5, <1>6, <1>7, <1>10, <1>11, <1>12, <1>13, <1>14 DEF Typed, saved, Calls
  <1>16. Linked(All')
    BY <1>1, <1>4, <1>7 DEF All
  <1>17. DbAt(ledger)'
    <2>1. SUFFICES ASSUME NEW k \in LinkedKeys
                   PROVE  /\ LastIn(ledger', k, Len(ledger') + 1, db'[k].row)
                          /\ <<db'[k].from, db'[k].to>> = RangeAt(ledger', db'[k].row)
      BY DEF DbAt
    <2>2. k \in Keys
      BY DEF Keys
    <2>3. CASE (\A i \in 1..Len(new) : new[i].key # k) /\ db'[k] = db[k]
      <3>1. /\ LastIn(ledger, k, Len(ledger) + 1, db[k].row)
            /\ <<db[k].from, db[k].to>> = RangeAt(ledger, db[k].row)
        BY <1>5 DEF DbAt
      <3>2. LastIn(ledger', k, Len(ledger) + 1, db[k].row)
        <4>1. \A i \in 1..(Len(ledger) + 1 - 1) : ledger'[i].key = ledger[i].key
          BY <1>5, <1>6
        <4> QED
          BY <1>5, <3>1, <4>1, LastInSame
      <3>3. \A j \in (Len(ledger) + 1)..(Len(ledger') + 1 - 1) : ledger'[j].key # k
        <4> TAKE j \in (Len(ledger) + 1)..(Len(ledger') + 1 - 1)
        <4>1. /\ j \in 1..(Len(ledger) + Len(new)) /\ ~(j <= Len(ledger))
              /\ j - Len(ledger) \in 1..Len(new)
          BY <1>5, <1>6
        <4> QED
          BY <1>6, <2>3, <4>1
      <3>4. LastIn(ledger', k, Len(ledger') + 1, db[k].row)
        <4> DEFINE n == Len(ledger) + 1
                   m == Len(ledger') + 1
        <4>1. n \in Nat /\ m \in Nat /\ n <= m
          BY <1>5, <1>6
        <4>2. /\ LastIn(ledger', k, n, db[k].row)
              /\ \A j \in n..(m - 1) : ledger'[j].key # k
          BY <3>2, <3>3
        <4>3. db[k].row = db[k].row /\ LastIn(ledger', k, m, db[k].row)
          <5> HIDE DEF n, m
          <5> QED
            BY <4>1, <4>2, LastInLater
        <4> QED
          BY <4>3
      <3>5. RangeAt(ledger', db[k].row) = RangeAt(ledger, db[k].row)
        <4>1. db[k].row \in 0..Len(ledger)
          BY <1>5, <3>1 DEF LastIn
        <4>2. CASE db[k].row = 0
          BY <4>2 DEF RangeAt
        <4>3. CASE db[k].row # 0
          <5>1. db[k].row \in 1..Len(ledger)
            BY <1>5, <4>1, <4>3
          <5>2. ledger'[db[k].row] = ledger[db[k].row]
            BY <1>6, <5>1
          <5> QED
            BY <5>2 DEF RangeAt
        <4> QED
          BY <4>2, <4>3
      <3> QED
        BY <2>3, <3>1, <3>4, <3>5
    <2>4. ASSUME NEW last \in 1..Len(new), new[last].key = k,
                 \A j \in (last + 1)..Len(new) : new[j].key # k,
                 db'[k] = [from |-> new[last].from, to |-> new[last].to, row |-> Base + last - 1]
          PROVE  /\ LastIn(ledger', k, Len(ledger') + 1, db'[k].row)
                 /\ <<db'[k].from, db'[k].to>> = RangeAt(ledger', db'[k].row)
      <3> DEFINE t == Len(ledger) + last
      <3>1. db'[k].row = t /\ db'[k].from = new[last].from /\ db'[k].to = new[last].to
        BY <1>5, <2>4
      <3>2. t \in 1..Len(ledger') /\ t # 0 /\ ledger'[t] = new[last]
        BY <1>5, <1>6
      <3>3. \A j \in (t + 1)..(Len(ledger') + 1 - 1) : ledger'[j].key # k
        <4> TAKE j \in (t + 1)..(Len(ledger') + 1 - 1)
        <4>1. /\ j \in 1..(Len(ledger) + Len(new)) /\ ~(j <= Len(ledger))
              /\ j - Len(ledger) \in (last + 1)..Len(new)
          BY <1>5, <1>6
        <4> QED
          BY <1>6, <2>4, <4>1
      <3> HIDE DEF t
      <3>4. LastIn(ledger', k, Len(ledger') + 1, t)
        BY <1>5, <1>6, <2>4, <3>2, <3>3 DEF LastIn
      <3> QED
        BY <3>1, <3>2, <3>4 DEF RangeAt
    <2> QED
      BY <1>1, <1>9, <2>2, <2>3, <2>4 DEF EntryOf
  <1>18. InCall'
    BY <1>1 DEF InCall
  <1>19. Received'
    <2>1. ASSUME NEW i \in 1..Len(ledger')
          PROVE  /\ ledger'[i].received \in 0..m_Block'
                 /\ i <= Len(ledger) => ledger'[i].received <= m_Block
                 /\ ~(i <= Len(ledger)) => ledger'[i].received = m_Block'
      <3>1. CASE i <= Len(ledger)
        <4>1. i \in 1..Len(ledger)
          BY <1>5, <1>6, <3>1
        <4>2. ledger'[i] = ledger[i] /\ ledger[i].received \in 0..m_Block
          BY <1>6, <4>1 DEF LInv, Received
        <4> QED
          BY <1>1, <1>5, <3>1, <4>2 DEF Typed, Blocks
      <3>2. CASE ~(i <= Len(ledger))
        <4>1. i - Len(ledger) \in 1..Len(new) /\ ledger'[i] = new[i - Len(ledger)]
          BY <1>5, <1>6, <3>2
        <4>2. ledger'[i].received = m_Block + 1
          BY <1>4, <4>1
        <4> QED
          BY <1>1, <1>5, <3>2, <4>2 DEF Typed, Blocks
      <3> QED
        BY <3>1, <3>2
    <2>2. ASSUME NEW i \in 1..Len(ledger'), NEW j \in 1..i
          PROVE  ledger'[j].received <= ledger'[i].received
      <3>1. j \in 1..Len(ledger')
        BY <1>5, <1>6
      <3>2. CASE i <= Len(ledger)
        <4>1. ledger'[i] = ledger[i] /\ ledger'[j] = ledger[j] /\ i \in 1..Len(ledger)
          BY <1>5, <1>6, <3>2
        <4> QED
          BY <4>1 DEF LInv, Received
      <3>3. CASE ~(i <= Len(ledger))
        <4>1. ledger'[i].received = m_Block' /\ ledger'[j].received \in 0..m_Block'
          BY <2>1, <3>1, <3>3
        <4> QED
          BY <1>13, <4>1 DEF Blocks
      <3> QED
        BY <3>2, <3>3
    <2>3. \A i \in 1..Len(ledger') : ledger'[i].received \in 0..m_Block'
      BY <2>1
    <2> QED
      BY <1>1, <1>7, <2>2, <2>3 DEF Received
  <1> QED
    BY <1>15, <1>16, <1>17, <1>18, <1>19 DEF LInv

\* The row at which a rollback to block b stops: all the rows up to it are of b or before,
\* all those after it of later blocks.
LEMMA TopIs ==
    ASSUME LInv, NEW b \in Int
    PROVE  /\ Top(b) \in 0..Len(ledger)
           /\ \A i \in 1..Top(b) : ledger[i].received <= b
           /\ \A i \in (Top(b) + 1)..Len(ledger) : ledger[i].received > b
  <1> DEFINE keep == {i \in 1..(Base - 1) : ledger[i].received <= b}
             t == CHOOSE i \in keep : \A j \in keep : j <= i
  <1>1. /\ Base - 1 = Len(ledger) /\ Len(ledger) \in Nat
        /\ \A i \in 1..Len(ledger) : /\ ledger[i].received \in 0..m_Block
                                    /\ \A j \in 1..i : ledger[j].received <= ledger[i].received
    BY AllRows DEF LInv, Received
  <1>2. Top(b) = IF keep = {} THEN 0 ELSE t
    BY DEF Top
  <1>3. CASE keep = {}
    BY <1>1, <1>2, <1>3
  <1>4. CASE keep # {}
    <2>1. keep \in SUBSET (0..Len(ledger))
      BY <1>1
    <2>2. \E i \in keep : \A j \in keep : j <= i
      <3> HIDE DEF keep
      <3> QED
        BY <1>1, <1>4, <2>1, Greatest
    <2>3. t \in keep /\ \A j \in keep : j <= t
      BY <2>2
    <2> HIDE DEF t
    <2>4. t \in 1..Len(ledger) /\ ledger[t].received <= b
      BY <1>1, <2>3
    <2>5. ASSUME NEW i \in 1..t PROVE ledger[i].received <= b
      <3>1. /\ ledger[i].received <= ledger[t].received /\ ledger[i].received \in Int
            /\ ledger[t].received \in Int
        BY <1>1, <2>4
      <3> QED
        BY <2>4, <3>1
    <2>6. ASSUME NEW i \in (t + 1)..Len(ledger) PROVE ledger[i].received > b
      <3>1. i \in 1..(Base - 1) /\ ~(i <= t) /\ ledger[i].received \in Int
        BY <1>1, <2>4
      <3> QED
        BY <2>3, <3>1
    <2> QED
      BY <1>2, <1>4, <2>4, <2>5, <2>6
  <1> QED
    BY <1>3, <1>4

\* The entry that is left: untouched, or that of the row before the first one removed.
LeftOf(top, k) ==
    \/ /\ \A i \in (top + 1)..Len(ledger) : ledger[i].key # k
       /\ Unwound(top)[k] = db[k]
    \/ \E first \in (top + 1)..Len(ledger) :
          /\ ledger[first].key = k
          /\ \A j \in (top + 1)..(first - 1) : ledger[j].key # k
          /\ Unwound(top)[k] = IF ledger[first].prev = 0 THEN NoEntry
                               ELSE [from |-> ledger[ledger[first].prev].from,
                                     to |-> ledger[ledger[first].prev].to,
                                     row |-> ledger[first].prev]

LEMMA UnwoundIs ==
    ASSUME Typed, NEW top \in 0..Len(ledger), NEW k \in Keys
    PROVE  LeftOf(top, k)
  <1> DEFINE gone  == {i \in (top + 1)..(Base - 1) : ledger[i].key = k}
             first == CHOOSE i \in gone : \A j \in gone : i <= j
             prev  == ledger[first].prev
  <1>1. Base - 1 = Len(ledger) /\ Len(ledger) \in Nat
    BY AllRows
  <1>2. Unwound(top)[k] =
            IF gone = {} THEN db[k]
            ELSE IF prev = 0 THEN NoEntry
            ELSE [from |-> ledger[prev].from, to |-> ledger[prev].to, row |-> prev]
    BY DEF Unwound
  <1>3. CASE gone = {}
    BY <1>1, <1>2, <1>3 DEF LeftOf
  <1>4. CASE gone # {}
    <2>1. gone \in SUBSET Nat
      BY <1>1
    <2>2. \E i \in gone : \A j \in gone : i <= j
      <3> HIDE DEF gone
      <3> QED
        BY <1>4, <2>1, Least
    <2>3. first \in gone /\ \A j \in gone : first <= j
      BY <2>2
    <2> HIDE DEF first
    <2>4. first \in (top + 1)..Len(ledger) /\ ledger[first].key = k
      BY <1>1, <2>3
    <2>5. \A j \in (top + 1)..(first - 1) : ledger[j].key # k
      BY <1>1, <2>3, <2>4
    <2> QED
      BY <1>2, <1>4, <2>4, <2>5 DEF LeftOf
  <1> QED
    BY <1>3, <1>4

\* The links of the file.
LEMMA FileLinks ==
    ASSUME LInv
    PROVE  \A i \in 1..Len(ledger) :
              /\ ledger[i] \in IntRows /\ ledger[i].prev \in 0..(i - 1)
              /\ ledger[i].key \in LinkedKeys =>
                    LastIn(ledger, ledger[i].key, i, ledger[i].prev)
  <1>1. ledger \in Seq(IntRows) /\ ledger \o <<>> = ledger
    BY ConcatEmptySeq DEF LInv, Typed
  <1>2. \A i \in 1..Len(ledger) : ledger[i] \in IntRows
    BY <1>1, ElementOfSeq
  <1> QED
    BY <1>1, <1>2, FileLinked DEF Linked

LEMMA RollBackInternalLInv ==
    ASSUME LInv, NEW b \in Blocks, b <= m_Block, RollBackInternal(b), call' = "none"
    PROVE  LInv'
  <1> DEFINE top == Top(b)
  <1>1. /\ db' = Unwound(top) /\ ledger' = SubSeq(ledger, 1, top) /\ m_Row' = top + 1
        /\ m_MemPool' = <<>> /\ m_Block' = b /\ UNCHANGED <<listed, saved>>
    BY DEF RollBackInternal
  <1>2. counts' = UpdateCounts(db', listed, b) /\ cleared' = counts'
    BY DEF RollBackInternal
  <1>3. b \in Int
    BY DEF Blocks
  <1>4. /\ top \in 0..Len(ledger)
        /\ \A i \in 1..top : ledger[i].received <= b
    BY <1>3, TopIs
  <1> HIDE DEF top
  <1>5. /\ Typed /\ ledger \in Seq(IntRows) /\ DbAt(ledger) /\ Len(ledger) \in Nat
    BY AllRows DEF LInv, Typed
  <1>6. /\ ledger' \in Seq(IntRows) /\ Len(ledger') = top /\ top \in Nat
        /\ \A i \in 1..top : ledger'[i] = ledger[i]
    BY <1>1, <1>4, <1>5, PrefixOf
  <1>7. /\ m_MemPool' \in Seq(IntRows) /\ Len(m_MemPool') = 0
        /\ ledger' \o <<>> = ledger' /\ ledger \o <<>> = ledger
    BY <1>1, <1>5, <1>6, EmptySeq, ConcatEmptySeq
  <1>8. \A i \in 1..Len(ledger) : ledger[i] \in IntRows /\ ledger[i].prev \in 0..(i - 1)
    BY FileLinks
  <1>9. db' \in [Keys -> [from : Nat, to : Nat, row : Nat]]
    <2>1. ASSUME NEW k \in Keys
          PROVE  Unwound(top)[k] \in [from : Nat, to : Nat, row : Nat]
      <3>1. db[k] \in [from : Nat, to : Nat, row : Nat] /\ NoEntry \in [from : Nat, to : Nat, row : Nat]
        BY <1>5 DEF Typed, NoEntry
      <3>2. ASSUME NEW p \in 1..Len(ledger)
            PROVE  [from |-> ledger[p].from, to |-> ledger[p].to, row |-> p]
                      \in [from : Nat, to : Nat, row : Nat]
        <4>1. ledger[p].from \in Nat /\ ledger[p].to \in Nat
          BY <1>8 DEF IntRows
        <4> QED
          BY <4>1
      <3>3. ASSUME NEW f \in (top + 1)..Len(ledger), ledger[f].prev # 0
            PROVE  ledger[f].prev \in 1..Len(ledger)
        <4>1. f \in 1..Len(ledger) /\ ledger[f].prev \in 0..(f - 1)
          BY <1>6, <1>8
        <4> QED
          BY <3>3, <4>1
      <3>4. LeftOf(top, k)
        BY <1>4, <1>5, UnwoundIs
      <3> QED
        BY <3>1, <3>2, <3>3, <3>4 DEF LeftOf
    <2>2. Unwound(top) = [k \in Keys |-> Unwound(top)[k]]
      BY DEF Unwound
    <2> HIDE DEF Unwound
    <2> QED
      BY <1>1, <2>1, <2>2
  <1>10. counts' \in CountRecords /\ cleared' \in CountRecords
    <2>1. ASSUME NEW type PROVE Cardinality(Counted(db', listed, b, type)) \in Int
      <3>1. IsFiniteSet(Counted(db', listed, b, type))
        BY PermissionsAssumption, FS_Subset DEF Counted
      <3> QED
        BY <3>1, FS_CardinalityType
    <2> QED
      BY <1>2, <2>1 DEF UpdateCounts, CountRecords
  <1>11. Typed'
    BY <1>1, <1>5, <1>6, <1>7, <1>9, <1>10 DEF Typed, saved, Calls
  <1>12. Linked(All')
    <2>1. Linked(ledger) /\ FirstOf(ledger', ledger)
      BY <1>4, <1>5, <1>6, <1>7, FileLinked DEF FirstOf
    <2>2. Len(ledger') \in Nat
      BY <1>6
    <2>3. Linked(ledger')
      BY <1>5, <2>1, <2>2, LinkedPrefix
    <2> QED
      BY <1>1, <1>7, <2>3 DEF All
  <1>13. DbAt(ledger)'
    <2>1. SUFFICES ASSUME NEW k \in LinkedKeys
                   PROVE  /\ LastIn(ledger', k, top + 1, db'[k].row)
                          /\ <<db'[k].from, db'[k].to>> = RangeAt(ledger', db'[k].row)
      BY <1>6 DEF DbAt
    <2>2. k \in Keys
      BY DEF Keys
    <2>3. CASE (\A i \in (top + 1)..Len(ledger) : ledger[i].key # k) /\ db'[k] = db[k]
      <3>1. /\ LastIn(ledger, k, Len(ledger) + 1, db[k].row)
            /\ <<db[k].from, db[k].to>> = RangeAt(ledger, db[k].row)
        BY <1>5 DEF DbAt
      <3>2. db[k].row \in 0..top
        BY <1>4, <1>5, <2>3, <3>1 DEF LastIn
      <3>3. LastIn(ledger, k, top + 1, db[k].row)
        BY <1>4, <1>5, <1>6, <3>1, <3>2 DEF LastIn
      <3>4. \A j \in 1..(top + 1 - 1) : ledger'[j].key = ledger[j].key
        BY <1>6
      <3>5. LastIn(ledger', k, top + 1, db[k].row)
        BY <1>6, <3>3, <3>4, LastInSame
      <3>6. RangeAt(ledger', db[k].row) = RangeAt(ledger, db[k].row)
        BY <1>6, <3>2 DEF RangeAt
      <3> QED
        BY <2>3, <3>1, <3>5, <3>6
    <2>4. ASSUME NEW first \in (top + 1)..Len(ledger), ledger[first].key = k,
                 \A j \in (top + 1)..(first - 1) : ledger[j].key # k,
                 db'[k] = IF ledger[first].prev = 0 THEN NoEntry
                          ELSE [from |-> ledger[ledger[first].prev].from,
                                to |-> ledger[ledger[first].prev].to,
                                row |-> ledger[first].prev]
          PROVE  /\ LastIn(ledger', k, top + 1, db'[k].row)
                 /\ <<db'[k].from, db'[k].to>> = RangeAt(ledger', db'[k].row)
      <3> DEFINE p == ledger[first].prev
      <3>1. LastIn(ledger, k, first, p) /\ first \in 1..Len(ledger)
        BY <1>6, <2>4, FileLinks
      <3>2. db'[k].row = p
        BY <2>4 DEF NoEntry
      <3> HIDE DEF p
      <3>3. p \in 0..top
        BY <1>4, <1>5, <2>4, <3>1 DEF LastIn
      <3>4. LastIn(ledger, k, top + 1, p)
        BY <1>4, <1>5, <2>4, <3>1, <3>3 DEF LastIn
      <3>5. \A j \in 1..(top + 1 - 1) : ledger'[j].key = ledger[j].key
        BY <1>6
      <3>6. LastIn(ledger', k, top + 1, p)
        BY <1>6, <3>4, <3>5, LastInSame
      <3>7. <<db'[k].from, db'[k].to>> = RangeAt(ledger', p)
        <4>1. CASE p = 0
          BY <2>4, <4>1 DEF NoEntry, RangeAt, p
        <4>2. CASE p # 0
          <5>1. ledger'[p] = ledger[p]
            BY <1>6, <3>3, <4>2
          <5>2. db'[k].from = ledger[p].from /\ db'[k].to = ledger[p].to
            BY <2>4, <4>2 DEF p
          <5> QED
            BY <4>2, <5>1, <5>2 DEF RangeAt
        <4> QED
          BY <4>1, <4>2
      <3> QED
        BY <3>2, <3>6, <3>7
    <2> QED
      <3>1. LeftOf(top, k)
        BY <1>4, <1>5, <2>2, UnwoundIs
      <3> QED
        BY <1>1, <2>3, <2>4, <3>1 DEF LeftOf
  <1>14. Received'
    <2>1. ASSUME NEW i \in 1..Len(ledger')
          PROVE  /\ ledger'[i].received \in 0..b
                 /\ \A j \in 1..i : ledger'[j].received <= ledger'[i].received
      <3>1. i \in 1..Len(ledger) /\ \A j \in 1..i : ledger'[j] = ledger[j]
        BY <1>4, <1>5, <1>6
      <3>2. ledger'[i] = ledger[i] /\ ledger[i].received <= b /\ ledger[i].received \in 0..m_Block
        BY <1>4, <1>6, <3>1 DEF LInv, Received
      <3> QED
        BY <1>3, <3>1, <3>2 DEF LInv, Received
    <2>2. \A i \in 1..Len(ledger') : /\ ledger'[i].received \in 0..m_Block'
                                   /\ \A j \in 1..i : ledger'[j].received <= ledger'[i].received
      BY <1>1, <2>1
    <2>3. \A i \in 1..Len(m_MemPool') : m_MemPool'[i].received = m_Block' + 1
      BY <1>7
    <2> QED
      BY <2>2, <2>3 DEF Received
  <1>15. InCall'
    BY DEF InCall
  <1> QED
    BY <1>11, <1>12, <1>13, <1>14, <1>15 DEF LInv

-----------------------------------------------------------------------------
LEMMA NextLInv == ASSUME LInv, [Next]_vars PROVE LInv'
  <1>1. CASE UNCHANGED vars
    BY <1>1 DEF vars, files, saved, LInv, Typed, All, DbAt, InCall, Received
  <1>2. CASE \E a \in Addresses, k \in PermKeys, range \in Ranges, ts \in Timestamps :
                SetPermission(a, k, range, ts)
    BY <1>2, SetPermissionLInv
  <1>3. CASE \E miner \in Addresses : Commit(miner) \/ CommitCannotOpen(miner)
    BY <1>3, CommitLInv, CommitCannotOpenLInv
  <1>4. CASE \E b \in Blocks : RollBack(b)
    BY <1>4, RollBackInternalLInv DEF RollBack
  <1>5. CASE CommitFails
    <2>1. m_Block \in Blocks /\ m_Block <= m_Block
      BY DEF LInv, Typed, Blocks
    <2> QED
      BY <1>5, <2>1, RollBackInternalLInv DEF CommitFails
  <1> QED
    BY <1>1, <1>2, <1>3, <1>4, <1>5, SetCheckPointLInv, AcceptTxLInv,
       RollBackToCheckPointLInv, AbandonBlockLInv, ClearMemPoolLInv, CopyMemPoolLInv,
       RestoreMemPoolLInv DEF Next

LEMMA Invariant == Spec => []LInv
  BY InitLInv, NextLInv, PTL DEF Spec

\* IsLast of the model, for the rows by their numbers.
LEMMA IsLastIs ==
    ASSUME Typed, NEW k, NEW n \in 1..m_Row, NEW i, LastIn(All, k, n, i)
    PROVE  IsLast(k, n, i)
  <1>1. /\ m_Row \in Nat
        /\ \A j \in 1..(m_Row - 1) : Row(j) = All[j]
    BY AllRows
  <1>2. i \in 0..(n - 1) /\ (i = 0 \/ All[i].key = k)
    BY DEF LastIn
  <1>3. \A j \in (i + 1)..(n - 1) : Row(j).key # k
    BY <1>1, <1>2 DEF LastIn
  <1>4. i = 0 \/ Row(i).key = k
    BY <1>1, <1>2
  <1> QED
    BY <1>2, <1>3, <1>4 DEF IsLast

\* After any order of commits, failed commits and rollbacks, whatever was in memory, the
\* database names the last row of every key in the file and repeats its range (Commit,
\* RollBackInternal).
THEOREM DatabaseNamesTheLastRow == Spec => []DbInv
  <1>1. ASSUME LInv PROVE DbInv
    <2>1. SUFFICES ASSUME NEW k \in LinkedKeys
                   PROVE  /\ IsLast(k, Base, db[k].row)
                          /\ db[k].row # 0 => /\ db[k].from = ledger[db[k].row].from
                                              /\ db[k].to = ledger[db[k].row].to
      BY DEF DbInv
    <2>2. LastIn(All, k, Base, db[k].row) /\ Base \in 1..m_Row
      BY <1>1, DbInAll, AllRows DEF LInv, Base
    <2>3. IsLast(k, Base, db[k].row)
      BY <1>1, <2>2, IsLastIs DEF LInv
    <2>4. <<db[k].from, db[k].to>> = RangeAt(ledger, db[k].row)
      BY <1>1 DEF LInv, DbAt
    <2> QED
      BY <2>3, <2>4 DEF RangeAt
  <1> QED
    BY <1>1, Invariant, PTL

\* Every row of a key links to the one just before it, in the file or in memory, and the
\* search of GetPermission ends at the last: what VerifyConsensus and RollBackInternal walk
\* along has no gap and no fork, also across the border of file and memory, whatever
\* transactions were rejected and blocks taken back.
THEOREM RowsAreLinked == Spec => []LinkInv
  <1>1. ASSUME LInv PROVE LinkInv
    <2>1. Typed /\ m_Row \in 1..m_Row /\ \A i \in 1..(m_Row - 1) : i \in 1..m_Row
      BY <1>1, AllRows DEF LInv, Typed
    <2>2. ASSUME NEW i \in 1..(m_Row - 1), Row(i).key \in LinkedKeys
          PROVE  IsLast(Row(i).key, i, Row(i).prev)
      <3>1. Row(i) = All[i] /\ i \in 1..Len(All)
        BY <2>1, AllRows
      <3>2. LastIn(All, Row(i).key, i, Row(i).prev)
        BY <1>1, <2>2, <3>1 DEF LInv, Linked
      <3> QED
        BY <2>1, <3>2, IsLastIs
    <2>3. ASSUME NEW k \in LinkedKeys PROVE IsLast(k, m_Row, Tip(k))
      BY <1>1, <2>1, TipIsLast, IsLastIs DEF LInv
    <2> QED
      BY <2>2, <2>3 DEF LinkInv
  <1> QED
    BY <1>1, Invariant, PTL

-----------------------------------------------------------------------------
(***************************************************************************)
(* The counts.  What is counted is read off the rows (RangeIn), never off  *)
(* the database; that the database tells the same is what DbInv says.      *)
(***************************************************************************)

\* The range the rows s give key k.
RangeIn(s, k) == RangeAt(s, CHOOSE i \in 0..Len(s) : LastIn(s, k, Len(s) + 1, i))

HoldersIn(s, block, type) == {a \in Addresses : InForce(RangeIn(s, <<a, type>>), block)}

CountsIn(s, block) == [admin |-> Cardinality(HoldersIn(s, block, "admin")),
                       mine  |-> Cardinality(HoldersIn(s, block, "mine"))]

-----------------------------------------------------------------------------
LEMMA RangeInIs ==
    ASSUME NEW s, NEW k, Len(s) \in Nat, NEW i, LastIn(s, k, Len(s) + 1, i)
    PROVE  RangeIn(s, k) = RangeAt(s, i)
  <1> DEFINE n == Len(s) + 1
             c == CHOOSE j \in 0..Len(s) : LastIn(s, k, n, j)
  <1>1. n \in Nat /\ i \in 0..Len(s)
    BY DEF LastIn
  <1>2. LastIn(s, k, n, c)
    BY <1>1
  <1>3. c = i
    <2> HIDE DEF n, c
    <2>1. LastIn(s, k, n, i)
      BY DEF n
    <2> QED
      BY <1>1, <1>2, <2>1, LastInUnique
  <1>4. RangeIn(s, k) = RangeAt(s, c)
    BY DEF RangeIn
  <1> QED
    BY <1>3, <1>4

\* Rows of other keys change nothing for a key, ...
LEMMA RangeInOther ==
    ASSUME NEW s, NEW t, NEW k, Len(s) \in Nat, Len(t) \in Nat, FirstOf(s, t),
           \A j \in (Len(s) + 1)..Len(t) : t[j].key # k
    PROVE  RangeIn(t, k) = RangeIn(s, k)
  <1> DEFINE n == Len(s) + 1
             m == Len(t) + 1
  <1>1. /\ n \in Nat \ {0} /\ m \in Nat /\ n <= m /\ n - 1 = Len(s)
        /\ \A j \in n..(m - 1) : t[j].key # k
        /\ \A j \in 1..(n - 1) : t[j].key = s[j].key
    BY DEF FirstOf
  <1> HIDE DEF n, m
  <1>2. PICK i \in 0..(n - 1) : LastIn(s, k, n, i)
    BY <1>1, LastInExists
  <1>3. LastIn(t, k, n, i)
    BY <1>1, <1>2, LastInSame
  <1>4. LastIn(t, k, m, i)
    BY <1>1, <1>3, LastInLater
  <1>5. RangeIn(s, k) = RangeAt(s, i) /\ RangeIn(t, k) = RangeAt(t, i)
    BY <1>2, <1>4, RangeInIs DEF n, m
  <1>6. RangeAt(t, i) = RangeAt(s, i)
    BY <1>1, <1>2 DEF RangeAt, FirstOf
  <1> QED
    BY <1>5, <1>6

\* ... its own last row decides.
LEMMA RangeInNew ==
    ASSUME NEW t, Len(t) \in Nat \ {0}
    PROVE  RangeIn(t, t[Len(t)].key) = <<t[Len(t)].from, t[Len(t)].to>>
  <1>1. LastIn(t, t[Len(t)].key, Len(t) + 1, Len(t)) /\ Len(t) # 0
    BY DEF LastIn
  <1> QED
    BY <1>1, RangeInIs DEF RangeAt

LEMMA SameCounts ==
    ASSUME NEW s, NEW t, NEW block, \A k \in PermKeys : RangeIn(t, k) = RangeIn(s, k)
    PROVE  CountsIn(t, block) = CountsIn(s, block)
  <1>1. \A type \in {"admin", "mine"} : HoldersIn(t, block, type) = HoldersIn(s, block, type)
    BY PermissionsAssumption DEF HoldersIn, PermKeys
  <1> QED
    BY <1>1 DEF CountsIn

LEMMA CountsTyped ==
    ASSUME NEW s, NEW block
    PROVE  /\ CountsIn(s, block) \in [admin : Nat, mine : Nat]
           /\ \A type \in {"admin", "mine"} :
                 CountsIn(s, block)[type] = Cardinality(HoldersIn(s, block, type))
  <1>1. \A type : Cardinality(HoldersIn(s, block, type)) \in Nat
    <2> TAKE type
    <2>1. IsFiniteSet(HoldersIn(s, block, type))
      BY PermissionsAssumption, FS_Subset DEF HoldersIn
    <2> QED
      BY <2>1, FS_CardinalityType
  <1> QED
    BY <1>1 DEF CountsIn

-----------------------------------------------------------------------------
(***************************************************************************)
(* The inductive invariant: each record of counts, with the rows it is for. *)
(***************************************************************************)
Next1 == m_Block + 1

Counting ==
    /\ counts = CountsIn(All, Next1)
    /\ cleared = CountsIn(ledger, Next1)

CountsKept ==
    /\ call \in {"tx", "blocktx"} =>
          checkpoint.counts = CountsIn(ledger \o SubSeq(m_MemPool, 1, checkpoint.size), Next1)
    /\ call = "copied" => copied.counts = CountsIn(All, Next1)
    /\ call = "cleared" => copied.counts = CountsIn(ledger \o copied.pool, Next1)

\* UpdateCounts looks only at the keys of the list.
ListedIn(d, l) ==
    \A a \in Addresses, type \in {"admin", "mine"} : d[<<a, type>>].row # 0 => <<a, type>> \in l

\* A row in memory or in the file was decided by some number of administrators.
NatConsensus ==
    /\ \A i \in 1..Len(All) : All[i].consensus \in Nat
    /\ \A i \in 1..Len(copied.pool) : copied.pool[i].consensus \in Nat

CInv == LInv /\ Counting /\ CountsKept /\ ListedIn(db, listed) /\ NatConsensus

-----------------------------------------------------------------------------
(* What the database and the search in memory tell of the counted rows.    *)

Names(d, s) ==
    \A k \in LinkedKeys : /\ LastIn(s, k, Len(s) + 1, d[k].row)
                          /\ <<d[k].from, d[k].to>> = RangeAt(s, d[k].row)

LEMMA NamedRange ==
    ASSUME NEW d, NEW s, Len(s) \in Nat, Names(d, s), NEW k \in LinkedKeys
    PROVE  /\ RangeIn(s, k) = <<d[k].from, d[k].to>>
           /\ d[k].row = 0 => RangeIn(s, k) = <<0, 0>>
  <1>1. /\ LastIn(s, k, Len(s) + 1, d[k].row)
        /\ <<d[k].from, d[k].to>> = RangeAt(s, d[k].row)
    BY DEF Names
  <1>2. RangeIn(s, k) = RangeAt(s, d[k].row)
    BY <1>1, RangeInIs
  <1> QED
    BY <1>1, <1>2 DEF RangeAt

LEMMA UpdateCountsIs ==
    ASSUME NEW d, NEW s, NEW l, NEW b \in Int, b >= -1, Len(s) \in Nat,
           Names(d, s), ListedIn(d, l)
    PROVE  UpdateCounts(d, l, b) = CountsIn(s, b + 1)
  <1>1. ASSUME NEW type \in {"admin", "mine"}
        PROVE  Counted(d, l, b, type) = HoldersIn(s, b + 1, type)
    <2>1. ASSUME NEW a \in Addresses
          PROVE  a \in Counted(d, l, b, type) <=> a \in HoldersIn(s, b + 1, type)
      <3> DEFINE k == <<a, type>>
      <3>1. k \in LinkedKeys
        BY PermissionsAssumption DEF LinkedKeys, PermKeys
      <3>2. /\ RangeIn(s, k) = <<d[k].from, d[k].to>>
            /\ d[k].row = 0 => RangeIn(s, k) = <<0, 0>>
        BY <3>1, NamedRange
      <3>3. ~InForce(<<0, 0>>, b + 1)
        BY DEF InForce
      <3>4. d[k].row # 0 => k \in l
        BY DEF ListedIn
      <3>5. a \in Counted(d, l, b, type) <=> k \in l /\ InForce(<<d[k].from, d[k].to>>, b + 1)
        BY DEF Counted
      <3>6. a \in HoldersIn(s, b + 1, type) <=> InForce(RangeIn(s, k), b + 1)
        BY DEF HoldersIn
      <3> HIDE DEF k
      <3> QED
        BY <3>2, <3>3, <3>4, <3>5, <3>6
    <2> QED
      BY <2>1 DEF Counted, HoldersIn
  <1> QED
    BY <1>1 DEF UpdateCounts, CountsIn

LEMMA HeldRange ==
    ASSUME LInv, NEW k \in LinkedKeys
    PROVE  Held(k) = RangeIn(All, k)
  <1>1. /\ LastIn(All, k, m_Row, Tip(k)) /\ Held(k) = RangeAt(All, Tip(k))
        /\ Len(All) \in Nat /\ m_Row = Len(All) + 1
    <2>1. Typed /\ Linked(All) /\ DbAt(ledger)
      BY DEF LInv
    <2>2. LastIn(All, k, m_Row, Tip(k)) /\ Held(k) = RangeAt(All, Tip(k))
      BY <2>1, TipIsLast, HeldIs
    <2>3. m_Row \in Nat /\ Len(All) = m_Row - 1 /\ All \in Seq(IntRows)
      BY <2>1, AllRows
    <2>4. Len(All) \in Nat
      BY <2>3, LenProperties
    <2> QED
      BY <2>2, <2>3, <2>4
  <1> QED
    BY <1>1, RangeInIs

LEMMA NextBlock ==
    ASSUME LInv
    PROVE  m_Block \in Int /\ m_Block >= -1 /\ Next1 \in Nat
  BY DEF LInv, Typed, Blocks, Next1

LEMMA ClearedIs ==
    ASSUME CInv
    PROVE  ClearedCounts = CountsIn(ledger, Next1)
  <1>1. ledger \in Seq(IntRows) /\ Len(ledger) \in Nat /\ Names(db, ledger)
    BY AllRows DEF CInv, LInv, Typed, DbAt, Names
  <1>2. m_MemPool = <<>> => All = ledger
    BY <1>1, ConcatEmptySeq DEF All
  <1>3. UpdateCounts(db, listed, m_Block) = CountsIn(ledger, Next1)
    BY <1>1, NextBlock, UpdateCountsIs DEF CInv, Next1
  <1> QED
    BY <1>2, <1>3 DEF ClearedCounts, CInv, Counting

\* At least one administrator has to agree.
LEMMA ConsensusNat ==
    ASSUME LInv, counts \in [admin : Nat, mine : Nat], NEW type \in Types
    PROVE  AdminConsensus(type) \in Nat \ {0}
  <1>1. /\ counts.admin \in Nat /\ ConsensusShare[type] \in Nat
        /\ Granularity \in Nat \ {0}
    BY PermissionsAssumption
  <1> DEFINE x == counts.admin * ConsensusShare[type] - 1
  <1>2. CASE counts.admin = 0 \/ IsSetupPeriod \/ ConsensusShare[type] = 0
    BY <1>2 DEF AdminConsensus
  <1>3. CASE ~(counts.admin = 0 \/ IsSetupPeriod \/ ConsensusShare[type] = 0)
    <2>1. \A m, n \in Nat \ {0} : m * n - 1 \in Nat
      OBVIOUS
    <2>2. x \in Nat
      BY <1>1, <1>3, <2>1
    <2>3. \A m \in Nat : m \div Granularity \in Nat
      BY <1>1
    <2>4. x \div Granularity + 1 \in Nat \ {0}
      BY <2>2, <2>3
    <2>5. AdminConsensus(type) = x \div Granularity + 1
      BY <1>3 DEF AdminConsensus
    <2> QED
      BY <2>4, <2>5
  <1> QED
    BY <1>2, <1>3

-----------------------------------------------------------------------------
(* The steps.                                                              *)

LEMMA InitCInv == ASSUME Init PROVE CInv
  <1>1. LInv
    BY InitLInv
  <1>2. ledger = <<>> /\ m_MemPool = <<>> /\ call = "none" /\ m_Block = -1
    BY DEF Init
  <1>3. ledger \in Seq(IntRows) /\ Len(ledger) = 0
    BY <1>2, EmptySeq
  <1>4. All = ledger
    BY <1>2, <1>3, ConcatEmptySeq DEF All
  <1>5. ListedIn(db, listed)
    <2>1. ASSUME NEW a \in Addresses, NEW type \in {"admin", "mine"} PROVE db[<<a, type>>].row = 0
      <3>1. <<a, type>> \in Keys
        BY PermissionsAssumption DEF Keys, LinkedKeys, PermKeys
      <3> QED
        BY <3>1 DEF Init, NoEntry
    <2> QED
      BY <2>1 DEF ListedIn
  <1>6. NoCount = CountsIn(ledger, Next1)
    <2>1. Names(db, ledger)
      BY <1>1 DEF LInv, DbAt, Names
    <2>2. \A type : Counted(db, listed, m_Block, type) = {}
      BY DEF Counted, Init
    <2>3. UpdateCounts(db, listed, m_Block) = NoCount
      BY <2>2, FS_EmptySet DEF UpdateCounts, NoCount
    <2>4. Len(ledger) \in Nat
      BY <1>3
    <2> QED
      BY <1>1, <1>5, <2>1, <2>3, <2>4, NextBlock, UpdateCountsIs DEF Next1
  <1>7. Counting
    BY <1>4, <1>6 DEF Counting, Init
  <1>8. NatConsensus
    <2>1. Len(copied.pool) = 0
      BY <1>2, <1>3 DEF Init
    <2> QED
      BY <1>3, <1>4, <2>1 DEF NatConsensus
  <1> QED
    BY <1>1, <1>2, <1>5, <1>7, <1>8 DEF CInv, CountsKept

\* The rows a new grant is put behind.
LEMMA Granted ==
    ASSUME CInv, NEW a \in Addresses, NEW k \in PermKeys, NEW range \in Ranges,
           NEW ts \in Timestamps, SetPermission(a, k, range, ts)
    PROVE  LET r == NewRow(a, k, range, ts)
           IN  /\ r \in IntRows /\ r.key = k /\ r.consensus \in Nat
               /\ Len(All) \in Nat /\ Len(All') = Len(All) + 1 /\ FirstOf(All, All')
               /\ All'[Len(All')] = r
  <1> DEFINE r == NewRow(a, k, range, ts)
  <1>1. /\ r \in IntRows /\ r.key = k /\ r.consensus \in {0, AdminConsensus(k[2])}
    BY NewRowIs DEF CInv
  <1>2. r.consensus \in Nat
    <2>1. counts \in [admin : Nat, mine : Nat] /\ k[2] \in Types
      BY CountsTyped DEF CInv, Counting, PermKeys
    <2> QED
      BY <1>1, <2>1, ConsensusNat DEF CInv
  <1>3. ledger \in Seq(IntRows) /\ m_MemPool \in Seq(IntRows)
    BY DEF CInv, LInv, Typed
  <1>4. All' = ledger \o Append(m_MemPool, r)
    BY DEF SetPermission, files, All
  <1> HIDE DEF r
  <1>5. /\ Len(All) \in Nat /\ Len(All') = Len(All) + 1 /\ FirstOf(All, All')
        /\ All'[Len(All) + 1] = r
    BY <1>1, <1>3, <1>4, JoinedOne DEF All
  <1> QED
    BY <1>1, <1>2, <1>5 DEF r

\* The count of the type moves by one if the new row changes whether the permission is in
\* force, and no other count does.
LEMMA StepOfCount ==
    ASSUME CInv, NEW a \in Addresses, NEW k \in PermKeys, NEW range \in Ranges,
           NEW ts \in Timestamps, SetPermission(a, k, range, ts), NEW type \in {"admin", "mine"}
    PROVE  counts'[type] = Cardinality(HoldersIn(All', Next1, type))
  <1> DEFINE r == NewRow(a, k, range, ts)
             now == InForce(<<r.from, r.to>>, m_Block + 1)
             was == GetPermission(k)
             step == IF now = was THEN 0 ELSE IF now THEN 1 ELSE -1
             H == HoldersIn(All, Next1, type)
             G == HoldersIn(All', Next1, type)
  <1>1. /\ r.key = k /\ Len(All) \in Nat /\ Len(All') = Len(All) + 1
        /\ FirstOf(All, All') /\ All'[Len(All')] = r
    BY Granted
  <1>2. /\ counts \in [admin : Nat, mine : Nat]
        /\ counts[type] = Cardinality(H)
    BY CountsTyped DEF CInv, Counting
  <1>3. IsFiniteSet(H) /\ Cardinality(H) \in Nat
    <2>1. IsFiniteSet(H)
      BY PermissionsAssumption, FS_Subset DEF HoldersIn
    <2> QED
      BY <2>1, FS_CardinalityType
  <1>4. counts' = IF k[2] \in {"admin", "mine"} THEN [counts EXCEPT ![k[2]] = @ + step] ELSE counts
    BY DEF SetPermission
  <1>5. k \in LinkedKeys /\ k = <<k[1], k[2]>> /\ k[1] \in Addresses
    BY DEF PermKeys, LinkedKeys
  <1>6. Held(k) = RangeIn(All, k)
    BY <1>5, HeldRange DEF CInv
  <1>7. was <=> InForce(RangeIn(All, k), Next1)
    BY <1>6 DEF GetPermission, Next1
  <1>8. RangeIn(All', k) = <<r.from, r.to>>
    <2>1. Len(All') \in Nat \ {0}
      BY <1>1
    <2> HIDE DEF r
    <2> QED
      BY <1>1, <2>1, RangeInNew
  <1>9. now <=> InForce(RangeIn(All', k), Next1)
    BY <1>8 DEF Next1
  <1>10. ASSUME NEW e \in Addresses, <<e, type>> # k
         PROVE  e \in G <=> e \in H
    <2>1. \A j \in (Len(All) + 1)..Len(All') : All'[j].key # <<e, type>>
      <3> HIDE DEF r
      <3>1. \A j \in (Len(All) + 1)..Len(All') : j = Len(All')
        BY <1>1
      <3> QED
        BY <1>1, <1>10, <3>1, Zenon
    <2>2. Len(All') \in Nat
      BY <1>1
    <2>3. RangeIn(All', <<e, type>>) = RangeIn(All, <<e, type>>)
      BY <1>1, <2>1, <2>2, RangeInOther
    <2> QED
      BY <2>3 DEF HoldersIn
  <1> HIDE DEF now, was, r
  <1>11. CASE k[2] # type
    <2>1. \A e \in Addresses : <<e, type>> # k
      BY <1>5, <1>11
    <2>2. G = H
      BY <1>10, <2>1 DEF HoldersIn
    <2>3. counts'[type] = counts[type]
      <3>1. step \in Int
        OBVIOUS
      <3> HIDE DEF step
      <3> QED
        BY <1>2, <1>4, <1>11, <3>1
    <2> QED
      BY <1>2, <2>2, <2>3
  <1>12. CASE k[2] = type
    <2>1. k[1] \in H <=> was
      BY <1>5, <1>7, <1>12 DEF HoldersIn
    <2>2. k[1] \in G <=> now
      BY <1>5, <1>9, <1>12 DEF HoldersIn
    <2>3. \A e \in Addresses : e # k[1] => (e \in G <=> e \in H)
      <3> TAKE e \in Addresses
      <3> HAVE e # k[1]
      <3>1. <<e, type>> # k
        BY <1>5
      <3> QED
        BY <1>10, <3>1
    <2>4. G = IF now THEN H \cup {k[1]} ELSE H \ {k[1]}
      <3>1. G \subseteq Addresses /\ H \subseteq Addresses
        BY DEF HoldersIn
      <3> HIDE DEF G, H
      <3>2. CASE now
        BY <1>5, <2>2, <2>3, <3>1, <3>2
      <3>3. CASE ~now
        BY <1>5, <2>2, <2>3, <3>1, <3>3
      <3> QED
        BY <3>2, <3>3
    <2>5. counts'[type] = counts[type] + step
      <3>1. step \in Int
        OBVIOUS
      <3> HIDE DEF step
      <3> QED
        BY <1>2, <1>4, <1>12, <3>1
    <2> HIDE DEF G, H
    <2>6. CASE now
      <3>1. Cardinality(G) = IF k[1] \in H THEN Cardinality(H) ELSE Cardinality(H) + 1
        BY <1>3, <2>4, <2>6, FS_AddElement
      <3>2. step = IF k[1] \in H THEN 0 ELSE 1
        <4>1. now \in BOOLEAN /\ was \in BOOLEAN
          BY DEF now, was, InForce, GetPermission
        <4> QED
          BY <2>1, <2>6, <4>1, Zenon
      <3> HIDE DEF step
      <3> QED
        BY <1>2, <1>3, <2>5, <3>1, <3>2 DEF G
    <2>7. CASE ~now
      <3>1. Cardinality(G) = IF k[1] \in H THEN Cardinality(H) - 1 ELSE Cardinality(H)
        BY <1>3, <2>4, <2>7, FS_RemoveElement
      <3>2. step = IF k[1] \in H THEN -1 ELSE 0
        <4>1. now \in BOOLEAN /\ was \in BOOLEAN
          BY DEF now, was, InForce, GetPermission
        <4> QED
          BY <2>1, <2>7, <4>1, Zenon
      <3> HIDE DEF step
      <3> QED
        BY <1>2, <1>3, <2>5, <3>1, <3>2 DEF G
    <2> QED
      BY <2>6, <2>7 DEF G
  <1> QED
    BY <1>11, <1>12

LEMMA SetPermissionCInv ==
    ASSUME CInv, NEW a \in Addresses, NEW k \in PermKeys, NEW range \in Ranges,
           NEW ts \in Timestamps, SetPermission(a, k, range, ts)
    PROVE  CInv'
  <1> DEFINE r == NewRow(a, k, range, ts)
  <1>1. LInv'
    BY SetPermissionLInv DEF CInv
  <1>2. /\ r \in IntRows /\ r.consensus \in Nat
        /\ Len(All) \in Nat /\ Len(All') = Len(All) + 1
        /\ FirstOf(All, All') /\ All'[Len(All')] = r
    BY Granted
  <1>3. /\ m_MemPool' = Append(m_MemPool, r)
        /\ cleared' = IF m_MemPool = <<>> THEN counts ELSE cleared
        /\ call \in {"tx", "blocktx"}
        /\ UNCHANGED <<m_Block, files, saved, call>>
    BY DEF SetPermission
  <1> HIDE DEF r
  <1>4. ledger \in Seq(IntRows) /\ m_MemPool \in Seq(IntRows)
    BY DEF CInv, LInv, Typed
  <1>5. counts' = CountsIn(All', Next1)
    <2>1. counts' \in CountRecords
      BY <1>1 DEF LInv, Typed
    <2>2. counts' = [admin |-> counts'.admin, mine |-> counts'.mine]
      BY <2>1 DEF CountRecords
    <2>3. /\ counts'.admin = Cardinality(HoldersIn(All', Next1, "admin"))
          /\ counts'.mine = Cardinality(HoldersIn(All', Next1, "mine"))
      BY StepOfCount
    <2> QED
      BY <2>2, <2>3 DEF CountsIn
  <1>6. cleared' = CountsIn(ledger, Next1)
    <2>1. m_MemPool = <<>> => All = ledger
      BY <1>4, ConcatEmptySeq DEF All
    <2> QED
      BY <1>3, <2>1 DEF CInv, Counting
  <1>7. ledger' = ledger /\ Next1' = Next1 /\ db' = db /\ listed' = listed
    BY <1>3 DEF files, Next1
  <1>8. CountsKept'
    <2> DEFINE n == checkpoint.size
    <2>1. n \in 0..Len(m_MemPool) /\ Len(m_MemPool) \in Nat
      BY <1>3, AllRows DEF CInv, LInv, Typed, InCall
    <2>2. /\ m_MemPool' \in Seq(IntRows) /\ Len(m_MemPool') = Len(m_MemPool) + 1
          /\ \A i \in 1..Len(m_MemPool) : m_MemPool'[i] = m_MemPool[i]
      BY <1>2, <1>3, <1>4, AppendProperties
    <2> HIDE DEF n
    <2>3. SubSeq(m_MemPool', 1, n) = SubSeq(m_MemPool, 1, n)
      <3>1. /\ SubSeq(m_MemPool, 1, n) \in Seq(IntRows) /\ Len(SubSeq(m_MemPool, 1, n)) = n
            /\ \A i \in 1..n : SubSeq(m_MemPool, 1, n)[i] = m_MemPool[i]
        BY <1>4, <2>1, PrefixOf
      <3>2. n \in 0..Len(m_MemPool')
        BY <2>1, <2>2
      <3>3. m_MemPool' \in Seq(IntRows)
        BY <2>2
      <3>4. /\ SubSeq(m_MemPool', 1, n) \in Seq(IntRows) /\ Len(SubSeq(m_MemPool', 1, n)) = n
            /\ \A i \in 1..n : SubSeq(m_MemPool', 1, n)[i] = m_MemPool'[i]
        BY <3>2, <3>3, PrefixOf
      <3>5. \A i \in 1..n : m_MemPool'[i] = m_MemPool[i]
        BY <2>1, <2>2
      <3> QED
        BY <3>1, <3>4, <3>5, SeqEqual
    <2>4. checkpoint' = checkpoint /\ call' = call
      BY <1>3 DEF saved
    <2> QED
      BY <1>3, <1>7, <2>3, <2>4 DEF CInv, CountsKept, n
  <1>9. NatConsensus'
    <2>1. copied' = copied
      BY <1>3 DEF saved
    <2>2. ASSUME NEW i \in 1..Len(All') PROVE All'[i].consensus \in Nat
      <3>1. CASE i = Len(All')
        BY <1>2, <3>1
      <3>2. CASE i \in 1..Len(All)
        BY <1>2, <3>2 DEF CInv, NatConsensus, FirstOf
      <3> QED
        BY <1>2, <3>1, <3>2
    <2> QED
      BY <2>1, <2>2 DEF CInv, NatConsensus
  <1> QED
    BY <1>1, <1>5, <1>6, <1>7, <1>8, <1>9 DEF CInv, Counting, ListedIn

LEMMA SetCheckPointCInv == ASSUME CInv, SetCheckPoint PROVE CInv'
  <1>1. /\ checkpoint' = [row |-> m_Row, counts |-> counts, size |-> Len(m_MemPool)]
        /\ call' \in {"tx", "blocktx"}
        /\ UNCHANGED <<m_Block, m_Row, m_MemPool, files, counts, cleared, copied>>
    BY DEF SetCheckPoint
  <1>2. LInv'
    BY SetCheckPointLInv DEF CInv
  <1>3. SubSeq(m_MemPool, 1, Len(m_MemPool)) = m_MemPool
    BY SubSeqFull DEF CInv, LInv, Typed
  <1>4. CountsKept'
    BY <1>1, <1>3 DEF CInv, CountsKept, Counting, All, files, Next1
  <1> QED
    BY <1>1, <1>2, <1>4 DEF CInv, Counting, NatConsensus, All, files, Next1, ListedIn

LEMMA AcceptTxCInv == ASSUME CInv, AcceptTx PROVE CInv'
  <1>1. LInv'
    BY AcceptTxLInv DEF CInv
  <1> QED
    BY <1>1 DEF AcceptTx, CInv, Counting, CountsKept, NatConsensus, All, files, saved, Next1,
                ListedIn

LEMMA AbandonBlockCInv == ASSUME CInv, AbandonBlock PROVE CInv'
  <1>1. LInv'
    BY AbandonBlockLInv DEF CInv
  <1> QED
    BY <1>1 DEF AbandonBlock, CInv, Counting, CountsKept, NatConsensus, All, files, saved, Next1,
                ListedIn

LEMMA CopyMemPoolCInv == ASSUME CInv, CopyMemPool PROVE CInv'
  <1>1. /\ copied' = [pool |-> m_MemPool, counts |-> counts] /\ call' = "copied"
        /\ UNCHANGED <<m_Block, m_Row, m_MemPool, files, counts, cleared, checkpoint>>
    BY DEF CopyMemPool
  <1>2. LInv'
    BY CopyMemPoolLInv DEF CInv
  <1>3. CountsKept'
    BY <1>1 DEF CInv, CountsKept, Counting, All, files, Next1
  <1>4. NatConsensus'
    <2>1. copied'.pool = m_MemPool /\ All' = All
      BY <1>1 DEF All, files
    <2>2. \A i \in 1..Len(m_MemPool) : m_MemPool[i].consensus \in Nat
      <3> TAKE i \in 1..Len(m_MemPool)
      <3>1. /\ All[Len(ledger) + i] = m_MemPool[i] /\ Len(ledger) + i \in 1..Len(All)
        BY AllRows DEF CInv, LInv, Typed
      <3> QED
        BY <3>1 DEF CInv, NatConsensus
    <2> QED
      BY <2>1, <2>2 DEF CInv, NatConsensus
  <1> QED
    BY <1>1, <1>2, <1>3, <1>4 DEF CInv, Counting, All, files, Next1, ListedIn

\* What holds of every row of All holds of the rows of the file, ...
LEMMA FileConsensus ==
    ASSUME CInv
    PROVE  /\ Len(ledger) \in Nat
           /\ \A i \in 1..Len(ledger) : ledger[i].consensus \in Nat
           /\ \A i \in 1..Len(m_MemPool) : m_MemPool[i].consensus \in Nat
  <1>1. /\ Len(ledger) \in Nat /\ Len(m_MemPool) \in Nat
        /\ Len(All) = Len(ledger) + Len(m_MemPool)
        /\ \A i \in 1..Len(ledger) : All[i] = ledger[i]
        /\ \A i \in 1..Len(m_MemPool) : All[Len(ledger) + i] = m_MemPool[i]
    BY AllRows DEF CInv, LInv, Typed
  <1>2. \A i \in 1..Len(m_MemPool) : Len(ledger) + i \in 1..Len(All)
    BY <1>1
  <1>3. \A i \in 1..Len(ledger) : i \in 1..Len(All)
    BY <1>1
  <1> QED
    BY <1>1, <1>2, <1>3 DEF CInv, NatConsensus

\* ... and so of a file and rows in memory put together.
LEMMA JoinedConsensus ==
    ASSUME NEW s \in Seq(IntRows), NEW t \in Seq(IntRows),
           \A i \in 1..Len(s) : s[i].consensus \in Nat,
           \A i \in 1..Len(t) : t[i].consensus \in Nat
    PROVE  \A i \in 1..Len(s \o t) : (s \o t)[i].consensus \in Nat
  <1>1. /\ Len(s) \in Nat /\ Len(t) \in Nat /\ Len(s \o t) = Len(s) + Len(t)
        /\ \A i \in 1..(Len(s) + Len(t)) :
              (s \o t)[i] = IF i <= Len(s) THEN s[i] ELSE t[i - Len(s)]
    BY Joined
  <1> TAKE i \in 1..Len(s \o t)
  <1>2. CASE i <= Len(s)
    BY <1>1, <1>2
  <1>3. CASE ~(i <= Len(s))
    <2>1. i - Len(s) \in 1..Len(t) /\ i \in 1..(Len(s) + Len(t))
      BY <1>1, <1>3
    <2> QED
      BY <1>1, <1>3, <2>1
  <1> QED
    BY <1>2, <1>3

LEMMA RollBackToCheckPointCInv == ASSUME CInv, RollBackToCheckPoint PROVE CInv'
  <1> DEFINE n == checkpoint.size
  <1>1. /\ call \in {"tx", "blocktx"} /\ call' = "none" /\ counts' = checkpoint.counts
        /\ m_MemPool' = SubSeq(m_MemPool, 1, n)
        /\ UNCHANGED <<m_Block, files, cleared, saved>>
    BY DEF RollBackToCheckPoint
  <1>2. LInv'
    BY RollBackToCheckPointLInv DEF CInv
  <1>3. Counting'
    BY <1>1 DEF CInv, Counting, CountsKept, All, files, Next1
  <1>4. n \in 0..Len(m_MemPool) /\ m_MemPool \in Seq(IntRows) /\ ledger \in Seq(IntRows)
    BY <1>1, AllRows DEF CInv, LInv, Typed, InCall
  <1>5. /\ m_MemPool' \in Seq(IntRows) /\ Len(m_MemPool') = n
        /\ \A i \in 1..n : m_MemPool'[i] = m_MemPool[i]
    BY <1>1, <1>4, PrefixOf
  <1>6. \A i \in 1..Len(m_MemPool') : m_MemPool'[i].consensus \in Nat
    <2>1. Len(m_MemPool) \in Nat
      BY <1>4, LenProperties
    <2> HIDE DEF n
    <2>2. \A i \in 1..n : i \in 1..Len(m_MemPool)
      BY <1>4, <2>1
    <2>3. \A i \in 1..Len(m_MemPool) : m_MemPool[i].consensus \in Nat
      BY FileConsensus
    <2> QED
      BY <1>5, <2>2, <2>3
  <1>7. NatConsensus'
    <2>1. All' = ledger \o m_MemPool' /\ copied' = copied
      BY <1>1 DEF All, files, saved
    <2>2. m_MemPool' \in Seq(IntRows)
      BY <1>5
    <2>3. \A i \in 1..Len(All') : All'[i].consensus \in Nat
      BY <1>4, <1>6, <2>1, <2>2, FileConsensus, JoinedConsensus
    <2> QED
      BY <2>1, <2>3 DEF CInv, NatConsensus
  <1> QED
    BY <1>1, <1>2, <1>3, <1>7 DEF CInv, CountsKept, ListedIn, files

LEMMA ClearMemPoolCInv == ASSUME CInv, ClearMemPool PROVE CInv'
  <1>1. /\ m_MemPool' = <<>> /\ counts' = ClearedCounts /\ cleared' = ClearedCounts
        /\ call' \in {"none", "block", "cleared"} /\ (call' = "cleared" => call = "copied")
        /\ UNCHANGED <<m_Block, files, saved>>
    BY DEF ClearMemPool
  <1>2. LInv'
    BY ClearMemPoolLInv DEF CInv
  <1>3. All' = ledger /\ Next1' = Next1
    BY <1>1, ConcatEmptySeq DEF All, files, CInv, LInv, Typed, Next1
  <1>4. Counting'
    BY <1>1, <1>3, ClearedIs DEF Counting, files
  <1>5. CountsKept'
    <2>1. call = "copied" => copied.pool = m_MemPool
      BY DEF CInv, LInv, InCall
    <2> QED
      BY <1>1, <1>3, <2>1 DEF CInv, CountsKept, files, saved, All
  <1>6. NatConsensus'
    BY <1>1, <1>3, FileConsensus DEF CInv, NatConsensus, saved
  <1> QED
    BY <1>1, <1>2, <1>4, <1>5, <1>6 DEF CInv, ListedIn, files

LEMMA RestoreMemPoolCInv == ASSUME CInv, RestoreMemPool PROVE CInv'
  <1>1. /\ m_MemPool' = copied.pool /\ counts' = copied.counts /\ cleared' = ClearedCounts
        /\ call = "cleared" /\ call' = "none"
        /\ UNCHANGED <<m_Block, files, saved>>
    BY DEF RestoreMemPool
  <1>2. LInv'
    BY RestoreMemPoolLInv DEF CInv
  <1>3. All' = ledger \o copied.pool /\ Next1' = Next1
    BY <1>1 DEF All, files, Next1
  <1>4. Counting'
    BY <1>1, <1>3, ClearedIs DEF CInv, Counting, CountsKept, files
  <1>5. NatConsensus'
    <2>1. ledger \in Seq(IntRows) /\ copied.pool \in Seq(IntRows)
      BY DEF CInv, LInv, Typed
    <2>2. \A i \in 1..Len(All') : All'[i].consensus \in Nat
      BY <1>3, <2>1, FileConsensus, JoinedConsensus DEF CInv, NatConsensus
    <2> QED
      BY <1>1, <2>2 DEF CInv, NatConsensus, saved
  <1> QED
    BY <1>1, <1>2, <1>4, <1>5 DEF CInv, CountsKept, ListedIn, files

LEMMA CommitCannotOpenCInv ==
    ASSUME CInv, NEW miner \in Addresses, CommitCannotOpen(miner)
    PROVE  CInv'
  <1> DEFINE new == Appended(miner)
  <1>1. /\ call' = "none" /\ m_MemPool' = new
        /\ UNCHANGED <<m_Block, files, counts, cleared, saved>>
    BY DEF CommitCannotOpen
  <1>2. LInv'
    BY CommitCannotOpenLInv DEF CInv
  <1>3. /\ Len(All) \in Nat /\ Len(All') \in Nat /\ FirstOf(All, All')
        /\ \A j \in (Len(All) + 1)..Len(All') : /\ All'[j].key \notin PermKeys
                                               /\ All'[j].consensus = 0
    <2>1. All' = ledger \o new
      BY <1>1 DEF All, files
    <2> QED
      BY <2>1, AppendedExtends DEF CInv
  <1> HIDE DEF new
  <1>4. Counting'
    <2>1. \A k \in PermKeys : RangeIn(All', k) = RangeIn(All, k)
      <3> TAKE k \in PermKeys
      <3>1. \A j \in (Len(All) + 1)..Len(All') : All'[j].key # k
        BY <1>3
      <3> QED
        BY <1>3, <3>1, RangeInOther
    <2>2. CountsIn(All', Next1) = CountsIn(All, Next1)
      BY <2>1, SameCounts
    <2> QED
      BY <1>1, <2>2 DEF CInv, Counting, Next1, files
  <1>5. NatConsensus'
    <2>1. ASSUME NEW i \in 1..Len(All') PROVE All'[i].consensus \in Nat
      <3>1. CASE i \in 1..Len(All)
        BY <1>3, <3>1 DEF CInv, NatConsensus, FirstOf
      <3>2. CASE i \in (Len(All) + 1)..Len(All')
        BY <1>3, <3>2
      <3> QED
        BY <1>3, <3>1, <3>2
    <2> QED
      BY <1>1, <2>1 DEF CInv, NatConsensus, saved
  <1> QED
    BY <1>1, <1>2, <1>4, <1>5 DEF CInv, CountsKept, ListedIn, files

LEMMA CommitCInv == ASSUME CInv, NEW miner \in Addresses, Commit(miner) PROVE CInv'
  <1> DEFINE new == Appended(miner)
  <1>1. /\ call' = "none" /\ m_MemPool' = <<>> /\ m_Block' = m_Block + 1
        /\ ledger' = ledger \o new /\ db' = Indexed(new, Base)
        /\ counts' = UpdateCounts(db', listed', m_Block + 1) /\ cleared' = counts'
        /\ UNCHANGED saved
    BY DEF Commit
  <1>2. listed' = listed \cup {new[i].key : i \in
                         {j \in 1..Len(new) : new[j].key[2] \in {"admin", "mine"}}}
    BY DEF Commit
  <1>3. /\ new \in Seq(IntRows) /\ Len(new) = Len(m_MemPool) + 2
        /\ \A i \in 1..Len(m_MemPool) : new[i] = m_MemPool[i]
        /\ \A i \in (Len(m_MemPool) + 1)..Len(new) : new[i].consensus = 0
    BY AppendedIs DEF CInv
  <1> HIDE DEF new
  <1>4. LInv'
    BY CommitLInv DEF CInv
  <1>5. /\ ledger' \in Seq(IntRows) /\ Names(db', ledger')
        /\ ledger \in Seq(IntRows) /\ m_MemPool \in Seq(IntRows)
    BY <1>4 DEF CInv, LInv, Typed, DbAt, Names
  <1>6. Len(new) \in Nat /\ Base \in Nat /\ Len(m_MemPool) \in Nat
    BY <1>3, LenProperties, AllRows DEF CInv, LInv
  <1>7. ListedIn(db', listed')
    <2>1. SUFFICES ASSUME NEW a \in Addresses, NEW type \in {"admin", "mine"},
                          db'[<<a, type>>].row # 0
                   PROVE  <<a, type>> \in listed'
      BY DEF ListedIn
    <2> DEFINE k == <<a, type>>
    <2>2. k \in Keys /\ k[2] \in {"admin", "mine"}
      BY PermissionsAssumption DEF Keys, LinkedKeys, PermKeys
    <2>3. EntryOf(new, Base, k)
      BY <1>6, <2>2, IndexedIs
    <2>4. CASE db'[k] = db[k]
      BY <1>2, <2>1, <2>4 DEF CInv, ListedIn
    <2> HIDE DEF k
    <2>5. ASSUME NEW last \in 1..Len(new), new[last].key = k PROVE k \in listed'
      BY <1>2, <2>2, <2>5
    <2> QED
      BY <1>1, <2>3, <2>4, <2>5 DEF EntryOf, k
  <1>8. All' = ledger' /\ Next1' = m_Block + 1 + 1
    BY <1>1, <1>5, ConcatEmptySeq DEF All, Next1
  <1>9. Counting'
    <2>1. Len(ledger') \in Nat /\ m_Block + 1 \in Int /\ m_Block + 1 >= -1
      BY <1>5, LenProperties, NextBlock DEF CInv
    <2>2. counts' = CountsIn(ledger', m_Block + 1 + 1)
      BY <1>1, <1>5, <1>7, <2>1, UpdateCountsIs
    <2> QED
      BY <1>1, <1>8, <2>2 DEF Counting
  <1>10. NatConsensus'
    <2>1. ASSUME NEW i \in 1..Len(new) PROVE new[i].consensus \in Nat
      <3>1. CASE i \in 1..Len(m_MemPool)
        BY <1>3, <3>1, FileConsensus
      <3>2. CASE i \in (Len(m_MemPool) + 1)..Len(new)
        BY <1>3, <3>2
      <3> QED
        BY <1>3, <1>6, <3>1, <3>2
    <2>2. new \in Seq(IntRows)
      BY <1>3
    <2>3. \A i \in 1..Len(All') : All'[i].consensus \in Nat
      BY <1>1, <1>5, <1>8, <2>1, <2>2, FileConsensus, JoinedConsensus
    <2> QED
      BY <1>1, <2>3 DEF CInv, NatConsensus, saved
  <1> QED
    BY <1>1, <1>4, <1>7, <1>9, <1>10 DEF CInv, CountsKept

LEMMA RollBackInternalCInv ==
    ASSUME CInv, NEW b \in Blocks, b <= m_Block, RollBackInternal(b), call' = "none"
    PROVE  CInv'
  <1> DEFINE top == Top(b)
  <1>1. /\ db' = Unwound(top) /\ ledger' = SubSeq(ledger, 1, top)
        /\ m_MemPool' = <<>> /\ m_Block' = b /\ listed' = listed /\ UNCHANGED saved
        /\ counts' = UpdateCounts(db', listed, b) /\ cleared' = counts'
    BY DEF RollBackInternal
  <1>2. b \in Int /\ b >= -1
    BY DEF Blocks
  <1>3. top \in 0..Len(ledger)
    BY <1>2, TopIs DEF CInv
  <1> HIDE DEF top
  <1>4. LInv'
    BY RollBackInternalLInv DEF CInv
  <1>5. /\ ledger' \in Seq(IntRows) /\ Names(db', ledger')
        /\ ledger \in Seq(IntRows) /\ Len(ledger) \in Nat /\ Names(db, ledger)
    BY <1>4, AllRows DEF CInv, LInv, Typed, DbAt, Names
  <1>6. ListedIn(db', listed')
    <2>1. SUFFICES ASSUME NEW a \in Addresses, NEW type \in {"admin", "mine"},
                          db'[<<a, type>>].row # 0
                   PROVE  <<a, type>> \in listed
      BY <1>1 DEF ListedIn
    <2> DEFINE k == <<a, type>>
    <2>2. k \in Keys /\ k \in LinkedKeys
      BY PermissionsAssumption DEF Keys, LinkedKeys, PermKeys
    <2>3. LeftOf(top, k)
      BY <1>3, <2>2, UnwoundIs DEF CInv, LInv
    <2> HIDE DEF k
    <2>4. db[k].row # 0
      <3>1. CASE db'[k] = db[k]
        BY <2>1, <3>1 DEF k
      <3>2. ASSUME NEW first \in (top + 1)..Len(ledger), ledger[first].key = k
            PROVE  db[k].row # 0
        BY <1>3, <1>5, <2>2, <3>2 DEF Names, LastIn
      <3> QED
        BY <1>1, <2>3, <3>1, <3>2 DEF LeftOf
    <2> QED
      BY <2>4 DEF CInv, ListedIn, k
  <1>7. All' = ledger' /\ Next1' = b + 1
    BY <1>1, <1>5, ConcatEmptySeq DEF All, Next1
  <1>8. Counting'
    <2>1. Len(ledger') \in Nat
      BY <1>5, LenProperties
    <2>2. counts' = CountsIn(ledger', b + 1)
      BY <1>1, <1>2, <1>5, <1>6, <2>1, UpdateCountsIs
    <2> QED
      BY <1>1, <1>7, <2>2 DEF Counting
  <1>9. NatConsensus'
    <2>1. Len(ledger') = top /\ \A i \in 1..top : ledger'[i] = ledger[i]
      BY <1>1, <1>3, <1>5, PrefixOf
    <2>2. \A i \in 1..Len(All') : All'[i].consensus \in Nat
      BY <1>3, <1>5, <1>7, <2>1, FileConsensus
    <2> QED
      BY <1>1, <2>2 DEF CInv, NatConsensus, saved
  <1> QED
    BY <1>4, <1>6, <1>8, <1>9 DEF CInv, CountsKept

-----------------------------------------------------------------------------
LEMMA NextCInv == ASSUME CInv, [Next]_vars PROVE CInv'
  <1>1. CASE UNCHANGED vars
    <2>1. LInv'
      BY <1>1, NextLInv DEF CInv
    <2> QED
      BY <1>1, <2>1 DEF vars, files, saved, CInv, Counting, CountsKept, NatConsensus, All, Next1,
                        ListedIn
  <1>2. CASE \E a \in Addresses, k \in PermKeys, range \in Ranges, ts \in Timestamps :
                SetPermission(a, k, range, ts)
    BY <1>2, SetPermissionCInv
  <1>3. CASE \E miner \in Addresses : Commit(miner) \/ CommitCannotOpen(miner)
    BY <1>3, CommitCInv, CommitCannotOpenCInv
  <1>4. CASE \E b \in Blocks : RollBack(b)
    BY <1>4, RollBackInternalCInv DEF RollBack
  <1>5. CASE CommitFails
    <2>1. m_Block \in Blocks /\ m_Block <= m_Block
      BY DEF CInv, LInv, Typed, Blocks
    <2> QED
      BY <1>5, <2>1, RollBackInternalCInv DEF CommitFails
  <1> QED
    BY <1>1, <1>2, <1>3, <1>4, <1>5, SetCheckPointCInv, AcceptTxCInv,
       RollBackToCheckPointCInv, AbandonBlockCInv, ClearMemPoolCInv, CopyMemPoolCInv,
       RestoreMemPoolCInv DEF Next

LEMMA CountsInvariant == Spec => []CInv
  BY InitCInv, NextCInv, PTL DEF Spec

\* The counts that AdminConsensus and mining diversity divide by are the numbers of
\* addresses that have the permission, although SetPermission only ever adds or takes one
\* and rejected transactions, checked blocks and the replay of the pool put old counts
\* back; the cleared counts are those the blocks alone make.
THEOREM CountsAreRight == Spec => []CountsAccurate
  <1>1. ASSUME CInv PROVE CountsAccurate
    <2>1. SUFFICES ASSUME NEW type \in {"admin", "mine"}
                   PROVE  /\ counts[type] = Cardinality(Allowed(type))
                          /\ cleared[type] = Cardinality(Committed(type))
      BY DEF CountsAccurate
    <2>2. \A a \in Addresses : <<a, type>> \in LinkedKeys
      BY PermissionsAssumption DEF LinkedKeys, PermKeys
    <2>3. Allowed(type) = HoldersIn(All, Next1, type)
      BY <1>1, <2>2, HeldRange DEF CInv, Allowed, HoldersIn, GetPermission, Next1
    <2>4. Committed(type) = HoldersIn(ledger, Next1, type)
      <3>1. Len(ledger) \in Nat /\ Names(db, ledger)
        BY <1>1, AllRows DEF CInv, LInv, DbAt, Names
      <3>2. \A a \in Addresses :
               RangeIn(ledger, <<a, type>>) = <<db[<<a, type>>].from, db[<<a, type>>].to>>
        BY <2>2, <3>1, NamedRange
      <3> QED
        BY <3>2 DEF Committed, HoldersIn, Next1
    <2> QED
      BY <1>1, <2>3, <2>4, CountsTyped DEF CInv, Counting
  <1> QED
    BY <1>1, CountsInvariant, PTL

LEMMA RowsAreRecords ==
    ASSUME NEW s \in Seq(IntRows), \A i \in 1..Len(s) : s[i].consensus \in Nat
    PROVE  s \in Seq(RowRecords)
  <1>1. ASSUME NEW i \in 1..Len(s) PROVE s[i] \in RowRecords
    <2>1. s[i] \in IntRows /\ s[i].consensus \in Nat
      BY ElementOfSeq
    <2> QED
      BY <2>1 DEF IntRows, RowRecords
  <1>2. Len(s) \in Nat /\ DOMAIN s = 1..Len(s) /\ s = [i \in 1..Len(s) |-> s[i]]
    BY LenProperties
  <1>3. s \in [1..Len(s) -> RowRecords]
    BY <1>1, <1>2
  <1> QED
    BY <1>2, <1>3, SeqDef

\* Every state is well typed; above all, no row is decided by a negative number of
\* administrators, which needs the counts never to go below zero (AdminConsensus).
THEOREM TypeCorrect == Spec => []TypeOK
  <1>1. ASSUME CInv PROVE TypeOK
    <2>1. Typed /\ NatConsensus
      BY <1>1 DEF CInv, LInv
    <2>2. ledger \in Seq(RowRecords) /\ m_MemPool \in Seq(RowRecords)
      BY <1>1, <2>1, FileConsensus, RowsAreRecords DEF Typed
    <2>3. copied.pool \in Seq(RowRecords)
      BY <2>1, RowsAreRecords DEF Typed, NatConsensus
    <2>4. copied \in [pool : Seq(RowRecords), counts : [admin : Int, mine : Int]]
      BY <2>1, <2>3 DEF Typed, CountRecords
    <2>5. m_Row \in Nat
      BY <2>1, AllRows
    <2> QED
      BY <2>1, <2>2, <2>4, <2>5 DEF Typed, TypeOK, CountRecords
  <1> QED
    BY <1>1, CountsInvariant, PTL

-----------------------------------------------------------------------------
(***************************************************************************)
(* Consensus.  Whether a row is backed as it must be depends only on the   *)
(* rows up to it, so that neither a rollback nor a later row can undo it.  *)
(***************************************************************************)

\* the rows of the key of row i since the one decided before it
Since(s, i) ==
    {j \in 1..i : /\ s[j].key = s[i].key
                  /\ \A d \in j..(i - 1) : s[d].key = s[i].key => s[d].consensus = 0}

Backers(s, i) == {s[j].admin : j \in {x \in Since(s, i) : Same(s[x], s[i])}}

Backed(s, i) ==
    IF s[i].consensus > 0 THEN Cardinality(Backers(s, i)) >= s[i].consensus
                          ELSE <<s[i].from, s[i].to>> = RangeAt(s, s[i].prev)

AllBacked(s) ==
    \A i \in 1..Len(s) : s[i].key \in PermKeys => s[i].admin \in Addresses /\ Backed(s, i)

BInv ==
    /\ CInv
    /\ AllBacked(All)
    /\ call = "cleared" => AllBacked(ledger \o copied.pool)

LEMMA BackedSame ==
    ASSUME NEW s, NEW t, NEW i \in Nat \ {0}, \A j \in 1..i : t[j] = s[j],
           s[i].prev \in 0..(i - 1), Backed(s, i)
    PROVE  Backed(t, i)
  <1>1. t[i] = s[i] /\ \A j \in 1..i : j..(i - 1) \subseteq 1..i
    OBVIOUS
  <1>2. Since(t, i) = Since(s, i)
    BY <1>1 DEF Since
  <1>3. Backers(t, i) = Backers(s, i)
    BY <1>1, <1>2 DEF Backers, Since
  <1>4. RangeAt(t, t[i].prev) = RangeAt(s, s[i].prev)
    BY <1>1 DEF RangeAt
  <1> QED
    BY <1>1, <1>3, <1>4 DEF Backed

LEMMA AllBackedPrefix ==
    ASSUME NEW s, NEW t, Len(s) \in Nat, Len(t) \in Nat, Linked(s), FirstOf(t, s), AllBacked(s)
    PROVE  AllBacked(t)
  <1>1. SUFFICES ASSUME NEW i \in 1..Len(t), t[i].key \in PermKeys
                 PROVE  t[i].admin \in Addresses /\ Backed(t, i)
    BY DEF AllBacked
  <1>2. /\ i \in 1..Len(s) /\ i \in Nat \ {0} /\ \A j \in 1..i : t[j] = s[j]
        /\ t[i] = s[i]
    BY DEF FirstOf
  <1>3. s[i].admin \in Addresses /\ Backed(s, i)
    BY <1>1, <1>2 DEF AllBacked
  <1>4. s[i].prev \in 0..(i - 1)
    BY <1>2 DEF Linked
  <1> QED
    BY <1>2, <1>3, <1>4, BackedSame

LEMMA AllBackedExtends ==
    ASSUME NEW s, NEW t, Len(s) \in Nat, Len(t) \in Nat, Linked(s), FirstOf(s, t), AllBacked(s),
           \A i \in (Len(s) + 1)..Len(t) :
               t[i].key \in PermKeys => t[i].admin \in Addresses /\ Backed(t, i)
    PROVE  AllBacked(t)
  <1>1. SUFFICES ASSUME NEW i \in 1..Len(t), t[i].key \in PermKeys
                 PROVE  t[i].admin \in Addresses /\ Backed(t, i)
    BY DEF AllBacked
  <1>2. CASE i \in 1..Len(s)
    <2>1. i \in Nat \ {0} /\ t[i] = s[i] /\ \A j \in 1..i : t[j] = s[j]
      BY <1>2 DEF FirstOf
    <2>2. s[i].admin \in Addresses /\ Backed(s, i) /\ s[i].prev \in 0..(i - 1)
      BY <1>1, <1>2, <2>1 DEF AllBacked, Linked
    <2> QED
      BY <2>1, <2>2, BackedSame
  <1>3. CASE i \in (Len(s) + 1)..Len(t)
    BY <1>1, <1>3
  <1> QED
    BY <1>2, <1>3

\* A new row is decided by the administrators there are, or keeps the range.
LEMMA NewRowDecided ==
    ASSUME LInv, NEW a \in Addresses, NEW k \in PermKeys, NEW range \in Ranges,
           NEW ts \in Timestamps
    PROVE  LET r == NewRow(a, k, range, ts)
           IN  \/ r.consensus = AdminConsensus(k[2]) /\ Decided(r, r.consensus)
               \/ r.consensus = 0 /\ <<r.from, r.to>> = Held(k)
  <1> DEFINE q == [key |-> k, prev |-> Tip(k), received |-> m_Block + 1,
                   gfrom |-> range[1], gto |-> range[2],
                   from |-> range[1], to |-> range[2],
                   admin |-> IF counts.admin = 0 THEN k[1] ELSE a,
                   ts |-> ts, consensus |-> AdminConsensus(k[2])]
             u == NotDecided(q, Held(k)[1], Held(k)[2])
             r == NewRow(a, k, range, ts)
  <1>1. NewRow(a, k, range, ts) = IF Decided(q, q.consensus) THEN q ELSE u
    BY DEF NewRow, NotDecided
  <1>2. q.consensus = AdminConsensus(k[2])
    OBVIOUS
  <1>3. Held(k) \in Nat \X Nat /\ k \in LinkedKeys
    BY HeldIs DEF LInv, LinkedKeys
  <1>4. u.consensus = 0 /\ u.from = Held(k)[1] /\ u.to = Held(k)[2]
    BY <1>3 DEF NotDecided
  <1> HIDE DEF q, u
  <1>5. CASE Decided(q, q.consensus)
    BY <1>1, <1>2, <1>5
  <1>6. CASE ~Decided(q, q.consensus)
    <2>1. NewRow(a, k, range, ts) = u
      BY <1>1, <1>6
    <2> QED
      BY <1>3, <1>4, <2>1
  <1> QED
    BY <1>5, <1>6

\* VerifyConsensus counts votes that are rows, one for each administrator.
LEMMA NewRowBacked ==
    ASSUME BInv, NEW a \in Addresses, NEW k \in PermKeys, NEW range \in Ranges,
           NEW ts \in Timestamps, SetPermission(a, k, range, ts)
    PROVE  All'[Len(All')].admin \in Addresses /\ Backed(All', Len(All'))
  <1> DEFINE r == NewRow(a, k, range, ts)
             t == All'
             n == Len(All')
  <1>1. /\ r.key = k /\ r.consensus \in Nat
        /\ Len(All) \in Nat /\ Len(t) = Len(All) + 1 /\ FirstOf(All, t) /\ t[n] = r
    BY Granted DEF BInv
  <1>2. r.admin \in Addresses /\ r.prev = Tip(k)
    <2>1. r.admin \in {a, k[1]} /\ r.prev = Tip(k)
      BY NewRowIs DEF BInv, CInv
    <2> QED
      BY <2>1 DEF PermKeys
  <1>3. /\ m_Row = n /\ n \in Nat \ {0}
        /\ \A i \in 1..(n - 1) : Row(i) = All[i] /\ t[i] = All[i]
    <2>1. /\ m_Row \in Nat /\ Len(All) = m_Row - 1
          /\ \A i \in 1..(m_Row - 1) : Row(i) = All[i]
      BY AllRows DEF BInv, CInv, LInv
    <2>2. m_Row = n /\ n \in Nat \ {0}
      BY <1>1, <2>1
    <2>3. \A i \in 1..Len(All) : t[i] = All[i]
      BY <1>1 DEF FirstOf
    <2> QED
      BY <2>1, <2>2, <2>3
  <1>4. k \in LinkedKeys /\ k[2] \in Types
    BY DEF PermKeys, LinkedKeys
  <1>5. \/ r.consensus = AdminConsensus(k[2]) /\ Decided(r, r.consensus)
        \/ r.consensus = 0 /\ <<r.from, r.to>> = Held(k)
    BY NewRowDecided DEF BInv, CInv
  <1> HIDE DEF r, t, n
  <1>6. CASE r.consensus = 0 /\ <<r.from, r.to>> = Held(k)
    <2>1. Held(k) = RangeAt(All, Tip(k)) /\ LastIn(All, k, m_Row, Tip(k))
      BY <1>4, HeldIs, TipIsLast DEF BInv, CInv, LInv
    <2>2. RangeAt(t, Tip(k)) = RangeAt(All, Tip(k))
      BY <1>3, <2>1 DEF RangeAt, LastIn
    <2>3. Backed(t, n)
      BY <1>1, <1>2, <1>6, <2>1, <2>2 DEF Backed
    <2> QED
      BY <1>1, <1>2, <2>3 DEF t, n
  <1>7. CASE r.consensus = AdminConsensus(k[2]) /\ Decided(r, r.consensus)
    <2>1. n \in Since(t, n) /\ Same(t[n], t[n])
      BY <1>3 DEF Since, Same
    <2>2. r.admin \in Backers(t, n)
      BY <1>1, <2>1 DEF Backers
    <2>3. IsFiniteSet(Backers(t, n)) /\ Backers(t, n) \subseteq Addresses
      <3>1. ASSUME NEW j \in Since(t, n) PROVE t[j].admin \in Addresses
        <4>1. j \in 1..n /\ t[j].key = k
          BY <1>1, <1>3 DEF Since
        <4>2. CASE j = n
          BY <1>1, <1>2, <4>2
        <4>3. CASE j \in 1..(n - 1)
          <5>1. t[j] = All[j] /\ j \in 1..Len(All)
            BY <1>1, <1>3, <4>3 DEF n, t
          <5> QED
            BY <4>1, <5>1 DEF BInv, AllBacked
        <4> QED
          BY <1>3, <4>1, <4>2, <4>3
      <3>2. Backers(t, n) \subseteq Addresses
        BY <3>1 DEF Backers
      <3> QED
        BY <3>2, PermissionsAssumption, FS_Subset
    <2>4. Cardinality(Backers(t, n)) >= r.consensus
      <3>1. CASE r.consensus <= 1
        <4>1. Cardinality(Backers(t, n)) \in Nat /\ Cardinality(Backers(t, n)) # 0
          BY <2>2, <2>3, FS_CardinalityType, FS_EmptySet
        <4> QED
          BY <1>1, <3>1, <4>1
      <3>2. ASSUME NEW oldest \in Undecided(k) \cup {m_Row},
                   Cardinality(Supporters(r, {i \in Undecided(k) : i >= oldest}))
                      >= r.consensus
            PROVE  Cardinality(Backers(t, n)) >= r.consensus
        <4> DEFINE S == {i \in Undecided(k) : i >= oldest}
        <4>1. ASSUME NEW i \in S, Same(Row(i), r) PROVE Row(i).admin \in Backers(t, n)
          <5>1. /\ i \in 1..(m_Row - 1) /\ Row(i).key = k
                /\ \A j \in RowsOf(k) : j >= i => Row(j).consensus = 0
            BY DEF Undecided, RowsOf
          <5>2. t[i] = Row(i) /\ i \in 1..n
            BY <1>3, <5>1
          <5>3. ASSUME NEW d \in i..(n - 1), t[d].key = k PROVE t[d].consensus = 0
            <6>1. d \in 1..(m_Row - 1) /\ d >= i /\ Row(d) = t[d]
              BY <1>3, <5>1
            <6> QED
              BY <5>1, <5>3, <6>1 DEF RowsOf
          <5>4. i \in Since(t, n)
            BY <1>1, <5>1, <5>2, <5>3 DEF Since
          <5> QED
            BY <1>1, <4>1, <5>2, <5>4 DEF Backers
        <4>2. Supporters(r, S) \subseteq Backers(t, n)
          <5> HIDE DEF S
          <5> QED
            BY <2>2, <4>1 DEF Supporters
        <4>3. Cardinality(Supporters(r, S)) <= Cardinality(Backers(t, n))
          BY <2>3, <4>2, FS_Subset
        <4>4. Cardinality(Supporters(r, S)) \in Nat /\ Cardinality(Backers(t, n)) \in Nat
          BY <2>3, <4>2, FS_Subset, FS_CardinalityType
        <4> QED
          BY <1>1, <3>2, <4>3, <4>4
      <3> QED
        BY <1>1, <1>7, <3>1, <3>2 DEF Decided
    <2>5. r.consensus > 0
      <3>1. counts \in [admin : Nat, mine : Nat]
        BY CountsTyped DEF BInv, CInv, Counting
      <3>2. AdminConsensus(k[2]) \in Nat \ {0}
        BY <1>4, <3>1, ConsensusNat DEF BInv, CInv
      <3> QED
        BY <1>7, <3>2
    <2>6. Backed(t, n)
      BY <1>1, <2>4, <2>5 DEF Backed
    <2> QED
      BY <1>1, <1>2, <2>6 DEF t, n
  <1> QED
    BY <1>5, <1>6, <1>7

LEMMA InitBInv == ASSUME Init PROVE BInv
  <1>1. CInv /\ Len(All) = 0
    <2>1. CInv
      BY InitCInv
    <2>2. m_Row = 1
      BY DEF Init
    <2> QED
      BY <2>1, <2>2, AllRows DEF CInv, LInv
  <1> QED
    BY <1>1 DEF BInv, AllBacked, Init

\* The rows that are left are still backed.
LEMMA LeftBacked ==
    ASSUME BInv, NEW t, Len(t) \in Nat, FirstOf(t, All)
    PROVE  AllBacked(t)
  <1>1. Len(All) \in Nat /\ Linked(All) /\ AllBacked(All)
    BY AllRows DEF BInv, CInv, LInv
  <1> QED
    BY <1>1, AllBackedPrefix

LEMMA NextBInv == ASSUME BInv, [Next]_vars PROVE BInv'
  <1>1. CInv'
    BY NextCInv DEF BInv
  <1>2. Linked(All) /\ Len(All) \in Nat /\ Len(ledger) \in Nat /\ ledger \in Seq(IntRows)
    BY AllRows DEF BInv, CInv, LInv, Typed
  <1>3. CASE \/ UNCHANGED vars \/ SetCheckPoint \/ AcceptTx \/ AbandonBlock \/ CopyMemPool
    <2>1. UNCHANGED vars \/ (All' = All /\ call' # "cleared")
      BY <1>3 DEF SetCheckPoint, AcceptTx, AbandonBlock, CopyMemPool, All, files
    <2> QED
      BY <1>1, <2>1 DEF BInv, All, vars, files, saved
  <1>4. ASSUME NEW a \in Addresses, NEW k \in PermKeys, NEW range \in Ranges,
               NEW ts \in Timestamps, SetPermission(a, k, range, ts)
        PROVE  BInv'
    <2>1. /\ Len(All') \in Nat /\ FirstOf(All, All') /\ Len(All') = Len(All) + 1
      BY <1>4, Granted DEF BInv
    <2>2. All'[Len(All')].admin \in Addresses /\ Backed(All', Len(All'))
      BY <1>4, NewRowBacked
    <2>3. \A i \in (Len(All) + 1)..Len(All') : i = Len(All')
      BY <1>2, <2>1
    <2>4. AllBacked(All')
      BY <1>2, <2>1, <2>2, <2>3, AllBackedExtends DEF BInv
    <2>5. call' # "cleared"
      BY <1>4 DEF SetPermission
    <2> QED
      BY <1>1, <2>4, <2>5 DEF BInv
  <1>5. CASE RollBackToCheckPoint
    <2>1. /\ checkpoint.size \in 0..Len(m_MemPool) /\ call' = "none"
          /\ All' = ledger \o SubSeq(m_MemPool, 1, checkpoint.size)
      BY <1>5, AllRows DEF RollBackToCheckPoint, BInv, CInv, LInv, Typed, InCall, All, files
    <2>2. AllBacked(All')
      BY <2>1, PoolPrefixLinked, LeftBacked DEF BInv, CInv
    <2> QED
      BY <1>1, <2>1, <2>2 DEF BInv
  <1>6. CASE ClearMemPool
    <2>1. /\ All' = ledger /\ ledger' = ledger /\ copied' = copied
          /\ (call' = "cleared" => call = "copied")
      BY <1>2, <1>6, ConcatEmptySeq DEF ClearMemPool, All, files, saved
    <2>2. AllBacked(ledger)
      BY <1>2, FileLinked, LeftBacked DEF BInv, CInv
    <2>3. call = "copied" => copied.pool = m_MemPool
      BY DEF BInv, CInv, LInv, InCall
    <2> QED
      BY <1>1, <2>1, <2>2, <2>3 DEF BInv, All
  <1>7. CASE RestoreMemPool
    <2>1. call = "cleared" /\ call' = "none" /\ All' = ledger \o copied.pool
      BY <1>7 DEF RestoreMemPool, All, files
    <2> QED
      BY <1>1, <2>1 DEF BInv
  <1>8. ASSUME NEW miner \in Addresses, Commit(miner) \/ CommitCannotOpen(miner)
        PROVE  BInv'
    <2>1. /\ call' = "none" /\ All' = ledger \o Appended(miner)
      <3>1. CASE Commit(miner)
        <4>1. /\ call' = "none" /\ m_MemPool' = <<>> /\ ledger' = ledger \o Appended(miner)
          BY <3>1 DEF Commit
        <4>2. ledger' \in Seq(IntRows)
          BY <1>1 DEF CInv, LInv, Typed
        <4> QED
          BY <4>1, <4>2, ConcatEmptySeq DEF All
      <3>2. CASE CommitCannotOpen(miner)
        BY <3>2 DEF CommitCannotOpen, All, files
      <3> QED
        BY <1>8, <3>1, <3>2
    <2>2. /\ Len(All') \in Nat /\ FirstOf(All, All')
          /\ \A j \in (Len(All) + 1)..Len(All') : All'[j].key \notin PermKeys
      BY <2>1, AppendedExtends DEF BInv, CInv
    <2>3. AllBacked(All')
      BY <1>2, <2>2, AllBackedExtends DEF BInv
    <2> QED
      BY <1>1, <2>1, <2>3 DEF BInv
  <1>9. ASSUME NEW b \in Blocks, RollBackInternal(b), call' = "none"
        PROVE  BInv'
    <2> DEFINE top == Top(b)
    <2>1. ledger' = SubSeq(ledger, 1, top) /\ m_MemPool' = <<>>
      BY <1>9 DEF RollBackInternal
    <2>2. top \in 0..Len(ledger)
      BY TopIs DEF BInv, CInv, Blocks
    <2> HIDE DEF top
    <2>3. /\ ledger' \in Seq(IntRows) /\ Len(ledger') = top /\ top \in Nat
          /\ \A i \in 1..top : ledger'[i] = ledger[i]
      BY <1>2, <2>1, <2>2, PrefixOf
    <2>4. All' = ledger'
      BY <2>1, <2>3, ConcatEmptySeq DEF All
    <2>5. FirstOf(ledger, All)
      BY FileLinked DEF BInv, CInv
    <2>6. FirstOf(All', All) /\ Len(All') \in Nat
      BY <1>2, <2>2, <2>3, <2>4, <2>5 DEF FirstOf
    <2>7. AllBacked(All')
      BY <2>6, LeftBacked
    <2> QED
      BY <1>1, <1>9, <2>7 DEF BInv
  <1>10. CASE \E b \in Blocks : RollBack(b)
    BY <1>9, <1>10 DEF RollBack
  <1>11. CASE CommitFails
    <2>1. m_Block \in Blocks
      BY DEF BInv, CInv, LInv, Typed
    <2> QED
      BY <1>9, <1>11, <2>1 DEF CommitFails
  <1> QED
    BY <1>3, <1>4, <1>5, <1>6, <1>7, <1>8, <1>10, <1>11 DEF Next

LEMMA ConsensusInvariant == Spec => []BInv
  BY InitBInv, NextBInv, PTL DEF Spec

\* A permission that was decided by n administrators is backed by votes of n different ones
\* for this very range since the decision before it, in whatever blocks, or in memory,
\* their rows are; a row that was not decided gives the permission the range it had
\* (VerifyConsensus).  For every number of administrators, every share and every history.
THEOREM DecisionsAreBacked == Spec => []ConsensusSound
  <1>1. ASSUME BInv PROVE ConsensusSound
    <2>1. SUFFICES
            ASSUME NEW i \in 1..(m_Row - 1), Row(i).key \in PermKeys
            PROVE  LET r == Row(i)
                       since == {j \in RowsOf(r.key) : /\ j <= i
                                    /\ \A d \in RowsOf(r.key) :
                                          d < i /\ d >= j => Row(d).consensus = 0}
                   IN  IF r.consensus > 0
                       THEN Cardinality({Row(j).admin : j \in {s \in since : Same(Row(s), r)}})
                               >= r.consensus
                       ELSE IF r.prev = 0 THEN r.from = 0 /\ r.to = 0
                       ELSE r.from = Row(r.prev).from /\ r.to = Row(r.prev).to
      BY DEF ConsensusSound
    <2> DEFINE r == Row(i)
               since == {j \in RowsOf(r.key) : /\ j <= i
                            /\ \A d \in RowsOf(r.key) : d < i /\ d >= j => Row(d).consensus = 0}
    <2>2. /\ m_Row \in Nat /\ Len(All) = m_Row - 1
          /\ \A j \in 1..(m_Row - 1) : Row(j) = All[j]
      BY <1>1, AllRows DEF BInv, CInv, LInv
    <2>3. r = All[i] /\ Backed(All, i) /\ r.prev \in 0..(i - 1)
      BY <1>1, <2>1, <2>2 DEF BInv, AllBacked, CInv, LInv, Linked
    <2>4. since = Since(All, i)
      <3>1. \A j : j \in since => j \in Since(All, i)
        BY <2>2, <2>3 DEF Since, RowsOf
      <3>2. \A j : j \in Since(All, i) => j \in since
        BY <2>2, <2>3 DEF Since, RowsOf
      <3> QED
        BY <3>1, <3>2
    <2>5. \A j \in since : Row(j) = All[j]
      BY <2>2 DEF RowsOf
    <2> HIDE DEF since
    <2>6. {Row(j).admin : j \in {s \in since : Same(Row(s), r)}} = Backers(All, i)
      BY <2>3, <2>4, <2>5 DEF Backers
    <2>7. r.consensus > 0 =>
             Cardinality({Row(j).admin : j \in {s \in since : Same(Row(s), r)}}) >= r.consensus
      BY <2>3, <2>6 DEF Backed
    <2>8. ~(r.consensus > 0) => IF r.prev = 0 THEN r.from = 0 /\ r.to = 0
                                ELSE r.from = Row(r.prev).from /\ r.to = Row(r.prev).to
      <3> HAVE ~(r.consensus > 0)
      <3>1. <<r.from, r.to>> = RangeAt(All, r.prev)
        BY <2>3 DEF Backed
      <3>2. r.prev # 0 => Row(r.prev) = All[r.prev]
        BY <2>2, <2>3
      <3> HIDE DEF r
      <3> QED
        BY <3>1, <3>2 DEF RangeAt
    <2> QED
      BY <2>7, <2>8 DEF since
  <1> QED
    BY <1>1, ConsensusInvariant, PTL

-----------------------------------------------------------------------------
(***************************************************************************)
(* Refinement.  The history of PermissionHistory is read off the ledger;   *)
(* UpTo and At are LastUpTo and LedgerAt for any rows, so that the ledgers *)
(* before and after a step can be compared.                                *)
(***************************************************************************)
UpTo(s, k, b) ==
    {i \in 1..Len(s) : /\ s[i].key = k /\ s[i].received <= b
                       /\ \A j \in (i + 1)..Len(s) : s[j].key = k => s[j].received > b}

At(s, b) ==
    [k \in PermKeys |->
        IF UpTo(s, k, b) = {} THEN <<0, 0>>
        ELSE LET i == CHOOSE i \in UpTo(s, k, b) : TRUE IN <<s[i].from, s[i].to>>]

Past(s, b) == [n \in 1..(b + 1) |-> At(s, n - 1)]
Now(d)     == [k \in PermKeys |-> <<d[k].from, d[k].to>>]

Confirmed == [PermKeys -> Nat \X Nat]

Rows(s) == \A i \in 1..Len(s) : s[i] \in IntRows

LEMMA AtTyped ==
    ASSUME NEW s, NEW b, Rows(s)
    PROVE  At(s, b) \in Confirmed
  <1>1. ASSUME NEW k \in PermKeys, UpTo(s, k, b) # {},
               NEW i, i = CHOOSE j \in UpTo(s, k, b) : TRUE
        PROVE  <<s[i].from, s[i].to>> \in Nat \X Nat
    <2>1. i \in UpTo(s, k, b)
      BY <1>1
    <2>2. s[i] \in IntRows
      BY <2>1 DEF UpTo, Rows
    <2> QED
      BY <2>2 DEF IntRows
  <1>2. ASSUME NEW k \in PermKeys PROVE At(s, b)[k] \in Nat \X Nat
    <2>1. At(s, b)[k] = IF UpTo(s, k, b) = {} THEN <<0, 0>>
                        ELSE LET i == CHOOSE i \in UpTo(s, k, b) : TRUE IN <<s[i].from, s[i].to>>
      BY DEF At
    <2> QED
      BY <1>1, <2>1
  <1>3. At(s, b) = [k \in PermKeys |-> At(s, b)[k]]
    BY DEF At
  <1> HIDE DEF At
  <1> QED
    BY <1>2, <1>3 DEF Confirmed

\* Rows of later blocks do not show in what was before, ...
LEMMA AtSame ==
    ASSUME NEW s, NEW t, NEW b \in Int, Len(s) \in Nat, Len(t) \in Nat, Rows(t), FirstOf(s, t),
           \A j \in (Len(s) + 1)..Len(t) : t[j].received > b
    PROVE  At(t, b) = At(s, b)
  <1>1. \A j \in 1..Len(t) : t[j].received \in Int
    BY DEF Rows, IntRows
  <1>2. Len(s) <= Len(t) /\ \A i \in 1..Len(s) : t[i] = s[i]
    BY DEF FirstOf
  <1>3. ASSUME NEW k \in PermKeys PROVE UpTo(t, k, b) = UpTo(s, k, b)
    <2>1. ASSUME NEW i \in UpTo(t, k, b) PROVE i \in UpTo(s, k, b)
      <3>1. /\ i \in 1..Len(t) /\ t[i].key = k /\ t[i].received <= b
            /\ \A j \in (i + 1)..Len(t) : t[j].key = k => t[j].received > b
        BY <2>1 DEF UpTo
      <3>2. i \in 1..Len(s)
        <4>1. ~(i \in (Len(s) + 1)..Len(t))
          BY <1>1, <3>1
        <4> QED
          BY <3>1, <4>1
      <3>3. \A j \in (i + 1)..Len(s) : j \in (i + 1)..Len(t) /\ t[j] = s[j]
        BY <1>2, <3>2
      <3> QED
        BY <1>2, <3>1, <3>2, <3>3 DEF UpTo
    <2>2. ASSUME NEW i \in UpTo(s, k, b) PROVE i \in UpTo(t, k, b)
      <3>1. /\ i \in 1..Len(s) /\ s[i].key = k /\ s[i].received <= b
            /\ \A j \in (i + 1)..Len(s) : s[j].key = k => s[j].received > b
        BY <2>2 DEF UpTo
      <3>2. ASSUME NEW j \in (i + 1)..Len(t), t[j].key = k PROVE t[j].received > b
        <4>1. CASE j \in 1..Len(s)
          BY <1>2, <3>1, <3>2, <4>1
        <4>2. CASE j \in (Len(s) + 1)..Len(t)
          BY <4>2
        <4> QED
          BY <3>1, <4>1, <4>2
      <3>3. i \in 1..Len(t) /\ t[i] = s[i]
        BY <1>2, <3>1
      <3> QED
        BY <3>1, <3>2, <3>3 DEF UpTo
    <2> QED
      BY <2>1, <2>2
  <1>4. ASSUME NEW k \in PermKeys PROVE At(t, b)[k] = At(s, b)[k]
    <2>1. CASE UpTo(s, k, b) = {}
      BY <1>3, <2>1 DEF At
    <2>2. CASE UpTo(s, k, b) # {}
      <3> DEFINE i == CHOOSE i \in UpTo(s, k, b) : TRUE
      <3>1. i \in UpTo(s, k, b)
        BY <2>2
      <3>2. At(s, b)[k] = <<s[i].from, s[i].to>> /\ At(t, b)[k] = <<t[i].from, t[i].to>>
        BY <1>3, <2>2 DEF At
      <3> HIDE DEF i
      <3>3. t[i] = s[i]
        BY <1>2, <3>1 DEF UpTo
      <3> QED
        BY <3>2, <3>3
    <2> QED
      BY <2>1, <2>2
  <1> QED
    BY <1>4 DEF At

\* ... and after the last block it is what the database says.
LEMMA AtLast ==
    ASSUME NEW s, NEW d, NEW b \in Int, Len(s) \in Nat, Rows(s), Names(d, s),
           \A j \in 1..Len(s) : s[j].received <= b
    PROVE  At(s, b) = Now(d)
  <1>1. ASSUME NEW k \in PermKeys PROVE At(s, b)[k] = Now(d)[k]
    <2> DEFINE r == d[k].row
    <2>1. LastIn(s, k, Len(s) + 1, r) /\ <<d[k].from, d[k].to>> = RangeAt(s, r)
      BY DEF Names, LinkedKeys
    <2>2. Now(d)[k] = RangeAt(s, r)
      BY <2>1 DEF Now
    <2> HIDE DEF r
    <2>3. \A j \in 1..Len(s) : s[j].received \in Int
      BY DEF Rows, IntRows
    <2>4. /\ r \in 0..Len(s) /\ (r # 0 => s[r].key = k)
          /\ \A j \in (r + 1)..Len(s) : s[j].key # k
      BY <2>1 DEF LastIn
    <2>5. \A i : i \in UpTo(s, k, b) => i = r
      <3> TAKE i
      <3> HAVE i \in UpTo(s, k, b)
      <3>1. /\ i \in 1..Len(s) /\ s[i].key = k
            /\ \A j \in (i + 1)..Len(s) : s[j].key = k => s[j].received > b
        BY DEF UpTo
      <3>2. i <= r
        BY <2>4, <3>1
      <3>3. ~(i < r)
        <4>1. i < r => r \in (i + 1)..Len(s) /\ r # 0 /\ r \in 1..Len(s)
          BY <2>4, <3>1
        <4> QED
          BY <2>3, <2>4, <3>1, <4>1
      <3> QED
        BY <2>4, <3>1, <3>2, <3>3
    <2>6. r # 0 => r \in UpTo(s, k, b)
      BY <2>4 DEF UpTo
    <2>7. CASE r = 0
      <3>1. UpTo(s, k, b) = {}
        BY <2>5, <2>7 DEF UpTo
      <3> QED
        BY <2>2, <2>7, <3>1 DEF At, RangeAt
    <2>8. CASE r # 0
      <3>1. UpTo(s, k, b) # {} /\ (CHOOSE i \in UpTo(s, k, b) : TRUE) = r
        BY <2>5, <2>6, <2>8
      <3>2. At(s, b)[k] = <<s[r].from, s[r].to>>
        BY <3>1 DEF At
      <3> QED
        BY <2>2, <2>8, <3>2 DEF RangeAt
    <2> QED
      BY <2>7, <2>8
  <1> QED
    BY <1>1 DEF At, Now

LEMMA PastSeq ==
    ASSUME NEW s, NEW b \in Int, b >= -1, Rows(s)
    PROVE  /\ Past(s, b) \in Seq(Confirmed) /\ Len(Past(s, b)) = b + 1
           /\ \A n \in 1..(b + 1) : Past(s, b)[n] = At(s, n - 1)
  <1>1. b + 1 \in Nat
    OBVIOUS
  <1>2. \A n \in 1..(b + 1) : At(s, n - 1) \in Confirmed
    BY AtTyped
  <1>3. Past(s, b) \in [1..(b + 1) -> Confirmed]
    BY <1>2 DEF Past
  <1>4. Past(s, b) \in Seq(Confirmed)
    BY <1>1, <1>3, SeqDef
  <1>5. Len(Past(s, b)) = b + 1
    BY <1>1, <1>3, <1>4, LenProperties
  <1> QED
    BY <1>4, <1>5 DEF Past

HPast == [n \in 1..(m_Block + 1) |-> LedgerAt(n - 1)]
HNow  == [k \in PermKeys |-> <<db[k].from, db[k].to>>]

RangeFrom(s, S) ==
    IF S = {} THEN <<0, 0>> ELSE LET i == CHOOSE i \in S : TRUE IN <<s[i].from, s[i].to>>

\* What the refinement reads from a state, and from the one after a step.
LEMMA HistoryRead ==
    ASSUME CInv
    PROVE  /\ HPast = Past(ledger, m_Block) /\ HNow = Now(db) /\ Rows(ledger)
           /\ Len(ledger) \in Nat /\ Names(db, ledger) /\ HNow \in Confirmed
           /\ cleared = CountsIn(ledger, m_Block + 1)
  <1>1. /\ Base - 1 = Len(ledger) /\ Len(ledger) \in Nat /\ ledger \in Seq(IntRows)
        /\ Names(db, ledger)
    BY AllRows DEF CInv, LInv, Typed, DbAt, Names
  <1>2. HPast = Past(ledger, m_Block)
    <2>1. \A k, b : LastUpTo(k, b) = UpTo(ledger, k, b)
      BY <1>1 DEF LastUpTo, UpTo
    <2>2. ASSUME NEW b PROVE LedgerAt(b) = At(ledger, b)
      <3>1. LedgerAt(b) = [k \in PermKeys |-> RangeFrom(ledger, LastUpTo(k, b))]
        BY DEF LedgerAt, RangeFrom
      <3>2. At(ledger, b) = [k \in PermKeys |-> RangeFrom(ledger, UpTo(ledger, k, b))]
        BY DEF At, RangeFrom
      <3>3. \A k \in PermKeys : RangeFrom(ledger, LastUpTo(k, b))
                                = RangeFrom(ledger, UpTo(ledger, k, b))
        BY <2>1
      <3> QED
        BY <3>1, <3>2, <3>3
    <2> QED
      BY <2>2, Zenon DEF HPast, Past
  <1>3. Rows(ledger)
    BY <1>1, ElementOfSeq DEF Rows
  <1>4. HNow \in Confirmed
    <2>1. ASSUME NEW k \in PermKeys PROVE <<db[k].from, db[k].to>> \in Nat \X Nat
      <3>1. db[k] \in [from : Nat, to : Nat, row : Nat]
        BY DEF CInv, LInv, Typed, Keys, LinkedKeys
      <3> QED
        BY <3>1
    <2> QED
      BY <2>1 DEF HNow, Confirmed
  <1> QED
    BY <1>1, <1>2, <1>3, <1>4 DEF HNow, Now, CInv, Counting, Next1

LEMMA HistoryReadNext ==
    ASSUME CInv'
    PROVE  /\ HPast' = Past(ledger', m_Block') /\ HNow' = Now(db') /\ Rows(ledger')
           /\ Len(ledger') \in Nat /\ Names(db', ledger') /\ HNow' \in Confirmed
           /\ cleared' = CountsIn(ledger', m_Block' + 1)
  <1>1. /\ m_MemPool' \in Seq(IntRows) /\ ledger' \in Seq(IntRows)
        /\ m_Row' = Len(ledger') + Len(m_MemPool') + 1 /\ Names(db', ledger')
    BY DEF CInv, LInv, Typed, DbAt, Names
  <1>2. Len(ledger') \in Nat /\ Len(m_MemPool') \in Nat
    BY <1>1, LenProperties
  <1>3. Base' - 1 = Len(ledger')
    BY <1>1, <1>2 DEF Base
  <1>4. HPast' = Past(ledger', m_Block')
    <2>1. \A k, b : LastUpTo(k, b)' = UpTo(ledger', k, b)
      BY <1>3 DEF LastUpTo, UpTo
    <2>2. ASSUME NEW b PROVE LedgerAt(b)' = At(ledger', b)
      <3>1. LedgerAt(b)' = [k \in PermKeys |-> RangeFrom(ledger', LastUpTo(k, b)')]
        BY DEF LedgerAt, RangeFrom
      <3>2. At(ledger', b) = [k \in PermKeys |-> RangeFrom(ledger', UpTo(ledger', k, b))]
        BY DEF At, RangeFrom
      <3>3. \A k \in PermKeys : RangeFrom(ledger', LastUpTo(k, b)')
                                = RangeFrom(ledger', UpTo(ledger', k, b))
        BY <2>1
      <3> QED
        BY <3>1, <3>2, <3>3
    <2> QED
      BY <2>2, Zenon DEF HPast, Past
  <1>5. Rows(ledger')
    BY <1>1, ElementOfSeq DEF Rows
  <1>6. HNow' \in Confirmed
    <2>1. ASSUME NEW k \in PermKeys PROVE <<db'[k].from, db'[k].to>> \in Nat \X Nat
      <3>1. db'[k] \in [from : Nat, to : Nat, row : Nat]
        BY DEF CInv, LInv, Typed, Keys, LinkedKeys
      <3> QED
        BY <3>1
    <2> QED
      BY <2>1 DEF HNow, Confirmed
  <1> QED
    BY <1>1, <1>2, <1>4, <1>5, <1>6 DEF HNow, Now, CInv, Counting, Next1

\* The counts of the cleared ledger are the holders of the confirmed permissions.
LEMMA HoldersAre ==
    ASSUME NEW s, NEW d, Len(s) \in Nat, Names(d, s), NEW b \in Int
    PROVE  /\ CountsIn(s, b).admin = Cardinality(History!Holders(Now(d), "admin", b))
           /\ CountsIn(s, b).mine = Cardinality(History!Holders(Now(d), "mine", b))
  <1>1. ASSUME NEW type \in {"admin", "mine"}
        PROVE  HoldersIn(s, b, type) = History!Holders(Now(d), type, b)
    <2>1. ASSUME NEW a \in Addresses
          PROVE  InForce(RangeIn(s, <<a, type>>), b) <=>
                    Now(d)[<<a, type>>][1] <= b /\ b < Now(d)[<<a, type>>][2]
      <3>1. <<a, type>> \in PermKeys /\ <<a, type>> \in LinkedKeys
        BY PermissionsAssumption DEF PermKeys, LinkedKeys
      <3>2. Now(d)[<<a, type>>] = RangeIn(s, <<a, type>>)
        BY <3>1, NamedRange DEF Now
      <3> QED
        BY <3>2 DEF InForce
    <2> QED
      BY <2>1 DEF HoldersIn, History!Holders
  <1> QED
    BY <1>1 DEF CountsIn

\* The history's own instance of FiniteSets counts the same.
LEMMA SameCardinality ==
    ASSUME NEW S
    PROVE  History!Cardinality(S) = Cardinality(S)
  BY DEF History!Cardinality, Cardinality

LEMMA HistoryInit ==
    ASSUME Init
    PROVE  History!Init
  <1>1. CInv
    BY InitCInv
  <1>2. m_Block = -1 /\ cleared = NoCount /\ db = [k \in Keys |-> NoEntry]
    BY DEF Init
  <1>3. HPast = <<>>
    <2>1. HPast \in Seq(Confirmed) /\ Len(HPast) = 0
      BY <1>1, <1>2, HistoryRead, PastSeq
    <2> QED
      BY <2>1, EmptySeq
  <1>4. HNow = [k \in Addresses \X Types |-> <<0, 0>>]
    BY <1>2 DEF HNow, NoEntry, PermKeys, Keys, LinkedKeys
  <1> QED
    BY <1>2, <1>3, <1>4 DEF History!Init, History!Nothing, HPast, HNow, NoCount

\* Commit adds the permissions after its block to the history.
LEMMA CommitConnects ==
    ASSUME CInv, NEW miner \in Addresses, Commit(miner)
    PROVE  History!Connect(HNow') /\ HNow' \in History!Permissions
  <1> DEFINE new == Appended(miner)
             b == m_Block
  <1>1. m_Block' = b + 1 /\ ledger' = ledger \o new
    BY DEF Commit
  <1>2. CInv'
    BY CommitCInv
  <1>3. /\ HPast = Past(ledger, b) /\ Rows(ledger) /\ Len(ledger) \in Nat
    BY HistoryRead
  <1>4. /\ HPast' = Past(ledger', b + 1) /\ HNow' = Now(db') /\ Rows(ledger')
        /\ Len(ledger') \in Nat /\ Names(db', ledger') /\ HNow' \in Confirmed
        /\ cleared' = CountsIn(ledger', b + 2)
    <2>1. b + 1 + 1 = b + 2
      BY NextBlock DEF CInv
    <2> QED
      BY <1>1, <1>2, <2>1, HistoryReadNext
  <1>5. /\ b \in Int /\ b >= -1
    BY NextBlock DEF CInv
  <1>6. /\ new \in Seq(IntRows) /\ \A i \in 1..Len(new) : new[i].received = b + 1
    BY AppendedIs DEF CInv
  <1> HIDE DEF new
  <1>7. /\ Len(ledger') = Len(ledger) + Len(new) /\ Len(new) \in Nat
        /\ \A i \in 1..Len(ledger) : ledger'[i] = ledger[i]
        /\ \A i \in 1..(Len(ledger) + Len(new)) :
              ledger'[i] = IF i <= Len(ledger) THEN ledger[i] ELSE new[i - Len(ledger)]
    <2>1. new \in Seq(IntRows) /\ ledger \in Seq(IntRows)
      BY <1>6 DEF CInv, LInv, Typed
    <2> QED
      BY <1>1, <2>1, Joined
  <1>8. FirstOf(ledger, ledger')
    BY <1>3, <1>7 DEF FirstOf
  <1>9. \A j \in (Len(ledger) + 1)..Len(ledger') : ledger'[j].received = b + 1
    <2> TAKE j \in (Len(ledger) + 1)..Len(ledger')
    <2>1. /\ j \in 1..(Len(ledger) + Len(new)) /\ ~(j <= Len(ledger))
          /\ j - Len(ledger) \in 1..Len(new)
      BY <1>3, <1>7
    <2> QED
      BY <1>6, <1>7, <2>1
  <1>10. \A j \in 1..Len(ledger') : ledger'[j].received <= b + 1
    <2> TAKE j \in 1..Len(ledger')
    <2>1. ledger'[j].received \in 0..m_Block'
      BY <1>2 DEF CInv, LInv, Received
    <2> QED
      BY <1>1, <1>5, <2>1
  <1> DEFINE S == Confirmed
  <1>11. /\ HPast \in Seq(S) /\ Len(HPast) = b + 1
         /\ \A n \in 1..(b + 1) : HPast[n] = At(ledger, n - 1)
    BY <1>3, <1>5, PastSeq
  <1>12. /\ HPast' \in Seq(S) /\ Len(HPast') = b + 2
         /\ \A n \in 1..(b + 2) : HPast'[n] = At(ledger', n - 1)
    <2>1. b + 1 \in Int /\ b + 1 >= -1 /\ b + 1 + 1 = b + 2
      BY <1>5
    <2> QED
      BY <1>4, <2>1, PastSeq
  <1>13. HPast' = Append(HPast, HNow')
    <2>1. ASSUME NEW n \in 1..(b + 1) PROVE HPast'[n] = HPast[n]
      <3>1. n - 1 \in Int /\ n \in 1..(b + 2) /\ n - 1 < b + 1
        BY <1>5
      <3>2. \A j \in (Len(ledger) + 1)..Len(ledger') : ledger'[j].received > n - 1
        BY <1>5, <1>9, <3>1
      <3>3. At(ledger', n - 1) = At(ledger, n - 1)
        BY <1>3, <1>4, <1>8, <3>1, <3>2, AtSame
      <3> QED
        BY <1>11, <1>12, <3>1, <3>3
    <2>2. HPast'[b + 2] = HNow'
      <3>1. b + 2 \in 1..(b + 2) /\ b + 2 - 1 = b + 1 /\ b + 1 \in Int
        BY <1>5
      <3>2. At(ledger', b + 1) = Now(db')
        BY <1>4, <1>10, <3>1, AtLast
      <3>3. HPast'[b + 2] = At(ledger', b + 1)
        <4> DEFINE P == HPast'
                   m == b + 2
                   A(n) == At(ledger', n)
        <4>1. \A n \in 1..m : P[n] = A(n - 1)
          BY <1>12
        <4>2. m \in 1..m /\ m - 1 = b + 1
          BY <1>5
        <4> HIDE DEF P, m, A
        <4>3. P[m] = A(b + 1)
          BY <4>1, <4>2
        <4> QED
          BY <4>3 DEF P, m, A
      <3> QED
        BY <1>4, <3>2, <3>3, Zenon
    <2> DEFINE q == Append(HPast, HNow')
    <2>3. /\ q \in Seq(S) /\ Len(q) = b + 2 /\ q[b + 2] = HNow'
          /\ \A n \in 1..(b + 1) : q[n] = HPast[n]
      <3>1. /\ q \in Seq(S) /\ Len(q) = Len(HPast) + 1 /\ q[Len(HPast) + 1] = HNow'
            /\ \A n \in 1..Len(HPast) : q[n] = HPast[n]
        BY <1>4, <1>11, AppendProperties
      <3>2. b + 1 + 1 = b + 2
        BY <1>5
      <3> QED
        BY <1>11, <3>1, <3>2
    <2> HIDE DEF q
    <2>4. \A n \in 1..(b + 2) : n = b + 2 \/ n \in 1..(b + 1)
      BY <1>5
    <2>5. \A n \in 1..Len(HPast') : HPast'[n] = q[n]
      BY <1>12, <2>1, <2>2, <2>3, <2>4
    <2>6. HPast' = q
      BY <1>12, <2>3, <2>5, SeqEqual
    <2> QED
      BY <2>6 DEF q
  <1>14. /\ cleared'.admin = Cardinality(History!Holders(HNow', "admin", Len(HPast')))
         /\ cleared'.mine = Cardinality(History!Holders(HNow', "mine", Len(HPast')))
    <2>1. b + 2 \in Int
      BY <1>5
    <2> QED
      BY <1>4, <1>12, <2>1, HoldersAre
  <1>15. HNow' \in History!Permissions
    BY <1>4 DEF History!Permissions, Confirmed, PermKeys
  <1>16. HNow' = HNow' /\ HPast' = Append(HPast, HNow') /\ History!CountHolders
    <2>1. /\ cleared'.admin = History!Cardinality(History!Holders(HNow', "admin", Len(HPast')))
          /\ cleared'.mine = History!Cardinality(History!Holders(HNow', "mine", Len(HPast')))
      BY <1>14, SameCardinality
    <2> QED
      BY <1>13, <2>1 DEF History!CountHolders, HPast, HNow
  <1> QED
    BY <1>15, <1>16 DEF History!Connect, HPast, HNow

\* A rollback takes the history back to the block that becomes the last one.
LEMMA RollBackDisconnects ==
    ASSUME CInv, NEW b \in Blocks, b <= m_Block, RollBackInternal(b), call' = "none"
    PROVE  \E n \in 0..Len(HPast) : History!Disconnect(n)
  <1> DEFINE top == Top(b)
             S == Confirmed
             q == SubSeq(HPast, 1, b + 1)
  <1>1. ledger' = SubSeq(ledger, 1, top) /\ m_Block' = b
    BY DEF RollBackInternal
  <1>2. /\ b \in Int /\ b >= -1 /\ m_Block \in Int /\ m_Block >= -1
        /\ b + 1 \in 0..(m_Block + 1) /\ b < b + 1
    BY NextBlock DEF CInv, Blocks
  <1>3. /\ top \in 0..Len(ledger) /\ \A i \in 1..top : ledger[i].received <= b
        /\ \A i \in (top + 1)..Len(ledger) : ledger[i].received > b
    BY <1>2, TopIs DEF CInv
  <1> HIDE DEF top
  <1>4. CInv'
    BY RollBackInternalCInv
  <1>5. HPast = Past(ledger, m_Block) /\ Rows(ledger) /\ Len(ledger) \in Nat
    BY HistoryRead
  <1>6. /\ HPast' = Past(ledger', b) /\ HNow' = Now(db') /\ Rows(ledger')
        /\ Len(ledger') \in Nat /\ Names(db', ledger') /\ HNow' \in Confirmed
        /\ cleared' = CountsIn(ledger', b + 1)
    BY <1>1, <1>4, HistoryReadNext
  <1>7. Len(ledger') = top /\ \A i \in 1..top : ledger'[i] = ledger[i]
    <2>1. ledger \in Seq(IntRows)
      BY DEF CInv, LInv, Typed
    <2> QED
      BY <1>1, <1>3, <2>1, PrefixOf
  <1>8. FirstOf(ledger', ledger)
    BY <1>3, <1>7 DEF FirstOf
  <1>9. /\ HPast \in Seq(S) /\ Len(HPast) = m_Block + 1
        /\ \A n \in 1..(m_Block + 1) : HPast[n] = At(ledger, n - 1)
    BY <1>2, <1>5, PastSeq
  <1>10. /\ HPast' \in Seq(S) /\ Len(HPast') = b + 1
         /\ \A n \in 1..(b + 1) : HPast'[n] = At(ledger', n - 1)
    BY <1>2, <1>6, PastSeq
  <1>11. q \in Seq(S) /\ Len(q) = b + 1 /\ \A n \in 1..(b + 1) : q[n] = HPast[n]
    BY <1>2, <1>9, PrefixOf
  <1> HIDE DEF q
  <1>12. ASSUME NEW n \in 1..(b + 1) PROVE HPast'[n] = HPast[n]
    <2>1. n - 1 \in Int /\ n \in 1..(m_Block + 1) /\ n - 1 <= b
      BY <1>2
    <2>2. \A j \in (Len(ledger') + 1)..Len(ledger) : ledger[j].received > n - 1
      <3> TAKE j \in (Len(ledger') + 1)..Len(ledger)
      <3>1. ledger[j].received > b /\ j \in 1..Len(ledger)
        BY <1>3, <1>5, <1>7
      <3>2. ledger[j].received \in Int
        BY <1>5, <3>1 DEF Rows, IntRows
      <3> QED
        BY <1>2, <2>1, <3>1, <3>2
    <2>3. At(ledger, n - 1) = At(ledger', n - 1)
      BY <1>5, <1>6, <1>8, <2>1, <2>2, AtSame
    <2> QED
      BY <1>9, <1>10, <2>1, <2>3
  <1>13. HPast' = q
    <2>1. \A n \in 1..Len(HPast') : HPast'[n] = q[n]
      BY <1>10, <1>11, <1>12
    <2> QED
      BY <1>10, <1>11, <2>1, SeqEqual
  <1>14. HNow' = At(ledger', b)
    <2>1. \A j \in 1..Len(ledger') : ledger'[j].received <= b
      BY <1>3, <1>7
    <2> QED
      BY <1>2, <1>6, <2>1, AtLast
  <1>15. HNow' = IF b + 1 = 0 THEN History!Nothing ELSE HPast[b + 1]
    <2>1. CASE b = -1
      <3>1. top = 0
        <4>1. \A i \in 1..top : ledger[i].received \in 0..m_Block
          BY <1>3 DEF CInv, LInv, Received
        <4> QED
          BY <1>3, <2>1, <4>1
      <3>2. \A k : UpTo(ledger', k, b) = {}
        BY <1>7, <3>1 DEF UpTo
      <3>3. At(ledger', b) = [k \in PermKeys |-> <<0, 0>>]
        BY <3>2 DEF At
      <3> QED
        BY <1>14, <2>1, <3>3 DEF History!Nothing, PermKeys
    <2>2. CASE b # -1
      <3>1. b + 1 \in 1..(b + 1) /\ b + 1 - 1 = b /\ b + 1 # 0
        BY <1>2, <2>2
      <3> DEFINE P == HPast'
                 m == b + 1
                 A(n) == At(ledger', n)
      <3>2. \A n \in 1..m : P[n] = A(n - 1)
        BY <1>10
      <3>3. m \in 1..m /\ m - 1 = b
        BY <1>2, <2>2
      <3> HIDE DEF P, m, A
      <3>4. P[m] = A(b)
        BY <3>2, <3>3
      <3>5. HPast'[b + 1] = At(ledger', b)
        BY <3>4 DEF P, m, A
      <3>6. HPast'[b + 1] = HPast[b + 1]
        BY <1>12, <3>1
      <3> QED
        BY <1>14, <3>1, <3>5, <3>6
    <2> QED
      BY <2>1, <2>2
  <1>16. /\ cleared'.admin = History!Cardinality(History!Holders(HNow', "admin", Len(HPast')))
         /\ cleared'.mine = History!Cardinality(History!Holders(HNow', "mine", Len(HPast')))
    <2>1. b + 1 \in Int
      BY <1>2
    <2> QED
      BY <1>6, <1>10, <2>1, HoldersAre, SameCardinality
  <1>17. HPast' = SubSeq(HPast, 1, b + 1)
    BY <1>13 DEF q
  <1>18. History!CountHolders
    BY <1>16 DEF History!CountHolders, HPast, HNow
  <1>19. History!Disconnect(b + 1)
    BY <1>15, <1>17, <1>18 DEF History!Disconnect, HPast, HNow
  <1>20. b + 1 \in 0..Len(HPast)
    BY <1>2, <1>9
  <1> QED
    BY <1>19, <1>20

\* What happens in memory does not show in the history.
LEMMA MemoryKeepsHistory ==
    ASSUME CInv, CInv', UNCHANGED <<m_Block, ledger, db>>
    PROVE  HPast' = HPast /\ HNow' = HNow /\ cleared' = cleared
  <1>1. /\ HPast = Past(ledger, m_Block) /\ HNow = Now(db)
        /\ cleared = CountsIn(ledger, m_Block + 1)
    BY HistoryRead
  <1>2. /\ HPast' = Past(ledger', m_Block') /\ HNow' = Now(db')
        /\ cleared' = CountsIn(ledger', m_Block' + 1)
    BY HistoryReadNext
  <1> QED
    BY <1>1, <1>2

\* The ledger implements the history of the chain's permissions: Commit adds to it and
\* rewrites nothing, RollBack, and a Commit the database refuses, bring back exactly the
\* permissions and the counts there were, and no call for unconfirmed transactions, no
\* block that was given up or only checked, shows in it.
THEOREM ImplementsTheHistory == Spec => ImplementsHistory
  <1>1. ASSUME CInv, [Next]_vars
        PROVE  \/ History!Next
               \/ HPast' = HPast /\ HNow' = HNow /\ cleared' = cleared
    <2>1. CInv'
      BY <1>1, NextCInv
    <2>2. CASE UNCHANGED <<m_Block, ledger, db>>
      BY <1>1, <2>1, <2>2, MemoryKeepsHistory
    <2>3. CASE \E miner \in Addresses : Commit(miner)
      <3>1. History!Connect(HNow') /\ HNow' \in History!Permissions
        BY <1>1, <2>3, CommitConnects
      <3> QED
        BY <3>1 DEF History!Next, HNow
    <2>4. ASSUME NEW b \in Blocks, b <= m_Block, RollBackInternal(b), call' = "none"
          PROVE  History!Next
      <3>1. \E n \in 0..Len(HPast) : History!Disconnect(n)
        BY <1>1, <2>4, RollBackDisconnects
      <3> QED
        BY <3>1 DEF History!Next, HPast
    <2>5. CASE \E b \in Blocks : RollBack(b)
      BY <2>4, <2>5 DEF RollBack
    <2>6. CASE CommitFails
      <3>1. m_Block \in Blocks /\ m_Block <= m_Block
        BY <1>1 DEF CInv, LInv, Typed, Blocks
      <3> QED
        BY <2>4, <2>6, <3>1 DEF CommitFails
    <2>7. \/ UNCHANGED <<m_Block, ledger, db>>
          \/ \E miner \in Addresses : Commit(miner)
          \/ \E b \in Blocks : RollBack(b)
          \/ CommitFails
      <3> DEFINE Kept == UNCHANGED <<m_Block, ledger, db>>
      <3>1. ASSUME NEW a \in Addresses, NEW k \in PermKeys, NEW range \in Ranges,
                   NEW ts \in Timestamps, SetPermission(a, k, range, ts)
            PROVE  Kept
        BY <3>1 DEF SetPermission, files
      <3>2. ASSUME NEW miner \in Addresses, CommitCannotOpen(miner) PROVE Kept
        BY <3>2 DEF CommitCannotOpen, files
      <3>3. ASSUME \/ SetCheckPoint \/ AcceptTx \/ RollBackToCheckPoint \/ AbandonBlock
                   \/ ClearMemPool \/ CopyMemPool \/ RestoreMemPool
            PROVE  Kept
        BY <3>3 DEF files, SetCheckPoint, AcceptTx, RollBackToCheckPoint, AbandonBlock,
                    ClearMemPool, CopyMemPool, RestoreMemPool
      <3>4. UNCHANGED vars => Kept
        BY DEF vars, files
      <3> HIDE DEF Kept
      <3>5. \/ Kept \/ (\E miner \in Addresses : Commit(miner))
            \/ (\E b \in Blocks : RollBack(b)) \/ CommitFails
        BY <1>1, <3>1, <3>2, <3>3, <3>4, Zenon DEF Next
      <3> QED
        BY <3>5 DEF Kept
    <2> QED
      BY <2>2, <2>3, <2>5, <2>6, <2>7
  <1>2. ASSUME CInv, [Next]_vars
        PROVE  [History!Next]_<<HPast, HNow, cleared.admin, cleared.mine>>
    BY <1>1, <1>2
  <1> QED
    BY <1>2, HistoryInit, CountsInvariant, PTL DEF Spec, ImplementsHistory, History!Spec, HPast, HNow
=============================================================================
