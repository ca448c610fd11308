---------------------- MODULE PermissionRecoveryProofs ----------------------
(***************************************************************************)
(* For every length of the blocks and of the ledger, and any number of     *)
(* crashes: what the database was made from is in the ledger file, a node  *)
(* that is up works with it, and only rows of rolled back blocks can keep  *)
(* a node from starting.                                                   *)
(***************************************************************************)
EXTENDS PermissionRecovery, OrderLemmas

-----------------------------------------------------------------------------
(***************************************************************************)
(* The inductive invariant.                                                *)
(***************************************************************************)

\* Row e is the index row of block h, and the rows up to it are those that
\* came with block h or below.
EndsBlock(s, h, e) ==
    /\ e \in 1..Len(s) /\ s[e].received = h /\ s[e].index
    /\ \A j \in 1..Len(s) : s[j].received <= h <=> j <= e

\* The rows of the blocks 0..b, in their order, each block with an index row.
Ledger(s, b) ==
    /\ s \in Seq(BareRows)
    /\ \A i \in 1..Len(s) : s[i].received \in 0..b
    /\ \A h \in 0..b : \E e \in 1..Len(s) : EndsBlock(s, h, e)

\* The rows the batch of a block adds to the ledger of the blocks 0..b.
NewBlock(t, b) ==
    /\ t \in Seq(Rows) /\ Len(t) >= 2
    /\ \A i \in 1..Len(t) : /\ t[i].received = b + 1
                            /\ (t[i].index <=> i = Len(t))
                            /\ i <= Len(t) - 2 => t[i].counted

Typed ==
    /\ file \in Seq(Rows) /\ indexed \in Seq(BareRows) /\ pending \in Seq(Rows)
    /\ head \in Ends /\ zero \in Ends
    /\ zero.block >= -1 /\ done \in Nat /\ m_Block \in Int /\ m_Row \in Nat
    /\ pc \in Places

\* a row behind the end of the ledger of a height the database has
Stale == \E i \in zero.row..Len(file) : file[i].received <= zero.block

CountedTo(n) == \A i \in 1..n : file[i].counted

\* What the disk holds at any moment, the last two rows' counts apart.
OnDisk ==
    /\ Ledger(indexed, zero.block)
    /\ DatabaseRowsKept
    /\ CountedTo(zero.row - 3)
    /\ head = zero \/ head.block > zero.block \/ Stale

\* Memory is the database's between the calls and until the batch of Commit.
InMemory ==
    pc \in {"up", "rows", "header", "batch"} =>
        /\ m_Block = zero.block /\ m_Row = zero.row
        /\ CountedTo(zero.row - 1)
        /\ pc # "batch" => head = zero

\* The rows of the new block written so far are behind the ledger.
Writing ==
    pc \in {"rows", "header", "batch"} =>
        /\ NewBlock(pending, m_Block)
        /\ IF pc = "rows" THEN done < Len(pending) ELSE done = Len(pending)
        /\ Len(file) >= m_Row - 1 + done
        /\ \A k \in 1..done : file[m_Row - 1 + k] = pending[k]

HeaderWritten == pc = "batch" => head = [block |-> m_Block + 1, row |-> End]

\* After the batch memory is one block behind, and two rows lack their counts.
Counting ==
    pc = "counts" =>
        /\ zero = [block |-> m_Block + 1, row |-> End] /\ head = zero
        /\ Len(pending) >= 2 /\ m_Row >= 1 /\ done \in {0, 1}
        /\ CountedTo(zero.row - 3 + done)

\* A rollback between its writes, or one after a batch that was refused.
Unwinding == pc = "unwind" => CountedTo(zero.row - 1)

Starting == pc = "repaired" => head = zero \/ Stale
Refused  == pc = "refused" => Stale

IInv ==
    /\ Typed /\ OnDisk /\ InMemory /\ Writing /\ HeaderWritten
    /\ Counting /\ Unwinding /\ Starting /\ Refused

-----------------------------------------------------------------------------
(***************************************************************************)
(* The ledger file and the ledger of a number of blocks.                   *)
(***************************************************************************)

\* Writing row i replaces it or adds it, and leaves the other rows alone.
LEMMA PutRow ==
    ASSUME NEW S, NEW f \in Seq(S), NEW i \in 1..(Len(f) + 1), NEW r \in S
    PROVE  /\ Put(f, i, r) \in Seq(S)
           /\ Len(Put(f, i, r)) = IF i > Len(f) THEN i ELSE Len(f)
           /\ Put(f, i, r)[i] = r
           /\ \A j \in 1..Len(f) : j # i => Put(f, i, r)[j] = f[j]
  <1> DEFINE n == IF i > Len(f) THEN i ELSE Len(f)
             g == [j \in 1..n |-> IF j = i THEN r ELSE f[j]]
  <1>1. Len(f) \in Nat /\ n \in Nat /\ i \in 1..n /\ n <= Len(f) + 1
    BY LenProperties
  <1>2. \A j \in 1..n : g[j] \in S
    BY <1>1, ElementOfSeq
  <1>3. g \in Seq(S) /\ Len(g) = n
    BY <1>1, <1>2, SeqDef, LenProperties
  <1>4. Put(f, i, r) = g
    BY DEF Put
  <1> QED
    BY <1>1, <1>3, <1>4

\* The search for the end of the rows up to a block finds the row where they end.
LEMMA TopAtEnd ==
    ASSUME NEW f, NEW n \in Nat, NEW b \in Int, NEW e \in 0..n,
           \A i \in 1..n : f[i].received <= b <=> i <= e
    PROVE  Top(f, n, b) = e
  <1> DEFINE keep == {i \in 1..n : f[i].received <= b}
  <1>1. keep = 1..e
    OBVIOUS
  <1>2. CASE e = 0
    BY <1>1, <1>2 DEF Top
  <1>3. CASE e # 0
    <2>1. e \in keep /\ \A j \in keep : j <= e
      BY <1>1, <1>3
    <2>2. \A k \in keep : (\A j \in keep : j <= k) => k = e
      BY <2>1
    <2>3. keep # {}
      BY <2>1
    <2>4. (CHOOSE i \in keep : \A j \in keep : j <= i) = e
      BY <2>1, <2>2
    <2> QED
      BY <2>3, <2>4 DEF Top
  <1> QED
    BY <1>2, <1>3

\* In any file it finds a row at the end of those of that block or below.
LEMMA TopInFile ==
    ASSUME NEW f, NEW n \in Nat, NEW b \in Int
    PROVE  /\ Top(f, n, b) \in 0..n
           /\ Top(f, n, b) > 0 => f[Top(f, n, b)].received <= b
           /\ \A i \in 1..n : f[i].received <= b => i <= Top(f, n, b)
  <1> DEFINE keep == {i \in 1..n : f[i].received <= b}
  <1>1. CASE keep = {}
    BY <1>1 DEF Top
  <1>2. CASE keep # {}
    <2>1. keep \in SUBSET (0..n)
      OBVIOUS
    <2>2. \E i \in keep : \A j \in keep : j <= i
      BY <1>2, <2>1, Greatest
    <2>3. /\ Top(f, n, b) \in keep
          /\ \A j \in keep : j <= Top(f, n, b)
      BY <1>2, <2>2 DEF Top
    <2> QED
      BY <2>3
  <1> QED
    BY <1>1, <1>2

\* The ledger of no block has no row, ...
LEMMA LedgerEmpty == Ledger(<<>>, -1)
  <1>1. <<>> \in Seq(BareRows) /\ Len(<<>>) = 0
    BY EmptySeq
  <1> QED
    BY <1>1 DEF Ledger

\* ... the last row of any other is the index row of its last block, ...
LEMMA LedgerEnd ==
    ASSUME NEW s, NEW b \in Int, Ledger(s, b)
    PROVE  /\ Len(s) \in Nat
           /\ Len(s) > 0 => /\ b >= 0
                            /\ s[Len(s)].received = b /\ s[Len(s)].index
           /\ \A i \in 1..Len(s) : s[i].received <= b
  <1>1. Len(s) \in Nat /\ \A i \in 1..Len(s) : s[i].received \in 0..b
    BY LenProperties DEF Ledger
  <1>2. CASE Len(s) > 0
    <2>1. Len(s) \in 1..Len(s) /\ b \in 0..b
      BY <1>1, <1>2
    <2>2. PICK e \in 1..Len(s) : EndsBlock(s, b, e)
      BY <2>1 DEF Ledger
    <2>3. e = Len(s)
      BY <1>1, <2>1, <2>2 DEF EndsBlock
    <2> QED
      BY <1>1, <2>1, <2>2, <2>3 DEF EndsBlock
  <1> QED
    BY <1>1, <1>2

\* ... it is cut at the end of any of its blocks, ...
LEMMA LedgerCut ==
    ASSUME NEW s, NEW b \in Int, Ledger(s, b), NEW c \in 0..b,
           NEW e, EndsBlock(s, c, e)
    PROVE  Ledger(SubSeq(s, 1, e), c) /\ Len(SubSeq(s, 1, e)) = e
  <1> DEFINE t == SubSeq(s, 1, e)
  <1>1. s \in Seq(BareRows) /\ Len(s) \in Nat /\ e \in 1..Len(s)
    BY LenProperties DEF Ledger, EndsBlock
  <1>2. t \in Seq(BareRows) /\ Len(t) = e /\ \A i \in 1..e : t[i] = s[i]
    BY <1>1, PrefixOf
  <1>3. \A i \in 1..Len(t) : t[i].received \in 0..c
    BY <1>1, <1>2 DEF Ledger, EndsBlock
  <1>4. ASSUME NEW h \in 0..c
        PROVE  \E d \in 1..Len(t) : EndsBlock(t, h, d)
    <2>1. PICK d \in 1..Len(s) : EndsBlock(s, h, d)
      BY <1>4 DEF Ledger
    <2>2. d <= e
      BY <1>1, <2>1 DEF EndsBlock
    <2>3. d \in 1..Len(t) /\ EndsBlock(t, h, d)
      BY <1>1, <1>2, <2>1, <2>2 DEF EndsBlock
    <2> QED
      BY <2>3
  <1> QED
    BY <1>2, <1>3, <1>4 DEF Ledger

\* ... and it is continued by the rows of one block more.
LEMMA LedgerContinued ==
    ASSUME NEW s, NEW b \in Int, b >= -1, Ledger(s, b),
           NEW t \in Seq(BareRows), Len(t) > 0,
           \A i \in 1..Len(t) : t[i].received = b + 1 /\ (t[i].index <=> i = Len(t))
    PROVE  Ledger(s \o t, b + 1)
  <1> DEFINE u == s \o t
  <1>1. s \in Seq(BareRows) /\ Len(s) \in Nat /\ Len(t) \in Nat
    BY LenProperties DEF Ledger
  <1>2. /\ u \in Seq(BareRows) /\ Len(u) = Len(s) + Len(t)
        /\ \A i \in 1..Len(s) : u[i] = s[i]
        /\ \A i \in 1..Len(u) : i > Len(s) => u[i] = t[i - Len(s)]
    BY <1>1, ConcatProperties
  <1>3. \A i \in 1..Len(u) : i > Len(s) =>
            u[i].received = b + 1 /\ (u[i].index <=> i = Len(u))
    <2> SUFFICES ASSUME NEW i \in 1..Len(u), i > Len(s)
                 PROVE  u[i].received = b + 1 /\ (u[i].index <=> i = Len(u))
      OBVIOUS
    <2>1. i - Len(s) \in 1..Len(t) /\ (i - Len(s) = Len(t) <=> i = Len(u))
      BY <1>1, <1>2
    <2> QED
      BY <1>2, <2>1
  <1>4. \A i \in 1..Len(s) : u[i].received \in 0..b
    BY <1>2 DEF Ledger
  <1>5. \A i \in 1..Len(u) : u[i].received \in 0..(b + 1)
    <2> SUFFICES ASSUME NEW i \in 1..Len(u)
                 PROVE  u[i].received \in 0..(b + 1)
      OBVIOUS
    <2>1. CASE i \in 1..Len(s)
      BY <1>4, <2>1
    <2>2. CASE i > Len(s)
      BY <1>3, <2>2
    <2> QED
      BY <1>1, <1>2, <2>1, <2>2
  <1>6. ASSUME NEW h \in 0..(b + 1)
        PROVE  \E d \in 1..Len(u) : EndsBlock(u, h, d)
    <2>1. CASE h = b + 1
      <3>1. Len(u) \in 1..Len(u)
        BY <1>1, <1>2
      <3>2. u[Len(u)].received = b + 1 /\ u[Len(u)].index
        BY <1>1, <1>2, <1>3, <3>1
      <3>3. EndsBlock(u, h, Len(u))
        BY <1>5, <2>1, <3>1, <3>2 DEF EndsBlock
      <3> QED
        BY <3>1, <3>3
    <2>2. CASE h \in 0..b
      <3>1. PICK d \in 1..Len(s) : EndsBlock(s, h, d)
        BY <2>2 DEF Ledger
      <3>2. d \in 1..Len(u) /\ u[d] = s[d]
        BY <1>1, <1>2
      <3>3. \A j \in 1..Len(u) : u[j].received <= h <=> j <= d
        <4> SUFFICES ASSUME NEW j \in 1..Len(u)
                     PROVE  u[j].received <= h <=> j <= d
          OBVIOUS
        <4>1. CASE j \in 1..Len(s)
          BY <1>2, <3>1, <4>1 DEF EndsBlock
        <4>2. CASE j > Len(s)
          BY <1>1, <1>3, <2>2, <4>2
        <4> QED
          BY <1>1, <1>2, <4>1, <4>2
      <3> QED
        BY <3>1, <3>2, <3>3 DEF EndsBlock
    <2> QED
      BY <2>1, <2>2
  <1> QED
    BY <1>2, <1>5, <1>6 DEF Ledger

-----------------------------------------------------------------------------
(***************************************************************************)
(* Every step keeps the invariant.                                         *)
(***************************************************************************)

\* The database's rows are rows of the file.
LEMMA KeptLength ==
    ASSUME Typed, OnDisk
    PROVE  /\ Len(file) \in Nat /\ Len(indexed) \in Nat
           /\ zero.row = Len(indexed) + 1 /\ zero.row - 1 <= Len(file)
           /\ \A i \in 1..(zero.row - 1) :
                  i \in 1..Len(file) /\ file[i] \in Rows /\ Bare(file[i]) = indexed[i]
  <1>1. Len(file) \in Nat /\ Len(indexed) \in Nat /\ zero.row \in Nat
    BY LenProperties DEF Typed, Ends
  <1>2. zero.row = Len(indexed) + 1
    BY <1>1 DEF OnDisk, DatabaseRowsKept
  <1>3. \A i \in 1..(zero.row - 1) : i \in 1..Len(file) /\ Bare(file[i]) = indexed[i]
    BY <1>1, <1>2 DEF OnDisk, DatabaseRowsKept
  <1>4. zero.row - 1 <= Len(file)
    <2>1. CASE Len(indexed) = 0
      BY <1>1, <1>2, <2>1
    <2>2. CASE Len(indexed) > 0
      BY <1>1, <1>2, <1>3, <2>2
    <2> QED
      BY <1>1, <2>1, <2>2
  <1>5. \A i \in 1..(zero.row - 1) : file[i] \in Rows
    BY <1>3, ElementOfSeq DEF Typed
  <1> QED
    BY <1>1, <1>2, <1>3, <1>4, <1>5

\* A step that changes no row the database was made from but for its counts.
LEMMA RowsStay ==
    ASSUME Typed, OnDisk, Typed', UNCHANGED <<head, zero, indexed>>, head = zero,
           \A i \in 1..(zero.row - 1) :
               /\ i \in 1..Len(file') /\ Bare(file'[i]) = Bare(file[i])
               /\ file[i].counted => file'[i].counted
    PROVE  OnDisk'
  <1>1. DatabaseRowsKept'
    BY KeptLength DEF OnDisk, DatabaseRowsKept
  <1>2. CountedTo(zero.row - 3)'
    <2>1. zero.row \in Nat
      BY DEF Typed, Ends
    <2> QED
      BY <2>1 DEF OnDisk, CountedTo
  <1>3. Ledger(indexed, zero.block)'
    BY DEF OnDisk, Ledger, EndsBlock
  <1> QED
    BY <1>1, <1>2, <1>3 DEF OnDisk

\* A step that leaves the disk alone.
LEMMA DiskStays ==
    ASSUME OnDisk, UNCHANGED disk
    PROVE  OnDisk' /\ (Stale <=> Stale') /\ \A n : CountedTo(n) <=> CountedTo(n)'
  BY DEF disk, OnDisk, Ledger, EndsBlock, DatabaseRowsKept, Bare, CountedTo, Stale

LEMMA InitHolds == Init => IInv
  <1> SUFFICES ASSUME Init
               PROVE  IInv
    OBVIOUS
  <1>1. /\ file = <<>> /\ indexed = <<>> /\ pending = <<>> /\ pc = "up"
        /\ head = [block |-> -1, row |-> 1] /\ zero = [block |-> -1, row |-> 1]
        /\ m_Block = -1 /\ m_Row = 1 /\ done = 0
    BY DEF Init
  <1>2. Typed
    BY <1>1, EmptySeq DEF Typed, Ends, Places
  <1>3. OnDisk
    BY <1>1, LedgerEmpty, EmptySeq DEF OnDisk, DatabaseRowsKept, CountedTo
  <1>4. InMemory
    BY <1>1 DEF InMemory, CountedTo
  <1> QED
    BY <1>1, <1>2, <1>3, <1>4
       DEF IInv, Writing, HeaderWritten, Counting, Unwinding, Starting, Refused

\* The rows of a block: its grants, counted, and the two block rows.
LEMMA BlockIsNew ==
    ASSUME m_Block \in Int, m_Block >= -1, NEW branch \in Branches, NEW grants \in Nat
    PROVE  NewBlock(BlockOf(branch, grants), m_Block)
  <1> DEFINE t == BlockOf(branch, grants)
  <1>1. \A i \in 1..(grants + 2) : t[i] \in Rows
    BY DEF BlockOf, Rows
  <1>2. t \in Seq(Rows) /\ Len(t) = grants + 2
    BY <1>1, SeqDef, LenProperties DEF BlockOf
  <1>3. \A i \in 1..Len(t) : /\ t[i].received = m_Block + 1
                             /\ (t[i].index <=> i = Len(t))
                             /\ i <= Len(t) - 2 => t[i].counted
    <2> SUFFICES ASSUME NEW i \in 1..(grants + 2)
                 PROVE  /\ t[i].received = m_Block + 1
                        /\ (t[i].index <=> i = grants + 2)
                        /\ i <= grants => t[i].counted
      BY <1>2
    <2> DEFINE p == i = grants + 2
               q == i <= grants
    <2>1. t[i] = [received |-> m_Block + 1, branch |-> branch, index |-> p, counted |-> q]
      BY DEF BlockOf
    <2> HIDE DEF p, q
    <2>2. t[i].received = m_Block + 1 /\ t[i].index = p /\ t[i].counted = q
      BY <2>1
    <2> USE DEF p, q
    <2>3. (t[i].index <=> i = grants + 2) /\ (t[i].counted <=> i <= grants)
      BY <2>2, Zenon
    <2> QED
      BY <2>2, <2>3
  <1> QED
    BY <1>2, <1>3 DEF NewBlock

LEMMA StartCommitKeeps ==
    ASSUME IInv, StartCommit
    PROVE  IInv'
  <1>1. /\ pc = "up" /\ pc' = "rows" /\ done' = 0
        /\ UNCHANGED <<disk, m_Block, m_Row>>
    BY DEF StartCommit
  <1>2. /\ m_Block = zero.block /\ m_Row = zero.row /\ head = zero
        /\ CountedTo(zero.row - 1)
    BY <1>1 DEF IInv, InMemory
  <1>3. NewBlock(pending', m_Block) /\ pending' \in Seq(Rows) /\ Len(pending') >= 2
    <2>1. PICK branch \in Branches, grants \in Grants : pending' = BlockOf(branch, grants)
      BY DEF StartCommit
    <2>2. grants \in Nat /\ m_Block \in Int /\ m_Block >= -1
      BY <1>2, RecoveryAssumption DEF IInv, Typed, Ends
    <2> QED
      BY <2>1, <2>2, BlockIsNew DEF NewBlock
  <1>4. Typed'
    BY <1>1, <1>3 DEF IInv, Typed, disk, Places
  <1>5. OnDisk' /\ CountedTo(zero.row - 1)'
    BY <1>1, <1>2, DiskStays DEF IInv, disk
  <1>6. InMemory'
    BY <1>1, <1>2, <1>5 DEF InMemory, disk
  <1>7. Writing'
    BY <1>1, <1>2, <1>3, KeptLength DEF IInv, Writing, disk, NewBlock
  <1> QED
    BY <1>1, <1>4, <1>5, <1>6, <1>7
       DEF IInv, HeaderWritten, Counting, Unwinding, Starting, Refused

LEMMA WriteRowKeeps ==
    ASSUME IInv, WriteRow
    PROVE  IInv'
  <1> DEFINE i == m_Row + done
             row == pending[done + 1]
  <1>1. /\ pc = "rows" /\ file' = Put(file, i, row) /\ done' = done + 1
        /\ pc' = (IF done' = Len(pending) THEN "header" ELSE "rows")
        /\ UNCHANGED <<head, zero, indexed, m_Block, m_Row, pending>>
    BY DEF WriteRow
  <1>2. /\ m_Block = zero.block /\ m_Row = zero.row /\ head = zero
        /\ CountedTo(zero.row - 1)
        /\ NewBlock(pending, m_Block) /\ done < Len(pending)
        /\ Len(file) >= m_Row - 1 + done
        /\ \A k \in 1..done : file[m_Row - 1 + k] = pending[k]
    BY <1>1 DEF IInv, InMemory, Writing
  <1>3. /\ file \in Seq(Rows) /\ pending \in Seq(Rows)
        /\ done \in Nat /\ Len(pending) \in Nat /\ Len(file) \in Nat
        /\ m_Row \in Nat \ {0} /\ zero.row - 1 <= Len(file)
    BY <1>2, LenProperties, KeptLength DEF IInv, Typed
  <1>4. i \in 1..(Len(file) + 1) /\ row \in Rows
    BY <1>2, <1>3, ElementOfSeq
  <1>5. /\ file' \in Seq(Rows) /\ Len(file') \in Nat
        /\ Len(file') >= Len(file) /\ Len(file') >= i /\ file'[i] = row
        /\ \A j \in 1..Len(file) : j # i => file'[j] = file[j]
    <2> HIDE DEF i, row
    <2>1. /\ file' \in Seq(Rows) /\ file'[i] = row
          /\ Len(file') = (IF i > Len(file) THEN i ELSE Len(file))
          /\ \A j \in 1..Len(file) : j # i => file'[j] = file[j]
      BY <1>1, <1>3, <1>4, PutRow
    <2> QED
      BY <1>3, <1>4, <2>1
  <1>6. \A j \in 1..(zero.row - 1) : j \in 1..Len(file') /\ file'[j] = file[j]
    <2>1. \A j \in 1..(zero.row - 1) : j # i /\ j \in 1..Len(file)
      BY <1>2, <1>3
    <2> HIDE DEF i
    <2> QED
      BY <1>3, <1>5, <2>1
  <1>7. Typed'
    BY <1>1, <1>3, <1>5 DEF IInv, Typed, Places
  <1>8. OnDisk'
    BY <1>1, <1>2, <1>6, <1>7, RowsStay DEF IInv
  <1>9. InMemory'
    BY <1>1, <1>2, <1>6 DEF InMemory, CountedTo
  <1>10. Writing'
    <2>1. \A k \in 1..done' : file'[m_Row - 1 + k] = pending[k]
      <3> SUFFICES ASSUME NEW k \in 1..(done + 1)
                   PROVE  file'[m_Row - 1 + k] = pending[k]
        BY <1>1
      <3>1. CASE k = done + 1
        BY <1>3, <1>5, <3>1
      <3>2. CASE k \in 1..done
        <4>1. m_Row - 1 + k \in 1..Len(file) /\ m_Row - 1 + k # i
          BY <1>2, <1>3, <3>2
        <4>2. file'[m_Row - 1 + k] = file[m_Row - 1 + k]
          BY <1>5, <4>1
        <4> QED
          BY <1>2, <3>2, <4>2
      <3> QED
        BY <1>3, <3>1, <3>2
    <2>2. Len(file') >= m_Row - 1 + done' /\ done' <= Len(pending)
      BY <1>1, <1>2, <1>3, <1>5
    <2> QED
      BY <1>1, <1>2, <1>3, <2>1, <2>2 DEF Writing, NewBlock
  <1> QED
    BY <1>1, <1>7, <1>8, <1>9, <1>10
       DEF IInv, HeaderWritten, Counting, Unwinding, Starting, Refused

LEMMA WriteHeaderKeeps ==
    ASSUME IInv, WriteHeader
    PROVE  IInv'
  <1>1. /\ pc = "header" /\ pc' = "batch" /\ head' = [block |-> m_Block + 1, row |-> End]
        /\ UNCHANGED <<file, zero, indexed, m_Block, m_Row, pending, done>>
    BY DEF WriteHeader, mem
  <1>2. m_Block = zero.block /\ m_Row = zero.row /\ CountedTo(zero.row - 1)
    BY <1>1 DEF IInv, InMemory
  <1>3. m_Block \in Int /\ End \in Nat
    BY LenProperties DEF IInv, Typed, End
  <1>4. Typed'
    BY <1>1, <1>3 DEF IInv, Typed, Ends, Places
  <1>5. OnDisk'
    <2>1. head'.block > zero'.block
      BY <1>1, <1>2, <1>3
    <2> QED
      BY <1>1, <2>1 DEF IInv, OnDisk, Ledger, EndsBlock, DatabaseRowsKept, Bare, CountedTo
  <1>6. InMemory'
    BY <1>1, <1>2 DEF InMemory, CountedTo
  <1>7. Writing' /\ HeaderWritten'
    BY <1>1 DEF IInv, Writing, NewBlock, HeaderWritten, End
  <1> QED
    BY <1>1, <1>4, <1>5, <1>6, <1>7 DEF IInv, Counting, Unwinding, Starting, Refused

LEMMA CommitBatchKeeps ==
    ASSUME IInv, CommitBatch
    PROVE  IInv'
  <1> DEFINE t == [k \in 1..Len(pending) |-> Bare(pending[k])]
             n == Len(indexed)
  <1>1. /\ pc = "batch" /\ pc' = "counts" /\ done' = 0
        /\ zero' = [block |-> m_Block + 1, row |-> End] /\ indexed' = indexed \o t
        /\ UNCHANGED <<file, head, m_Block, m_Row, pending>>
    BY DEF CommitBatch
  <1>2. /\ m_Block = zero.block /\ m_Row = zero.row /\ CountedTo(zero.row - 1)
        /\ NewBlock(pending, m_Block) /\ done = Len(pending)
        /\ \A k \in 1..done : file[m_Row - 1 + k] = pending[k]
        /\ Len(file) >= m_Row - 1 + done
        /\ head = [block |-> m_Block + 1, row |-> End]
    BY <1>1 DEF IInv, InMemory, Writing, HeaderWritten
  <1>3. /\ pending \in Seq(Rows) /\ Len(pending) \in Nat /\ Len(pending) >= 2
        /\ n \in Nat /\ Len(file) \in Nat /\ m_Row = n + 1 /\ m_Block \in Int /\ m_Block >= -1
        /\ \A k \in 1..Len(pending) : pending[k] \in Rows
    BY <1>2, LenProperties, KeptLength, ElementOfSeq DEF IInv, Typed, NewBlock
  <1>4. \A k \in 1..Len(pending) : t[k] \in BareRows
    BY <1>3 DEF Rows, BareRows, Bare
  <1>5. t \in Seq(BareRows) /\ Len(t) = Len(pending)
    BY <1>3, <1>4, SeqDef, LenProperties
  <1>6. \A k \in 1..Len(t) : t[k].received = m_Block + 1 /\ (t[k].index <=> k = Len(t))
    BY <1>2, <1>5 DEF NewBlock, Bare
  <1>7. Ledger(indexed', zero'.block)
    <2> HIDE DEF t
    <2>1. Ledger(indexed, m_Block)
      BY <1>2 DEF IInv, OnDisk
    <2>2. Ledger(indexed \o t, m_Block + 1)
      BY <1>3, <1>5, <1>6, <2>1, LedgerContinued
    <2> QED
      BY <1>1, <2>2
  <1>8. /\ Len(indexed') = n + Len(pending) /\ indexed' \in Seq(BareRows)
        /\ \A j \in 1..n : indexed'[j] = indexed[j]
        /\ \A j \in 1..Len(indexed') : j > n => indexed'[j] = Bare(pending[j - n])
    <2>1. /\ indexed' \in Seq(BareRows) /\ Len(indexed') = n + Len(t)
          /\ \A j \in 1..Len(indexed') :
                 indexed'[j] = IF j <= n THEN indexed[j] ELSE t[j - n]
      <3> HIDE DEF t
      <3> DEFINE u == indexed \o t
      <3>1. indexed \in Seq(BareRows)
        BY DEF IInv, Typed
      <3>2. /\ u \in Seq(BareRows) /\ Len(u) = n + Len(t)
            /\ \A j \in 1..(n + Len(t)) : u[j] = IF j <= n THEN indexed[j] ELSE t[j - n]
        BY <1>5, <3>1, ConcatProperties
      <3> HIDE DEF u
      <3>3. indexed' = u
        BY <1>1 DEF u
      <3> QED
        BY <3>2, <3>3
    <2>2. ASSUME NEW j \in 1..Len(indexed'), j > n
          PROVE  indexed'[j] = Bare(pending[j - n])
      <3>1. j - n \in 1..Len(pending) /\ ~(j <= n)
        BY <1>3, <1>5, <2>1, <2>2
      <3> QED
        BY <2>1, <3>1
    <2> HIDE DEF t
    <2>3. /\ Len(indexed') = n + Len(pending)
          /\ \A j \in 1..n : indexed'[j] = indexed[j]
      BY <1>3, <1>5, <2>1
    <2> QED
      BY <2>1, <2>2, <2>3
  <1>9. End = n + 1 + Len(pending)
    BY <1>3 DEF End
  <1>10. DatabaseRowsKept'
    <2>1. \A j \in 1..Len(indexed') : j <= Len(file) /\ Bare(file[j]) = indexed'[j]
      <3> SUFFICES ASSUME NEW j \in 1..Len(indexed')
                   PROVE  j <= Len(file) /\ Bare(file[j]) = indexed'[j]
        OBVIOUS
      <3>1. CASE j <= n
        BY <1>2, <1>3, <1>8, <3>1, KeptLength DEF IInv
      <3>2. CASE j > n
        <4>1. j - n \in 1..done /\ m_Row - 1 + (j - n) = j
          BY <1>2, <1>3, <1>8, <3>2
        <4>2. file[j] = pending[j - n]
          BY <1>2, <4>1
        <4> QED
          BY <1>2, <1>3, <1>8, <3>2, <4>1, <4>2
      <3> QED
        BY <1>3, <1>8, <3>1, <3>2
    <2> QED
      BY <1>1, <1>3, <1>8, <1>9, <2>1 DEF DatabaseRowsKept, Bare
  <1>11. CountedTo(zero.row - 3)'
    <2> SUFFICES ASSUME NEW j \in 1..(n + Len(pending) - 2)
                 PROVE  file[j].counted
      BY <1>1, <1>3, <1>9 DEF CountedTo
    <2>1. CASE j <= n
      BY <1>2, <1>3, <2>1 DEF CountedTo
    <2>2. CASE j > n
      <3>1. j - n \in 1..Len(pending) /\ j - n <= Len(pending) - 2 /\ m_Row - 1 + (j - n) = j
        BY <1>3, <2>2
      <3>2. file[j] = pending[j - n]
        BY <1>2, <3>1
      <3> QED
        BY <1>2, <3>1, <3>2 DEF NewBlock
    <2> QED
      BY <1>3, <2>1, <2>2
  <1>12. OnDisk'
    BY <1>1, <1>2, <1>7, <1>10, <1>11 DEF OnDisk, Ledger, EndsBlock
  <1>13. Typed'
    <2>1. zero' \in Ends /\ zero'.block >= -1
      BY <1>1, <1>3, <1>9 DEF Ends
    <2> QED
      BY <1>1, <1>8, <2>1 DEF IInv, Typed, Places
  <1>14. Counting'
    BY <1>1, <1>2, <1>3, <1>11 DEF Counting, CountedTo, End
  <1> QED
    BY <1>1, <1>12, <1>13, <1>14
       DEF IInv, InMemory, Writing, HeaderWritten, Unwinding, Starting, Refused

LEMMA BatchFailsKeeps ==
    ASSUME IInv, BatchFails
    PROVE  IInv'
  <1>1. /\ pc = "batch" /\ pc' = "unwind" /\ pending' = <<>> /\ done' = 0
        /\ UNCHANGED <<disk, m_Block, m_Row>>
    BY DEF BatchFails
  <1>2. OnDisk' /\ CountedTo(zero.row - 1)'
    BY <1>1, DiskStays DEF IInv, InMemory, disk
  <1>3. Typed'
    BY <1>1, EmptySeq DEF IInv, Typed, Places, disk
  <1> QED
    BY <1>1, <1>2, <1>3
       DEF IInv, InMemory, Writing, HeaderWritten, Counting, Unwinding, Starting, Refused

LEMMA WriteCountsKeeps ==
    ASSUME IInv, WriteCounts
    PROVE  IInv'
  <1> DEFINE i == End - 2 + done
             row == [file[i] EXCEPT !.counted = TRUE]
  <1>1. /\ pc = "counts" /\ file' = Put(file, i, row)
        /\ UNCHANGED <<head, zero, indexed>>
        /\ \/ /\ done = 0 /\ done' = 1 /\ UNCHANGED <<m_Block, m_Row, pending, pc>>
           \/ /\ done # 0 /\ m_Block' = m_Block + 1 /\ m_Row' = End
              /\ pending' = <<>> /\ done' = 0 /\ pc' = "up"
    BY DEF WriteCounts
  <1>2. /\ zero = [block |-> m_Block + 1, row |-> End] /\ head = zero
        /\ Len(pending) >= 2 /\ m_Row >= 1 /\ done \in {0, 1}
        /\ CountedTo(zero.row - 3 + done)
    BY <1>1 DEF IInv, Counting
  <1>3. /\ file \in Seq(Rows) /\ Len(file) \in Nat /\ zero.row = End
        /\ zero.row - 1 <= Len(file) /\ zero.row \in Nat /\ zero.row >= 3
        /\ m_Block \in Int
    BY <1>2, LenProperties, KeptLength DEF IInv, Typed, End
  <1>4. i \in 1..Len(file) /\ i \in 1..(Len(file) + 1) /\ i = zero.row - 2 + done
    BY <1>2, <1>3
  <1>5. file[i] \in Rows /\ row \in Rows /\ row.counted /\ Bare(row) = Bare(file[i])
    <2>1. file[i] \in Rows
      BY <1>3, <1>4, ElementOfSeq
    <2> QED
      BY <2>1 DEF Rows, Bare
  <1>6. /\ file' \in Seq(Rows) /\ Len(file') = Len(file) /\ file'[i] = row
        /\ \A j \in 1..Len(file) : j # i => file'[j] = file[j]
    <2> HIDE DEF i, row
    <2> QED
      BY <1>1, <1>3, <1>4, <1>5, PutRow
  <1>7. \A j \in 1..(zero.row - 1) :
            /\ j \in 1..Len(file') /\ Bare(file'[j]) = Bare(file[j])
            /\ file[j].counted => file'[j].counted
    <2> SUFFICES ASSUME NEW j \in 1..Len(file)
                 PROVE  /\ Bare(file'[j]) = Bare(file[j])
                        /\ file[j].counted => file'[j].counted
      BY <1>3, <1>6
    <2> HIDE DEF i, row
    <2> QED
      BY <1>5, <1>6
  <1>8. Typed'
    <2> HIDE DEF i, row
    <2>1. End \in Nat /\ m_Block + 1 \in Int
      BY <1>3
    <2>2. /\ pending' \in Seq(Rows) /\ done' \in Nat /\ pc' \in Places
          /\ m_Block' \in Int /\ m_Row' \in Nat
      <3>1. CASE done = 0
        BY <1>1, <3>1 DEF IInv, Typed, Places
      <3>2. CASE done # 0
        <4>1. pending' = <<>> /\ <<>> \in Seq(Rows)
          BY <1>1, <3>2, EmptySeq
        <4> QED
          BY <1>1, <2>1, <3>2, <4>1 DEF Places
      <3> QED
        BY <3>1, <3>2
    <2> QED
      BY <1>1, <1>6, <2>2 DEF IInv, Typed
  <1>9. OnDisk'
    BY <1>1, <1>2, <1>7, <1>8, RowsStay DEF IInv
  <1>10. \A j \in 1..(zero.row - 2 + done) : file'[j].counted
    <2> SUFFICES ASSUME NEW j \in 1..(zero.row - 2 + done)
                 PROVE  file'[j].counted
      OBVIOUS
    <2>1. CASE j = i
      BY <1>5, <1>6, <2>1
    <2>2. CASE j # i
      BY <1>2, <1>3, <1>4, <1>7, <2>2 DEF CountedTo
    <2> QED
      BY <2>1, <2>2
  <1>11. CASE done = 0
    <2>1. \A j \in 1..(zero.row - 2) : file'[j].counted
      BY <1>3, <1>10, <1>11
    <2>2. zero.row - 3 + 1 = zero.row - 2
      BY <1>3
    <2>3. /\ zero' = [block |-> m_Block' + 1, row |-> End'] /\ head' = zero'
          /\ Len(pending') >= 2 /\ m_Row' >= 1 /\ done' = 1
      BY <1>1, <1>2, <1>11 DEF End
    <2>4. Counting'
      BY <1>1, <2>1, <2>2, <2>3 DEF Counting, CountedTo
    <2> QED
      BY <1>1, <1>8, <1>9, <1>11, <2>4
         DEF IInv, InMemory, Writing, HeaderWritten, Unwinding, Starting, Refused
  <1>12. CASE done = 1
    <2>1. zero.row - 2 + 1 = zero.row - 1
      BY <1>3
    <2>2. \A j \in 1..(zero.row - 1) : file'[j].counted
      BY <1>10, <1>12, <2>1
    <2>3. pc' = "up" /\ m_Block' = zero.block /\ m_Row' = zero.row
      BY <1>1, <1>2, <1>12
    <2>4. InMemory'
      BY <1>1, <1>2, <2>2, <2>3 DEF InMemory, CountedTo
    <2> QED
      BY <1>1, <1>8, <1>9, <1>12, <2>4
         DEF IInv, Writing, HeaderWritten, Counting, Unwinding, Starting, Refused
  <1> QED
    BY <1>2, <1>11, <1>12

LEMMA RollBackBatchKeeps ==
    ASSUME IInv, NEW b \in -1..MaxBlock, RollBackBatch(b)
    PROVE  IInv'
  <1> DEFINE n == Len(indexed)
             top == Top(file, m_Row - 1, b)
  <1>1. /\ pc = "up" /\ b <= m_Block /\ pc' = "unwind"
        /\ zero' = [block |-> b, row |-> top + 1] /\ indexed' = SubSeq(indexed, 1, top)
        /\ UNCHANGED <<file, head, m_Block, m_Row, pending, done>>
    BY DEF RollBackBatch, mem
  <1>2. /\ m_Block = zero.block /\ m_Row = zero.row /\ head = zero /\ CountedTo(zero.row - 1)
    BY <1>1 DEF IInv, InMemory
  <1>3. /\ n \in Nat /\ m_Row - 1 = n /\ zero.row = n + 1 /\ zero.block \in Int /\ b \in Int /\ b <= zero.block
        /\ indexed \in Seq(BareRows) /\ zero \in Ends
        /\ \A j \in 1..n : j \in 1..Len(file) /\ Bare(file[j]) = indexed[j]
    BY <1>1, <1>2, RecoveryAssumption, KeptLength DEF IInv, Typed, Ends
  <1>4. Ledger(indexed, zero.block) /\ \A j \in 1..n : file[j].received = indexed[j].received
    <2>1. \A j \in 1..n : Bare(file[j]).received = file[j].received
      BY DEF Bare
    <2> QED
      BY <1>3, <2>1 DEF IInv, OnDisk
  <1>5. /\ top \in 0..n /\ Ledger(SubSeq(indexed, 1, top), b)
        /\ b = zero.block => top = n
    <2>1. CASE b = -1
      <3>1. \A j \in 1..n : file[j].received <= b <=> j <= 0
        BY <1>4, <2>1 DEF Ledger
      <3>2. top = 0
        <4>1. 0 \in 0..n
          BY <1>3
        <4>2. Top(file, n, b) = 0
          BY <1>3, <3>1, <4>1, TopAtEnd
        <4> QED
          BY <1>3, <4>2
      <3>3. SubSeq(indexed, 1, 0) = <<>>
        BY SubSeqEmpty
      <3>4. b = zero.block => n = 0
        BY <1>3, <1>4, <2>1, LedgerEnd
      <3>5. Ledger(SubSeq(indexed, 1, top), b)
        BY <2>1, <3>2, <3>3, LedgerEmpty
      <3> HIDE DEF top
      <3> QED
        BY <1>3, <3>2, <3>4, <3>5
    <2>2. CASE b >= 0
      <3>1. b \in 0..zero.block
        BY <1>3, <2>2
      <3>2. PICK e \in 1..n : EndsBlock(indexed, b, e)
        BY <1>4, <3>1 DEF Ledger
      <3>3. \A j \in 1..n : file[j].received <= b <=> j <= e
        BY <1>4, <3>2 DEF EndsBlock
      <3>4. top = e
        BY <1>3, <3>2, <3>3, TopAtEnd
      <3>5. Ledger(SubSeq(indexed, 1, e), b)
        BY <1>3, <1>4, <3>1, <3>2, LedgerCut
      <3>6. b = zero.block => e = n
        <4>1. \A j \in 1..n : indexed[j].received <= zero.block
          BY <1>3, <1>4, LedgerEnd
        <4> QED
          BY <1>3, <3>2, <4>1 DEF EndsBlock
      <3> QED
        BY <3>2, <3>4, <3>5, <3>6
    <2> QED
      BY <2>1, <2>2
  <1> HIDE DEF top
  <1>6. /\ indexed' \in Seq(BareRows) /\ Len(indexed') = top
        /\ \A j \in 1..top : indexed'[j] = indexed[j]
    BY <1>1, <1>3, <1>5, PrefixOf
  <1>7. head = zero' \/ head.block > zero'.block
    <2>1. CASE b = zero.block
      <3>1. zero = [block |-> zero.block, row |-> zero.row]
        BY <1>3 DEF Ends
      <3>2. top + 1 = zero.row
        BY <1>2, <1>3, <1>5, <2>1
      <3> QED
        BY <1>1, <1>2, <2>1, <3>1, <3>2
    <2>2. CASE b < zero.block
      BY <1>1, <1>2, <2>2
    <2> QED
      BY <1>3, <2>1, <2>2
  <1>8. DatabaseRowsKept'
    BY <1>1, <1>3, <1>5, <1>6 DEF DatabaseRowsKept, Bare
  <1>9. \A j \in 1..top : file[j].counted
    <2>1. \A j \in 1..n : file[j].counted
      BY <1>2, <1>3 DEF CountedTo
    <2> QED
      BY <1>3, <1>5, <2>1
  <1>10. OnDisk'
    <2>1. CountedTo(zero.row - 3)'
      BY <1>1, <1>5, <1>9 DEF CountedTo
    <2>2. Ledger(indexed, zero.block)'
      BY <1>1, <1>5 DEF Ledger, EndsBlock
    <2> QED
      BY <1>1, <1>7, <1>8, <2>1, <2>2 DEF OnDisk
  <1>11. Typed'
    BY <1>1, <1>3, <1>5, <1>6 DEF IInv, Typed, Ends, Places
  <1>12. Unwinding'
    BY <1>1, <1>5, <1>9 DEF Unwinding, CountedTo
  <1> QED
    BY <1>1, <1>10, <1>11, <1>12
       DEF IInv, InMemory, Writing, HeaderWritten, Counting, Starting, Refused

LEMMA RollBackHeaderKeeps ==
    ASSUME IInv, RollBackHeader
    PROVE  IInv'
  <1>1. /\ pc = "unwind" /\ pc' = "up" /\ head' = zero
        /\ m_Block' = zero.block /\ m_Row' = zero.row
        /\ UNCHANGED <<file, zero, indexed, pending, done>>
    BY DEF RollBackHeader
  <1>2. OnDisk'
    BY <1>1 DEF IInv, OnDisk, Ledger, EndsBlock, DatabaseRowsKept, Bare, CountedTo
  <1>3. InMemory'
    BY <1>1 DEF IInv, Unwinding, InMemory, CountedTo
  <1>4. Typed'
    BY <1>1 DEF IInv, Typed, Ends, Places
  <1> QED
    BY <1>1, <1>2, <1>3, <1>4
       DEF IInv, Writing, HeaderWritten, Counting, Unwinding, Starting, Refused

LEMMA CrashKeeps ==
    ASSUME IInv, Crash
    PROVE  IInv'
  <1>1. /\ pc' = "down" /\ m_Block' = -1 /\ m_Row' = 1 /\ pending' = <<>> /\ done' = 0
        /\ UNCHANGED disk
    BY DEF Crash
  <1>2. OnDisk'
    BY <1>1, DiskStays DEF IInv
  <1>3. Typed'
    BY <1>1, EmptySeq DEF IInv, Typed, Places, disk
  <1> QED
    BY <1>1, <1>2, <1>3
       DEF IInv, InMemory, Writing, HeaderWritten, Counting, Unwinding, Starting, Refused

LEMMA RepairKeeps ==
    ASSUME IInv, Repair
    PROVE  IInv'
  <1> DEFINE top == Top(file, Len(file), zero.block)
  <1>1. /\ pc = "down" /\ pc' = "repaired"
        /\ head' = (IF zero.block < head.block
                    THEN [block |-> zero.block, row |-> top + 1] ELSE head)
        /\ UNCHANGED <<file, zero, indexed, m_Block, m_Row, pending, done>>
    BY DEF Repair, mem
  <1>2. /\ Len(file) \in Nat /\ zero \in Ends /\ zero.block \in Int /\ head.block \in Int
        /\ zero.row \in Nat /\ zero.row >= 1 /\ zero.row - 1 <= Len(file)
    BY KeptLength DEF IInv, Typed, Ends
  <1>3. /\ top \in 0..Len(file)
        /\ top > 0 => file[top].received <= zero.block
        /\ \A i \in 1..Len(file) : file[i].received <= zero.block => i <= top
    BY <1>2, TopInFile
  <1> HIDE DEF top
  <1>4. zero.row - 1 <= top
    <2>1. CASE zero.row - 1 = 0
      BY <1>3, <2>1
    <2>2. CASE zero.row - 1 > 0
      <3> DEFINE r == zero.row - 1
      <3>1. r \in 1..r /\ r = Len(indexed) /\ zero.block \in Int /\ Ledger(indexed, zero.block)
        BY <1>2, <2>2, KeptLength DEF IInv, OnDisk
      <3>2. r \in 1..Len(file) /\ Bare(file[r]) = indexed[r]
        BY <3>1, KeptLength DEF IInv
      <3>3. indexed[r].received <= zero.block
        BY <3>1, LedgerEnd
      <3>4. file[r].received <= zero.block
        BY <3>2, <3>3 DEF Bare
      <3> QED
        BY <1>3, <3>2, <3>4
    <2> QED
      BY <1>2, <2>1, <2>2
  <1>5. head' = zero \/ Stale
    <2>1. CASE zero.block < head.block
      <3>1. CASE top = zero.row - 1
        BY <1>1, <1>2, <2>1, <3>1 DEF Ends
      <3>2. CASE top > zero.row - 1
        <4>1. top \in zero.row..Len(file) /\ top > 0
          BY <1>2, <1>3, <3>2
        <4> QED
          BY <1>3, <4>1 DEF Stale
      <3> QED
        BY <1>2, <1>3, <1>4, <3>1, <3>2
    <2>2. CASE ~(zero.block < head.block)
      BY <1>1, <1>2, <2>2 DEF IInv, OnDisk
    <2> QED
      BY <2>1, <2>2
  <1>6. OnDisk' /\ Starting'
    BY <1>1, <1>5 DEF IInv, OnDisk, Ledger, EndsBlock, DatabaseRowsKept, Bare, CountedTo,
                      Starting, Stale
  <1>7. Typed'
    BY <1>1, <1>2, <1>3 DEF IInv, Typed, Ends, Places
  <1> QED
    BY <1>1, <1>6, <1>7
       DEF IInv, InMemory, Writing, HeaderWritten, Counting, Unwinding, Refused

LEMMA OpenKeeps ==
    ASSUME IInv, Open
    PROVE  IInv'
  <1>1. /\ pc = "repaired" /\ UNCHANGED <<head, zero, indexed, pending, done>>
        /\ pc' = IF Opens THEN "up" ELSE "refused"
    BY DEF Open
  <1>2. head = zero \/ Stale
    BY <1>1 DEF IInv, Starting
  <1>3. /\ Len(file) \in Nat /\ Len(indexed) \in Nat
        /\ zero.row = Len(indexed) + 1 /\ zero.row - 1 <= Len(file)
        /\ file \in Seq(Rows) /\ zero.block \in Int
        /\ \A j \in 1..(zero.row - 1) :
               j \in 1..Len(file) /\ file[j] \in Rows /\ Bare(file[j]) = indexed[j]
    BY KeptLength DEF IInv, Typed, Ends
  <1>4. CASE head = zero
    <2>1. zero.row > 1 => /\ file[zero.row - 1].index
                          /\ file[zero.row - 1].received = zero.block
      <3> SUFFICES ASSUME zero.row > 1
                   PROVE  /\ file[zero.row - 1].index
                          /\ file[zero.row - 1].received = zero.block
        OBVIOUS
      <3>1. Ledger(indexed, zero.block) /\ Len(indexed) > 0
        BY <1>3 DEF IInv, OnDisk
      <3>2. indexed[Len(indexed)].index /\ indexed[Len(indexed)].received = zero.block
        BY <1>3, <3>1, LedgerEnd
      <3>3. Bare(file[zero.row - 1]) = indexed[Len(indexed)]
        BY <1>3
      <3> QED
        BY <3>2, <3>3 DEF Bare
    <2>2. Opens
      BY <1>3, <1>4, <2>1 DEF Opens
    <2>3. /\ pc' = "up" /\ m_Block' = zero.block /\ m_Row' = zero.row
          /\ file' = IF zero.row = 1 THEN file
                     ELSE [i \in 1..Len(file) |->
                             IF i \in {zero.row - 1, zero.row - 2}
                             THEN [file[i] EXCEPT !.counted = TRUE] ELSE file[i]]
      BY <2>2 DEF Open
    <2>4. \A i \in 1..Len(file) : file[i] \in Rows
      BY <1>3, ElementOfSeq
    <2>5. /\ file' \in Seq(Rows) /\ Len(file') = Len(file)
          /\ \A i \in 1..Len(file) :
                 /\ Bare(file'[i]) = Bare(file[i])
                 /\ file[i].counted => file'[i].counted
                 /\ zero.row > 1 /\ i \in {zero.row - 1, zero.row - 2} => file'[i].counted
      <3>1. CASE zero.row = 1
        BY <1>3, <2>3, <3>1
      <3>2. CASE zero.row # 1
        <4> DEFINE g == [i \in 1..Len(file) |->
                           IF i \in {zero.row - 1, zero.row - 2}
                           THEN [file[i] EXCEPT !.counted = TRUE] ELSE file[i]]
        <4>1. \A i \in 1..Len(file) :
                 /\ g[i] \in Rows /\ Bare(g[i]) = Bare(file[i])
                 /\ file[i].counted => g[i].counted
                 /\ i \in {zero.row - 1, zero.row - 2} => g[i].counted
          BY <2>4 DEF Rows, Bare
        <4>2. g \in Seq(Rows) /\ Len(g) = Len(file)
          BY <1>3, <4>1, SeqDef, LenProperties
        <4>3. file' = g
          BY <2>3, <3>2
        <4> HIDE DEF g
        <4> QED
          BY <4>1, <4>2, <4>3
      <3> QED
        BY <3>1, <3>2
    <2>6. Typed'
      BY <1>1, <1>3, <2>3, <2>5 DEF IInv, Typed, Ends, Places
    <2>7. OnDisk'
      BY <1>1, <1>3, <1>4, <2>5, <2>6, RowsStay DEF IInv
    <2>8. \A j \in 1..(zero.row - 1) : file'[j].counted
      <3> SUFFICES ASSUME NEW j \in 1..(zero.row - 1)
                   PROVE  file'[j].counted
        OBVIOUS
      <3>1. j \in 1..Len(file) /\ zero.row > 1
        BY <1>3
      <3>2. CASE j \in 1..(zero.row - 3)
        BY <2>5, <3>1, <3>2 DEF IInv, OnDisk, CountedTo
      <3>3. CASE j \in {zero.row - 1, zero.row - 2}
        BY <2>5, <3>1, <3>3
      <3> QED
        BY <1>3, <3>2, <3>3
    <2>9. InMemory'
      BY <1>1, <1>4, <2>3, <2>8 DEF InMemory, CountedTo
    <2> QED
      BY <2>3, <2>6, <2>7, <2>9
         DEF IInv, Writing, HeaderWritten, Counting, Unwinding, Starting, Refused
  <1>5. CASE head # zero
    <2>1. ~Opens
      BY <1>5 DEF Opens
    <2>2. pc' = "refused" /\ UNCHANGED <<m_Block, m_Row, file>>
      BY <2>1 DEF Open
    <2>3. OnDisk' /\ Stale'
      BY <1>1, <1>2, <1>5, <2>2, DiskStays DEF IInv, disk
    <2>4. Typed'
      BY <1>1, <2>2 DEF IInv, Typed, Places
    <2> QED
      BY <2>2, <2>3, <2>4
         DEF IInv, InMemory, Writing, HeaderWritten, Counting, Unwinding, Starting, Refused
  <1> QED
    BY <1>4, <1>5

LEMMA StepKeeps == IInv /\ [Next]_vars => IInv'
  <1> SUFFICES ASSUME IInv, [Next]_vars
               PROVE  IInv'
    OBVIOUS
  <1>1. CASE UNCHANGED vars
    <2>1. OnDisk' /\ (Stale <=> Stale') /\ \A n : CountedTo(n) <=> CountedTo(n)'
      BY <1>1, DiskStays DEF IInv, vars
    <2> QED
      BY <1>1, <2>1 DEF IInv, vars, disk, mem, Typed, InMemory, CountedTo, Writing, NewBlock,
                        HeaderWritten, End, Counting, Unwinding, Starting, Refused
  <1>2. CASE Next
    BY <1>2, StartCommitKeeps, WriteRowKeeps, WriteHeaderKeeps, CommitBatchKeeps,
       BatchFailsKeeps, WriteCountsKeeps, RollBackBatchKeeps, RollBackHeaderKeeps,
       CrashKeeps, RepairKeeps, OpenKeeps DEF Next
  <1> QED
    BY <1>1, <1>2

LEMMA InvHolds == Spec => []IInv
  <1> QED
    BY InitHolds, StepKeeps, PTL DEF Spec

-----------------------------------------------------------------------------
(***************************************************************************)
(* What follows.                                                           *)
(***************************************************************************)

\* Wherever a crash cuts a commit or a rollback off, the rows the database was made
\* from stay in the ledger file.
THEOREM KeptRows == Spec => []DatabaseRowsKept
  <1>1. IInv => DatabaseRowsKept
    BY DEF IInv, OnDisk
  <1> QED
    BY <1>1, InvHolds, PTL

\* mc_Permissions works with the ledger its database describes whenever no call is
\* under way, after any number of crashes, rollbacks and refused batches.
THEOREM MemoryIsTheDatabase == Spec => []UpMatchesDatabase
  <1>1. IInv => UpMatchesDatabase
    <2> SUFFICES ASSUME IInv, pc = "up"
                 PROVE  /\ m_Block = zero.block /\ m_Row = zero.row /\ head = zero
                        /\ m_Row > 1 => /\ file[m_Row - 1].index
                                        /\ file[m_Row - 1].received = m_Block
      BY DEF UpMatchesDatabase
    <2>1. m_Block = zero.block /\ m_Row = zero.row /\ head = zero
      BY DEF IInv, InMemory
    <2>2. /\ Len(indexed) \in Nat /\ zero.row = Len(indexed) + 1
          /\ zero.block \in Int /\ Ledger(indexed, zero.block)
          /\ \A j \in 1..(zero.row - 1) : Bare(file[j]) = indexed[j]
      BY KeptLength DEF IInv, Typed, Ends, OnDisk
    <2>3. ASSUME m_Row > 1
          PROVE  file[m_Row - 1].index /\ file[m_Row - 1].received = m_Block
      <3>1. indexed[Len(indexed)].index /\ indexed[Len(indexed)].received = zero.block
        BY <2>1, <2>2, <2>3, LedgerEnd
      <3>2. Bare(file[m_Row - 1]) = indexed[Len(indexed)]
        BY <2>1, <2>2, <2>3
      <3> QED
        BY <2>1, <3>1, <3>2 DEF Bare
    <2> QED
      BY <2>1, <2>3
  <1> QED
    BY <1>1, InvHolds, PTL

\* Between two calls every row of the ledger has its counts: RollBackBeforeMinerVerification
\* reads those of any past block.
THEOREM CountsMadeGood == Spec => []PastBlocksCounted
  <1>1. IInv => PastBlocksCounted
    BY DEF IInv, InMemory, PastBlocksCounted, CountedTo
  <1> QED
    BY <1>1, InvHolds, PTL

\* Initialize refuses the stores only over rows of rolled back blocks behind the ledger.
THEOREM OnlyStaleRowsRefuse == Spec => []RefusesOnlyOverStaleRows
  <1>1. IInv => RefusesOnlyOverStaleRows
    BY DEF IInv, Refused, Stale, RefusesOnlyOverStaleRows
  <1> QED
    BY <1>1, InvHolds, PTL
=============================================================================
