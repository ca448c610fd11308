------------------------- MODULE PermissionRecovery -------------------------
(***************************************************************************)
(* The two stores of mc_Permissions across a crash of the process: the     *)
(* ledger file (permissions.dat), written row by row with its header in    *)
(* row 0, and the database (permissions.db), whose batches are atomic.     *)
(* Commit writes the ledger first, RollBack the database first, and        *)
(* Initialize brings the two together when the node starts.                *)
(*                                                                         *)
(* What a row says is reduced to the block it was received in, the branch  *)
(* of that block, whether it is its index row, and whether the counts were *)
(* written into it.  The file never shrinks: rows behind the end of the    *)
(* ledger stay until they are overwritten.                                 *)
(***************************************************************************)
EXTENDS Integers, Sequences, FiniteSets

CONSTANTS Branches,     \* what tells two blocks of one height apart
          Grants,       \* how many grants a block may have
          MaxBlock,     \* bound: the last height committed
          MaxRow        \* bound: the last row number used

ASSUME RecoveryAssumption == Grants \subseteq Nat /\ MaxBlock \in Nat /\ MaxRow \in Nat

VARIABLES file,         \* the rows of the ledger file from row 1 on
          head,         \* its row 0: last block and next row
          zero,         \* the database's row with the zero key: the same two
          indexed,      \* the rows the entries of the database were made from
          m_Block, m_Row,   \* memory
          pending,      \* the rows Commit is writing
          done,         \* how many of them are written, or are given counts
          pc            \* what the process is doing

disk == <<file, head, zero, indexed>>
mem  == <<m_Block, m_Row, pending, done>>
vars == <<disk, mem, pc>>

\* "up": between two calls; "rows", "header", "batch", "counts": the steps of
\* Commit; "unwind": RollBack between its two writes; "down": crashed;
\* "repaired": Initialize has looked at the headers; "refused": it returned
\* an error, and the node does not start.
Places == {"up", "rows", "header", "batch", "counts", "unwind",
           "down", "repaired", "refused"}

\* a file after row i is written: i is at most one past its end
Put(f, i, row) == [j \in 1..(IF i > Len(f) THEN i ELSE Len(f)) |->
                      IF j = i THEN row ELSE f[j]]

\* the end of the rows of f up to row n that came with block b or below
\* (the loops of RollBackInternal and of Initialize's repair)
Top(f, n, b) ==
    LET keep == {i \in 1..n : f[i].received <= b}
    IN  IF keep = {} THEN 0 ELSE CHOOSE i \in keep : \A j \in keep : j <= i

\* a row but for its counts
Bare(r) == [received |-> r.received, branch |-> r.branch, index |-> r.index]

-----------------------------------------------------------------------------
(* Commit                                                                  *)

BlockOf(branch, grants) ==
    [i \in 1..(grants + 2) |->
        [received |-> m_Block + 1, branch |-> branch,
         index |-> i = grants + 2, counted |-> i <= grants]]

StartCommit ==
    /\ pc = "up" /\ m_Block < MaxBlock
    /\ \E branch \in Branches, grants \in Grants :
        /\ m_Row + grants + 1 <= MaxRow
        /\ pending' = BlockOf(branch, grants)
    /\ done' = 0 /\ pc' = "rows"
    /\ UNCHANGED <<disk, m_Block, m_Row>>

\* Mutation: the rows go to the end of the file.
WriteRowAtEnd ==
    /\ pc = "rows"
    /\ file' = Append(file, pending[done + 1])
    /\ done' = done + 1
    /\ pc' = IF done' = Len(pending) THEN "header" ELSE "rows"
    /\ UNCHANGED <<head, zero, indexed, m_Block, m_Row, pending>>

\* SetRow for the first row, WriteRow for those behind it
WriteRow ==
    /\ pc = "rows"
    /\ file' = Put(file, m_Row + done, pending[done + 1])
    /\ done' = done + 1
    /\ pc' = IF done' = Len(pending) THEN "header" ELSE "rows"
    /\ UNCHANGED <<head, zero, indexed, m_Block, m_Row, pending>>

End == m_Row + Len(pending)

WriteHeader ==
    /\ pc = "header"
    /\ head' = [block |-> m_Block + 1, row |-> End]
    /\ pc' = "batch"
    /\ UNCHANGED <<file, zero, indexed, mem>>

CommitBatch ==
    /\ pc = "batch"
    /\ zero' = [block |-> m_Block + 1, row |-> End]
    /\ indexed' = indexed \o [i \in 1..Len(pending) |-> Bare(pending[i])]
    /\ done' = 0
    /\ pc' = "counts"
    /\ UNCHANGED <<file, head, m_Block, m_Row, pending>>

\* The database refuses the batch: Commit calls RollBackInternal(m_Block),
\* whose own batch changes nothing and whose header is the old one.
BatchFails ==
    /\ pc = "batch"
    /\ pending' = <<>> /\ done' = 0
    /\ pc' = "unwind"
    /\ UNCHANGED <<disk, m_Block, m_Row>>

\* The counts are known after the batch: they go into the two block rows,
\* and with the second one the commit is complete.
WriteCounts ==
    /\ pc = "counts"
    /\ LET i == End - 2 + done
       IN  file' = Put(file, i, [file[i] EXCEPT !.counted = TRUE])
    /\ IF done = 0
         THEN done' = 1 /\ UNCHANGED <<m_Block, m_Row, pending, pc>>
         ELSE /\ m_Block' = m_Block + 1 /\ m_Row' = End
              /\ pending' = <<>> /\ done' = 0 /\ pc' = "up"
    /\ UNCHANGED <<head, zero, indexed>>

-----------------------------------------------------------------------------
(* RollBack                                                                *)

RollBackBatch(b) ==
    /\ pc = "up" /\ b <= m_Block
    /\ LET top == Top(file, m_Row - 1, b)
       IN  /\ zero' = [block |-> b, row |-> top + 1]
           /\ indexed' = SubSeq(indexed, 1, top)
    /\ pc' = "unwind"
    /\ UNCHANGED <<file, head, mem>>

\* the header has the values the batch was given
RollBackHeader ==
    /\ pc = "unwind"
    /\ head' = zero
    /\ m_Block' = zero.block /\ m_Row' = zero.row
    /\ pc' = "up"
    /\ UNCHANGED <<file, zero, indexed, pending, done>>

-----------------------------------------------------------------------------
(* Crash and restart                                                       *)

\* The process may end at any point; what it wrote stays written.
Crash ==
    /\ pc \notin {"down", "refused"}
    /\ pc' = "down"
    /\ m_Block' = -1 /\ m_Row' = 1 /\ pending' = <<>> /\ done' = 0
    /\ UNCHANGED disk

\* Mutation: a database behind the ledger is not looked for.
RepairNothing ==
    /\ pc = "down"
    /\ pc' = "repaired"
    /\ UNCHANGED <<disk, mem>>

\* Initialize: a database behind the ledger is the sign of a commit or a
\* rollback that was cut off.  The repair looks for the last row of the
\* database's block from the end of the file, not of the ledger.
Repair ==
    /\ pc = "down"
    /\ head' = IF zero.block < head.block
               THEN [block |-> zero.block, row |-> Top(file, Len(file), zero.block) + 1]
               ELSE head
    /\ pc' = "repaired"
    /\ UNCHANGED <<file, zero, indexed, mem>>

\* Mutation: only the heights are compared.
OpensOnBlock == head.block = zero.block

\* the rows are those of the database, and the last one ends its block
Opens ==
    /\ head = zero
    /\ head.row <= Len(file) + 1
    /\ head.row > 1 => /\ file[head.row - 1].index
                       /\ file[head.row - 1].received = zero.block

\* Mutation: only the index row gets the counts.
OpenOneRow ==
    /\ pc = "repaired"
    /\ IF Opens
         THEN /\ pc' = "up"
              /\ m_Block' = zero.block /\ m_Row' = zero.row
              /\ file' = IF zero.row = 1 THEN file
                         ELSE [file EXCEPT ![zero.row - 1].counted = TRUE]
         ELSE /\ pc' = "refused"
              /\ UNCHANGED <<m_Block, m_Row, file>>
    /\ UNCHANGED <<head, zero, indexed, pending, done>>

\* The last two rows get the counts: they "can contain wrong admin/mine
\* count in case of hard crash".
Open ==
    /\ pc = "repaired"
    /\ IF Opens
         THEN /\ pc' = "up"
              /\ m_Block' = zero.block /\ m_Row' = zero.row
              /\ file' = IF zero.row = 1 THEN file
                         ELSE [i \in 1..Len(file) |->
                                 IF i \in {zero.row - 1, zero.row - 2}
                                 THEN [file[i] EXCEPT !.counted = TRUE] ELSE file[i]]
         ELSE /\ pc' = "refused"
              /\ UNCHANGED <<m_Block, m_Row, file>>
    /\ UNCHANGED <<head, zero, indexed, pending, done>>

-----------------------------------------------------------------------------
Init ==
    /\ file = <<>>
    /\ head = [block |-> -1, row |-> 1] /\ zero = [block |-> -1, row |-> 1]
    /\ indexed = <<>>
    /\ m_Block = -1 /\ m_Row = 1 /\ pending = <<>> /\ done = 0
    /\ pc = "up"

Next ==
    \/ StartCommit \/ WriteRow \/ WriteHeader \/ CommitBatch \/ BatchFails
    \/ WriteCounts
    \/ \E b \in -1..MaxBlock : RollBackBatch(b)
    \/ RollBackHeader
    \/ Crash
    \/ Repair
    \/ Open

Spec == Init /\ [][Next]_vars

-----------------------------------------------------------------------------
Rows == [received : Nat, branch : Branches, index : BOOLEAN, counted : BOOLEAN]
BareRows == [received : Nat, branch : Branches, index : BOOLEAN]
Ends == [block : Int, row : Nat]

\* Whatever a crash cuts off, the rows the database was made from are in the
\* file: its entries never point at rows of another branch.
DatabaseRowsKept ==
    /\ Len(indexed) = zero.row - 1
    /\ \A i \in 1..Len(indexed) : i <= Len(file) /\ Bare(file[i]) = indexed[i]

\* A node that is up works with the ledger its database describes, and that
\* ledger ends with the index row of its last block.
UpMatchesDatabase ==
    pc = "up" => /\ m_Block = zero.block /\ m_Row = zero.row /\ head = zero
                 /\ m_Row > 1 => /\ file[m_Row - 1].index
                                 /\ file[m_Row - 1].received = m_Block

\* RollBackBeforeMinerVerification takes the counts of any past block from
\* its rows: a crash between the batch and the counts is made good.
PastBlocksCounted ==
    pc = "up" => \A i \in 1..(m_Row - 1) : file[i].counted

\* The node refuses to start only over rows of rolled back blocks: some row
\* behind the database's ledger is of a height the database still has.
RefusesOnlyOverStaleRows ==
    pc = "refused" =>
        \E i \in zero.row..Len(file) : file[i].received <= zero.block

\* "Initialize: Database corrupted, blocks, ... trying to repair": the repair
\* succeeds, so that a crash never keeps the node from starting.
RepairSucceeds == pc # "refused"
=============================================================================
