---------------------------- MODULE EntityStore ----------------------------
(***************************************************************************)
(* mc_AssetDB of src/src/entities/asset.cpp: the entities (assets, their   *)
(* follow-on issues, streams) in a ledger file, in a database that indexes *)
(* it by txid and by name, and in memory (m_MemPool), with crashes between *)
(* two writes and writes that fail.                                        *)
(*                                                                         *)
(* The issues of an asset form a chain in the file: the database leads to  *)
(* the newest, every row has the position of the one before it (m_LastPos) *)
(* and of the first (m_FirstPos).  A row that is not confirmed has no      *)
(* position yet; -(n+1) stands for the n-th row in memory.                 *)
(*                                                                         *)
(* A position in the file counts rows, not bytes; row 0 is the header.     *)
(* The rows of one entity for its other keys (reference, short txid) say   *)
(* the same as the one for its txid and are left out.  The flag that       *)
(* allows follow-ons is set.  ConnectBlock clears the rows in memory and   *)
(* inserts those of its block, so a commit never meets a row without       *)
(* offset.  The calls come under cs_main: one step is a call, or the part  *)
(* of a call between two writes that survive a crash.                      *)
(***************************************************************************)
EXTENDS Integers, FiniteSets, SequencesExt

CONSTANTS Txs,              \* transactions that issue or create something
          Names,
          NoName,
          Quantities,
          MaxQuantity,      \* 2^63 - 1 in the code
          MaxBlock,         \* bound
          MaxPool,          \* bound: rows in memory
          MaxCrashes,       \* bound
          Failing,          \* the stores whose writes may fail: "ledger", "database"
          MaxFailures,      \* bound
          MaxFailPool       \* bound: rows in memory when a write fails

ASSUME EntityAssumption ==
    /\ NoName \notin Names
    /\ Txs \cap (Names \cup {NoName}) = {}
    /\ MaxQuantity \in Nat /\ Quantities \subseteq 1..MaxQuantity
    /\ Failing \subseteq {"ledger", "database"}
    /\ {MaxBlock, MaxPool, MaxCrashes, MaxFailures, MaxFailPool} \subseteq Nat

VARIABLES file,         \* the rows of the ledger file, those behind its end included
          header,       \* its row 0: m_Block and m_PrevPos
          db,           \* the database: keys to positions
          dbHeader,     \* ... and its row with the zero key
          batch,        \* what the database is to be when the batch is written
          m_Block, m_PrevPos, m_Pos, m_MemPool,
          phase,        \* where the process is
          chain,        \* auxiliary: the issues of the blocks, in order
          dropped,      \* auxiliary: names deleted with the follow-ons of other assets
          crashes, failures

disk == <<file, header, db, dbHeader>>
memory == <<m_Block, m_PrevPos, m_Pos, m_MemPool>>
bounds == <<crashes, failures>>
vars == <<disk, batch, memory, phase, chain, dropped, bounds>>

Kinds == {"asset", "follow", "stream"}
Keys == Txs \cup Names

\* One issue, as the chain knows it; of is the asset it belongs to.
Issue == [tx : Txs, kind : Kinds, of : Txs, name : Names \cup {NoName}, quantity : {0} \cup Quantities]

IssueOf(row) == [tx |-> row.tx, kind |-> row.kind, of |-> row.of, name |-> row.name,
                 quantity |-> row.quantity]

\* The keys a row is filed under.  The name of a follow-on is what its issuer wrote
\* into the details, which nobody checks and nothing is filed under.
KeysOf(row) == {row.tx} \cup (IF row.kind = "follow" THEN {} ELSE {row.name} \ {NoName})

(***************************************************************************)
(* Reading.                                                                *)
(***************************************************************************)

\* GetEntity: the row of a key, with the end of its chain; none if there is none.
GetEntity(key) ==
    IF key \in DOMAIN db
      THEN IF db[key].pos \in DOMAIN file
             THEN {[file[db[key].pos] EXCEPT !.chain = db[key].chain]}
             ELSE {}
      ELSE {row \in ToSet(m_MemPool) : key \in KeysOf(row)}

\* The positions from the end of an entity's chain back to its first row; 0 comes
\* last when the chain does not lead there.
ChainOf(row) ==
    LET walk[p \in 0..Len(file)] ==
            IF p \in {0, row.first}
              THEN <<p>>
              ELSE <<p>> \o (IF file[p].last \in 0..(p - 1) THEN walk[file[p].last] ELSE <<0>>)
    IN  IF row.first < 0 THEN << >> ELSE walk[row.chain]

Broken(positions) == positions # << >> /\ Last(positions) = 0

\* The members of a sequence at some places (SelectSeq, in a form to prove about).
Where(rows, places) ==
    LET taken[i \in 0..Len(rows)] ==
            IF i = 0 THEN << >>
              ELSE IF i \in places THEN Append(taken[i - 1], rows[i]) ELSE taken[i - 1]
    IN  taken[Len(rows)]

\* The rows in memory with the first position of an entity.
PoolOf(row) == Where(m_MemPool, {i \in DOMAIN m_MemPool : m_MemPool[i].first = row.first})

Quantity(rows) ==
    LET sum[i \in 0..Len(rows)] == IF i = 0 THEN 0 ELSE sum[i - 1] + rows[i].quantity
    IN  sum[Len(rows)]

At(positions) == [i \in DOMAIN positions |-> file[positions[i]]]

\* GetFollowOns: the transactions of an asset, the newest first.
GetFollowOns(row) ==
    LET rows == Reverse(PoolOf(row)) \o At(ChainOf(row))
    IN  IF Broken(ChainOf(row)) THEN << >> ELSE [i \in DOMAIN rows |-> rows[i].tx]

\* GetTotalQuantity.
GetTotalQuantity(row) ==
    IF Broken(ChainOf(row)) THEN -1 ELSE Quantity(PoolOf(row)) + Quantity(At(ChainOf(row)))

(***************************************************************************)
(* Rows in memory.                                                         *)
(***************************************************************************)

NewRow(tx, kind, of, name, quantity, first, last) ==
    [tx |-> tx, kind |-> kind, of |-> of, name |-> name, quantity |-> quantity,
     block |-> m_Block + 1, first |-> first, last |-> last, chain |-> -1, prev |-> -1]

Unknown(row) == \A key \in KeysOf(row) : GetEntity(key) = {}

Insert(row) ==
    /\ Unknown(row)                            \* else MC_ERR_FOUND
    /\ m_MemPool' = Append(m_MemPool, row)
    /\ UNCHANGED <<disk, batch, m_Block, m_PrevPos, m_Pos, phase, chain, dropped, bounds>>

HasRoom == phase = "up" /\ Len(m_MemPool) < MaxPool

InsertEntity(tx, name) ==
    /\ HasRoom
    /\ Insert(NewRow(tx, "stream", tx, name, 0, -1, 0))

InsertAsset(tx, name, quantity) ==
    /\ HasRoom
    /\ Insert(NewRow(tx, "asset", tx, name, quantity, -(Len(m_MemPool) + 1), 0))

\* Mutation: follow-ons in memory are not looked at.
LastPosConfirmed(genesis) == genesis.chain

\* m_LastPos of a follow-on: where the last follow-on in memory is going to be, or
\* the end of the confirmed chain.
LastPos(genesis) ==
    LET ahead == {i \in DOMAIN m_MemPool : /\ m_MemPool[i].kind = "follow"
                                           /\ m_MemPool[i].first = genesis.first}
    IN  IF ahead = {} THEN genesis.chain ELSE m_Pos + Max(ahead) - 1

\* Mutation: the total must stay within the limit without the new issue.
FitsWithout(genesis, quantity) == GetTotalQuantity(genesis) <= MaxQuantity

\* (int64_t)(total+quantity) is not negative.
Fits(genesis, quantity) == GetTotalQuantity(genesis) + quantity <= MaxQuantity

InsertAssetFollowOn(tx, original, name, quantity) ==
    /\ HasRoom
    /\ \E genesis \in GetEntity(original) :
        /\ genesis.kind = "asset"
        /\ Fits(genesis, quantity)
        /\ Insert(NewRow(tx, "follow", genesis.of, name, quantity, genesis.first, LastPos(genesis)))

\* ClearMemPool.
EndOfLedger == header.last

ClearMemPool ==
    /\ phase = "up"
    /\ m_MemPool # << >>
    /\ m_MemPool' = << >>
    /\ m_PrevPos' = EndOfLedger
    /\ m_Pos' = EndOfLedger + 1
    /\ UNCHANGED <<disk, batch, m_Block, phase, chain, dropped, bounds>>

(***************************************************************************)
(* Commit.                                                                 *)
(***************************************************************************)

\* The rows in memory with their places in the file.
Placed ==
    LET pos(i) == m_Pos + i - 1
        genesis(i) == -m_MemPool[i].first
        former(i) == {j \in 1..(i - 1) : \/ j = genesis(i)
                                         \/ /\ m_MemPool[j].kind = "follow"
                                            /\ m_MemPool[j].first = m_MemPool[i].first}
        linked(i) == m_MemPool[i].kind = "follow" /\ m_MemPool[i].first < 0
        first(i) == IF m_MemPool[i].first < 0
                      THEN pos(IF linked(i) THEN genesis(i) ELSE i)
                      ELSE m_MemPool[i].first
    IN  [i \in DOMAIN m_MemPool |->
            [m_MemPool[i] EXCEPT !.prev = IF i = 1 THEN m_PrevPos ELSE pos(i - 1),
                                 !.first = first(i),
                                 !.last = IF linked(i) THEN pos(Max(former(i))) ELSE @,
                                 !.chain = pos(i)]]

\* The ledger file with the first k of them.
FileWith(k) == [p \in 1..Max({Len(file), m_Pos + k - 1}) |->
                    IF p \in m_Pos..(m_Pos + k - 1) THEN Placed[p - m_Pos + 1] ELSE file[p]]

Entry(pos, end) == [pos |-> pos, chain |-> end]
Put(base, keys, entry) ==
    [key \in keys \cup DOMAIN base |-> IF key \in keys THEN entry ELSE base[key]]

\* Mutation: the chain of the first row is left as it is.
WriteRowAlone(rows, base, row) == Put(base, KeysOf(row), Entry(row.chain, row.chain))

\* What a row adds to the batch: its keys, and the end of its chain for the keys of
\* the first row.
WriteRow(rows, base, row) ==
    LET own == Put(base, KeysOf(row), Entry(row.chain, row.chain))
    IN  IF row.kind = "follow"
          THEN Put(own, KeysOf(rows[row.first]), Entry(row.first, row.chain))
          ELSE own

Batch(rows, placed) ==
    LET with[i \in 0..Len(placed)] ==
            IF i = 0 THEN batch ELSE WriteRow(rows, with[i - 1], placed[i])
    IN  with[Len(placed)]

\* A batch reaches the database as a whole, and is empty afterwards.
Written(base) == db' = base /\ batch' = base

\* Mutation: the rows of the block are not counted.
HeaderEndBefore == m_PrevPos

HeaderEnd == m_PrevPos + Len(m_MemPool)

\* The rows are in the file, and its header counts them.
CommitLedger ==
    /\ phase = "up"
    /\ m_Block < MaxBlock
    /\ file' = FileWith(Len(m_MemPool))
    /\ header' = [block |-> m_Block + 1, last |-> HeaderEnd]
    /\ m_MemPool' = Placed
    /\ m_PrevPos' = m_PrevPos + Len(m_MemPool)
    /\ m_Pos' = m_Pos + Len(m_MemPool)
    /\ phase' = "commit"
    /\ UNCHANGED <<db, dbHeader, batch, m_Block, chain, dropped, bounds>>

\* The batch is written.
CommitDatabase ==
    /\ phase = "commit"
    /\ Written(Batch(file, m_MemPool))
    /\ dbHeader' = [block |-> m_Block + 1, last |-> m_PrevPos]
    /\ m_Block' = m_Block + 1
    /\ m_MemPool' = << >>
    /\ chain' = Append(chain, [i \in DOMAIN m_MemPool |-> IssueOf(m_MemPool[i])])
    /\ phase' = "up"
    /\ UNCHANGED <<file, header, m_PrevPos, m_Pos, dropped, bounds>>

\* The ledger takes k rows and not the next.  The batch has the keys of the k rows;
\* RollBack(m_Block), which the commit ends with, finds nothing to roll back and
\* writes the batch.
LedgerFails(k) ==
    /\ phase = "up"
    /\ m_Block < MaxBlock
    /\ "ledger" \in Failing /\ failures < MaxFailures /\ Len(m_MemPool) <= MaxFailPool
    /\ k < Len(m_MemPool)
    /\ file' = FileWith(k)
    /\ Written(Batch(FileWith(k), SubSeq(Placed, 1, k)))
    /\ dbHeader' = [block |-> m_Block, last |-> EndOfLedger]
    /\ m_MemPool' = << >>
    /\ m_PrevPos' = EndOfLedger
    /\ m_Pos' = EndOfLedger + 1
    /\ failures' = failures + 1
    /\ UNCHANGED <<header, m_Block, phase, chain, dropped, crashes>>

(***************************************************************************)
(* RollBack.                                                               *)
(***************************************************************************)

\* Mutation: the rows of the block itself as well.
RowsFrom(block, pos) ==
    LET walk[p \in 0..Len(file)] ==
            IF p = 0 \/ file[p].block < block THEN << >> ELSE <<p>> \o walk[file[p].prev]
    IN  walk[pos]

\* The positions of the rows of blocks above this one, back from pos.
RowsAbove(block, pos) ==
    LET walk[p \in 0..Len(file)] ==
            IF p = 0 \/ file[p].block <= block THEN << >> ELSE <<p>> \o walk[file[p].prev]
    IN  walk[pos]

EndBelow(block, pos) ==
    LET above == RowsAbove(block, pos)
    IN  IF above = << >> THEN pos ELSE file[Last(above)].prev

\* The keys of a row are deleted, and the name in its details: the test that is to
\* spare follow-ons reads m_KeyType of the key being built, which is SHORT_TXID.
Delete(base, row) == [key \in DOMAIN base \ {row.tx, row.name} |-> base[key]]

\* Mutation: the chain ends at the first row again.
EraseRowToFirst(base, p) ==
    LET row == file[p]
        left == Delete(base, row)
    IN  IF row.kind = "follow"
          THEN Put(left, KeysOf(file[row.first]), Entry(row.first, row.first))
          ELSE left

\* The chain of the asset ends where it did before, for the asset's own keys.
EraseRow(base, p) ==
    LET row == file[p]
        left == Delete(base, row)
    IN  IF row.kind = "follow"
          THEN Put(left, KeysOf(file[row.first]), Entry(row.first, row.last))
          ELSE left

Erased(base, positions) ==
    LET left[i \in 0..Len(positions)] ==
            IF i = 0 THEN base ELSE EraseRow(left[i - 1], positions[i])
    IN  left[Len(positions)]

\* The names that go with follow-ons of other assets than the one they name.
Carried(positions) ==
    {file[p].name : p \in {q \in ToSet(positions) :
                              /\ file[q].kind = "follow"
                              /\ file[q].name \notin {NoName, file[file[q].first].name}}}

\* A follow-on whose asset is not in the database: MC_ERR_INTERNAL_ERROR.
Unreachable(p) == file[p].kind = "follow" /\ file[file[p].first].tx \notin DOMAIN db

\* Where the walk begins: ClearMemPool sets it back if there were rows in memory.
RollBackFrom == IF m_MemPool = << >> THEN m_PrevPos ELSE EndOfLedger

\* RollBack up to the database's commit; base is what the batch holds before.
RollBackDatabase(base, block) ==
    LET above == RowsAbove(block, RollBackFrom)
    IN  /\ \A i \in DOMAIN above : ~Unreachable(above[i])
        /\ Written(Erased(base, above))
        /\ dropped' = dropped \cup Carried(above)
        /\ dbHeader' = [block |-> block, last |-> EndBelow(block, RollBackFrom)]
        /\ m_PrevPos' = dbHeader'.last
        /\ m_MemPool' = << >>
        /\ phase' = "rollback"
        /\ UNCHANGED <<file, header, m_Block, m_Pos, crashes>>

\* It stops at the row it cannot handle.  The batch keeps what it has, and the next
\* commit writes that as well.
RollBackFails(base, block) ==
    LET above == RowsAbove(block, RollBackFrom)
    IN  /\ \E i \in DOMAIN above :
            /\ Unreachable(above[i])
            /\ \A j \in 1..(i - 1) : ~Unreachable(above[j])
            /\ m_PrevPos' = above[i]
            /\ batch' = Delete(Erased(base, SubSeq(above, 1, i - 1)), file[above[i]])
            /\ dropped' = dropped \cup Carried(SubSeq(above, 1, i))
        /\ m_Pos' = IF m_MemPool = << >> THEN m_Pos ELSE EndOfLedger + 1
        /\ m_MemPool' = << >>
        /\ phase' = "up"
        /\ UNCHANGED <<disk, m_Block, crashes>>

\* DisconnectTip and the start roll back to a lower block; what RollBack returns is
\* not looked at.
RollBack ==
    /\ phase = "up"
    /\ \E block \in 0..(Len(chain) - 1) :
        /\ RollBackDatabase(batch, block) \/ RollBackFails(batch, block)
        /\ chain' = SubSeq(chain, 1, block)
    /\ UNCHANGED failures

\* The batch of a commit is not written (and emptied); the commit is rolled back.
DatabaseFails ==
    /\ phase = "commit"
    /\ "database" \in Failing /\ failures < MaxFailures /\ Len(m_MemPool) <= MaxFailPool
    /\ RollBackDatabase(db, m_Block) \/ RollBackFails(db, m_Block)
    /\ failures' = failures + 1
    /\ UNCHANGED chain

\* The header of the file follows the database.
RollBackHeader ==
    /\ phase = "rollback"
    /\ header' = dbHeader
    /\ m_Block' = dbHeader.block
    /\ m_Pos' = m_PrevPos + 1
    /\ phase' = "up"
    /\ UNCHANGED <<file, db, dbHeader, batch, m_PrevPos, m_MemPool, chain, dropped, bounds>>

(***************************************************************************)
(* Crash and start.                                                        *)
(***************************************************************************)

\* Before a header is written there may be rows behind the end of the ledger.
Crash ==
    /\ phase \in {"up", "commit", "rollback"}
    /\ crashes < MaxCrashes
    /\ file' \in IF phase = "up" THEN {FileWith(k) : k \in 0..Len(m_MemPool)} ELSE {file}
    /\ m_MemPool' = << >> /\ m_Block' = -1 /\ m_PrevPos' = -1 /\ m_Pos' = 0
    /\ batch' = db
    /\ phase' = "down"
    /\ crashes' = crashes + 1
    /\ UNCHANGED <<header, db, dbHeader, chain, dropped, failures>>

\* The size of the file that its header gives is the one that the database gives.
SameSize == header.last = dbHeader.last

\* Initialize.  A header ahead of the database is set back.
Initialize ==
    LET ahead == dbHeader.block < header.block
        block == IF ahead THEN dbHeader.block ELSE header.block
        last == IF ahead THEN EndBelow(dbHeader.block, header.last) ELSE header.last
        good == SameSize /\ block = dbHeader.block /\ last = dbHeader.last
    IN  /\ phase = "down"
        /\ header' = IF SameSize /\ ahead THEN dbHeader ELSE header
        /\ m_Block' = dbHeader.block
        /\ m_PrevPos' = dbHeader.last
        /\ m_Pos' = dbHeader.last + 1
        /\ phase' = IF good THEN "up" ELSE "refused"
        /\ UNCHANGED <<file, db, dbHeader, batch, m_MemPool, chain, dropped, bounds>>

Init ==
    /\ file = << >> /\ header = [block |-> 0, last |-> 0]
    /\ db = << >> /\ dbHeader = [block |-> 0, last |-> 0] /\ batch = << >>
    /\ m_Block = 0 /\ m_PrevPos = 0 /\ m_Pos = 1 /\ m_MemPool = << >>
    /\ phase = "up"
    /\ chain = << >> /\ dropped = {}
    /\ crashes = 0 /\ failures = 0

Next ==
    \/ \E tx \in Txs, name \in Names \cup {NoName} :
            \/ InsertEntity(tx, name)
            \/ \E quantity \in Quantities :
                  \/ InsertAsset(tx, name, quantity)
                  \/ \E original \in Txs : InsertAssetFollowOn(tx, original, name, quantity)
    \/ ClearMemPool
    \/ CommitLedger
    \/ CommitDatabase
    \/ \E k \in 0..(MaxPool - 1) : LedgerFails(k)
    \/ RollBack
    \/ DatabaseFails
    \/ RollBackHeader
    \/ Crash
    \/ Initialize

Spec == Init /\ [][Next]_vars

(***************************************************************************)
(* Properties.                                                             *)
(***************************************************************************)

\* The issues the node knows of, in order.
Confirmed == FlattenSeq(chain)
Known == Confirmed \o [i \in DOMAIN m_MemPool |-> IssueOf(m_MemPool[i])]
IssuesOf(asset, issues) == Where(issues, {i \in DOMAIN issues : issues[i].of = asset})

Newest(asset) == Confirmed[Max({i \in DOMAIN Confirmed : Confirmed[i].of = asset})]

Quiet == phase = "up"

\* Between two calls the file's header, the database's and the memory are at the same
\* block with the same last row, and that is the block the chain is at (Commit,
\* RollBack, ClearMemPool, Initialize).
StoresAgree ==
    Quiet => /\ header = dbHeader
             /\ m_Block = header.block /\ m_PrevPos = header.last /\ m_Pos = header.last + 1
             /\ m_Block = Len(chain)

\* The database has the transactions of the issues in the chain and no others.  A key
\* leads to the row of an issue that has it, for an asset to its newest issue besides,
\* and the key of an issue to no other: but for a name that a follow-on of another
\* asset had in its details when it was rolled back (RollBack), which the database
\* may have lost, and may have given to a second entity since.
DatabaseExact ==
    Quiet =>
        /\ DOMAIN db \cap Txs = {Confirmed[i].tx : i \in DOMAIN Confirmed}
        /\ \A key \in DOMAIN db : \E i \in DOMAIN Confirmed :
              /\ key \in KeysOf(Confirmed[i])
              /\ IssueOf(file[db[key].pos]) = Confirmed[i]
              /\ Confirmed[i].kind = "asset" =>
                    file[db[key].chain].tx = Newest(Confirmed[i].tx).tx
        /\ \A i \in DOMAIN Confirmed : \A key \in KeysOf(Confirmed[i]) \ dropped :
              key \in DOMAIN db /\ IssueOf(file[db[key].pos]) = Confirmed[i]

\* What the node reports of an asset with a confirmed issue is what the blocks and the
\* rows in memory issued, in their order (GetFollowOns, GetTotalQuantity).
ChainsExact ==
    Quiet =>
        \A i \in DOMAIN Confirmed : Confirmed[i].kind = "asset" =>
            \A row \in GetEntity(Confirmed[i].tx) :
                LET issues == IssuesOf(Confirmed[i].tx, Known)
                IN  /\ GetFollowOns(row) = Reverse([j \in DOMAIN issues |-> issues[j].tx])
                    /\ GetTotalQuantity(row) = Quantity(issues)

\* No asset exceeds the largest quantity, whatever is confirmed, rolled back and
\* issued again (the checks of InsertAssetFollowOn).
QuantityBounded ==
    Quiet => \A asset \in Txs : Quantity(IssuesOf(asset, Known)) <= MaxQuantity

\* The start refuses only if the write that was interrupted had entities in it; a
\* block without them never makes it refuse (Initialize).
RefusesOnlyOverEntities == phase = "refused" => header.last # dbHeader.last
=============================================================================
