---------------------------- MODULE Permissions -----------------------------
(***************************************************************************)
(* mc_Permissions (src/src/permissions/permission.cpp): the permission     *)
(* ledger of the chain.  Every grant is a row; the rows of one key, that   *)
(* is one (address, type), are linked backwards by their row numbers.      *)
(* Rows of connected blocks are in a file (ledger) and indexed by a        *)
(* database (db); rows of unconfirmed transactions, or of the block being  *)
(* connected, are in memory behind them (m_MemPool).  Disconnecting a      *)
(* block walks the links back.                                             *)
(*                                                                         *)
(* A step is one call of the class, which holds its lock throughout.  All  *)
(* the callers that change state hold cs_main; "call" says how far the     *)
(* current one is, and so which calls may come next.  Rows the file keeps  *)
(* past the end of the ledger are left out here: nothing reads them        *)
(* before a restart, which is the subject of PermissionRecovery.           *)
(***************************************************************************)
EXTENDS Integers, Sequences, FiniteSets

CONSTANTS Addresses,
          Types,            \* the permission types, "admin" and "mine" among them
          ActivateTypes,    \* those IsActivateEnough() leaves to activators
          ConsensusShare,   \* adminconsensus<type> of each type, 0 where there is none
          Granularity,      \* MC_PRM_DECIMAL_GRANULARITY, what the shares are fractions of
          SetupFirstBlocks, \* setupfirstblocks
          Ranges,           \* the (from, to) block ranges of the grants
          Timestamps,       \* the timestamps of the grants
          MaxBlock,         \* bound: the last height committed
          MaxRow,           \* bound: the last row number a grant may take
          MaxPool           \* bound: the grants in memory at one time

ASSUME PermissionsAssumption ==
    /\ IsFiniteSet(Addresses)
    /\ {"admin", "mine"} \subseteq Types
    /\ {"miner", "index"} \cap Types = {}
    /\ ActivateTypes \subseteq Types
    /\ Granularity \in Nat \ {0}
    /\ ConsensusShare \in [Types -> 0..Granularity]
    /\ SetupFirstBlocks \in Nat /\ MaxBlock \in Nat /\ MaxRow \in Nat
    /\ MaxPool \in Nat
    /\ Ranges \subseteq Nat \X Nat
    /\ Timestamps \subseteq Nat
    /\ Addresses \cap Nat = {}

VARIABLES m_Block,      \* height of the last committed block, -1 before the first
          m_Row,        \* the next row number
          ledger,       \* the committed rows, from row number 1
          m_MemPool,    \* the rows behind them
          db,           \* key -> range and row number of its last committed row
          listed,       \* the keys of adminminerlist_entity
          counts,       \* m_AdminCount and m_MinerCount
          cleared,      \* m_ClearedAdminCount and m_ClearedMinerCount
          checkpoint,   \* m_CheckPoint...
          copied,       \* m_Copied...
          call          \* how far the caller that holds cs_main is

files  == <<ledger, db, listed>>
saved  == <<checkpoint, copied>>
vars   == <<m_Block, m_Row, m_MemPool, files, counts, cleared, saved, call>>

Blocks     == -1..MaxBlock
PermKeys   == Addresses \X Types
MinerKeys  == Addresses \X {"miner"}    \* MC_PTP_BLOCK_MINER rows
IndexKeys  == Nat \X {"index"}          \* MC_PTP_BLOCK_INDEX rows, "Block %08X row"
LinkedKeys == PermKeys \cup MinerKeys
Keys       == LinkedKeys \cup ((0..MaxBlock) \X {"index"})

\* "none": nobody is in; "tx": AcceptMultiChainTransaction for the memory
\* pool, "block" and "blocktx": ConnectBlock between and in its transactions;
\* "copied" and "cleared": CheckBlockPermissions.
Calls == {"none", "tx", "block", "blocktx", "copied", "cleared"}

NoEntry == [from |-> 0, to |-> 0, row |-> 0]
NoCount == [admin |-> 0, mine |-> 0]

-----------------------------------------------------------------------------
(* Reading: rows, the current row of a key, permissions.                   *)

\* the number of the first row in memory (countLedgerRows)
Base == m_Row - Len(m_MemPool)

\* a row by number, in the file or in memory
Row(i) == IF i < Base THEN ledger[i] ELSE m_MemPool[i - Base + 1]

RowsOf(k) == {i \in 1..(m_Row - 1) : Row(i).key = k}
PoolOf(k) == {i \in Base..(m_Row - 1) : Row(i).key = k}

\* Mutation: the rows in memory are not looked at.
TipInDatabase(k) == db[k].row

\* The row GetPermission ends at: from the row the database names it goes on
\* to the row in memory that links to it, until there is none.
Tip(k) ==
    CHOOSE t \in {db[k].row} \cup PoolOf(k) :
        \A i \in PoolOf(k) : Row(i).prev # t

Held(k) ==
    IF Tip(k) \in PoolOf(k) THEN <<Row(Tip(k)).from, Row(Tip(k)).to>>
                            ELSE <<db[k].from, db[k].to>>

InForce(range, block) == range[1] <= block /\ block < range[2]

\* GetPermission is about the block after the last one committed
GetPermission(k) == InForce(Held(k), m_Block + 1)

\* Anyone is an administrator before the genesis block.
CanAdmin(a) == m_Block = -1 \/ GetPermission(<<a, "admin">>)

CanActivate(a) ==
    \/ "activate" \in Types /\ GetPermission(<<a, "activate">>)
    \/ CanAdmin(a)

\* SetPermission's check of the granting address
MayGrant(a, type) == CanAdmin(a) \/ (type \in ActivateTypes /\ CanActivate(a))

\* UpdateCounts, for database entries d, list l and last block b
Counted(d, l, b, type) ==
    {a \in Addresses : /\ <<a, type>> \in l
                       /\ InForce(<<d[<<a, type>>].from, d[<<a, type>>].to>>, b + 1)}
UpdateCounts(d, l, b) ==
    [admin |-> Cardinality(Counted(d, l, b, "admin")),
     mine  |-> Cardinality(Counted(d, l, b, "mine"))]

-----------------------------------------------------------------------------
(* Consensus of the administrators.                                        *)

IsSetupPeriod == m_Block + 1 < SetupFirstBlocks

AdminConsensus(type) ==
    IF counts.admin = 0 \/ IsSetupPeriod \/ ConsensusShare[type] = 0
    THEN 1
    ELSE (counts.admin * ConsensusShare[type] - 1) \div Granularity + 1

\* The rows of k since the last one that was decided.  VerifyConsensus
\* reaches them from the new row along the links; LinkInv says it meets
\* exactly the rows of the key.
Undecided(k) ==
    {i \in RowsOf(k) : \A j \in RowsOf(k) : j >= i => Row(j).consensus = 0}

Same(r, s) == r.gfrom = s.gfrom /\ r.gto = s.gto

\* Mutation: every row for the same range counts, whoever granted it.
RowsAsSupporters(new, S) == {i \in S : Same(Row(i), new)} \cup {m_Row}

\* Of the votes (new, and the rows S) the one that stands for administrator
\* a has the latest timestamp, the most recent row of those.
Stands(i, S) ==
    \A j \in S : j # i /\ Row(j).admin = Row(i).admin =>
        \/ Row(j).ts < Row(i).ts
        \/ Row(j).ts = Row(i).ts /\ j < i

\* the administrators whose standing vote, among the rows S and new, is new's
Supporters(new, S) ==
    LET others == {i \in S : /\ Stands(i, S) /\ Same(Row(i), new)
                             /\ (Row(i).admin = new.admin => Row(i).ts > new.ts)}
        beaten == \E i \in S : Row(i).admin = new.admin /\ Row(i).ts > new.ts
    IN  {Row(i).admin : i \in others} \cup (IF beaten THEN {} ELSE {new.admin})

\* The walk goes back row by row and stops as soon as enough administrators
\* support the new grant among the rows it has seen, older ones unread.
Decided(new, required) ==
    \/ required <= 1
    \/ \E oldest \in Undecided(new.key) \cup {m_Row} :
          Cardinality(Supporters(new, {i \in Undecided(new.key) : i >= oldest}))
             >= required

-----------------------------------------------------------------------------
(* The calls.                                                              *)

NewRow(a, k, range, ts) ==
    LET r == [key |-> k, prev |-> Tip(k), received |-> m_Block + 1,
              gfrom |-> range[1], gto |-> range[2],
              from |-> range[1], to |-> range[2],
              admin |-> IF counts.admin = 0 THEN k[1] ELSE a,
              ts |-> ts, consensus |-> AdminConsensus(k[2])]
    IN  IF Decided(r, r.consensus) THEN r
        ELSE [r EXCEPT !.consensus = 0, !.from = Held(k)[1], !.to = Held(k)[2]]

\* SetPermission for one type; a grant of several is several of these steps.
SetPermission(a, k, range, ts) ==
    LET r   == NewRow(a, k, range, ts)
        now == InForce(<<r.from, r.to>>, m_Block + 1)
        step == IF now = GetPermission(k) THEN 0 ELSE IF now THEN 1 ELSE -1
    IN  /\ call \in {"tx", "blocktx"}
        /\ m_Row <= MaxRow /\ Len(m_MemPool) < MaxPool
        /\ MayGrant(a, k[2])
        /\ cleared' = IF m_MemPool = <<>> THEN counts ELSE cleared
        /\ m_MemPool' = Append(m_MemPool, r)
        /\ m_Row' = m_Row + 1
        /\ counts' = IF k[2] \in {"admin", "mine"}
                     THEN [counts EXCEPT ![k[2]] = @ + step] ELSE counts
        /\ UNCHANGED <<m_Block, files, saved, call>>

\* AcceptMultiChainTransaction begins with a checkpoint, ...
SetCheckPoint ==
    /\ call \in {"none", "block"}
    /\ checkpoint' = [row |-> m_Row, counts |-> counts, size |-> Len(m_MemPool)]
    /\ call' = IF call = "none" THEN "tx" ELSE "blocktx"
    /\ UNCHANGED <<m_Block, m_Row, m_MemPool, files, counts, cleared, copied>>

\* ... keeps what it did if the transaction is accepted, ...
AcceptTx ==
    /\ call \in {"tx", "blocktx"}
    /\ call' = IF call = "tx" THEN "none" ELSE "block"
    /\ UNCHANGED <<m_Block, m_Row, m_MemPool, files, counts, cleared, saved>>

\* Mutation: the rows of the rejected transaction stay in memory.
RollBackKeepsRows ==
    /\ call \in {"tx", "blocktx"}
    /\ m_Row' = checkpoint.row
    /\ counts' = checkpoint.counts
    /\ call' = "none"
    /\ UNCHANGED <<m_Block, m_MemPool, files, cleared, saved>>

\* ... and goes back to the checkpoint if not.  A rejected transaction makes
\* ConnectBlock give up its block with the rows of the earlier ones in memory.
RollBackToCheckPoint ==
    /\ call \in {"tx", "blocktx"}
    /\ m_Row' = checkpoint.row
    /\ counts' = checkpoint.counts
    /\ m_MemPool' = SubSeq(m_MemPool, 1, checkpoint.size)
    /\ call' = "none"
    /\ UNCHANGED <<m_Block, files, cleared, saved>>

\* ConnectBlock gives up between transactions, or its script checks fail.
AbandonBlock ==
    /\ call = "block"
    /\ call' = "none"
    /\ UNCHANGED <<m_Block, m_Row, m_MemPool, files, counts, cleared, saved>>

\* ClearMemPoolInternal: the counts are recomputed if there was anything
ClearedCounts ==
    IF m_MemPool = <<>> THEN counts ELSE UpdateCounts(db, listed, m_Block)

\* ClearMemPool, by ConnectBlock, by CheckBlockPermissions, or by the
\* activation step before it replays the transactions
ClearMemPool ==
    /\ call \in {"none", "copied"}
    /\ m_Row' = Base
    /\ m_MemPool' = <<>>
    /\ counts' = ClearedCounts /\ cleared' = ClearedCounts
    /\ IF call = "copied" THEN call' = "cleared" ELSE call' \in {"none", "block"}
    /\ UNCHANGED <<m_Block, files, saved>>

CopyMemPool ==
    /\ call = "none"
    /\ copied' = [pool |-> m_MemPool, counts |-> counts]
    /\ call' = "copied"
    /\ UNCHANGED <<m_Block, m_Row, m_MemPool, files, counts, cleared, checkpoint>>

\* Mutation: the counts are not restored with the rows.
RestoreKeepsCounts ==
    /\ call = "cleared"
    /\ m_MemPool' = copied.pool
    /\ m_Row' = Base + Len(copied.pool)
    /\ counts' = ClearedCounts /\ cleared' = ClearedCounts
    /\ call' = "none"
    /\ UNCHANGED <<m_Block, files, saved>>

RestoreMemPool ==
    /\ call = "cleared"
    /\ m_MemPool' = copied.pool
    /\ m_Row' = Base + Len(copied.pool)
    /\ counts' = copied.counts
    /\ cleared' = ClearedCounts
    /\ call' = "none"
    /\ UNCHANGED <<m_Block, files, saved>>

-----------------------------------------------------------------------------
(* Committing and disconnecting blocks.                                    *)

\* the two rows every block adds: who mined it, and where it ends
BlockRow(k, prev, at) ==
    [key |-> k, prev |-> prev, received |-> at, gfrom |-> 0, gto |-> 0,
     from |-> at, to |-> at, admin |-> k[1], ts |-> 0, consensus |-> 0]

Appended(miner) ==
    m_MemPool \o << BlockRow(<<miner, "miner">>, Tip(<<miner, "miner">>), m_Block + 1),
                    BlockRow(<<m_Block + 1, "index">>, Base - 1, m_Block + 1) >>

\* the database after the entries for the rows s, numbered from base
Indexed(s, base) ==
    [k \in Keys |->
        LET mine == {i \in 1..Len(s) : s[i].key = k}
            last == CHOOSE i \in mine : \A j \in mine : j <= i
        IN  IF mine = {} THEN db[k]
            ELSE [from |-> s[last].from, to |-> s[last].to, row |-> base + last - 1]]

\* Commit(lpMiner, lpHash) when every write succeeds
Commit(miner) ==
    LET new == Appended(miner)
    IN  /\ call = "block"
        /\ m_Block < MaxBlock
        /\ ledger' = ledger \o new
        /\ db' = Indexed(new, Base)
        /\ listed' = listed \cup {new[i].key : i \in
                         {j \in 1..Len(new) : new[j].key[2] \in {"admin", "mine"}}}
        /\ m_Row' = m_Row + 2
        /\ m_MemPool' = <<>>
        /\ m_Block' = m_Block + 1
        /\ counts' = UpdateCounts(db', listed', m_Block + 1)
        /\ cleared' = counts'
        /\ call' = "none"
        /\ UNCHANGED saved

\* Commit when the ledger file cannot be opened: it returns with the two
\* block rows in memory.
CommitCannotOpen(miner) ==
    /\ call = "block"
    /\ m_Block < MaxBlock
    /\ m_MemPool' = Appended(miner)
    /\ m_Row' = m_Row + 2
    /\ call' = "none"
    /\ UNCHANGED <<m_Block, files, counts, cleared, saved>>

\* the last row that stays when the blocks above b go: the loop comes down
\* from the end of the ledger and stops at the first row of b or below
Top(b) ==
    LET keep == {i \in 1..(Base - 1) : ledger[i].received <= b}
    IN  IF keep = {} THEN 0 ELSE CHOOSE i \in keep : \A j \in keep : j <= i

\* Mutation: the entry becomes that of the row before the highest one removed.
UnwoundFromTop(top) ==
    [k \in Keys |->
        LET gone == {i \in (top + 1)..(Base - 1) : ledger[i].key = k}
            last == CHOOSE i \in gone : \A j \in gone : j <= i
            prev == ledger[last].prev
        IN  IF gone = {} THEN db[k]
            ELSE IF prev = 0 THEN NoEntry
            ELSE [from |-> ledger[prev].from, to |-> ledger[prev].to, row |-> prev]]

\* The entry of every removed row becomes that of the row before it; the
\* lowest removed row of a key is the last one the loop comes to.
Unwound(top) ==
    [k \in Keys |->
        LET gone  == {i \in (top + 1)..(Base - 1) : ledger[i].key = k}
            first == CHOOSE i \in gone : \A j \in gone : i <= j
            prev  == ledger[first].prev
        IN  IF gone = {} THEN db[k]
            ELSE IF prev = 0 THEN NoEntry
            ELSE [from |-> ledger[prev].from, to |-> ledger[prev].to, row |-> prev]]

\* Mutation: the cleared counts are not brought down with the block.
RollBackKeepsCleared(b) ==
    LET top == Top(b)
    IN  /\ db' = Unwound(top)
        /\ ledger' = SubSeq(ledger, 1, top)
        /\ m_Row' = top + 1
        /\ m_MemPool' = <<>>
        /\ m_Block' = b
        /\ counts' = UpdateCounts(db', listed, b)
        /\ UNCHANGED <<listed, cleared, saved>>

RollBackInternal(b) ==
    LET top == Top(b)
    IN  /\ db' = Unwound(top)
        /\ ledger' = SubSeq(ledger, 1, top)
        /\ m_Row' = top + 1
        /\ m_MemPool' = <<>>
        /\ m_Block' = b
        /\ counts' = UpdateCounts(db', listed, b)
        /\ cleared' = counts'
        /\ UNCHANGED <<listed, saved>>

\* RollBack(block): DisconnectTip, the start of the node, -reindex (to -1)
RollBack(b) ==
    /\ call = "none"
    /\ b <= m_Block
    /\ RollBackInternal(b)
    /\ call' = "none"

\* Commit when the database refuses the batch: the block is taken back.
CommitFails ==
    /\ call = "block"
    /\ RollBackInternal(m_Block)
    /\ call' = "none"

-----------------------------------------------------------------------------
Init ==
    /\ m_Block = -1 /\ m_Row = 1 /\ ledger = <<>> /\ m_MemPool = <<>>
    /\ db = [k \in Keys |-> NoEntry] /\ listed = {}
    /\ counts = NoCount /\ cleared = NoCount
    /\ checkpoint = [row |-> 1, counts |-> NoCount, size |-> 0]
    /\ copied = [pool |-> <<>>, counts |-> NoCount]
    /\ call = "none"

Next ==
    \/ \E a \in Addresses, k \in PermKeys, range \in Ranges, ts \in Timestamps :
          SetPermission(a, k, range, ts)
    \/ SetCheckPoint
    \/ AcceptTx
    \/ RollBackToCheckPoint
    \/ AbandonBlock
    \/ ClearMemPool
    \/ CopyMemPool
    \/ RestoreMemPool
    \/ \E miner \in Addresses : Commit(miner) \/ CommitCannotOpen(miner)
    \/ \E b \in Blocks : RollBack(b)
    \/ CommitFails

Spec == Init /\ [][Next]_vars

-----------------------------------------------------------------------------
(* Properties.                                                             *)

RowRecords ==
    [key : LinkedKeys \cup IndexKeys, prev : Nat, received : Nat,
     gfrom : Nat, gto : Nat, from : Nat, to : Nat,
     admin : Addresses \cup Nat, ts : Nat, consensus : Nat]

\* Type invariant: m_Row is the number of the row after the last one, and a
\* checkpoint in use lies within the rows in memory.
TypeOK ==
    /\ m_Block \in Blocks
    /\ m_Row \in Nat
    /\ ledger \in Seq(RowRecords) /\ m_MemPool \in Seq(RowRecords)
    /\ m_Row = Len(ledger) + Len(m_MemPool) + 1
    /\ db \in [Keys -> [from : Nat, to : Nat, row : Nat]]
    /\ listed \subseteq PermKeys
    /\ counts \in [admin : Int, mine : Int] /\ cleared \in [admin : Int, mine : Int]
    /\ checkpoint \in [row : Nat, counts : [admin : Int, mine : Int], size : Nat]
    /\ copied \in [pool : Seq(RowRecords), counts : [admin : Int, mine : Int]]
    /\ call \in Calls

\* i is the last row of key k below n, or 0 if it has none
IsLast(k, n, i) ==
    /\ i < n
    /\ i = 0 \/ Row(i).key = k
    /\ \A j \in (i + 1)..(n - 1) : Row(j).key # k

\* Every row links to the row of its key just before it, wherever the two
\* are: VerifyConsensus and RollBack reach all the earlier rows of a key.
LinkInv ==
    /\ \A i \in 1..(m_Row - 1) :
         Row(i).key \in LinkedKeys => IsLast(Row(i).key, i, Row(i).prev)
    /\ \A k \in LinkedKeys : IsLast(k, m_Row, Tip(k))

\* The database names the last committed row of every key and repeats its
\* range, after any sequence of commits, failed commits and rollbacks.
DbInv ==
    \A k \in LinkedKeys :
        /\ IsLast(k, Base, db[k].row)
        /\ db[k].row # 0 => /\ db[k].from = ledger[db[k].row].from
                            /\ db[k].to = ledger[db[k].row].to

Allowed(type) == {a \in Addresses : GetPermission(<<a, type>>)}
Committed(type) ==
    {a \in Addresses :
        InForce(<<db[<<a, type>>].from, db[<<a, type>>].to>>, m_Block + 1)}

\* The incrementally kept counts, which AdminConsensus and mining diversity
\* divide by, are the numbers of addresses that have the permission; the
\* cleared counts, which CanMine uses while the pool is not empty, are the
\* numbers of those the blocks alone make.
CountsAccurate ==
    \A type \in {"admin", "mine"} :
        /\ counts[type] = Cardinality(Allowed(type))
        /\ cleared[type] = Cardinality(Committed(type))

\* A row that was decided by n administrators is backed by n of them, each
\* with a vote of its own for this very range since the previous decision; a
\* row that was not decided leaves the permission as it was.
ConsensusSound ==
    \A i \in {j \in 1..(m_Row - 1) : Row(j).key \in PermKeys} :
        LET r == Row(i)
            since == {j \in RowsOf(r.key) : /\ j <= i
                         /\ \A d \in RowsOf(r.key) : d < i /\ d >= j => Row(d).consensus = 0}
        IN  IF r.consensus > 0
            THEN Cardinality({Row(j).admin : j \in {s \in since : Same(Row(s), r)}})
                    >= r.consensus
            ELSE IF r.prev = 0 THEN r.from = 0 /\ r.to = 0
            ELSE r.from = Row(r.prev).from /\ r.to = Row(r.prev).to

\* The permissions after block b, read off the ledger, and those the database
\* holds now.
LastUpTo(k, b) ==
    {i \in 1..(Base - 1) :
        /\ ledger[i].key = k /\ ledger[i].received <= b
        /\ \A j \in (i + 1)..(Base - 1) : ledger[j].key = k => ledger[j].received > b}
LedgerAt(b) ==
    [k \in PermKeys |->
        IF LastUpTo(k, b) = {} THEN <<0, 0>>
        ELSE LET i == CHOOSE i \in LastUpTo(k, b) : TRUE
             IN  <<ledger[i].from, ledger[i].to>>]
History == INSTANCE PermissionHistory WITH
    past   <- [n \in 1..(m_Block + 1) |-> LedgerAt(n - 1)],
    now    <- [k \in PermKeys |-> <<db[k].from, db[k].to>>],
    admins <- cleared.admin,
    miners <- cleared.mine

\* Commit and RollBack implement the history of the chain's permissions: no
\* commit rewrites an earlier block's, a rollback restores them with their
\* counts, and nothing done in memory shows in them.
ImplementsHistory == History!Spec
=============================================================================
