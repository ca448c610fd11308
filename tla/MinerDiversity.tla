--------------------------- MODULE MinerDiversity ---------------------------
(***************************************************************************)
(* Mining diversity (src/src/permissions/permission.cpp): who may mine the *)
(* next block.  A permitted miner is barred for some blocks after each one *)
(* it mined; how many depends on how many miners are permitted, so every   *)
(* grant, revocation and reorganisation moves the bar.                     *)
(*                                                                         *)
(* The state is what CanMine reads from the ledger: for each block, its    *)
(* miner and the holders of the mine permission after it (Permissions      *)
(* shows that the database agrees with the ledger on both and that the     *)
(* cleared miner count is the number of holders).                          *)
(***************************************************************************)
EXTENDS Integers, Sequences, FiniteSets

CONSTANTS Miners,           \* the addresses that may ever be granted "mine"
          Granularity,      \* MC_PRM_DECIMAL_GRANULARITY
          Diversity,        \* miningdiversity, a fraction of Granularity
          SetupFirstBlocks, \* setupfirstblocks
          IntMax,           \* the largest int
          MaxBlock          \* bound: the last height

ASSUME DiversityAssumption ==
    /\ IsFiniteSet(Miners)
    /\ Granularity \in Nat \ {0}
    /\ Diversity \in 0..Granularity
    /\ SetupFirstBlocks \in Nat
    /\ IntMax \in Nat
    /\ MaxBlock \in Nat

VARIABLE chain      \* chain[b + 1]: the miner of block b, the permitted after it

m_Block == Len(chain) - 1

Permitted == IF chain = <<>> THEN {} ELSE chain[Len(chain)].permitted

m_ClearedMinerCount == Cardinality(Permitted)

\* m_BlockFrom of the address's last block row, 0 if it has none
MinedBy(a) == {b \in 0..m_Block : chain[b + 1].miner = a}
Last(a) ==
    IF MinedBy(a) = {} THEN 0
    ELSE CHOOSE b \in MinedBy(a) : \A c \in MinedBy(a) : c <= b

\* miner_count*diversity is an int: on overflow, which C++ leaves undefined,
\* the build wraps around.  Division is towards zero.
AsInt(n) == ((n + IntMax + 1) % (2 * IntMax + 2)) - IntMax - 1
Quotient(n) == IF n >= 0 THEN n \div Granularity ELSE -((-n) \div Granularity)

\* the local "diversity" of both functions before it is incremented
Share(count) ==
    IF Diversity > 0 THEN Quotient(AsInt(AsInt(count * Diversity) - 1)) ELSE 0

\* Mutation: the division is not rounded up (no diversity++).
SpacingRoundedDown(count) ==
    IF Share(count) < 1 THEN 1 ELSE IF Share(count) > count THEN count ELSE Share(count)

\* how far apart two blocks of one miner must be
Spacing(count) ==
    LET atleast == IF Share(count) + 1 < 1 THEN 1 ELSE Share(count) + 1
    IN  IF atleast > count THEN count ELSE atleast

\* Mutation: one block too many is barred (diversity for diversity-1).
IsBarredOneMore(block, last, count) ==
    /\ count # 0
    /\ block >= SetupFirstBlocks
    /\ block - last <= Spacing(count)

IsBarredByDiversity(block, last, count) ==
    /\ count # 0
    /\ block >= SetupFirstBlocks
    /\ block - last <= Spacing(count) - 1

CanMine(a) ==
    /\ a \in Permitted
    /\ ~(Last(a) # 0 /\ IsBarredByDiversity(m_Block + 1, Last(a), m_ClearedMinerCount))

\* the number of miners the others may expect; m_MinerCount is the cleared
\* count while no grants are in memory
GetActiveMinerCount ==
    LET count  == m_ClearedMinerCount
        active == count - Share(count)
    IN  IF count <= 0 THEN 1
        ELSE IF m_Block + 1 < SetupFirstBlocks THEN count
        ELSE IF active < 1 THEN 1
        ELSE IF active > count THEN count
        ELSE active

-----------------------------------------------------------------------------
DiversityInit == chain = <<>>

\* CheckBlockPermissions: the miner of the genesis block is not checked.  The
\* block's grants, and the ranges of earlier ones, decide who is permitted
\* after it.
Connect(a) ==
    /\ m_Block < MaxBlock
    /\ chain = <<>> \/ CanMine(a)
    /\ \E permitted \in SUBSET Miners :
          chain' = Append(chain, [miner |-> a, permitted |-> permitted])

\* RollBack: back to the first n blocks
Disconnect(n) ==
    /\ n < Len(chain)
    /\ chain' = SubSeq(chain, 1, n)

DiversityNext ==
    \/ \E a \in Miners : Connect(a)
    \/ \E n \in 0..MaxBlock : Disconnect(n)

DiversitySpec == DiversityInit /\ [][DiversityNext]_chain

-----------------------------------------------------------------------------
\* Type invariant.
DiversityTypeOK == chain \in Seq([miner : Miners, permitted : SUBSET Miners])

\* The miner thread paces itself by GetActiveMinerCount: at least that many
\* of the permitted miners may mine the next block, whoever mined before and
\* whatever was granted or revoked on the way.  As it is never below one, the
\* chain cannot be stuck by diversity while anybody is permitted.
ActiveMinersCanMine ==
    Permitted # {} => Cardinality({a \in Miners : CanMine(a)}) >= GetActiveMinerCount

\* paramlist.h: "Miners must wait <mining-diversity>*<active miners> between
\* blocks."
MinersWaitTheirShare ==
    m_ClearedMinerCount > 0 =>
        Spacing(m_ClearedMinerCount) * Granularity >= m_ClearedMinerCount * Diversity
=============================================================================
