-------------------------- MODULE MinerVerification --------------------------
(***************************************************************************)
(* VerifyBlockMiner (src/src/protocol/multichainblock.cpp): the miners of  *)
(* a block that is not on the active chain are checked before anything     *)
(* else, against the permissions its own branch gives.  For that the       *)
(* permission object (src/src/permissions/permission.cpp) is moved to the  *)
(* fork point without touching its stores ("no real rollback is made"),    *)
(* the admin and mine grants of the branch are replayed into its memory    *)
(* one block after the other, and the object is put back.  Who mined a     *)
(* block that was checked, its grants and the number of miners after it    *)
(* are recorded by block hash, so that later checks of the same branch     *)
(* need not read the block again.                                          *)
(*                                                                         *)
(* The call is atomic (cs_main is held); a step here is one block of its   *)
(* loop.  Around it stand its callers in src/src/core/main.cpp: a block's  *)
(* data arrives in any order (AcceptBlock), candidates for the best chain  *)
(* are checked (FindMostWorkChain), and blocks are connected and           *)
(* disconnected.  The rows' numbers and links, consensus and the count of  *)
(* administrators are those of Permissions; consensus is of one            *)
(* administrator here.  Headers come first and all of them are known.      *)
(***************************************************************************)
EXTENDS Integers, Sequences, FiniteSets

CONSTANTS Addresses,
          Genesis,          \* the address the genesis block gives both permissions to
          Parent,           \* Parent[b], for the blocks 1..Len(Parent); 0 is genesis
          GrantChoices,     \* the possible contents: functions from blocks to grants
          Granularity, Diversity, SetupFirstBlocks,
          MaxPool           \* bound: the grants of unconfirmed transactions

Blocks == 1..Len(Parent)
Types == {"admin", "mine"}
PermKeys == Addresses \X Types
\* a grant: its key, the address that signs it, the range it gives
Grants == [key : PermKeys, by : Addresses, range : Nat \X Nat]
NoGrant == [key |-> <<>>]

ASSUME VerificationAssumption ==
    /\ IsFiniteSet(Addresses) /\ Genesis \in Addresses
    /\ Parent \in Seq(Nat)
    /\ \A b \in Blocks : Parent[b] < b
    /\ GrantChoices \subseteq [Blocks -> Grants \cup {NoGrant}]
    /\ Granularity \in Nat \ {0} /\ Diversity \in 0..Granularity
    /\ SetupFirstBlocks \in Nat /\ MaxPool \in Nat

VARIABLES miner,        \* who signed each block
          grant,        \* the grant it contains
          have,         \* the blocks whose data was stored, BLOCK_HAVE_DATA
          failed,       \* BLOCK_FAILED_MASK
          passed,       \* fPassedMinerPrecheck, not kept over a restart
          candidates,   \* setBlockIndexCandidates
          record,       \* what the permission database holds about a block
          tip,          \* chainActive.Tip()
          target,       \* the block ActivateBestChainStep works towards, -1 if none
          rows,         \* the rows of the ledger
          pool,         \* m_MemPool
          m_Block, m_MinerCount,
          m_Cleared,    \* m_ClearedMinerCount
          m_ClearedForVerification,
          copied,       \* m_Copied...: pool, block, count
          fork,         \* m_ForkBlock while m_CopiedRow > 0, -1 otherwise
          job           \* the call of VerifyBlockMiner that is running

index == <<miner, grant, have, failed, passed, candidates, record, tip, target>>
object == <<rows, pool, m_Block, m_MinerCount, m_Cleared,
            m_ClearedForVerification, copied, fork>>
vars == <<index, object, job>>

Always == <<0, 1000000>>
Nothing == [known |-> FALSE, count |-> 0, grants |-> FALSE]
NoJob == [new |-> -1, pos |-> 0, last |-> 0, outcome |-> "none"]

-----------------------------------------------------------------------------
(* The tree of blocks.                                                     *)

Branch[b \in Blocks \cup {0}] ==
    IF b = 0 THEN <<>> ELSE Append(Branch[Parent[b]], b)

Height(b) == Len(Branch[b])
OnChain(b, t) == b \in {0} \cup {Branch[t][i] : i \in 1..Height(t)}
\* the height FindFork ends at
ForkHeight(b) ==
    CHOOSE h \in 0..Height(b) :
        /\ h = 0 \/ OnChain(Branch[b][h], tip)
        /\ h < Height(b) => ~OnChain(Branch[b][h + 1], tip)
\* nChainTx: the data of the whole branch is there
ChainTx(b, data) == \A i \in 1..Height(b) : Branch[b][i] \in data

-----------------------------------------------------------------------------
(* Reading the permission object, wherever it stands.                      *)

InForce(range, block) == range[1] <= block /\ block < range[2]

\* the last of these rows, 0 if there are none
Newest(of) == IF of = {} THEN 0 ELSE CHOOSE i \in of : \A j \in of : j <= i

LastOf(s, k) == Newest({i \in 1..Len(s) : s[i].key = k})
RangeOf(s, i) == IF i = 0 THEN <<0, 0>> ELSE s[i].range

\* Mutation: the rows above the fork point are not skipped.
LedgerRowAtTip(k) == RangeOf(rows, LastOf(rows, k))

\* The row of the ledger GetPermission comes to: in fork mode it goes back
\* along the links to the last one received at the fork point or before.
LedgerRow(k) ==
    RangeOf(rows, Newest({i \in 1..Len(rows) :
                              rows[i].key = k /\ (fork # -1 => rows[i].received <= fork)}))

\* the range in force for a key when the rows p are in memory
Held(p, k) == IF LastOf(p, k) = 0 THEN LedgerRow(k) ELSE p[LastOf(p, k)].range
GetPermission(p, k) == InForce(Held(p, k), m_Block + 1)

\* UpdateCounts, with m_Block at b
UpdateCounts(p, b) ==
    Cardinality({a \in Addresses : InForce(Held(p, <<a, "mine">>), b + 1)})

\* diversity-1 of IsBarredByDiversity
Barred(count) ==
    LET share == IF Diversity > 0 THEN (count * Diversity - 1) \div Granularity ELSE 0
    IN  IF share + 1 > count THEN count - 1 ELSE share

IsBarredByDiversity(block, last, count) ==
    count # 0 /\ block >= SetupFirstBlocks /\ block - last <= Barred(count)

\* the block of the miner's last block row, 0 without one and for genesis
LastMined(a) == LedgerRow(<<a, "miner">>)[1]

\* Mutation: the distance to the miner's last block is not asked for again.
CanMineWhenPermitted(a, count) == GetPermission(<<>>, <<a, "mine">>)

\* CanMine, which ConnectBlock asks with the memory cleared
CanMine(a, count) ==
    /\ GetPermission(<<>>, <<a, "mine">>)
    /\ ~(LastMined(a) # 0 /\ IsBarredByDiversity(m_Block + 1, LastMined(a), count))

\* FindLastAllowedMinerRow leaves the answer as it is: the code asks before the grants
\* of the block are in memory, and every other row was received in a lower block.
CanMineBlockOnFork(a, block, lastAfterFork) ==
    LET last == IF lastAfterFork = 0 THEN LastMined(a) ELSE lastAfterFork
    IN  /\ GetPermission(pool, <<a, "mine">>)
        /\ ~(last # 0 /\ IsBarredByDiversity(block, last, m_ClearedForVerification))

-----------------------------------------------------------------------------
(* Grants.                                                                 *)

\* AcceptAdminMinerPermissions: the grant needs an administrator; a block
\* with a grant that has none is rejected.
Acceptable(p, g) == g = NoGrant \/ GetPermission(p, <<g.by, "admin">>)

\* the rows p and, behind them, that of the grant g received in block b
Granted(p, g, b) ==
    IF g = NoGrant THEN p
    ELSE Append(p, [key |-> g.key, range |-> g.range, received |-> b])

\* the change SetPermission makes to m_MinerCount at once
CountStep(p, g) ==
    IF g = NoGrant \/ g.key[2] # "mine" THEN 0
    ELSE LET now == InForce(g.range, m_Block + 1)
         IN  IF now = GetPermission(p, g.key) THEN 0 ELSE IF now THEN 1 ELSE -1

\* a transaction with a grant enters the memory pool, or is replayed
PoolGrant(g) ==
    /\ job = NoJob /\ target = -1
    /\ g # NoGrant /\ Len(pool) < MaxPool /\ Acceptable(pool, g)
    /\ IF pool = <<>>
       THEN m_Cleared' = m_MinerCount /\ m_ClearedForVerification' = m_MinerCount
       ELSE UNCHANGED <<m_Cleared, m_ClearedForVerification>>
    /\ pool' = Granted(pool, g, m_Block + 1)
    /\ m_MinerCount' = m_MinerCount + CountStep(pool, g)
    /\ UNCHANGED <<index, rows, m_Block, copied, fork, job>>

ClearedCount == IF pool = <<>> THEN m_MinerCount ELSE UpdateCounts(<<>>, m_Block)

ClearMemPool ==
    /\ job = NoJob /\ target = -1
    /\ pool' = <<>>
    /\ m_MinerCount' = ClearedCount /\ m_Cleared' = ClearedCount
    /\ m_ClearedForVerification' = ClearedCount
    /\ UNCHANGED <<index, rows, m_Block, copied, fork, job>>

-----------------------------------------------------------------------------
(* VerifyBlockMiner.                                                       *)

\* RollBackBeforeMinerVerification: the object is moved to block h.
MoveTo(h) ==
    LET cleared == IF pool = <<>> THEN m_MinerCount ELSE m_Cleared
        counts  == IF h = m_Block THEN cleared
                   ELSE RangeOf(rows, LastOf(rows, <<h, "index">>))[1]
    IN  /\ copied' = [pool |-> pool, block |-> m_Block, count |-> m_MinerCount]
        /\ pool' = <<>>
        /\ m_Block' = h /\ fork' = h
        /\ m_MinerCount' = counts /\ m_ClearedForVerification' = counts
        /\ UNCHANGED <<rows, m_Cleared>>

\* The call begins; a block that is on the active chain has passed, one on a
\* branch with a failed block has not.
VerifyBlockMiner(b) ==
    LET h == ForkHeight(b)
    IN  IF OnChain(b, tip)
        THEN passed' = passed \cup {b} /\ UNCHANGED <<object, failed, job>>
        ELSE /\ IF \E i \in (h + 1)..Height(b) : Branch[b][i] \in failed
                THEN failed' = failed \cup {b} /\ UNCHANGED <<object, job>>
                ELSE /\ job' = [new |-> b, pos |-> h + 1, last |-> 0, outcome |-> "none"]
                     /\ MoveTo(h)
                     /\ UNCHANGED failed
             /\ UNCHANGED passed

At == Branch[job.new][job.pos]
End(outcome) ==
    /\ job' = [job EXCEPT !.outcome = outcome]
    /\ UNCHANGED <<object, index>>

\* last_after_fork, after a block by the miner of the new one
LastAfterFork == IF miner[At] = miner[job.new] THEN job.pos ELSE job.last

\* A block that was checked before: its recorded grants are replayed.
VerifiedBefore ==
    LET g == IF record[At].grants THEN grant[At] ELSE NoGrant
    IN  /\ job # NoJob /\ job.outcome = "none"
        /\ At # job.new /\ record[At].known
        /\ IF ~Acceptable(pool, g) THEN End("reject")
           ELSE /\ pool' = Granted(pool, g, m_Block + 1)
                /\ m_Block' = m_Block + 1
                /\ m_MinerCount' = record[At].count
                /\ m_ClearedForVerification' = record[At].count
                /\ passed' = passed \cup {At}
                /\ job' = [job EXCEPT !.pos = @ + 1, !.last = LastAfterFork]
                /\ UNCHANGED <<rows, m_Cleared, copied, fork, miner, grant, have,
                               failed, candidates, record, tip, target>>

\* Mutation: recorded after the memory was cleared, as Commit does.
BlockInfoWithoutGrants(b, n) == [known |-> TRUE, count |-> n, grants |-> FALSE]

BlockInfo(b, n) == [known |-> TRUE, count |-> n, grants |-> grant[b] # NoGrant]

\* the grants of the block are replayed and recorded, with its miner and the
\* number of miners after it (StoreBlockInfo)
Replay ==
    LET p == Granted(pool, grant[At], m_Block + 1)
        n == UpdateCounts(p, m_Block + 1)
    IN  /\ pool' = p
        /\ m_Block' = m_Block + 1
        /\ m_MinerCount' = n /\ m_ClearedForVerification' = n
        /\ record' = [record EXCEPT ![At] = BlockInfo(At, n)]
        /\ passed' = passed \cup {At}
        /\ UNCHANGED <<rows, m_Cleared, copied, fork, miner, grant, have, failed,
                       candidates, tip, target>>

\* Mutation: the last block of a miner on the branch is not looked at.
NewBlockIgnoresBranch ==
    /\ job # NoJob /\ job.outcome = "none" /\ At = job.new
    /\ IF CanMineBlockOnFork(miner[At], job.pos, 0) /\ Acceptable(pool, grant[At])
       THEN Replay /\ job' = [job EXCEPT !.outcome = "accept"]
       ELSE End("reject")

\* the block the call is about
NewBlock ==
    /\ job # NoJob /\ job.outcome = "none" /\ At = job.new
    /\ IF CanMineBlockOnFork(miner[At], job.pos, job.last) /\ Acceptable(pool, grant[At])
       THEN Replay /\ job' = [job EXCEPT !.outcome = "accept"]
       ELSE End("reject")

\* A block of the branch that was not checked: without its data the check is
\* given up, which is no reason to reject; last_after_fork, that of the new
\* block's miner, is brought up to date before its own miner is checked.
NotVerifiedBefore ==
    /\ job # NoJob /\ job.outcome = "none"
    /\ At # job.new /\ ~record[At].known
    /\ IF At \notin have THEN End("skip")
       ELSE IF /\ CanMineBlockOnFork(miner[At], job.pos, LastAfterFork)
               /\ Acceptable(pool, grant[At])
            THEN Replay /\ job' = [job EXCEPT !.pos = @ + 1, !.last = LastAfterFork]
            ELSE End("reject")

\* Mutation: the counts stay those of the branch.
RestoreWithoutCounts ==
    /\ job # NoJob /\ job.outcome # "none"
    /\ pool' = copied.pool /\ m_Block' = copied.block
    /\ fork' = -1
    /\ failed' = IF job.outcome = "reject" THEN failed \cup {job.new} ELSE failed
    /\ job' = NoJob
    /\ UNCHANGED <<rows, m_MinerCount, m_Cleared, m_ClearedForVerification, copied,
                   miner, grant, have, passed, candidates, record, tip, target>>

\* RestoreAfterMinerVerification; the callers mark a rejected block.
RestoreAfterMinerVerification ==
    /\ job # NoJob /\ job.outcome # "none"
    /\ pool' = copied.pool /\ m_Block' = copied.block
    /\ m_MinerCount' = copied.count
    /\ fork' = -1
    /\ failed' = IF job.outcome = "reject" THEN failed \cup {job.new} ELSE failed
    /\ job' = NoJob
    /\ UNCHANGED <<rows, m_Cleared, m_ClearedForVerification, copied,
                   miner, grant, have, passed, candidates, record, tip, target>>

-----------------------------------------------------------------------------
(* The callers.                                                            *)

\* AcceptBlock: the data of a block that is not there yet, in any order; the
\* header of a block on a failed one is not accepted.  Every block that now
\* has the data of its branch becomes a candidate, whatever its work.
AcceptBlock(b) ==
    /\ job = NoJob /\ target = -1
    /\ b \notin have /\ b \notin failed /\ Parent[b] \notin failed
    /\ have' = have \cup {b}
    /\ candidates' = candidates \cup
          {c \in Blocks : ChainTx(c, have') /\ ~ChainTx(c, have)}
    /\ VerifyBlockMiner(b)
    /\ UNCHANGED <<miner, grant, record, tip, target>>

\* PruneBlockIndexCandidates: what is worse than the tip goes; which of the
\* blocks of its height are, who mines and arrival decide.
Prune(c, t) ==
    {{b \in c : Height(b) > Height(t) \/ b \in same} :
        same \in {s \in SUBSET {b \in c : Height(b) = Height(t)} : t \in c => t \in s}}

\* FindMostWorkChain checks the candidates in the order of their work, ...
CheckCandidate(b) ==
    /\ job = NoJob /\ target = -1
    /\ b \in candidates \ (passed \cup failed)
    /\ \A c \in candidates \ (passed \cup failed) : Height(c) >= Height(b)
    /\ VerifyBlockMiner(b)
    /\ UNCHANGED <<miner, grant, have, candidates, record, tip, target>>

\* ... and takes the best one that passed.  When a block of its branch failed,
\* those after it fail too (BLOCK_FAILED_CHILD) and all are no candidates.
ChooseTarget(b) ==
    LET bad == {i \in (ForkHeight(b) + 1)..Height(b) : Branch[b][i] \in failed}
        from(i) == {Branch[b][j] : j \in i..Height(b)}
    IN  /\ job = NoJob /\ target = -1
        /\ candidates \subseteq passed \cup failed
        /\ b \in candidates \cap passed /\ b # tip
        /\ \A c \in (candidates \cap passed) \cup {tip} : Height(c) <= Height(b)
        /\ IF bad = {} THEN target' = b /\ UNCHANGED <<failed, candidates>>
           ELSE LET last == CHOOSE i \in bad : \A j \in bad : j <= i
                IN  /\ failed' = failed \cup from(last)
                    /\ candidates' = candidates \ from(last)
                    /\ UNCHANGED target
        /\ UNCHANGED <<miner, grant, have, passed, record, tip, object, job>>

\* The rows a block leaves behind its grants: who mined it and, at its end,
\* the number of miners (in the range, which that row makes no other use of).
BlockRows(s, b) ==
    LET h == Height(b)
        g == Granted(s, grant[b], h)
        n == Cardinality({a \in Addresses :
                 InForce(RangeOf(g, LastOf(g, <<a, "mine">>)), h + 1)})
    IN  g \o << [key |-> <<miner[b], "miner">>, range |-> <<h, h>>, received |-> h],
                [key |-> <<h, "index">>, range |-> <<n, n>>, received |-> h] >>

\* ConnectTip: the permission check, the grants, Commit.  The first leaves
\* the memory as it was, the others find it cleared.
ConnectTip ==
    LET b == Branch[target][Height(tip) + 1]
        n == ClearedCount
        new == BlockRows(rows, b)
    IN  /\ job = NoJob /\ target # -1 /\ OnChain(tip, target)
        /\ IF CanMine(miner[b], n) /\ Acceptable(<<>>, grant[b])
           THEN /\ rows' = new /\ pool' = <<>>
                /\ m_Block' = m_Block + 1
                /\ m_MinerCount' = new[Len(new)].range[1]
                /\ m_Cleared' = m_MinerCount' /\ m_ClearedForVerification' = m_MinerCount'
                /\ record' = [record EXCEPT ![b] =
                                 [known |-> TRUE, count |-> m_MinerCount', grants |-> @.grants]]
                /\ tip' = b
                /\ target' \in IF b = target THEN {-1} ELSE {target, -1}
                /\ candidates' \in Prune(candidates, b)
                /\ UNCHANGED failed
           ELSE /\ failed' = failed \cup {b}
                /\ candidates' = candidates \ {b}
                /\ pool' = IF CanMine(miner[b], n) THEN <<>> ELSE pool
                /\ m_MinerCount' = IF CanMine(miner[b], n) THEN n ELSE m_MinerCount
                /\ m_Cleared' = n /\ m_ClearedForVerification' = n
                /\ target' = -1
                /\ UNCHANGED <<rows, m_Block, record, tip>>
        /\ UNCHANGED <<miner, grant, have, passed, copied, fork, job>>

\* back from the end to a row received in block h or before
RowsUpTo(h) == SubSeq(rows, 1, Newest({i \in 1..Len(rows) : rows[i].received <= h}))

\* DisconnectTip: RollBack, after which the block's own transaction may come
\* back into the memory pool.
DisconnectTip ==
    LET h    == Height(tip) - 1
        left == RowsUpTo(h)
        held(k) == RangeOf(left, LastOf(left, k))
        n    == Cardinality({a \in Addresses : InForce(held(<<a, "mine">>), h + 1)})
        g    == grant[tip]
    IN  /\ job = NoJob /\ target # -1 /\ ~OnChain(tip, target)
        /\ rows' = left
        /\ m_Block' = h /\ m_Cleared' = n
        /\ tip' = Parent[tip]
        /\ \/ pool' = <<>> /\ m_MinerCount' = n
              /\ UNCHANGED m_ClearedForVerification
           \/ /\ g # NoGrant /\ MaxPool > 0 /\ InForce(held(<<g.by, "admin">>), h + 1)
              /\ pool' = Granted(<<>>, g, h + 1)
              /\ m_MinerCount' = n + (IF g.key[2] # "mine" THEN 0
                                      ELSE (IF InForce(g.range, h + 1) THEN 1 ELSE 0)
                                         - (IF InForce(held(g.key), h + 1) THEN 1 ELSE 0))
              /\ m_ClearedForVerification' = n
        /\ UNCHANGED <<miner, grant, have, failed, passed, candidates, record, target,
                       copied, fork, job>>

\* The node is stopped and started: the memory and the marks are gone, the
\* candidates are found again (LoadBlockIndexDB) and pruned at once.
Restart ==
    /\ job = NoJob /\ target = -1
    /\ candidates' \in Prune({b \in Blocks \ failed : ChainTx(b, have)}, tip)
    /\ passed' = {} /\ pool' = <<>>
    /\ m_MinerCount' = UpdateCounts(<<>>, m_Block) /\ m_Cleared' = m_MinerCount'
    /\ UNCHANGED <<miner, grant, have, failed, record, tip, target, rows, m_Block,
                   m_ClearedForVerification, copied, fork, job>>

-----------------------------------------------------------------------------
GenesisRows ==
    << [key |-> <<Genesis, "admin">>, range |-> Always, received |-> 0],
       [key |-> <<Genesis, "mine">>, range |-> Always, received |-> 0],
       [key |-> <<Genesis, "miner">>, range |-> <<0, 0>>, received |-> 0],
       [key |-> <<0, "index">>, range |-> <<1, 1>>, received |-> 0] >>

Init ==
    /\ miner \in [Blocks -> Addresses] /\ grant \in GrantChoices
    /\ have = {} /\ failed = {} /\ passed = {} /\ candidates = {}
    /\ record = [b \in Blocks |-> Nothing]
    /\ tip = 0 /\ target = -1
    /\ rows = GenesisRows /\ pool = <<>> /\ m_Block = 0
    /\ m_MinerCount = 1 /\ m_Cleared = 1 /\ m_ClearedForVerification = 1
    /\ copied = [pool |-> <<>>, block |-> 0, count |-> 0]
    /\ fork = -1 /\ job = NoJob

Next ==
    \/ \E b \in Blocks : AcceptBlock(b) \/ CheckCandidate(b) \/ ChooseTarget(b)
    \/ VerifiedBefore \/ NotVerifiedBefore \/ NewBlock
    \/ RestoreAfterMinerVerification
    \/ ConnectTip \/ DisconnectTip
    \/ \E b \in Blocks : PoolGrant(grant[b])
    \/ ClearMemPool
    \/ Restart

Spec == Init /\ [][Next]_vars

-----------------------------------------------------------------------------
(* What a branch gives, block after block.                                 *)

After[b \in Blocks \cup {0}] ==
    IF b = 0
    THEN [held |-> [k \in PermKeys |-> IF k[1] = Genesis THEN Always ELSE <<0, 0>>],
          last |-> [a \in Addresses |-> 0]]
    ELSE LET s == After[Parent[b]]
             g == grant[b]
         IN  [held |-> IF g = NoGrant THEN s.held ELSE [s.held EXCEPT ![g.key] = g.range],
              last |-> [s.last EXCEPT ![miner[b]] = Height(b)]]

Miners(b) ==
    {a \in Addresses : InForce(After[b].held[<<a, "mine">>], Height(b) + 1)}

\* whether block b may follow its parent
Valid(b) ==
    LET s == After[Parent[b]]
    IN  /\ miner[b] \in Miners(Parent[b])
        /\ ~(s.last[miner[b]] # 0
             /\ IsBarredByDiversity(Height(b), s.last[miner[b]],
                                    Cardinality(Miners(Parent[b]))))
        /\ grant[b] # NoGrant =>
              InForce(s.held[<<grant[b].by, "admin">>], Height(b))

-----------------------------------------------------------------------------
(* Properties.                                                             *)

\* While a branch is checked the object shows what its blocks so far give,
\* whatever the active chain did since the fork point and whatever was in the
\* memory pool: every permission and the number of miners that
\* IsBarredByDiversity is given (RollBackBeforeMinerVerification, the links
\* GetPermission goes back along, IncrementBlock and StoreBlockInfo).
ForkView ==
    (job # NoJob /\ job.outcome = "none") =>
        LET b == IF job.pos = 1 THEN 0 ELSE Branch[job.new][job.pos - 1]
        IN  /\ m_Block = Height(b)
            /\ \A k \in PermKeys : Held(pool, k) = After[b].held[k]
            /\ m_ClearedForVerification = Cardinality(Miners(b))
            /\ m_MinerCount = Cardinality(Miners(b))

\* After the call the object is where it was: its rows and its counts are
\* those of the active chain and of the unconfirmed grants.  m_ClearedMinerCount
\* need only be right when a grant is in memory, its one reader is called then.
PutBack ==
    job = NoJob =>
        /\ m_Block = Height(tip)
        /\ \A k \in PermKeys : LedgerRow(k) = After[tip].held[k]
        /\ m_MinerCount = UpdateCounts(pool, m_Block)
        /\ pool # <<>> => m_Cleared = UpdateCounts(<<>>, m_Block)

\* What the database holds about a block is what a full check of it would
\* find: the miners after it and whether there are grants to replay.  Commit
\* writes a record without grants: it must never be the only one of a block
\* that has some.
RecordsComplete ==
    \A b \in Blocks : record[b].known =>
        /\ record[b].count = Cardinality(Miners(b))
        /\ record[b].grants = (grant[b] # NoGrant)

\* The verdict about the block the call is made for is the one ConnectBlock
\* would give if the chain up to it were active.
VerdictOnNewBlock ==
    (job.outcome \in {"accept", "reject"} /\ At = job.new) =>
        (job.outcome = "accept" <=> Valid(job.new))

\* Only blocks of miners that may mine, with grants of administrators, are on
\* the active chain: who replaces whom is decided from marks and records, but
\* nothing is connected that the rules of its own branch forbid.
ActiveChainValid == \A i \in 1..Height(tip) : Valid(Branch[tip][i])
=============================================================================
