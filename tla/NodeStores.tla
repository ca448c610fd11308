----------------------------- MODULE NodeStores -----------------------------
(***************************************************************************)
(* The stores a node keeps one height apart from each other while it       *)
(* moves its tip: the coins, the permission ledger, the entity database    *)
(* and the wallet's transactions, each written by itself, and the          *)
(* transactions of the memory pool with the permission rows they put in    *)
(* memory.  Steps are the durable writes of DisconnectTip and ConnectTip   *)
(* in src/src/core/main.cpp; between two of them the node may crash, and a *)
(* start (LoadBlockIndexDB) finds whatever was written.                    *)
(*                                                                         *)
(* cs_main is free exactly when pc = "idle" and mode = "run".  A block     *)
(* that is not above the others does not replace the tip; the order        *)
(* of equal candidates is the subject of ChainSelection, the rows of one   *)
(* ledger that of Permissions and EntityStore.  Here a permission is the   *)
(* right of an address to send: the last row about it decides.  Entities   *)
(* have no rows of their own; their store is the list of its blocks.       *)
(* Rolling a store back is taken to succeed, as DisconnectTip and          *)
(* LoadBlockIndexDB do: they ignore the results.  A node whose flush of    *)
(* the coins fails shuts down at once.                                     *)
(***************************************************************************)
EXTENDS Integers, Sequences, FiniteSets, SequencesExt

CONSTANTS Blocks,       \* the blocks above genesis
          Branches,     \* the ways from genesis to genesis and to each block
          Content,      \* Content[b], the transactions of block b in their order
          BadMiners,    \* the blocks whose miner may not mine them
          Txs, Offered, \* the transactions, and those that come from wallets and peers
          Sender,       \* Sender[t], the address that signs t
          Inputs,       \* Inputs[t], the coins t spends
          Change,       \* Change[t], the right t gives or takes, or NoChange
          NameTaken,    \* the transactions that also issue an asset, under a name in use
          Holders,      \* the addresses that may send at genesis
          MaxCrashes, MaxFails      \* bounds: crashes, failing writes

NoChange == [who |-> "nobody", may |-> FALSE]

ASSUME BranchesAssumption ==
    /\ \A s \in Branches : s \in Seq(Blocks)
    /\ \A s \in Branches : s # <<>> =>
           Front(s) \in Branches /\ \A t \in Branches \ {<<>>, s} : Last(t) # Last(s)

\* A transaction has inputs (CheckTransaction, main.cpp:1162).
ASSUME StoresAssumption ==
    /\ \A b \in Blocks : Content[b] \in Seq(Txs)
    /\ BadMiners \subseteq Blocks /\ Offered \subseteq Txs /\ NameTaken \subseteq Txs
    /\ \A t \in Txs : Inputs[t] # {} /\ Sender[t] # NoChange.who
    /\ MaxCrashes \in Nat /\ MaxFails \in Nat

VARIABLES chain,        \* chainActive, as the blocks above genesis
          coins, perms, ents, wal,  \* the durable stores, as the blocks each has in
          have,         \* BLOCK_HAVE_DATA
          failed,       \* BLOCK_FAILED_MASK in memory
          marks,        \* ... and as last written
          pool,         \* hashList, for the transactions that are in mapTx
          mem,          \* the transactions whose permission rows are in memory
          unreplayed,   \* mem may have other rows than the pool's until the next replay
          detached,     \* the wallet failed after the coins were written
          pc,           \* the next write
          mode,         \* "run", or the part of LoadBlockIndexDB
          goal,         \* the branch of pindexMostWork
          oldHeight,    \* pindexOldTip->nHeight
          crashes, fails

stores == <<coins, perms, ents, wal>>
index == <<have, failed, marks>>
memory == <<pool, mem, unreplayed>>
vars == <<chain, stores, index, memory, detached, pc, mode, goal, oldHeight,
          crashes, fails>>

-----------------------------------------------------------------------------
(* Blocks, transactions and rights.                                        *)

Upto(store, height) == SubSeq(store, 1, IF height < Len(store) THEN height ELSE Len(store))
TxsOf(store) ==
    LET of[s \in Seq(Blocks)] ==
            IF s = <<>> THEN <<>> ELSE of[Front(s)] \o Content[Last(s)]
    IN  of[store]
\* the transactions of txs that are in this set, in their order
Among(txs, these) ==
    LET of[s \in Seq(Txs)] ==
            IF s = <<>> THEN <<>>
            ELSE IF Last(s) \in these THEN Append(of[Front(s)], Last(s)) ELSE of[Front(s)]
    IN  of[txs]

Writes(t) == Change[t] # NoChange
Holds(who, txs) ==
    LET about == {i \in DOMAIN txs : Change[txs[i]].who = who}
    IN  IF about = {} THEN who \in Holders
        ELSE Change[txs[CHOOSE i \in about : \A j \in about : j <= i]].may
Spent(txs) == UNION {Inputs[txs[i]] : i \in DOMAIN txs}
Rows(txs) == Among(txs, {t \in Txs : Writes(t)})

\* CheckInputs and AcceptMultiChainTransaction for t after txs, up to the issue of an
\* asset; and with it.
WritesAfter(t, txs) == Inputs[t] \cap Spent(txs) = {} /\ Holds(Sender[t], txs)
CanFollow(t, txs) == WritesAfter(t, txs) /\ t \notin NameTaken
\* ConnectBlock gets that far in the transactions of a block: all are valid, or
\* the one after these is not.
ValidPrefix(txs, before) ==
    CHOOSE n \in 0..Len(txs) :
        /\ \A i \in 1..n : CanFollow(txs[i], before \o SubSeq(txs, 1, i - 1))
        /\ n < Len(txs) => ~CanFollow(txs[n + 1], before \o SubSeq(txs, 1, n))

\* FindMostWorkChain: the branches whose last block may replace the tip.
MostWork ==
    LET usable == {s \in Branches : Range(s) \subseteq have \ failed}
        high   == {s \in usable : \A t \in usable : Len(t) <= Len(s)}
    IN  IF chain \in high THEN {} ELSE high

\* The rows ConnectBlock leaves in memory when it rejects the transaction after the
\* first n.  AcceptAssetGenesis has set the checkpoint again when the issue fails:
\* the rows of that transaction stay.
RowsLeft(txs, n, before) ==
    Rows(SubSeq(txs, 1, IF WritesAfter(txs[n + 1], before \o SubSeq(txs, 1, n))
                        THEN n + 1 ELSE n))

-----------------------------------------------------------------------------
(* The memory pool.                                                        *)

\* Mutation: a transaction is not rejected by the replay.
MayWriteAlways(t, rows) == TRUE
MayWrite(t, rows) == Holds(Sender[t], TxsOf(perms) \o rows)
\* ReplayMemPool: a transaction that writes rows is checked again and its rows go
\* back to memory; MempoolPermissionsCheck has no rows to check for another, since
\* nothing sets m_CheckForMempoolFlag.
ReplayOne(acc, t) ==
    IF ~Writes(t) THEN [pool |-> Append(acc.pool, t), mem |-> acc.mem]
    ELSE IF MayWrite(t, acc.mem)
         THEN [pool |-> Append(acc.pool, t), mem |-> Append(acc.mem, t)]
         ELSE acc
Replay(txs, rows) ==
    LET of[s \in Seq(Txs)] ==
            IF s = <<>> THEN [pool |-> <<>>, mem |-> rows]
            ELSE ReplayOne(of[Front(s)], Last(s))
    IN  of[txs]

\* AcceptToMemoryPool for t after the pool's transactions txs and with these rows
\* in memory.
Acceptable(t, txs, rows) ==
    /\ t \notin Range(txs) /\ t \notin Range(TxsOf(coins))
    /\ Inputs[t] \cap (Spent(TxsOf(coins)) \cup Spent(txs)) = {}
    /\ Holds(Sender[t], TxsOf(perms) \o rows)

\* The block's transactions, as DisconnectTip takes them back.
ResurrectOne(acc, t) ==
    IF Acceptable(t, acc.pool \o pool, acc.mem) /\ t \notin NameTaken
    THEN [pool |-> Append(acc.pool, t),
          mem |-> IF Writes(t) THEN Append(acc.mem, t) ELSE acc.mem]
    ELSE acc
Resurrect(txs, rows) ==
    LET of[s \in Seq(Txs)] ==
            IF s = <<>> THEN [pool |-> <<>>, mem |-> rows]
            ELSE ResurrectOne(of[Front(s)], Last(s))
    IN  of[txs]
\* Mutation: they come after those of the pool.
TakenBackLast(txs) ==
    LET kept == Replay(pool, mem) back == Resurrect(txs, kept.mem)
    IN  [pool |-> kept.pool \o back.pool, mem |-> back.mem]
\* ... before those that are in the pool.
TakenBack(txs) ==
    LET back == Resurrect(txs, mem) kept == Replay(pool, back.mem)
    IN  [pool |-> back.pool \o kept.pool, mem |-> kept.mem]

\* removeForBlock and removeConflicts.
WithoutBlock(txs) ==
    Among(pool, {t \in Txs : t \notin Range(txs) /\ Inputs[t] \cap Spent(txs) = {}})

\* Bound: a transaction that leaves its rows comes once until they are gone.
AcceptToMemoryPool(t) ==
    /\ pc = "idle" /\ mode = "run" /\ ~detached
    /\ Acceptable(t, pool, mem)
    /\ mem' = IF Writes(t) THEN Append(mem, t) ELSE mem
    /\ IF t \in NameTaken
       THEN Writes(t) /\ t \notin Range(mem) /\ unreplayed' = TRUE /\ UNCHANGED pool
       ELSE pool' = Append(pool, t) /\ UNCHANGED unreplayed
    /\ UNCHANGED <<chain, stores, index, detached, pc, mode, goal, oldHeight, crashes,
                   fails>>

-----------------------------------------------------------------------------
(* ActivateBestChain and ActivateBestChainStep.                            *)

\* The data of the last block of a branch comes, its parent's before it.
Receive(s) ==
    /\ pc = "idle" /\ mode = "run"
    /\ s # <<>> /\ Last(s) \notin have /\ Range(Front(s)) \subseteq have
    /\ have' = have \cup {Last(s)}
    /\ UNCHANGED <<chain, stores, failed, marks, memory, detached, pc, mode, goal,
                   oldHeight, crashes, fails>>

\* What the step does when the tip is c; connected tells that a block came on.
NextWrite(c, to, connected) ==
    CASE ~IsPrefix(c, to) -> "coinsBack"
      [] IsStrictPrefix(c, to) /\ ~(connected /\ Len(c) > oldHeight') -> "connect"
      [] OTHER -> "finish"

Begin(s) ==
    /\ pc = "idle" /\ mode \in {"run", "up"}
    /\ coins = chain
    /\ goal' = s
    /\ oldHeight' = Len(chain)
    /\ pc' = NextWrite(chain, s, FALSE)
    /\ UNCHANGED <<chain, stores, index, memory, detached, mode, crashes, fails>>

\* The coins are not those of the tip: the assertions of DisconnectBlock and
\* ConnectBlock abort the process ...
BeginAborts ==
    /\ pc = "idle" /\ mode \in {"run", "up"}
    /\ MostWork # {} /\ coins # chain
    /\ pc' = "down"
    /\ UNCHANGED <<chain, stores, index, memory, detached, mode, goal, oldHeight,
                   crashes, fails>>

\* ... unless the block to connect is the one the permission ledger already has:
\* its miner waits for others now, and CheckBlockPermissions comes first.
BeginRejects(s) ==
    /\ pc = "idle" /\ mode \in {"run", "up"}
    /\ coins # chain
    /\ IsPrefix(coins, s) /\ perms = coins
    /\ failed' = failed \cup {Last(coins)}
    /\ UNCHANGED <<chain, stores, have, marks, memory, detached, pc, mode, goal,
                   oldHeight, crashes, fails>>

DisconnectCoins ==
    /\ pc = "coinsBack"
    /\ coins' = Front(chain)
    /\ marks' = failed
    /\ pc' = "permsBack"
    /\ UNCHANGED <<chain, perms, ents, wal, have, failed, memory, detached, mode, goal,
                   oldHeight, crashes, fails>>

DisconnectPermissions ==
    /\ pc = "permsBack"
    /\ perms' = Upto(perms, Len(chain) - 1)
    /\ mem' = <<>>
    /\ pc' = "entsBack"
    /\ UNCHANGED <<chain, coins, ents, wal, index, pool, unreplayed, detached, mode, goal,
                   oldHeight, crashes, fails>>

DisconnectEntities ==
    /\ pc = "entsBack"
    /\ ents' = Upto(ents, Len(chain) - 1)
    /\ pc' = "walletBack"
    /\ UNCHANGED <<chain, coins, perms, wal, index, memory, detached, mode, goal,
                   oldHeight, crashes, fails>>

DisconnectWallet ==
    /\ pc = "walletBack"
    /\ wal' = Upto(wal, Len(chain) - 1)
    /\ LET all == TakenBack(Content[Last(chain)])
       IN  pool' = all.pool /\ mem' = all.mem
    /\ unreplayed' = FALSE
    /\ chain' = Front(chain)
    /\ oldHeight' = oldHeight
    /\ pc' = NextWrite(Front(chain), goal, FALSE)
    /\ UNCHANGED <<coins, perms, ents, index, detached, mode, goal, crashes, fails>>

\* The block that ConnectTip connects, and a block that is invalid: the step ends
\* without replaying the pool.
Coming == goal[Len(chain) + 1]
Refuse == failed' = failed \cup {Coming} /\ pc' = "idle"

ConnectBarred ==
    /\ pc = "connect" /\ Coming \in BadMiners
    /\ Refuse
    /\ UNCHANGED <<chain, stores, have, marks, memory, detached, mode, goal, oldHeight,
                   crashes, fails>>

\* What ConnectBlock checks a block against: it clears the rows in memory first.
\* Mutation: it does not.
CheckedAgainstPool == TxsOf(perms) \o mem
CheckedAgainst == TxsOf(perms)

\* ConnectBlock, up to the commit of the permission ledger.
ConnectPermissions ==
    /\ pc = "connect" /\ Coming \notin BadMiners
    /\ LET txs  == Content[Coming]
           good == ValidPrefix(txs, CheckedAgainst)
       IN  \/ /\ good = Len(txs)
              /\ perms' = Append(perms, Coming) /\ mem' = <<>> /\ unreplayed' = TRUE
              /\ pc' = "entsCommit"
              /\ UNCHANGED <<failed, fails>>
           \/ /\ good < Len(txs)
              /\ mem' = RowsLeft(txs, good, CheckedAgainst) /\ unreplayed' = TRUE
              /\ Refuse
              /\ UNCHANGED <<perms, fails>>
           \/ /\ good = Len(txs) /\ fails < MaxFails
              /\ fails' = fails + 1
              /\ mem' = Rows(txs) /\ unreplayed' = TRUE
              /\ Refuse
              /\ UNCHANGED perms
    /\ UNCHANGED <<chain, coins, ents, wal, have, marks, pool, detached, mode, goal,
                   oldHeight, crashes>>

\* The entities; when they fail, RollBack() of the permission ledger.
ConnectEntities ==
    /\ pc = "entsCommit"
    /\ \/ /\ ents' = Append(ents, Coming)
          /\ pc' = "coinsCommit"
          /\ UNCHANGED <<perms, failed, mem, unreplayed, fails>>
       \/ /\ fails < MaxFails
          /\ fails' = fails + 1
          /\ perms' = Upto(perms, Len(perms) - 1) /\ mem' = <<>> /\ unreplayed' = TRUE
          /\ Refuse
          /\ UNCHANGED ents
    /\ UNCHANGED <<chain, coins, wal, have, marks, pool, detached, mode, goal, oldHeight,
                   crashes>>

\* FlushStateToDisk; when it fails the node shuts down, and writes what it can.
ConnectCoins ==
    /\ pc = "coinsCommit"
    /\ \/ /\ coins' = Append(chain, Coming) /\ marks' = failed
          /\ pc' = "walletCommit"
          /\ UNCHANGED fails
       \/ /\ fails < MaxFails
          /\ fails' = fails + 1
          /\ coins' \in {chain, Append(chain, Coming)} /\ marks' \in {marks, failed}
          /\ pc' = "down"
    /\ UNCHANGED <<chain, perms, ents, wal, have, failed, memory, detached, mode, goal,
                   oldHeight, crashes>>

\* The wallet; when it fails ConnectTip returns before UpdateTip.
ConnectWallet ==
    /\ pc = "walletCommit"
    /\ pool' = WithoutBlock(Content[Coming])
    /\ oldHeight' = oldHeight
    /\ \/ /\ wal' = Append(wal, Coming)
          /\ chain' = coins
          /\ pc' = NextWrite(coins, goal, TRUE)
          /\ UNCHANGED <<detached, fails>>
       \/ /\ fails < MaxFails
          /\ fails' = fails + 1
          /\ detached' = TRUE
          /\ pc' = "idle"
          /\ UNCHANGED <<wal, chain>>
    /\ UNCHANGED <<coins, perms, ents, index, mem, unreplayed, mode, goal, crashes>>

\* The end of ActivateBestChainStep when no block was invalid.
EndStep(next) ==
    /\ pc = "finish"
    /\ LET all == Replay(pool, <<>>) IN pool' = all.pool /\ mem' = all.mem
    /\ unreplayed' = FALSE
    /\ pc' = "idle"
    /\ mode' = next
    /\ UNCHANGED <<chain, stores, index, detached, goal, oldHeight, crashes, fails>>
\* Mutation: SetLastBlock does not go up again.
FinishStaysShifted == EndStep(mode)
\* Going back to the lowest store is over: SetLastBlock(0) activates the best chain.
Finish == EndStep(IF mode = "shift" THEN "up" ELSE mode)

-----------------------------------------------------------------------------
(* A crash, and LoadBlockIndexDB.                                          *)

Crash ==
    /\ pc # "down"
    /\ crashes < MaxCrashes
    /\ crashes' = crashes + 1
    /\ pc' = "down"
    /\ UNCHANGED <<chain, stores, index, memory, detached, mode, goal, oldHeight, fails>>

\* The chain is that of the coins.  If the heights of the stores tell they are not
\* of one block, and one of them is below the chain, SetLastBlock goes back to the
\* lowest and then up again; otherwise only the roll back of the others is left.
StartFrom(heights) ==
    /\ pc = "down"
    /\ chain' = coins
    /\ failed' = marks
    /\ pool' = <<>> /\ mem' = <<>> /\ unreplayed' = FALSE /\ detached' = FALSE
    /\ oldHeight' = Len(coins)
    /\ LET lowest == CHOOSE h \in heights : \A k \in heights : h <= k
       IN  IF lowest < Len(coins)
           THEN /\ goal' = SubSeq(coins, 1, lowest)
                /\ mode' = "shift" /\ pc' = "coinsBack"
           ELSE goal' = goal /\ mode' = "trim" /\ pc' = "idle"
    /\ UNCHANGED <<stores, have, marks, crashes, fails>>
\* Mutation: the wallet's height is not asked for.
StartIgnoresWallet == StartFrom({Len(perms), Len(ents)})
Start == StartFrom({Len(perms), Len(ents), Len(wal)})

\* SetLastBlock(0) has nothing to do any more, or failed.
UpDone ==
    /\ pc = "idle" /\ mode = "up" /\ (MostWork = {} \/ detached)
    /\ mode' = "trim"
    /\ UNCHANGED <<chain, stores, index, memory, detached, pc, goal, oldHeight, crashes,
                   fails>>

TrimPermissions ==
    /\ pc = "idle" /\ mode = "trim"
    /\ perms' = Upto(perms, Len(chain))
    /\ mem' = <<>> /\ unreplayed' = (unreplayed \/ pool # <<>>)
    /\ mode' = "trimEnts"
    /\ UNCHANGED <<chain, coins, ents, wal, index, pool, detached, pc, goal, oldHeight,
                   crashes, fails>>

TrimEntities ==
    /\ pc = "idle" /\ mode = "trimEnts"
    /\ ents' = Upto(ents, Len(chain))
    /\ mode' = "trimWallet"
    /\ UNCHANGED <<chain, coins, perms, wal, index, memory, detached, pc, goal, oldHeight,
                   crashes, fails>>

TrimWallet ==
    /\ pc = "idle" /\ mode = "trimWallet"
    /\ wal' = Upto(wal, Len(chain))
    /\ mode' = "run"
    /\ UNCHANGED <<chain, coins, perms, ents, index, memory, detached, pc, goal, oldHeight,
                   crashes, fails>>

-----------------------------------------------------------------------------
Init ==
    /\ chain = <<>> /\ coins = <<>> /\ perms = <<>> /\ ents = <<>> /\ wal = <<>>
    /\ have = {} /\ failed = {} /\ marks = {}
    /\ pool = <<>> /\ mem = <<>> /\ unreplayed = FALSE /\ detached = FALSE
    /\ pc = "idle" /\ mode = "run" /\ goal = <<>> /\ oldHeight = 0
    /\ crashes = 0 /\ fails = 0

Disconnect == \/ DisconnectCoins \/ DisconnectPermissions
              \/ DisconnectEntities \/ DisconnectWallet
Connect == \/ ConnectBarred \/ ConnectPermissions \/ ConnectEntities
           \/ ConnectCoins \/ ConnectWallet
Load == Start \/ UpDone \/ TrimPermissions \/ TrimEntities \/ TrimWallet
Work == \/ \E s \in MostWork : Begin(s) \/ BeginRejects(s)
        \/ BeginAborts \/ Disconnect \/ Connect \/ Finish \/ Load

Next == \/ \E t \in Offered : AcceptToMemoryPool(t)
        \/ \E s \in Branches : Receive(s)
        \/ Work
        \/ Crash

Spec == Init /\ [][Next]_vars
FairSpec == Spec /\ WF_vars(Work)

-----------------------------------------------------------------------------
Running == pc = "idle" /\ mode = "run"

\* After any crashes, failed writes and invalid blocks, a running node has the four
\* stores at its tip; only a wallet that failed leaves it otherwise, until the next
\* start (main.cpp:2584, 2860 and 5027).
StoresAgree ==
    Running /\ ~detached => coins = chain /\ perms = chain /\ ents = chain /\ wal = chain

\* Unless a rejected block or transaction left its rows, a refused block ended a step
\* that had connected another, or a start dropped those of the transactions it took
\* back, the rows in memory are those of the pool, in its
\* order, each written by an address that could write it there; and the pool spends
\* no coin twice (main.cpp:3253, ReplayMemPool).
RowsAreThePools ==
    Running /\ ~detached /\ ~unreplayed =>
        /\ mem = Rows(pool)
        /\ \A i \in DOMAIN mem : Holds(Sender[mem[i]], TxsOf(chain) \o SubSeq(mem, 1, i - 1))
        /\ \A i \in DOMAIN pool :
               Inputs[pool[i]] \cap Spent(TxsOf(chain) \o SubSeq(pool, 1, i - 1)) = {}

\* Whatever is in the pool and wherever reorganisations and starts left the ledger,
\* a block is judged by its own branch: those of the active chain break no rule, and
\* without failing writes only a block that does is marked (ConnectBlock).
BreaksNoRule(s) ==
    /\ Last(s) \notin BadMiners
    /\ LET txs == Content[Last(s)] IN ValidPrefix(txs, TxsOf(Front(s))) = Len(txs)
VerdictsOfTheBranch ==
    \A s \in Branches \ {<<>>} :
        /\ Last(s) \in Range(chain) => BreaksNoRule(s)
        /\ Last(s) \in failed /\ fails = 0 => ~BreaksNoRule(s)

\* Disconnecting a block loses none of its transactions and none of the pool's: those
\* of the block come first, with the rights they give (main.cpp:2754, shiftHashList).
DisconnectKeepsAll ==
    [][pc = "walletBack" /\ pc' # "down" /\ ~unreplayed =>
           Range(pool) \cup Range(Content[Last(chain)]) \subseteq Range(pool')]_vars

\* A node that went down runs again.
RecoveryEnds == (pc = "down") ~> Running

\* CreateNewBlock takes the pool in its order, and ConnectBlock accepts that.
TemplateIsValid ==
    Running /\ ~detached /\ ~unreplayed =>
        ValidPrefix(pool, TxsOf(chain)) = Len(pool)
=============================================================================
