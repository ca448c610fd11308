# Amberchain in TLA+

Specifications of the core of Amberchain, a permissioned blockchain node
(C++, derived from MultiChain and Bitcoin Core): TLA+ modules translated from
the source, TLC configurations that check them on small instances, and proofs
checked by TLAPS. Paths are relative to the root of the repository, so the code
is under `src/src/`.

## 1. The system

A node holds a chain of blocks. Which addresses may connect, send, issue, mine
or administrate is itself decided by transactions in the chain; each node
replays them into a *permission ledger*. Everything that changes chain state
runs under the lock `cs_main`; inside it, `ConnectBlock` drives the components
below.

| Component | State | Operations | Interacts with |
|---|---|---|---|
| Permission ledger `permissions/permission.cpp` | rows in a file, index in a database, rows in memory, counts | grant, checkpoint, copy/restore, commit, roll back, queries | called by transaction acceptance and `ConnectBlock`/`DisconnectTip` |
| Its two stores | `permissions.dat` and `permissions.db` on disk | commit, roll back, repair at start | the process may end between two writes |
| Mining diversity (same file) | nothing of its own | `CanMine`, `IsBarredByDiversity`, `GetActiveMinerCount` | read by block checking and by the miner thread |
| Miner verification on forks `protocol/multichainblock.cpp` | the ledger moved to a fork point, and back | `VerifyBlockMiner` | uses the same permission object |
| Script check queue `checkqueue.h` | queue, counters, verdict; N worker threads | `Add`, `Wait`, `Thread`, the RAII control | `ConnectBlock` is its master |
| Chain activation `core/main.cpp` | block index, active chain, coins view | connect/disconnect tip, find best chain, start-up alignment | all stores |
| Transaction acceptance `protocol/multichaintx.cpp` | none | checks a transaction, grants, issues | ledger, entity database, coins |
| Memory pool and replay `chain/txmempool.cpp`, `protocol/multichainblock.cpp` | transactions and their order | add, remove, replay after every block | ledger, entity database, wallet |
| Entity database `entities/asset.cpp` | ledger file and database of assets, streams, upgrades | insert, commit, roll back | committed next to the permissions |
| Coins views `storage/coins.cpp`, `storage/txdb.cpp` | cached outputs over LevelDB | fetch, modify, flush | block connection |
| Address manager `storage/addrman.cpp` | buckets of known peers | add, good, attempt, select | connection threads |
| Connections and message loop `net/net.cpp` | sockets, buffers, outbound slots | connect, send, receive | message processing |
| Handshake `protocol/handshake.cpp`, `protocol/netprotocol.cpp` | per-peer handshake | verack/verackack | permission to connect |
| Block download, messages `core/main.cpp` | blocks in flight, orphans | per-message handlers | everything under `cs_main` |
| Miner `miner/miner.cpp` | pacing state | create and submit a block | diversity, chain |
| Wallet `wallet/` | keys, its own transaction database | add transaction, commit, roll back | chain callbacks |
| Start and shutdown `core/init.cpp` | threads | start, interrupt | all |
| Scripts, crypto, serialization, parameters, RPC, vendored LevelDB/secp256k1/json | mostly none | pure functions, I/O | used by the above |

What makes it hard: worker threads and interruption in the check queue; a
ledger whose rows are in memory, in a file and in a database at once, and must
agree after any sequence of grants, failed transactions, abandoned and
disconnected blocks; two files that are not written atomically; votes of
administrators that may be repeated, changed or out of order; integer
arithmetic on counts that decides who may mine. `PROJECT.json` lists each
hazard at its line with the properties that look for it.

What makes each component correct, in a sentence:

- check queue: `Wait()` returns the conjunction of the block's checks, always
  returns, and leaves the queue as it found it;
- permission ledger: links, database, memory and counts describe one and the
  same history, a rollback restores exactly an earlier one, and a decision by
  consensus has as many administrators behind it as it needed;
- its stores: after a crash the node either has the ledger its database
  describes or refuses to start;
- diversity: every miner waits its share, and somebody can always mine;
- miner verification: afterwards the ledger is exactly as before;
- chain activation: the active chain has the most work of those the node may
  follow, and all stores are at its tip;
- memory pool: what is in the pool is valid on top of the chain, and the
  ledger's rows in memory are those of the pool;
- entity database: the chain of issues of each asset, its total and the entities its
  keys lead to are those of the blocks, before and after any rollback;
- coins view: a cache over a store is a map; address manager: its indices
  agree; handshake: nobody without the permission becomes a peer.

## 2. Modules

| Module | What it is | Code it stands for |
|---|---|---|
| `CheckQueue` | check queue and control, all threads | `checkqueue.h` |
| `Permissions` | `mc_Permissions` as used by one caller at a time | `permission.cpp` grants, consensus, pool, commit, rollback |
| `PermissionHistory` | what the ledger promises (abstract) | |
| `PermissionsProofs` | the rows of a key are linked, the database names the last one; counts, consensus, and the ledger implements the history | |
| `PermissionRecovery` | file and database across crashes | `CommitInternal`, `RollBackInternal`, `Initialize` |
| `PermissionRecoveryProofs` | inductive invariant and four theorems | |
| `MinerDiversity` | who may mine next | `CanMine`, `IsBarredByDiversity`, `GetActiveMinerCount` |
| `StandaloneProofs` | theorems about the two components that stand by themselves: five about `CheckQueue`, three about `MinerDiversity` (the chain is never stuck, miners wait their share) | |
| `OrderLemmas` | minima, maxima, prefixes, recursion: shared by the proofs | |
| `MinerVerification` | the permission object moved to a fork and back | `VerifyBlockMiner`, the fork mode of `permission.cpp`, its callers in `main.cpp` |
| `MinerVerificationProofs` | an inductive invariant and five theorems | |
| `ChainSelection` | block index, candidates and choice of the tip | `main.cpp`: `ActivateBestChain`, `FindMostWorkChain`, `InvalidateBlock`, `SetLastBlock` |
| `ChainSelectionProofs` | six inductive invariants and five theorems | |
| `EntityStore` | assets, follow-on issues and streams on disk and in memory | `entities/asset.cpp` |
| `EntityStoreProofs` | two inductive invariants and five theorems | |
| `NodeStores` | coins, permissions, entities, wallet and memory pool around one tip | `main.cpp`: `ConnectTip`, `DisconnectTip`, `LoadBlockIndexDB`; `ReplayMemPool` |
| `NodeStoresProofs` | three inductive invariants and five theorems | |
| `MC*` | TLC instances: symmetry, views, constraints | |

`PROJECT.json` maps every definition to its lines. Operators commented
"Mutation" are plausible bugs in the definition that follows them; nothing uses
them except to show that each property can fail.

How they fit together: `Permissions`, `PermissionRecovery`, `EntityStore` each
take one store apart; `NodeStores` composes what they promise (a store is the
list of blocks it has, a commit adds one, a rollback cuts back to a height) with
the coins, the wallet and the memory pool. `ChainSelection` decides which tip to
go to, `NodeStores` takes the stores there, and `MinerVerification` and
`MinerDiversity` are the rules about miners the choice has to respect.

### CheckQueue

State: the fields of `CCheckQueue` under their names, one program counter per
thread, each thread's `vChecks` (`taken`, and `left` for those not looked at)
and local `fOk`. A step is one critical section of `mutex`, or one `check()`
outside it. A critical section begins in one of three ways (first iteration,
return of `cond.wait`, clean-up of a batch) and ends in one of three (`Take`,
`Leave`, `Sleep`), as the loop does. Interruption is part of it: at shutdown
workers end in `cond.wait`, where boost throws, with the counters as they are;
when the interrupted thread is the master the exception leaves `Wait()` before
`fDone` is set and the destructor of the control calls `Wait()` again.
Spurious wake-ups are allowed. The batch is any set of the right size, since
the code says that the order is of no importance.

### Permissions

State: the ledger file as a sequence (`ledger`), the database as a function
from keys to entries (`db`), the list of keys ever granted (`listed`), the rows
in memory (`m_MemPool`), the counts, the cleared counts, checkpoint and copy.
A key is (address, type); block rows have types of their own, as in the code.
Row numbers are kept, because links between rows are row numbers and rows move
from memory to the file under the same number.

A step is one call, which holds the class's lock. All callers that change
state hold `cs_main`, so two of them never interleave, but one caller makes
several calls; `call` records how far it is and thereby which calls may come
next: `AcceptMultiChainTransaction` begins with a checkpoint and ends by
keeping or going back; `CheckBlockPermissions` copies, clears, checks and
restores; `ConnectBlock` clears, accepts transactions, then commits or gives
up. Failure paths: rejected transaction, abandoned block, ledger that cannot
be opened, database that refuses the batch.

`VerifyConsensus` is a loop over the linked rows with a counter that goes up
and down. The model states what it computes: enough administrators whose
latest vote among the rows read so far is for the new range, for some extent of
the walk. That the links lead to exactly the rows of the key, which the
statement relies on, is the invariant `LinkInv`.

Left out: entities other than the null entity (their rows are other keys of the
same kind), upgrade approvals, flags and offsets of rows, the block flags of
`CalculateBlockFlags`, the reports, and the fork mode (`m_CopiedRow > 0`), which
is `MinerVerification`. Rows kept in the file behind the end of the ledger are not in `ledger`; nothing
reads them before a restart.

### PermissionHistory

The abstract specification: a sequence `past` of the permissions after each
block, the permissions now, and the numbers of administrators and miners.
`Connect` appends, `Disconnect(n)` cuts back. `Permissions` implements it under
the mapping `History` (property `ImplementsHistory`): `past` is read off the
ledger, `now` off the database, the numbers off the cleared counts. Every call
but commit and rollback is a stuttering step.

### PermissionRecovery

State: the ledger file with its header (row 0) and its stale rows, the header
values in the database (row with the zero key), the rows the database was made
from, the memory, and where the process is. `Commit` is split at every write:
rows one by one, header, batch, the counts in the two block rows. `RollBack` is
batch, then header. `Crash` may happen between any two, also during start-up.
`Repair` and `Open` are `Initialize`. A row is reduced to height, branch,
whether it is the index row, and whether its counts are written.

### MinerDiversity

State: for each block its miner and the holders of "mine" after it, which is
what the database and the cleared count amount to between two calls
(`Permissions` shows that they agree). `Share` has the C++ arithmetic: int
product with wrap-around at `IntMax`, division towards zero. Any set of holders
may come out of a block, so every grant, revocation and expiry is covered.

### MinerVerification

State: the tree of blocks with miners and grants, what is known of each (data,
failed, `fPassedMinerPrecheck`, the record in the permission database), the
permission object with its ledger rows, rows in memory and counts, the copy made
before a verification, and the loop of `VerifyBlockMiner` (`job`). One step is
one block of that loop; around it blocks arrive (`AcceptBlock`), candidates are
checked (`FindMostWorkChain`), blocks are connected and disconnected, unconfirmed
grants come and the node restarts. What a branch gives is defined by recursion
along it (`After`, `Valid`) and the object is compared with that.

### ChainSelection

State: for each block whether its data came, whether it is linked, failed or
checked, its sequence number and `nCanMine`; `mapBlocksUnlinked`; the candidates.
`setBlockIndexCandidates` is a `std::set` whose order depends on `nCanMine`,
which the code changes under it, so the set is modelled as the sequence its
iterators walk, with the search going wrong where it is not sorted. `op` and
`caller` say where in `ActivateBestChain` or `SetLastBlock` the holder of
`cs_main` is. An instance has scenarios: which blocks break a rule, which arrive,
and what else may happen (operator's calls, wallet keys, restart).

### EntityStore

State: the file with its header and the rows behind its end, the database with
its header, memory, and `chain`, the issues of the blocks, which no action reads
and the properties compare everything with. `Commit` and `RollBack` are split
where the process or a write may fail. A row keeps the links of the code
(`m_FirstPos`, `m_LastPos`, `m_ChainPos`) as positions. `batch` is what the database
is to be when its write batch is written: a rollback that stops in the middle leaves
its deletions there for the next commit. A follow-on may have any name in its details,
as the code stores them unchecked; nothing is filed under it, and a rollback of the
follow-on deletes it (finding 16). `dropped` keeps, for the properties, the names that
went with follow-ons of other assets.

### NodeStores

State: the active chain and, for each durable store, the blocks it has; marks of
invalid blocks in memory and on disk; the pool in its order; the transactions
whose permission rows are in memory. `pc` is the next write of `DisconnectTip`
(coins, permissions, entities, wallet) or `ConnectTip` (permissions, entities,
coins, wallet); between any two the process may crash, and each commit may fail
with the error path the code has: a refused permission batch or entity commit
makes the block "invalid" and the step ends without a replay of the pool, a failed
flush shuts the node down, a failed wallet write leaves `ConnectTip` before
`UpdateTip` (`detached`). `mode` is where a start is: `shift` (going back to the
lowest store by `SetLastBlock`), `up` (activating again) and `trim...` (rolling
back what is left above the chain). A right is reduced to the last row about it.
`unreplayed` marks the states in which the code has left rows of a rejected block
or transaction in memory, or lost some, until the next replay; the run shows that
a replay puts that right.

## 3. Runs

| Run | Instance | Shows |
|---|---|---|
| `check_queue` | 2 workers, 4 checks, batches of at most 2 | counters, verdict, idle assertion, lifetime of checks; `Wait()` terminates |
| `permissions` | 2 addresses, admin and mine, a permission for one block, 3 heights | database, counts, refinement of the history |
| `permissions_consensus` | 3 administrators, one permission voted on, 3 votes, 2 timestamps | consensus, links |
| `permission_recovery` | 3 heights, 2 branches, blocks of 0 or 3 grants | recovery |
| `permission_recovery_repair` | the same | finding: repair refuses |
| `miner_diversity` | 4 miners, share 1/2, 4 heights | spacing, somebody can mine |
| `miner_diversity_int` | 9 miners, an int of six bits | finding: overflow |
| `miner_verification` | 2 addresses, a chain of 2 and a branch of 3, grants on both | the object on a fork and afterwards, verdicts, the active chain |
| `chain_selection` | 4 blocks on 2 branches, invalid ones, calls, a restart | candidates, most work, loops end |
| `entity_store` | 4 transactions, a name, 3 heights, a crash and a refused write | chains, totals, keys, stores |
| `node_stores` | 6 blocks on 3 branches, 7 transactions, 2 crashes, 2 failing writes | stores at the tip, rows of the pool, verdicts, nothing lost, recovery ends |
| `node_stores_template` | the same tree, no failures | finding: template with a transaction that lost its right |

Why the bounds are enough to be interesting:

- `check_queue`: 4 checks, 2 workers and a batch size of 2 give batches of one
  and of several, a worker idle while another holds the last batch, two
  `Add`s in one round, and rounds after a failed or interrupted one.
- `permissions`: five rows past the genesis hold two grants and the two block
  rows of two blocks, so keys have chains of links across memory and file, and
  a rollback removes several rows of one key. `MaxRow` bounds row numbers of
  grants, `MaxPool` those in memory, `MaxBlock` the height.
- `permissions_consensus`: three administrators at a share of 0.6 need two
  votes. The constraint `VotesAfterGenesis` fixes what the run is not about:
  genesis makes everybody an administrator, later votes are about one key.
- `permission_recovery`: two branches and two lengths are what it takes for
  the file to hold stale rows of another branch, higher and lower than the
  ledger; the number of crashes is not bounded.
- `miner_diversity`: the setup period, and spacing of 1 and 2, the cap at the
  number of miners, and the return of a miner after revocations.
- `miner_diversity_int`: the values are scaled; with the real ones
  (`INT_MAX`, 1000000, 0.6) the product overflows from 3580 miners on.
- `miner_verification`: a branch one longer than the chain, so that it is
  checked, replaces the chain and may be left again; all miners of all blocks; the
  three choices of grants make a miner on both branches at different heights, move
  the right on the branch alone, and let an address grant that is an administrator
  on the chain only. Data arrives in every order.
- `chain_selection`: a branch of three against one of one gives blocks waiting two
  levels deep, an invalid block in the middle of a reorganisation and a tip that
  was pruned. With the operator's calls there are three blocks; `MaxCalls`,
  `MaxWallet` and `MaxRestarts` bound what happens besides.
- `entity_store`: an asset with two or three follow-ons and a stream in up to three
  heights, whichever of them carries the name; four issues of one unit each exceed
  `MaxQuantity`, which is three; `MaxFailPool` bounds the rows in memory
  when a write fails. `MaxBlock`, `MaxPool`, `MaxCrashes` and `MaxFailures` bound
  the rest.
- `node_stores`: two branches of two blocks and one of three, one with an invalid
  transaction after a valid one and one with a barred miner in the middle, so that
  reorganisations succeed, fail halfway and return, also after the first block of a
  step was connected and the second refused; two crashes let a start crash
  as well, and two failing writes let the first be followed by another. The pool
  has a grant, what depends on it, a grant in conflict with a block, and an issue
  that fails after its rows were written.

Symmetry is under permutation of workers and checks, addresses, branches, miners,
or transactions and names, none of which any definition or property of the run
tells apart; runs with a liveness property use none. `MCView` drops a
checkpoint or copy nobody can go back to, and in `MCEntityStore` the rows behind the
end of the ledger, which nothing reads while `StoresAgree` holds.

Deadlock is not checked where the system may stop: a node that is shut down
(every thread "gone"), a node that refuses to start, or one at the bounds of its
instance with nothing left to arrive. It is checked in `miner_diversity`.

Fairness is assumed for liveness alone. `CheckQueue`: weak fairness of each
thread's steps. The operating system runs a thread that is not blocked, and
`mutex` is held only for the short sections that are steps here; `ConnectBlock`
always reaches `Wait()` or the destructor that calls it. No fairness is given to
`Control`, `Add`, interruption or spurious wake-ups. `ChainSelection` and
`NodeStores`: weak fairness of the steps of a call that has begun (`Work`), since
one thread runs it holding `cs_main`; in `NodeStores` that includes the start of a
node that went down. None for blocks and transactions that arrive, crashes or the
operator's calls.

## 4. Findings

Each has a run that shows it:

1. *Repair looks from the end of the file.* `Initialize` searches for the end
   of the database's block from the last row of the file
   (`permission.cpp:431`, `m_Row=ledger_size`), not of the ledger. When a block with
   grants was rolled back and a shorter one of the same height was committed, stale
   rows lie there that were received at a height the database has. If the next
   commit, or the rollback of a later block, is then cut between its header and its
   batch, the search ends on the stale rows, the row numbers differ and the node
   refuses to start with "Database corrupted, rows", though both stores are intact.
   A crash while the shorter block itself is committed is harmless: the stale rows
   are above the database's height and the search passes over them. `RefusesOnlyOverStaleRows` shows that this is the
   only reason for a refusal.
2. *The spacing overflows.* `miner_count*diversity` is an int
   (`permission.cpp:1599`); with thousands of miners the spacing becomes one
   block, against "Miners must wait <mining-diversity>*<active miners> between
   blocks." (`paramlist.h:106`). `DiversityLeavesMiners` shows that even then
   the chain is not stuck.
3. *Plain transactions are not checked again.* The replay of the pool checks a
   transaction that changes no permission by `MempoolPermissionsCheck`, over a
   list nothing ever fills: `m_CheckForMempoolFlag` is 0 from `permission.cpp:294`
   on. A payment whose sender lost the right to send stays in the pool and
   `CreateNewBlock`, which has to "ensure that the block we create only contains
   transactions that are valid in new blocks" (`miner.cpp:557`), takes it;
   `TestBlockValidity` is skipped by default. The miner's block is invalid.

Met while modelling and translated as the code has it; the passing properties
exclude the situations, which their comments name:

4. `main.cpp:3333`: `nCanMine` of the tip changes while the tip is an element of
   the set it sorts. With a wallet whose mining right changes from tip to tip a
   search may miss an element, a higher valid branch may be dropped
   (`TipBestWork` holds without wallet changes), and `setlastblock` may empty the
   set, against the assertion of `PruneBlockIndexCandidates`.
5. `main.cpp:3774`: "add them again" (3769) inserts the block just invalidated
   instead of the possible new tips; a node may stay at a shorter chain after
   `invalidateblock`. Where no candidate is left, `setlastblock` to another branch
   fails the assertion of `PruneBlockIndexCandidates` (`CandidatesLeft` excludes
   it).
6. `main.cpp:3807`: `ReconsiderBlock` takes the mark from the blocks before the
   given one too, and puts only the ones after it back into the set. Reconsidering
   a block whose data has not come leaves a linked block below it good and no
   candidate (`MoreWorkIsCandidate` excludes it; the attempt to prove it showed
   this), with the same end in `setlastblock`.
7. `main.cpp:3484`, `3513`: `SetLastBlock` tests the given block at each step of
   its walk and not those below it, and repeats a step that returns true when it
   met an invalid block: it does not end, with `cs_main` held (`SetLastEnds` is
   stated for valid blocks). Over an invalidated block below it walks up
   (`ChainNotFailed` excludes that).
8. `multichainblock.cpp:484`: a block of a branch verified for the first time as
   an ancestor is compared with its own height as the miner's last block; a valid
   branch whose blocks came out of order around a restart is rejected.
   `VerdictOnNewBlock` is about the block the call is made for.
9. `asset.cpp:1236`: when `SetRow` fails in the middle of a block, the keys of the
   rows before it are already in the batch that is then written. The instance has
   at most one row in memory when a write fails.
10. `asset.cpp:1360`: when the database refuses a block with an asset and its
   follow-on, `RollBack` does not find the asset and returns before the header is
   reset.
11. `asset.cpp:606`, `792`, `2045`: an unconfirmed stream has first position -1 as
    has the first unconfirmed asset, so `listassets` shows its transaction as an
    issue. `ChainsExact` is about confirmed assets.
12. `multichaintx.cpp:647`: the acceptance of an issue sets a second checkpoint;
    when the issue fails later, "only permission db was updated. it will be rolled
    back" (1726) goes back to the second one and the rows before it stay until the
    next replay (`unreplayed`).
13. `main.cpp:5026`: at the end of a start the rollback of the permissions clears
    the rows of transactions that `SetLastBlock` put back into the pool
    (`unreplayed` again).
14. `main.cpp:2860`: when the wallet fails, `ConnectTip` returns after the coins
    were written; the next activation fails an assertion, or, if the block to
    connect is the same one, marks it invalid because its miner is now barred by
    its own block (`BeginAborts`, `BeginRejects`).

15. `main.cpp:3253`: `ConnectBlock` clears the rows of the pool from memory, and a
    step that connects one block and then refuses the next ends without
    `ReplayMemPool` (`!fInvalidFound`). Until the next step the pool's grants are in
    the pool but not in memory (`unreplayed`); the attempt to prove
    `RowsAreThePools` showed it.
16. `asset.cpp:1294`: the test that is to spare follow-ons in `RollBack` reads
    `adbRow.m_KeyType`, which line 1291 has just set to `MC_ENT_KEYTYPE_SHORT_TXID`,
    and not the type of the row, so it spares none. A rolled back follow-on takes the
    key of the name in its details (1304-1310) with it, whatever the issuer wrote
    there (1041-1045), and only the keys of its own asset are written again
    (1349-1355). When that is the name of another entity it is no longer found by its
    name, and a second one may be issued under it, against `Stream name, if not ""
    should be unique.` (`rpc/rpchelp.cpp:1411`). The shortest way there: a stream with
    the name and an asset are in the chain, a follow-on of the asset with that name in
    its details is connected, and its block is disconnected. `DatabaseExact` leaves
    out these names (`dropped`) and nothing else.

## 5. Proofs

`StandaloneProofs` about `CheckQueue`, for any finite sets of workers and checks and any batch
size. The properties are not inductive: that `nTodo` is right says nothing
about who holds the checks. `IInv` adds *Placement* (a check is in the queue
or in the batch of one thread; what a thread in a given place holds; where the
master can be), *Counters* (`nIdle` and `nTotal` against the numbers of threads
in each place, with what interruptions leave behind), *Quiet* (between two
controls nothing is queued or in hand) and *Verdict* (every failed check is in
`fAllOk` or in the `fOk` of a thread still at work). `Invariance` proves
`IInv` for each action; `TypeCorrect`, `TodoIsAccurate`, `AssertionHolds`,
`VerdictCorrect` and `NoCheckOutlivesControl` follow.

`PermissionsProofs`, for any addresses, types, grants and any order of the
calls. `Row(i)` reads the file or the memory; the proofs read one sequence `All`,
the file and the rows behind it. `LinkInv` and `DbInv` are not inductive: a
rollback to a checkpoint, and a copy that is put back, bring rows in memory from
an earlier state. `LInv` therefore adds what makes those harmless: while a caller
is in (`InCall`), the checkpoint is a length of the pool and the copy was linked
to the very file there still is; rows know their block (`Received`), so that a
rollback removes a suffix (`TopIs`), and the lowest removed row of each key links
to the row that becomes its last (`UnwoundIs`). `Tip`, a CHOOSE, is shown to be
the last row of the key (`TipIsLast`).

Three parts stand on top of that. *Counts*: `CInv` says that
`counts` and `cleared`, and the counts in the checkpoint and in the copy, are the
numbers of addresses that hold the permission in the rows they belong to, read off
the rows and never the database; `SetPermission`, which adds or takes one, is the
step that needs a proof (`StepOfCount`), and the list of administrators and miners
(`ListedIn`) must name every key with an entry. *Consensus*: `BInv` adds that every
row, also those of the copy, is backed by the votes before it; as a vote looks only
backwards along the links, cutting rows off and appending keep it
(`AllBackedPrefix`, `AllBackedExtends`), and a new decision counts different
administrators (`NewRowDecided`). *History*: under the refinement mapping `past`
is read off the ledger by heights and `now` off the database. `Commit` appends to
`past` because its rows have a height no other row has, and a rollback is a prefix
of it, and restores `now` because the database names the last rows that are left;
`ImplementsTheHistory` is the step simulation with the initial state.

`PermissionRecoveryProofs`, for any rows and any number of crashes. `IInv` has a
part for each place between two writes (`Writing`, `HeaderWritten`, `Counting`,
`Unwinding`, `Starting`): which rows are behind the ledger's end, which of the
database and the ledger's header is a block ahead, and which two rows still lack
their counts. A crash may fall into each, so each must imply what the disk has to
satisfy at any moment (`OnDisk`).

`MinerVerificationProofs`, for any tree of blocks, miners, grants and pool. What
the code answers is read off rows, with the newest row of a key, over the rows in
memory, cut at the fork point; what is promised is defined along the branch
(`After`, `Valid`). The bridge is `Ledger[b]`, the rows the branch of `b` leaves in
the ledger: they give what `After[b]` says (`LedgerGives`), the row at the end of
each block has the number of miners after it (`IndexGives`), and the ledger of a
block's ancestor is the part received up to its height (`Cuts`), which is what
reading in fork mode and rolling back rest on (`LedgerRowIs`, `RowsUpToIs`). One
grant changes the count by one at most (`CountGrant`), so the count kept up to date
is the number of miners. `IInv` then says: the ledger is `Ledger[tip]`; the counts
are those of the rows in memory and in the ledger, or, during a check, those kept
in the copy are (`AtRest`, `Moved`); during a check the object shows what the
branch gives up to the block before the next, and `last_after_fork`, or the row
before the fork point, is the last block of the new block's miner (`OnBranch`);
what passed, the active chain and the target consist of recorded blocks
(`Recorded`), which is why a record without grants, as `Commit` writes it, is never
the only one of a block that has some. `ForkView`, `PutBack`, `RecordsComplete`,
`VerdictOnNewBlock` and `ActiveChainValid` follow.

`StandaloneProofs` about `MinerDiversity`, for any number of miners, any share, setup period and
int width. The permitted miners that may not mine have their last blocks within
the `Spacing - 1` last heights, and different miners have different last
blocks: an injection from the barred miners into an interval, so there are at
most `Spacing - 1` of them. As `Spacing` never exceeds the number of miners,
`DiversityLeavesMiners` and `NeverStuck` follow, even if the product overflows.
`WaitIsLongEnough` does need that it does not overflow, and says so; without this
hypothesis it is false (section 4).

`OrderLemmas` proves that non-empty bounded sets of naturals have least and
greatest elements, induction over the members of a set `0..n`, that a function
defined by recursion on such a set, or along a tree, exists, and what prefixes are.

`NodeStoresProofs`, for any tree of blocks, contents, crashes and failing writes.
That the stores agree while the node runs says nothing of the moments between two
writes, and a start has nothing else to go by. `IInv` has a part for each place
the process can be in: while a block is disconnected every store is at the chain
or one block below it, and those already written are below (`WhenBack`); while one
is connected the stores have it in the order of their writes (`WhenConnect`);
between the steps they are at the tip, or have one block above it that the start
has still to trim or the wallet refused (`WhenIdle`). From each part follows that
any two stores are at most one block apart (`AlwaysSpread`, `StoresOneApart`),
hence so they are after a crash (`WhenDown`), and therefore the lowest height
tells the start how far to go back (`StartKeeps`). `RunningStoresAgree` is the
property `StoresAgree`. Where the tip goes, and what is in a block, is not used:
only `MostWork \subseteq Branches`. A second layer, `JInv`, follows the verdicts: the
blocks of the chain, and the one being connected, were right on top of those below
(`Clean`), and as long as no write failed a block marked as failed is wrong where it
stands (`Guilty`). `BlocksJudgedByTheirBranch` follows.

A third, `PInv`, is about the pool. The replay, the transactions taken back and the
rows of a pool are recursive functions over sequences; that they exist and what they
give for one element more (`SeqRecursion`, `ReplayIs`, `ResurrectIs`, `RowsIs`) is
proved once, and what they give for all by induction over the set of sequences that
have the property (`SeqInduction`). `Backs` is what such a loop keeps: the rows are
those of the transactions kept so far, each by an address that could write it there
(`Allowed`), and no coin is spent twice (`Fresh`). The three ways the pool changes
under a running node are then three lemmas: a replay (`ReplayKeeps`), a block taken
back before the pool (`TakenBackKeeps`) and a block that leaves it (`AmongKeeps`);
between the writes of a block the rows are cleared, and `unreplayed` says that they
are missing until the step ends. `PoolAndRowsAgree` is `RowsAreThePools`.

`DisconnectLosesNone`, an action property, needs all three: by `JInv` the block was
valid after the blocks below it, so each of its transactions can follow the ones
before it (`AllFollow`); by `PInv` nobody in the pool spends its coins, so all are
accepted again (`AllComeBack`), and each of the pool's had its right with the
block in the chain. A right is decided by the last row about it and a transaction
without one decides nothing, so the rows in memory stand for the block
(`HoldsByRows`), and all of the pool stay (`AllStay`). It assumes of a transaction
that it has an input, as `CheckTransaction` demands, and a sender.

`EntityStoreProofs`, for any transactions, names and quantities and any number of
crashes. The five theorems have the hypothesis `MaxFailPool <= 1`, that is, no write
fails with more than one row in memory; without it they are false (findings 9 and 10):
the database gets the keys of rows behind the end of the file, or a rollback stops at
a row whose asset the database has not got. That the stores agree
between two calls says nothing of a row's links, which the next rollback follows.
`IInv` therefore describes the file: row `p` is the one after `p - 1` (`Filed`), it
begins a chain or continues the one of an asset before it where that ended
(`Continues`, `IsEnd`), no transaction is there twice (`Sound`, `Distinct`), and no
key but for the names follow-ons took with them (`Apart`), all up to the end the header
gives; the rows of the first blocks come first (`Layered`); and the database is an
index of the rows up to its own end: every key leads to a row that has it (`LeadsTo`),
and none is missing but such names (`Indexed`). On top of this, each place of the
process has its part, and for the rows in memory `Waiting` says where a follow-on is
going to continue, in memory (`ContinuesPool`) or behind a chain in the file
(`ContinuesFile`): with the places a commit gives them the file is sound again
(`FilledSound`). A rollback is then a walk from the end to the last row of the block
(`RowsAboveIs`); the names its follow-ons take are in `dropped` afterwards
(`CarriedIs`, `Spares`), so one row more in a batch or one less keeps the index but
for those (`WriteOne`, `EraseOne`), and the whole batch follows by induction over its
positions (`BatchIs`, `ErasedIs`). That a row taken from the database leaves the chain
of its asset at the row before, and not at the first, is `Indexed` of the rows that are
left; `DatabaseExactHolds` reads it off, as the row a chain ends with is the newest
issue (`NewestIs`): for the transactions, which are never names (`EntityAssumption`),
without any exception. The rows of blocks
without entities are none, so a header ahead by such blocks is set back
(`InitializeStep`), whence `RefusesOnlyOverEntitiesHolds`.

What the node reports of an asset is computed by walks. The one through the file
follows the links of the rows back, and by `IsEnd` no row of the asset is between a
row and the one it links to, so the walk meets exactly the rows with the asset's first
position, backwards (`ChainIs`, by induction along the tree of links); the rows in
memory with that position come on top (`OfFiled`, `OfWaiting`). What is known of an
asset besides, by the blocks and the memory, has the same transactions and quantities
(`KnownIs`, `TakesTells`), so the two lists and the two sums are equal (`ReportExact`,
`ChainsExactHolds`). `QuantityBounded` is about a resting node, and an interrupted
commit or rollback says nothing of the limit afterwards; `Within` is the limit for
what is known in every phase. A commit leaves that as it is, from memory to a block
(`CommitLedgerWithin`, `CommitDatabaseWithin`); a rollback, a cleared memory and a
crash leave a beginning of it (`BoundedBefore`); an issue comes after a test of what
is reported, which for an asset in memory may be too much (finding 11) and is never
too little (`ReportAtMost`, `InsertWithin`). `QuantityBoundedHolds` follows.

`ChainSelectionProofs`, for any tree of blocks (`Parent`), any scenarios and any
bounds, proves all five safety properties of `ChainSelection`. It begins with what
the operators compute: a branch grows by one block (`Grown`, `Position`),
`OnBranch` is an order (`Transitive`, `Comparable`, `Lower`), the comparator is a
strict total order (`Strict`, `Transits`), whatever it reads, and erasing,
inserting and pruning do what a set does as long as the sequence is in its order
(`ErasedAll`, `InsertedAll`, `Pruned`). Induction over a tree is over sets of nodes
(`TreeInduction`): a parent has a smaller number. Six invariants follow, each on
top of an earlier one:

- `DInv`: `nChainTx` is set exactly where all data up to genesis is there, and
  `mapBlocksUnlinked` has all the rest; what passed the check of miners is
  complete. From this `WalkIsOverData`, for any calls. `FreedIs` is the step that
  matters: the blocks that wait for a block, or for one of those, are exactly those
  that become complete with it.
- `JInv`: as long as nothing is invalidated, a block marked as failed does not
  keep the rules (`~Clean`), or a block before it does not, and the tip does.
- `FInv`: the tip did not fail, nor did `most` while `ActivateBestChain` climbs;
  `SetLastBlock` relies on the rules alone, hence the hypothesis of
  `ChainNotFailed`. From this `NoFailedBlockIsActive`.
- `CandInv`: without keys and invalidated blocks the sequence is in its order, has
  linked blocks only, and has a member `w` that keeps the rules such that no good
  linked block from `w` on is missing (`Kept`). `w` was once the
  tip; it need not be the tip now, after a reorganisation that failed, which is why
  a set "at least as good as our current tip" is not inductive. From this
  `BetterChainsAreCandidates`.
- `BestInv`: what was chosen is as high as every good linked block (`FoundBest`),
  and stays so until it is the tip, fails or new data comes. From this
  `RestingTipHasMostWork`. `LeftInv` says instead that what was chosen stays a
  candidate while `ActivateBestChain` climbs, with any calls and keys, since a block
  on the way to it is lower; with `CandInv` for `SetLastBlock` this gives
  `PruningLeavesACandidate`, an action property.

Assumptions are the named `ASSUME`s of the modules, evaluated in every run.

Only model-checked: liveness (`WaitTerminates`, `ActivationEnds`, `SetLastEnds`,
`RecoveryEnds`), since TLAPS has no rule for fairness here. No module uses
`RECURSIVE`; the lists and sums of `EntityStore` are recursive functions for the sake
of the proofs.

## 6. Plan

Done: the modules above. Left:

1. A weaker disk: unsynced batches lost by a power failure.
2. `CoinsCache` (a cache over a store implements a map), `Handshake`, the wallet's
   transaction database beyond its height, parents and children in the pool.

## 7. Not modelled

The components that `PROJECT.json` lists as `not_modelled` with the reason: pure
functions of bytes (scripts, cryptography, serialization), vendored code, RPC
formatting, timing heuristics of the miner, connections and peers, on which no
chain state depends since every message is processed under `cs_main`. Of the
components listed as `partly`: upgrade approvals and the reports of the permission
ledger; single outputs in the coins views; accounts, keys and coin selection of the
wallet; sizes, priorities and ancestry in the pool; the rules about one
transaction's assets, streams and fees. `DisconnectTip` and the end of a start
ignore the results of the rollbacks they call; `NodeStores` takes these to
succeed.

## 8. Running

    tlc -workers 2 -config MCNodeStores.cfg MCNodeStores
    tlapm NodeStoresProofs.tla
