--------------------------- MODULE ChainSelection ---------------------------
(***************************************************************************)
(* The block index of src/src/core/main.cpp and the choice of the active   *)
(* chain: blocks whose data arrives in any order (ReceivedBlockTransactions *)
(* and mapBlocksUnlinked), the candidates for the tip, the loop of         *)
(* ActivateBestChain, and the calls by which an operator changes the       *)
(* choice: InvalidateBlock, ReconsiderBlock and SetLastBlock.              *)
(*                                                                         *)
(* The headers of all the blocks are known; only their data is missing.    *)
(* cs_main is free exactly when op = "idle"; a step elsewhere is a part of *)
(* a call that holds it.  ActivateBestChain frees it between its           *)
(* iterations; the calls of several threads run the same loop and are one  *)
(* here.  Whether the miners of a side branch could mine its blocks is the *)
(* subject of MinerVerification; here they could, and VerifyBlockMiner only *)
(* asks for the data and for failed blocks.  Blocks banned or locked by    *)
(* name and a pending protocol upgrade are left out.                       *)
(*                                                                         *)
(* setBlockIndexCandidates is a std::set whose order depends on nCanMine,  *)
(* and ActivateBestChain changes that of the tip while the tip is in the   *)
(* set.  The set is therefore the sequence its iterators walk.  As long as *)
(* that is sorted it behaves like a set; where it is not, the search for an *)
(* element may miss it, depending on the shape of the tree.                *)
(***************************************************************************)
EXTENDS Integers, Sequences, FiniteSets, SequencesExt

CONSTANTS Parent,           \* Parent[b], for the blocks 1..Len(Parent); 0 is genesis
          Scenarios,        \* the blocks that break no rule, those whose data comes,
                            \* and what happens besides
          MaxCalls,         \* bound: the operator's calls
          MaxWallet,        \* bound: changes of what the wallet may mine
          MaxRestarts       \* bound

Blocks == 1..Len(Parent)
Nodes == 0..Len(Parent)

ASSUME SelectionAssumption ==
    /\ Parent \in Seq(Nat)
    /\ \A b \in Blocks : Parent[b] \in 0..(b - 1)
    /\ Scenarios \subseteq [valid : SUBSET Blocks, coming : SUBSET Blocks, events :
           SUBSET {"invalidate", "reconsider", "setlast", "wallet", "restart"}]
    /\ MaxCalls \in Nat /\ MaxWallet \in Nat /\ MaxRestarts \in Nat

VARIABLES valid, coming, events,    \* the scenario
          wallet,       \* the tips where GetKeyFromAddressBook(MC_PTP_MINE) has a key
          have,         \* BLOCK_HAVE_DATA
          linked,       \* nChainTx # 0
          unlinked,     \* mapBlocksUnlinked
          failed,       \* BLOCK_FAILED_MASK
          passed,       \* fPassedMinerPrecheck
          sequenceId,   \* nSequenceId
          canMine,      \* the blocks whose nCanMine is not 0
          candidates,   \* setBlockIndexCandidates
          tip,
          op,           \* where the holder of cs_main is
          caller,       \* ... and in which call
          activate,     \* a call of ActivateBestChain has not returned
          most,         \* pindexMostWork, or the block SetLastBlock goes to
          mined,        \* nCanMine, as it was when most was chosen
          oldTip,       \* pindexOldTip
          calls, changes, restarts

scenario == <<valid, coming, events>>
world == <<scenario, wallet>>
arrived == <<have, linked, unlinked, sequenceId>>
step == <<caller, most, mined, oldTip>>
bounds == <<calls, changes, restarts>>
vars == <<world, arrived, failed, passed, canMine, candidates, tip, op, activate, step, bounds>>

Branch ==
    LET to[b \in Nodes] == IF b = 0 THEN <<0>> ELSE Append(to[Parent[b]], b)
    IN  [b \in Nodes |-> to[b]]
Heights == [b \in Nodes |-> Len(Branch[b]) - 1]
Height(b) == Heights[b]
Ancestry == {p \in Nodes \X Nodes : \E i \in 1..Len(Branch[p[2]]) : Branch[p[2]][i] = p[1]}
OnBranch(a, b) == <<a, b>> \in Ancestry
\* the blocks of b's branch above the fork with the active chain
Above(b) == {a \in Blocks : OnBranch(a, b) /\ ~OnBranch(a, tip)}

-----------------------------------------------------------------------------
(* The set and its order: o is what the comparator reads of the blocks.    *)

order == [can |-> canMine, seq |-> sequenceId]

\* CBlockIndexWorkComparator.  Every block has the same work; nHeightMinedByMe
\* is left out, and the addresses are in the order of the blocks.
Less(o, a, b) ==
    \/ Height(a) < Height(b)
    \/ /\ Height(a) = Height(b)
       /\ \/ a \notin o.can /\ b \in o.can
          \/ /\ a \in o.can <=> b \in o.can
             /\ \/ o.seq[a] > o.seq[b]
                \/ o.seq[a] = o.seq[b] /\ a > b

\* whether a search for the element at i finds it in every tree
Found(o, c, i) ==
    \A j \in 1..Len(c) : /\ j < i => Less(o, c[j], c[i])
                         /\ j > i => Less(o, c[i], c[j])

\* what the set may be after erase(b): equal_range takes with b what a node on
\* its way from b does not order
Erase(o, c, b) ==
    LET at == {i \in 1..Len(c) : c[i] = b}
        lows(i) == {j \in 1..i : j < i => ~Less(o, c[j], b)}
        highs(i) == {j \in i..Len(c) : j > i => ~Less(o, b, c[j])}
    IN  (UNION {{SubSeq(c, 1, l - 1) \o SubSeq(c, h + 1, Len(c)) :
                    l \in lows(i), h \in highs(i)} : i \in at})
        \cup (IF \E i \in at : Found(o, c, i) THEN {} ELSE {c})

\* ... and after insert(b), whose search ends between two neighbours
Insert(o, c, b) ==
    LET at == {i \in 1..Len(c) : c[i] = b}
        gap == {p \in 0..Len(c) : /\ p > 0 => Less(o, c[p], b)
                                  /\ p < Len(c) => Less(o, b, c[p + 1])}
    IN  (IF at = {} THEN {} ELSE {c}) \cup
        (IF \E i \in at : Found(o, c, i) THEN {} ELSE {InsertAt(c, p + 1, b) : p \in gap})

\* Mutation: only the first one becomes a candidate.
InsertFirst(o, c, bs) == IF bs = <<>> THEN {c} ELSE Insert(o, c, Head(bs))

\* ... one after the other
EraseEach(o, c, bs) ==
    LET after[n \in 0..Len(bs)] ==
            IF n = 0 THEN {c} ELSE UNION {Erase(o, d, bs[n]) : d \in after[n - 1]}
    IN  after[Len(bs)]
InsertEach(o, c, bs) ==
    LET after[n \in 0..Len(bs)] ==
            IF n = 0 THEN {c} ELSE UNION {Insert(o, d, bs[n]) : d \in after[n - 1]}
    IN  after[Len(bs)]

\* Mutation: the tip itself may be deleted.
PruneTip(o, c, t) == SelectSeq(c, LAMBDA b : Less(o, t, b))

\* PruneBlockIndexCandidates, with t the tip: from the first on, up to one
\* that is not worse
Prune(o, c, t) ==
    LET stop == {i \in 1..Len(c) : ~Less(o, c[i], t)}
    IN  IF stop = {} THEN <<>>
        ELSE SubSeq(c, CHOOSE i \in stop : \A j \in stop : i <= j, Len(c))

\* the last one of a set of blocks
Best(o, s) == CHOOSE b \in s : \A c \in s : c = b \/ Less(o, c, b)

\* from b down to a
Downward(b, a) == Reverse(SubSeq(Branch[b], Height(a) + 1, Len(Branch[b])))

\* a set of blocks in some fixed order (mapBlockIndex has one no rule gives), or
\* the lower ones first
Listed(s) ==
    LET upTo[n \in Nodes] ==
            IF n = 0 THEN <<>> ELSE upTo[n - 1] \o (IF n \in s THEN <<n>> ELSE <<>>)
    IN  upTo[Len(Parent)]
ByHeight(s) ==
    LET upTo[h \in Nodes] ==
            IF h = 0 THEN <<>> ELSE upTo[h - 1] \o Listed({b \in s : Height(b) = h})
    IN  upTo[Len(Parent)]

-----------------------------------------------------------------------------
(* A block's data arrives: AcceptBlock and ReceivedBlockTransactions.      *)

\* Mutation: the blocks that wait for b are linked, those that wait for them
\* are not.
FreedChildren(b) == {b} \cup {c \in Blocks : <<b, c>> \in unlinked}

\* b and the blocks that wait for it, or for one of those
Freed(b) ==
    {c \in Blocks : /\ OnBranch(b, c)
                    /\ \A i \in (Height(b) + 2)..(Height(c) + 1) :
                          <<Branch[c][i - 1], Branch[c][i]>> \in unlinked}

\* nBlockSequenceId
NextId == 1 + Max({sequenceId[b] : b \in Nodes})

\* CheckBranchForInvalidBlocks and the block's own flag
Acceptable(b) == b \notin failed /\ Above(Parent[b]) \cap failed = {}

\* Mutation: a block whose data is not there passes.
VerifiedBlind(b, data) == Above(b) \cup {b}

\* VerifyBlockMiner: what passes with b, where data are the blocks with data:
\* from the fork up to a block whose data is not there.
Verified(b, data) ==
    IF Above(b) = {} THEN {b} ELSE {c \in Above(b) : b \in data /\ Above(c) \subseteq data}

ReceiveBlock(b) ==
    /\ op = "idle" /\ b \in coming \ have /\ Acceptable(b)
    /\ have' = have \cup {b}
    /\ passed' = passed \cup Verified(b, have')
    /\ \/ canMine' = canMine
       \/ Parent[b] \in canMine /\ canMine' = canMine \cup {b}
    /\ IF Parent[b] = 0 \/ Parent[b] \in linked
       THEN LET queue == ByHeight(Freed(b))     \* breadth first
            IN  /\ linked' = linked \cup Freed(b)
                /\ unlinked' = {p \in unlinked : p[1] \notin Freed(b)}
                /\ sequenceId' = [c \in Nodes |->
                       IF c \in Freed(b)
                       THEN NextId - 1 + (CHOOSE i \in 1..Len(queue) : queue[i] = c)
                       ELSE sequenceId[c]]
                /\ candidates' \in InsertEach(order', candidates, queue)
       ELSE /\ unlinked' = unlinked \cup {<<Parent[b], b>>}
            /\ UNCHANGED <<linked, sequenceId, candidates>>
    /\ activate' = TRUE
    /\ UNCHANGED <<world, failed, tip, op, step, bounds>>

-----------------------------------------------------------------------------
(* ActivateBestChain.                                                      *)

\* nCanMine of the tip is read from the wallet again.
Refreshed == IF tip \in wallet THEN canMine \cup {tip} ELSE canMine \ {tip}

StartIteration ==
    /\ op = "idle" /\ activate
    /\ op' = "find" /\ caller' = "activate"
    /\ canMine' = Refreshed
    /\ UNCHANGED <<world, arrived, failed, passed, candidates, tip, activate, most, mined, oldTip,
                   bounds>>

\* The candidates that did not pass yet are checked; one above a failed block
\* fails, and one without data neither passes nor fails.
fresh == Range(candidates) \ passed
rejected == {c \in fresh \cap have : Above(c) \cap failed # {}}
checked == passed \cup UNION {Verified(c, have) : c \in fresh \ rejected}
\* setTempBlockIndexCandidates
Chosen == Range(candidates) \cap checked

best == Best(order, Chosen)
\* Mutation: the walk tests only the candidate itself.
failedCandidate == {best} \cap (failed \cup rejected)

\* where the walk down from the best candidate meets a failed block
failedAt ==
    LET bad == Above(best) \cap (failed \cup rejected)
    IN  {a \in bad : \A c \in bad : Height(c) <= Height(a)}

\* The assertions of the walk, down to where it ends.
Asserted ==
    \A a \in Above(best) : (\A x \in failedAt : Height(x) <= Height(a)) => a \in linked

\* One pass of FindMostWorkChain: the best candidate is taken, or it and what
\* leads from it to its failed ancestor leave the set and the search goes on.
FindMostWorkChain ==
    /\ op = "find"
    /\ passed' = checked
    /\ IF Chosen = {} \/ (failedAt = {} /\ best = tip)
       THEN /\ op' = "idle" /\ activate' = FALSE
            /\ failed' = failed \cup rejected
            /\ UNCHANGED <<candidates, most, mined, oldTip>>
       ELSE IF failedAt = {}
       THEN /\ op' = "step" /\ most' = best /\ oldTip' = tip
            /\ mined' = (best \in canMine)
            /\ failed' = failed \cup rejected
            /\ UNCHANGED <<candidates, activate>>
       ELSE \E x \in failedAt :
            LET chain == {a \in Above(best) : Height(a) > Height(x)}
            IN  /\ failed' = failed \cup rejected \cup chain
                /\ candidates' \in EraseEach(order, candidates, Downward(best, x))
                /\ UNCHANGED <<op, activate, most, mined, oldTip>>
    /\ UNCHANGED <<world, arrived, canMine, tip, caller, bounds>>

\* ActivateBestChainStep: the blocks that leave the active chain ...
DisconnectTip ==
    /\ op = "step" /\ ~OnBranch(tip, most)
    /\ tip' = Parent[tip]
    /\ UNCHANGED <<world, arrived, failed, passed, canMine, candidates, op, activate, step, bounds>>

\* ... the next one of those that enter it ...
next == Branch[most][Height(tip) + 2]

ConnectTip ==
    /\ op = "step" /\ OnBranch(tip, most) /\ tip # most
    /\ next \in have /\ next \in valid
    /\ tip' = next
    /\ candidates' = Prune(order, candidates, next)
    /\ op' = IF next = most \/ Height(next) > Height(oldTip) THEN "end" ELSE "step"
    /\ UNCHANGED <<world, arrived, failed, passed, canMine, activate, step, bounds>>

\* Mutation: no block is marked.
NothingFound(b) == failed

InvalidBlockFound(b) == failed \cup {b}

\* ... or the first that breaks a rule.
RejectBlock ==
    /\ op = "step" /\ OnBranch(tip, most) /\ tip # most
    /\ next \in have /\ next \notin valid
    /\ failed' = InvalidBlockFound(next)
    /\ candidates' \in Erase(order, candidates, next)
    /\ op' = "end"
    /\ UNCHANGED <<world, arrived, passed, canMine, tip, activate, step, bounds>>

\* A step with nothing to connect: SetLastBlock went back to most.
StepBack ==
    /\ op = "step" /\ tip = most
    /\ op' = "end"
    /\ UNCHANGED <<world, arrived, failed, passed, canMine, candidates, tip, activate, step, bounds>>

\* The loop is left when the tip is the block that was chosen, unless the
\* wallet may mine on it and might not when it was chosen, or the reverse.
EndIteration ==
    /\ op = "end" /\ caller = "activate"
    /\ op' = "idle"
    /\ IF tip = most
       THEN canMine' = Refreshed /\ activate' = ((tip \in wallet) # mined)
       ELSE UNCHANGED <<canMine, activate>>
    /\ UNCHANGED <<world, arrived, failed, passed, candidates, tip, step, bounds>>

-----------------------------------------------------------------------------
(* The operator's calls.                                                   *)

Call(name) ==
    /\ op = "idle" /\ name \in events
    /\ calls < MaxCalls /\ calls' = calls + 1

\* SetLastBlock(b); its loop over the branch looks at b alone.
SetLastBlock(b) ==
    /\ Call("setlast")
    /\ Above(b) # {} => b \notin failed /\ b \in have
    /\ op' = "end" /\ caller' = "setlast" /\ most' = b
    /\ UNCHANGED <<world, arrived, failed, passed, canMine, candidates, tip, activate, mined, oldTip,
                   changes, restarts>>

SetLastStep ==
    /\ op = "end" /\ caller = "setlast" /\ tip # most
    /\ op' = "step" /\ oldTip' = tip
    /\ UNCHANGED <<world, arrived, failed, passed, canMine, candidates, tip, activate, caller, most,
                   mined, bounds>>

\* Mutation: the loop goes on after a step that failed.
FailureIgnored ==
    /\ op = "step" /\ OnBranch(tip, most) /\ tip # most /\ next \notin have
    /\ op' = "end"
    /\ UNCHANGED <<world, arrived, failed, passed, canMine, candidates, tip, activate, step, bounds>>

\* A block above has no data: the step fails, and ActivateBestChain follows.
SetLastFails ==
    /\ op = "step" /\ OnBranch(tip, most) /\ tip # most /\ next \notin have
    /\ op' = "idle" /\ activate' = TRUE
    /\ UNCHANGED <<world, arrived, failed, passed, canMine, candidates, tip, step, bounds>>

SetLastReturns ==
    /\ op = "end" /\ caller = "setlast" /\ tip = most
    /\ op' = "idle"
    /\ candidates' \in Insert(order, candidates, most)
    /\ UNCHANGED <<world, arrived, failed, passed, canMine, tip, activate, step, bounds>>

\* IsValid(BLOCK_VALID_TRANSACTIONS) && nChainTx
Eligible(b, bad) == b \in linked \ bad

\* invalidateblock: the loop that gives the candidates back inserts the block
\* that was invalidated once for each block it should insert.
InvalidateBlock(b) ==
    /\ Call("invalidate")
    /\ LET active == IF OnBranch(b, tip) THEN {a \in Blocks : OnBranch(b, a) /\ OnBranch(a, tip)}
                     ELSE {}
       IN  /\ failed' = failed \cup {b} \cup active
           /\ tip' = IF active = {} THEN tip ELSE Parent[b]
           /\ \E c \in EraseEach(order, candidates,
                     <<b>> \o (IF active = {} THEN <<>> ELSE Downward(tip, b))) :
                 candidates' \in
                     InsertEach(order, c, [i \in 1..Cardinality({x \in Blocks :
                         Eligible(x, failed') /\ Less(order, tip', x)}) |-> b])
    /\ activate' = TRUE
    /\ UNCHANGED <<world, arrived, passed, canMine, op, step, changes, restarts>>

ReconsiderBlock(b) ==
    /\ Call("reconsider")
    /\ LET below == {a \in failed : OnBranch(b, a)}
       IN  /\ candidates' \in
                  InsertEach(order, candidates,
                      Listed({a \in below : Eligible(a, {}) /\ Less(order, tip, a)}))
           /\ failed' = {a \in failed \ below : ~OnBranch(a, b)}
    /\ activate' = TRUE
    /\ UNCHANGED <<world, arrived, passed, canMine, tip, op, step, changes, restarts>>

-----------------------------------------------------------------------------
(* The surroundings.                                                       *)

\* The wallet gets or loses the key of a miner.
WalletChange(x) ==
    /\ "wallet" \in events
    /\ changes < MaxWallet /\ changes' = changes + 1
    /\ wallet' = IF x \in wallet THEN wallet \ {x} ELSE wallet \cup {x}
    /\ UNCHANGED <<scenario, arrived, failed, passed, canMine, candidates, tip, op, activate, step,
                   calls, restarts>>

\* The node stops and starts again: LoadBlockIndexDB, then ThreadImport.
Restart ==
    /\ op = "idle" /\ "restart" \in events
    /\ restarts < MaxRestarts /\ restarts' = restarts + 1
    /\ sequenceId' = [b \in Nodes |-> 0]
    /\ canMine' = {} /\ passed' = {}
    /\ unlinked' = {<<Parent[b], b>> : b \in have \ linked}
    /\ \E c \in InsertEach(order', <<0>>, ByHeight({b \in Blocks : Eligible(b, failed)})) :
          candidates' = Prune(order', c, tip)
    /\ activate' = TRUE
    /\ UNCHANGED <<world, have, linked, failed, tip, op, step, calls, changes>>

Init ==
    /\ \E s \in Scenarios : valid = s.valid /\ coming = s.coming /\ events = s.events
    /\ wallet = {}
    /\ have = {} /\ linked = {} /\ unlinked = {} /\ failed = {}
    /\ sequenceId = [b \in Nodes |-> IF b = 0 THEN 1 ELSE 0]
    /\ passed = {} /\ canMine = {} /\ candidates = <<0>> /\ tip = 0
    /\ op = "idle" /\ caller = "activate" /\ activate = FALSE
    /\ most = 0 /\ mined = FALSE /\ oldTip = 0
    /\ calls = 0 /\ changes = 0 /\ restarts = 0

\* what ActivateBestChain and SetLastBlock do once they are called
Work ==
    \/ StartIteration \/ FindMostWorkChain \/ DisconnectTip \/ ConnectTip \/ RejectBlock
    \/ StepBack \/ EndIteration \/ SetLastStep \/ SetLastFails \/ SetLastReturns

Next ==
    \/ Work \/ Restart
    \/ \E b \in Blocks : ReceiveBlock(b) \/ SetLastBlock(b) \/ InvalidateBlock(b) \/ ReconsiderBlock(b)
    \/ \E x \in Nodes : WalletChange(x)

Spec == Init /\ [][Next]_vars /\ WF_vars(Work)

-----------------------------------------------------------------------------
(* Properties.                                                             *)

good(b) == \A a \in Blocks : OnBranch(a, b) => a \notin failed

(* "The set of all CBlockIndex entries with BLOCK_VALID_TRANSACTIONS or better *)
(* that are at least as good as our current tip": whenever cs_main is free, for *)
(* each linked block above the tip with no failed block on its branch the set  *)
(* holds one at least as high, also in the middle of a reorganisation that     *)
(* met an invalid block and after setlastblock.  (A key that comes or goes,    *)
(* invalidateblock and reconsiderblock can break it: see the README.)          *)
MoreWorkIsCandidate ==
    op = "idle" /\ {"invalidate", "wallet", "reconsider"} \cap events = {} =>
        \A b \in linked : good(b) /\ Height(b) > Height(tip) =>
            \E c \in Range(candidates) : good(c) /\ Height(c) >= Height(b)

(* When nothing is being activated no branch whose data is all there and whose *)
(* blocks break no rule has more work than the active chain, in whatever order *)
(* the blocks came and whatever was tried before, on a node without mining     *)
(* keys whose operator made no call.                                           *)
TipBestWork ==
    op = "idle" /\ ~activate /\ events \subseteq {"restart"} =>
        \A b \in Blocks :
            (\A a \in Blocks : OnBranch(a, b) => a \in have \cap valid) => Height(b) <= Height(tip)

(* No block of the active chain failed, nor was invalidated by the operator    *)
(* while it was being activated.  (setlastblock looks at the block it is given *)
(* alone and walks up over an invalidated one below: see the README.)          *)
ChainNotFailed == ~({"invalidate", "setlast"} \subseteq events) => good(tip)

(* "Either the current tip or a successor of it we're working towards is left  *)
(* in setBlockIndexCandidates": the assertion PruneBlockIndexCandidates makes  *)
(* when a block was connected.  (In setlastblock a key that comes or goes, or  *)
(* a block that was invalidated before, can break it: see the README.)         *)
CandidatesLeft ==
    [][/\ tip' # tip /\ OnBranch(tip, tip')
       /\ caller = "setlast" => {"invalidate", "wallet"} \cap events = {}
       => candidates' # <<>>]_vars

(* "assert(pindexTest->nStatus & BLOCK_HAVE_DATA)": what FindMostWorkChain     *)
(* walks over has its data and that of the blocks before it, also when an      *)
(* invalidated block of which only the header is known became a candidate.     *)
WalkedBlocksHaveData == op = "find" /\ Chosen # {} => Asserted

(* A call that activates the best chain comes to an end: "Candidate has an     *)
(* invalid ancestor, remove entire chain from the set", so the search does not *)
(* find it again, and the tip is not left for worse and better ones in turn.   *)
ActivationEnds == activate ~> ~activate

(* SetLastBlock comes to an end, whatever block it is given, unless a block on *)
(* the way breaks a rule.                                                      *)
SetLastEnds == (op = "end" /\ caller = "setlast" /\ valid = Blocks) ~> op = "idle"
=============================================================================
