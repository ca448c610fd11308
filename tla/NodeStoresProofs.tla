-------------------------- MODULE NodeStoresProofs --------------------------
(***************************************************************************)
(* For every tree of blocks, every number of crashes and of failing        *)
(* writes: when a node is running its four stores are at its tip, a block  *)
(* is judged by its own branch, the permission rows in memory are those of *)
(* the pool, and a disconnected block loses no transaction.                *)
(***************************************************************************)
EXTENDS NodeStores, OrderLemmas

\* One store has one block more than another.
Ahead(d, c) == d # <<>> /\ Front(d) = c

-----------------------------------------------------------------------------
(* Sequences without their last element.                                   *)

LEMMA FrontLength ==
    ASSUME NEW S, NEW d \in Seq(S), d # <<>>
    PROVE  /\ Front(d) \in Seq(S)
           /\ Len(d) = Len(Front(d)) + 1
           /\ Front(d) # d
  <1>1. Len(d) \in Nat \ {0}
    BY EmptySeq
  <1>2. Len(d) - 1 \in 0..Len(d)
    BY <1>1
  <1>3. /\ SubSeq(d, 1, Len(d) - 1) \in Seq(S)
        /\ Len(SubSeq(d, 1, Len(d) - 1)) = Len(d) - 1
    BY <1>2, PrefixOf
  <1> QED
    BY <1>1, <1>3 DEF Front

LEMMA UptoBelow ==
    ASSUME NEW S, NEW d \in Seq(S), NEW c \in Seq(S), Ahead(d, c)
    PROVE  Upto(d, Len(c)) = c /\ Len(d) = Len(c) + 1
  <1>1. Len(c) \in Nat /\ Len(d) \in Nat /\ Len(d) = Len(c) + 1
    BY LenProperties, FrontLength DEF Ahead
  <1>2. Upto(d, Len(c)) = SubSeq(d, 1, Len(c))
    BY <1>1 DEF Upto
  <1>3. Front(d) = SubSeq(d, 1, Len(c))
    BY <1>1 DEF Front
  <1> QED
    BY <1>1, <1>2, <1>3 DEF Ahead

LEMMA UptoAll ==
    ASSUME NEW S, NEW c \in Seq(S)
    PROVE  Upto(c, Len(c)) = c
  <1>1. Len(c) \in Nat
    BY LenProperties
  <1> QED
    BY <1>1, SubSeqFull DEF Upto

LEMMA UptoTyped ==
    ASSUME NEW S, NEW c \in Seq(S), NEW h \in Nat
    PROVE  Upto(c, h) \in Seq(S)
  <1>1. Len(c) \in Nat
    BY LenProperties
  <1>2. (IF h < Len(c) THEN h ELSE Len(c)) \in 0..Len(c)
    BY <1>1
  <1> QED
    BY <1>2, PrefixOf DEF Upto

LEMMA AppendAhead ==
    ASSUME NEW S, NEW c \in Seq(S), NEW b \in S
    PROVE  Append(c, b) \in Seq(S) /\ Ahead(Append(c, b), c)
  <1> DEFINE d == Append(c, b)
  <1>1. /\ d \in Seq(S) /\ d # <<>>
        /\ Len(d) = Len(c) + 1
        /\ \A i \in 1..Len(c) : d[i] = c[i]
    BY AppendProperties
  <1>2. Len(c) \in Nat /\ Len(d) - 1 = Len(c)
    BY <1>1, LenProperties
  <1>3. Len(c) \in 0..Len(d)
    BY <1>1, <1>2
  <1>4. /\ SubSeq(d, 1, Len(c)) \in Seq(S)
        /\ Len(SubSeq(d, 1, Len(c))) = Len(c)
        /\ \A i \in 1..Len(c) : SubSeq(d, 1, Len(c))[i] = d[i]
    BY <1>1, <1>3, PrefixOf
  <1>5. SubSeq(d, 1, Len(c)) = c
    BY <1>1, <1>4, SeqEqual
  <1>6. Front(d) = c
    BY <1>2, <1>5 DEF Front
  <1> QED
    BY <1>1, <1>6 DEF Ahead

\* A proper prefix is shorter, and nothing is a prefix of what it is not.
LEMMA PrefixShorter ==
    ASSUME NEW S, NEW c \in Seq(S), NEW g \in Seq(S)
    PROVE  /\ IsStrictPrefix(c, g) => Len(c) + 1 \in 1..Len(g) /\ g[Len(c) + 1] \in S
           /\ ~IsPrefix(c, g) => c # <<>>
  <1>1. Len(c) \in Nat /\ Len(g) \in Nat
    BY LenProperties
  <1>2. ASSUME IsStrictPrefix(c, g)
        PROVE  Len(c) + 1 \in 1..Len(g) /\ g[Len(c) + 1] \in S
    <2>1. Len(c) <= Len(g) /\ SubSeq(c, 1, Len(c)) = SubSeq(g, 1, Len(c)) /\ c # g
      BY <1>2 DEF IsStrictPrefix, IsPrefix
    <2>2. Len(c) # Len(g)
      BY <2>1, SubSeqFull
    <2>3. Len(c) + 1 \in 1..Len(g)
      BY <1>1, <2>1, <2>2
    <2> QED
      BY <2>3, ElementOfSeq
  <1>3. ASSUME c = <<>>
        PROVE  IsPrefix(c, g)
    <2>1. Len(c) = 0
      BY <1>3, EmptySeq
    <2>2. SubSeq(c, 1, 0) = <<>> /\ SubSeq(g, 1, 0) = <<>>
      BY SubSeqEmpty
    <2> QED
      BY <1>1, <2>1, <2>2 DEF IsPrefix
  <1> QED
    BY <1>2, <1>3

-----------------------------------------------------------------------------
(***************************************************************************)
(* The inductive invariant.                                                *)
(***************************************************************************)
Trims == {"trim", "trimEnts", "trimWallet"}

\* Each store is c or d, and d has at most one block more.
Spread(c, d) ==
    /\ d = c \/ Ahead(d, c)
    /\ {coins, perms, ents, wal} \subseteq {c, d}

Aligned == coins = chain /\ perms = chain /\ ents = chain /\ wal = chain

Typed ==
    /\ chain \in Seq(Blocks) /\ goal \in Seq(Blocks)
    /\ coins \in Seq(Blocks) /\ perms \in Seq(Blocks)
    /\ ents \in Seq(Blocks) /\ wal \in Seq(Blocks)
    /\ detached \in BOOLEAN

\* The stores when the process is gone, whatever cut it off.
WhenDown == pc = "down" => \E c, d \in Seq(Blocks) : Spread(c, d)

\* The stores not yet taken back while a block is disconnected; the start does
\* that from where any of them may have been taken back before.
WhenBack ==
    pc \in {"coinsBack", "permsBack", "entsBack", "walletBack"} =>
        /\ chain # <<>> /\ ~detached
        /\ {coins, perms, ents, wal} \subseteq {chain, Front(chain)}
        /\ coins = IF pc = "coinsBack" THEN chain ELSE Front(chain)
        /\ pc \in {"entsBack", "walletBack"} => perms = Front(chain)
        /\ pc = "walletBack" => ents = Front(chain)

\* The stores that have the block to connect.
WhenConnect ==
    /\ pc \in {"connect", "entsCommit", "coinsCommit", "walletCommit"} =>
        ~detached /\ IsStrictPrefix(chain, goal)
    /\ pc \in {"connect", "finish"} => ~detached /\ Aligned
    /\ pc \in {"entsCommit", "coinsCommit", "walletCommit"} =>
        /\ perms = Append(chain, Coming)
        /\ ents = IF pc = "entsCommit" THEN chain ELSE Append(chain, Coming)
        /\ coins = IF pc = "walletCommit" THEN Append(chain, Coming) ELSE chain
        /\ wal = chain

\* Between the steps: at the tip, or with a block that the start or a failed wallet
\* leaves above it.
WhenIdle ==
    pc = "idle" =>
        /\ detached => Ahead(coins, chain)
        /\ ~detached => coins = chain
        /\ ~detached /\ mode \notin Trims => Aligned
        /\ \E d \in Seq(Blocks) : Spread(chain, d)
        /\ mode \in {"trimEnts", "trimWallet"} => perms = chain
        /\ mode = "trimWallet" => ents = chain

\* Blocks come and go only outside the trimming at the end of a start.
WhenTrimming == mode \in Trims => pc \in {"idle", "down"}

Places == {"idle", "coinsBack", "permsBack", "entsBack", "walletBack", "connect",
           "entsCommit", "coinsCommit", "walletCommit", "finish", "down"}

IInv ==
    /\ Typed /\ pc \in Places
    /\ WhenDown /\ WhenBack /\ WhenConnect /\ WhenIdle /\ WhenTrimming

\* The invariant for the next block typed.
LEMMA ComingTyped ==
    ASSUME Typed, IsStrictPrefix(chain, goal)
    PROVE  /\ Coming \in Blocks
           /\ Append(chain, Coming) \in Seq(Blocks)
           /\ Ahead(Append(chain, Coming), chain)
  <1>1. Coming \in Blocks
    BY PrefixShorter DEF Typed, Coming
  <1> QED
    BY <1>1, AppendAhead DEF Typed

\* Wherever a step leaves the process, the stores are two blocks of a branch at most.
LEMMA AlwaysSpread ==
    ASSUME IInv
    PROVE  \E c, d \in Seq(Blocks) : Spread(c, d)
  <1>1. CASE pc = "down"
    BY <1>1 DEF IInv, WhenDown
  <1>2. CASE pc \in {"coinsBack", "permsBack", "entsBack", "walletBack"}
    <2>1. Front(chain) \in Seq(Blocks) /\ chain \in Seq(Blocks) /\ Ahead(chain, Front(chain))
      BY <1>2, FrontLength DEF IInv, Typed, WhenBack, Ahead
    <2>2. {coins, perms, ents, wal} \subseteq {Front(chain), chain}
      BY <1>2 DEF IInv, WhenBack
    <2>3. Spread(Front(chain), chain)
      BY <2>1, <2>2 DEF Spread
    <2> QED
      BY <2>1, <2>3
  <1>3. CASE pc \in {"connect", "finish"}
    <2>1. Spread(chain, chain)
      BY <1>3 DEF IInv, WhenConnect, Aligned, Spread
    <2> QED
      BY <2>1 DEF IInv, Typed
  <1>4. CASE pc \in {"entsCommit", "coinsCommit", "walletCommit"}
    <2>1. Append(chain, Coming) \in Seq(Blocks) /\ Ahead(Append(chain, Coming), chain)
      BY <1>4, ComingTyped DEF IInv, WhenConnect
    <2>2. Spread(chain, Append(chain, Coming))
      BY <1>4, <2>1 DEF IInv, WhenConnect, Spread
    <2> QED
      BY <2>1, <2>2 DEF IInv, Typed
  <1>5. CASE pc = "idle"
    BY <1>5 DEF IInv, Typed, WhenIdle
  <1> QED
    BY <1>1, <1>2, <1>3, <1>4, <1>5 DEF IInv, Places

-----------------------------------------------------------------------------
(***************************************************************************)
(* Every step keeps it.                                                    *)
(***************************************************************************)
placed == <<chain, coins, perms, ents, wal, goal, pc, mode, detached>>

LEMMA Unmoved ==
    ASSUME IInv, UNCHANGED placed
    PROVE  IInv'
  BY DEF IInv, placed, Typed, WhenDown, WhenBack, WhenConnect, WhenIdle, WhenTrimming,
         Spread, Aligned, Coming

LEMMA AtRest ==
    ASSUME Typed', Aligned', ~detached', pc' \in {"idle", "finish"}, mode' \notin Trims
    PROVE  IInv'
  <1>1. Spread(chain, chain)'
    BY DEF Aligned, Spread
  <1>2. WhenIdle'
    BY <1>1 DEF WhenIdle, Typed, Aligned
  <1> QED
    BY <1>2 DEF IInv, Places, WhenDown, WhenBack, WhenConnect, WhenTrimming

LEMMA AtNext ==
    ASSUME Typed', Aligned', ~detached', mode' \notin Trims,
           NEW connected \in BOOLEAN, pc' = NextWrite(chain', goal', connected)
    PROVE  IInv'
  <1>1. \/ pc' = "coinsBack" /\ ~IsPrefix(chain', goal')
        \/ pc' = "connect" /\ IsStrictPrefix(chain', goal')
        \/ pc' = "finish"
    BY DEF NextWrite
  <1>2. CASE pc' = "coinsBack" /\ ~IsPrefix(chain', goal')
    <2>1. chain' # <<>>
      BY <1>2, PrefixShorter DEF Typed
    <2>2. WhenBack'
      BY <1>2, <2>1 DEF WhenBack, Aligned
    <2> QED
      BY <1>2, <2>2 DEF IInv, Places, WhenDown, WhenConnect, WhenIdle, WhenTrimming
  <1>3. CASE pc' = "connect" /\ IsStrictPrefix(chain', goal')
    BY <1>3 DEF IInv, Places, WhenDown, WhenBack, WhenConnect, WhenIdle, WhenTrimming
  <1>4. CASE pc' = "finish"
    BY <1>4, AtRest
  <1> QED
    BY <1>1, <1>2, <1>3, <1>4

LEMMA Down ==
    ASSUME Typed', pc' = "down", (\E c, d \in Seq(Blocks) : Spread(c, d))'
    PROVE  IInv'
  BY DEF IInv, Places, WhenDown, WhenBack, WhenConnect, WhenIdle, WhenTrimming

LEMMA InitHolds == Init => IInv
  <1> SUFFICES ASSUME Init
               PROVE  IInv
    OBVIOUS
  <1>1. Typed /\ Aligned /\ ~detached /\ pc = "idle" /\ mode = "run"
    BY EmptySeq DEF Init, Typed, Aligned
  <1>2. Spread(chain, chain)
    BY <1>1 DEF Aligned, Spread
  <1>3. WhenIdle
    BY <1>1, <1>2 DEF WhenIdle, Typed, Aligned
  <1> QED
    BY <1>1, <1>3 DEF IInv, Places, WhenDown, WhenBack, WhenConnect, WhenTrimming, Trims

\* Disconnecting a block, store by store.
LEMMA DisconnectKeeps ==
    ASSUME IInv, Disconnect
    PROVE  IInv'
  <1> DEFINE c == Front(chain)
  <1>1. /\ chain # <<>> /\ ~detached
        /\ chain \in Seq(Blocks) /\ c \in Seq(Blocks) /\ Ahead(chain, c)
        /\ {coins, perms, ents, wal} \subseteq {chain, c}
    BY FrontLength DEF IInv, Typed, WhenBack, Ahead, Disconnect, DisconnectCoins,
                       DisconnectPermissions, DisconnectEntities, DisconnectWallet
  <1>2. Len(c) = Len(chain) - 1
    <2>1. Len(chain) = Len(c) + 1 /\ Len(c) \in Nat
      BY <1>1, FrontLength, LenProperties
    <2> QED
      BY <2>1
  <1>3. \A s \in {chain, c} : Upto(s, Len(chain) - 1) = c
    BY <1>1, <1>2, UptoBelow, UptoAll
  <1>4. CASE DisconnectCoins
    <2>1. Typed'
      BY <1>1, <1>4 DEF IInv, Typed, DisconnectCoins
    <2>2. WhenBack'
      BY <1>1, <1>4 DEF IInv, WhenBack, DisconnectCoins
    <2> QED
      BY <1>4, <2>1, <2>2 DEF IInv, Places, WhenDown, WhenConnect, WhenIdle, WhenTrimming,
                              DisconnectCoins
  <1>5. CASE DisconnectPermissions
    <2>1. perms' = c
      BY <1>1, <1>3, <1>5 DEF DisconnectPermissions
    <2>2. Typed'
      BY <1>1, <2>1, <1>5 DEF IInv, Typed, DisconnectPermissions
    <2>3. WhenBack'
      BY <1>1, <2>1, <1>5 DEF IInv, WhenBack, DisconnectPermissions
    <2> QED
      BY <1>5, <2>2, <2>3 DEF IInv, Places, WhenDown, WhenConnect, WhenIdle, WhenTrimming,
                              DisconnectPermissions
  <1>6. CASE DisconnectEntities
    <2>1. ents' = c
      BY <1>1, <1>3, <1>6 DEF DisconnectEntities
    <2>2. Typed'
      BY <1>1, <2>1, <1>6 DEF IInv, Typed, DisconnectEntities
    <2>3. WhenBack'
      BY <1>1, <2>1, <1>6 DEF IInv, WhenBack, DisconnectEntities
    <2> QED
      BY <1>6, <2>2, <2>3 DEF IInv, Places, WhenDown, WhenConnect, WhenIdle, WhenTrimming,
                              DisconnectEntities
  <1>7. CASE DisconnectWallet
    <2>1. wal' = c
      BY <1>1, <1>3, <1>7 DEF DisconnectWallet
    <2>2. /\ chain' = c /\ coins' = coins /\ perms' = perms /\ ents' = ents
          /\ goal' = goal /\ detached' = detached
          /\ pc' = NextWrite(c, goal, FALSE)
      BY <1>7 DEF DisconnectWallet
    <2>3. Aligned'
      BY <2>1, <2>2, <1>7 DEF IInv, WhenBack, Aligned, DisconnectWallet
    <2>4. Typed' /\ ~detached' /\ mode' \notin Trims
      BY <1>1, <1>7, <2>1, <2>2 DEF IInv, Typed, WhenTrimming, DisconnectWallet
    <2> QED
      BY <2>2, <2>3, <2>4, AtNext
  <1> QED
    BY <1>4, <1>5, <1>6, <1>7 DEF Disconnect

\* Connecting a block, and the three ways that may fail.
LEMMA ConnectKeeps ==
    ASSUME IInv, Connect
    PROVE  IInv'
  <1> DEFINE d == Append(chain, Coming)
  <1>1. /\ ~detached /\ mode \notin Trims /\ IsStrictPrefix(chain, goal)
        /\ chain \in Seq(Blocks) /\ d \in Seq(Blocks) /\ Ahead(d, chain)
    <2>1. ~detached /\ mode \notin Trims /\ IsStrictPrefix(chain, goal)
      BY DEF IInv, WhenConnect, WhenTrimming, Connect, ConnectBarred, ConnectPermissions,
             ConnectEntities, ConnectCoins, ConnectWallet
    <2> QED
      BY <2>1, ComingTyped DEF IInv, Typed
  <1>2. CASE ConnectBarred
    <2>1. Typed' /\ Aligned' /\ ~detached' /\ pc' = "idle"
      BY <1>1, <1>2 DEF IInv, Typed, WhenConnect, Aligned, ConnectBarred, Refuse,
                        stores
    <2> QED
      BY <1>1, <1>2, <2>1, AtRest DEF ConnectBarred
  <1>3. CASE ConnectPermissions
    <2>1. Aligned /\ chain' = chain /\ coins' = coins /\ ents' = ents /\ wal' = wal
          /\ goal' = goal /\ detached' = detached /\ mode' = mode
      BY <1>3 DEF IInv, WhenConnect, ConnectPermissions
    <2>2. \/ perms' = d /\ pc' = "entsCommit"
          \/ perms' = perms /\ pc' = "idle"
      BY <1>3, <2>1 DEF ConnectPermissions, Refuse, Aligned
    <2>3. CASE perms' = d /\ pc' = "entsCommit"
      <3>1. Typed'
        BY <1>1, <2>1, <2>3 DEF IInv, Typed
      <3>2. WhenConnect'
        BY <1>1, <2>1, <2>3 DEF WhenConnect, Aligned, Coming
      <3> QED
        BY <1>1, <2>1, <2>3, <3>1, <3>2
           DEF IInv, Places, WhenDown, WhenBack, WhenIdle, WhenTrimming
    <2>4. CASE perms' = perms /\ pc' = "idle"
      <3>1. Typed' /\ Aligned' /\ ~detached'
        BY <1>1, <2>1, <2>4 DEF IInv, Typed, Aligned
      <3> QED
        BY <1>1, <2>1, <2>4, <3>1, AtRest
    <2> QED
      BY <2>2, <2>3, <2>4
  <1>4. CASE ConnectEntities
    <2>1. /\ perms = d /\ ents = chain /\ coins = chain /\ wal = chain
          /\ chain' = chain /\ coins' = coins /\ wal' = wal
          /\ goal' = goal /\ detached' = detached /\ mode' = mode
      BY <1>4 DEF IInv, WhenConnect, ConnectEntities
    <2>2. \/ ents' = d /\ perms' = perms /\ pc' = "coinsCommit"
          \/ ents' = ents /\ perms' = Upto(perms, Len(perms) - 1) /\ pc' = "idle"
      BY <1>4, <2>1 DEF ConnectEntities, Refuse
    <2>3. CASE ents' = d /\ perms' = perms /\ pc' = "coinsCommit"
      <3>1. Typed'
        BY <1>1, <2>1, <2>3 DEF IInv, Typed
      <3>2. WhenConnect'
        BY <1>1, <2>1, <2>3 DEF WhenConnect, Coming
      <3> QED
        BY <1>1, <2>1, <2>3, <3>1, <3>2
           DEF IInv, Places, WhenDown, WhenBack, WhenIdle, WhenTrimming
    <2>4. CASE ents' = ents /\ perms' = Upto(perms, Len(perms) - 1) /\ pc' = "idle"
      <3>1. Upto(d, Len(chain)) = chain /\ Len(d) = Len(chain) + 1 /\ Len(chain) \in Nat
        BY <1>1, UptoBelow, LenProperties
      <3>2. perms' = chain
        BY <2>1, <2>4, <3>1
      <3>3. Typed' /\ Aligned' /\ ~detached'
        BY <1>1, <2>1, <2>4, <3>2 DEF IInv, Typed, Aligned
      <3> QED
        BY <1>1, <2>1, <2>4, <3>3, AtRest
    <2> QED
      BY <2>2, <2>3, <2>4
  <1>5. CASE ConnectCoins
    <2>1. /\ perms = d /\ ents = d /\ coins = chain /\ wal = chain
          /\ chain' = chain /\ perms' = perms /\ ents' = ents /\ wal' = wal
          /\ goal' = goal /\ detached' = detached /\ mode' = mode
      BY <1>5 DEF IInv, WhenConnect, ConnectCoins
    <2>2. \/ coins' = d /\ pc' = "walletCommit"
          \/ coins' \in {chain, d} /\ pc' = "down"
      BY <1>5 DEF ConnectCoins
    <2>3. Typed'
      BY <1>1, <2>1, <2>2 DEF IInv, Typed
    <2>4. CASE coins' = d /\ pc' = "walletCommit"
      <3>1. WhenConnect'
        BY <1>1, <2>1, <2>4 DEF WhenConnect, Coming
      <3> QED
        BY <1>1, <2>1, <2>3, <2>4, <3>1
           DEF IInv, Places, WhenDown, WhenBack, WhenIdle, WhenTrimming
    <2>5. CASE coins' \in {chain, d} /\ pc' = "down"
      <3>1. {coins', perms', ents', wal'} \subseteq {chain, d}
        BY <2>1, <2>5
      <3>2. (\E x, y \in Seq(Blocks) : Spread(x, y))'
        BY <1>1, <3>1 DEF Spread
      <3> QED
        BY <2>3, <2>5, <3>2, Down
    <2> QED
      BY <2>2, <2>4, <2>5
  <1>6. CASE ConnectWallet
    <2>1. /\ perms = d /\ ents = d /\ coins = d /\ wal = chain
          /\ coins' = coins /\ perms' = perms /\ ents' = ents
          /\ goal' = goal /\ mode' = mode
      BY <1>6 DEF IInv, WhenConnect, ConnectWallet
    <2>2. \/ /\ wal' = d /\ chain' = d /\ detached' = detached
             /\ pc' = NextWrite(d, goal, TRUE)
          \/ /\ wal' = wal /\ chain' = chain /\ detached' = TRUE
             /\ pc' = "idle"
      BY <1>6, <2>1 DEF ConnectWallet
    <2>3. CASE wal' = d /\ chain' = d /\ detached' = detached
               /\ pc' = NextWrite(d, goal, TRUE)
      <3>1. Typed' /\ Aligned' /\ ~detached'
        BY <1>1, <2>1, <2>3 DEF IInv, Typed, Aligned
      <3> QED
        BY <1>1, <2>1, <2>3, <3>1, AtNext
    <2>4. CASE wal' = wal /\ chain' = chain /\ detached' = TRUE /\ pc' = "idle"
      <3>1. Typed'
        BY <1>1, <2>1, <2>4 DEF IInv, Typed
      <3>2. (\E y \in Seq(Blocks) : Spread(chain, y))'
        BY <1>1, <2>1, <2>4 DEF Spread
      <3> QED
        BY <1>1, <2>1, <2>4, <3>1, <3>2
           DEF IInv, Places, WhenDown, WhenBack, WhenConnect, WhenIdle, WhenTrimming, Trims
    <2> QED
      BY <2>2, <2>3, <2>4
  <1> QED
    BY <1>2, <1>3, <1>4, <1>5, <1>6 DEF Connect

\* The start takes the chain from the coins and compares the other three.
LEMMA StartKeeps ==
    ASSUME IInv, Start
    PROVE  IInv'
  <1> DEFINE heights == {Len(perms), Len(ents), Len(wal)}
  <1> DEFINE lowest == CHOOSE h \in heights : \A k \in heights : h <= k
  <1>1. PICK c \in Seq(Blocks), d \in Seq(Blocks) : Spread(c, d)
    BY AlwaysSpread
  <1>2. Len(c) \in Nat /\ Len(d) \in Nat /\ (d # c => Len(d) = Len(c) + 1)
    BY <1>1, LenProperties, UptoBelow DEF Spread
  <1>3. lowest \in heights /\ \A k \in heights : lowest <= k
    <2>1. Len(perms) \in Nat /\ Len(ents) \in Nat /\ Len(wal) \in Nat
      BY LenProperties DEF IInv, Typed
    <2>2. \E h \in heights : \A k \in heights : h <= k
      BY <2>1
    <2> QED
      BY <2>2
  <1>4. /\ chain' = coins /\ coins' = coins /\ perms' = perms /\ ents' = ents
        /\ wal' = wal /\ detached' = FALSE
        /\ \/ /\ lowest < Len(coins)
              /\ goal' = SubSeq(coins, 1, lowest)
              /\ mode' = "shift" /\ pc' = "coinsBack"
           \/ /\ ~(lowest < Len(coins))
              /\ goal' = goal /\ mode' = "trim" /\ pc' = "idle"
    BY DEF Start, StartFrom, stores
  <1>5. CASE lowest < Len(coins)
    <2>1. coins = d /\ Ahead(d, c)
      BY <1>1, <1>2, <1>3, <1>5 DEF Spread
    <2>2. lowest \in 0..Len(coins)
      BY <1>1, <1>2, <1>3, <1>5 DEF Spread
    <2>3. Typed'
      <3>1. /\ coins \in Seq(Blocks) /\ perms \in Seq(Blocks) /\ ents \in Seq(Blocks)
            /\ wal \in Seq(Blocks)
        BY DEF IInv, Typed
      <3>2. goal' = SubSeq(coins, 1, lowest)
        BY <1>4, <1>5
      <3>3. goal' \in Seq(Blocks)
        <4> HIDE DEF lowest
        <4> QED
          BY <2>2, <3>1, <3>2, PrefixOf
      <3> QED
        BY <1>4, <3>1, <3>3 DEF Typed
    <2>4. WhenBack'
      BY <1>1, <1>4, <1>5, <2>1 DEF WhenBack, Spread, Ahead
    <2> QED
      BY <1>4, <1>5, <2>3, <2>4
         DEF IInv, Places, WhenDown, WhenConnect, WhenIdle, WhenTrimming, Trims
  <1>6. CASE ~(lowest < Len(coins))
    <2>1. coins = c \/ (coins = d /\ perms = d /\ ents = d /\ wal = d)
      BY <1>1, <1>2, <1>3, <1>6 DEF Spread
    <2>2. \/ Spread(coins, d) \/ Spread(coins, coins)
      BY <1>1, <2>1 DEF Spread
    <2>3. (\E y \in Seq(Blocks) : Spread(chain, y))'
      BY <1>1, <1>4, <2>2 DEF Spread, IInv, Typed
    <2>4. Typed'
      BY <1>4, <1>6 DEF IInv, Typed
    <2> QED
      BY <1>4, <1>6, <2>3, <2>4
         DEF IInv, Places, WhenDown, WhenBack, WhenConnect, WhenIdle, WhenTrimming, Trims
  <1> QED
    BY <1>5, <1>6

\* The end of a start: what is left above the chain is rolled back.
LEMMA TrimKeeps ==
    ASSUME IInv, TrimPermissions \/ TrimEntities \/ TrimWallet
    PROVE  IInv'
  <1>1. pc = "idle" /\ mode \in Trims /\ pc' = pc /\ chain' = chain /\ coins' = coins
        /\ goal' = goal /\ detached' = detached
    BY DEF TrimPermissions, TrimEntities, TrimWallet, Trims
  <1>2. chain \in Seq(Blocks) /\ Upto(chain, Len(chain)) = chain
    BY UptoAll DEF IInv, Typed
  <1>3. PICK d \in Seq(Blocks) : Spread(chain, d)
    BY <1>1 DEF IInv, WhenIdle
  <1>4. \A s \in {chain, d} : Upto(s, Len(chain)) = chain
    BY <1>2, <1>3, UptoBelow DEF Spread
  <1>5. \A s \in {coins, perms, ents, wal} : Upto(s, Len(chain)) = chain
    BY <1>3, <1>4 DEF Spread
  <1>6. /\ perms' \in {perms, chain} /\ ents' \in {ents, chain} /\ wal' \in {wal, chain}
        /\ mode' \in {"trimEnts", "trimWallet", "run"}
        /\ perms' = chain
        /\ mode' \in {"trimWallet", "run"} => ents' = chain
        /\ mode' = "run" => wal' = chain
    BY <1>1, <1>5 DEF IInv, WhenIdle, TrimPermissions, TrimEntities, TrimWallet
  <1>7. Typed'
    BY <1>1, <1>2, <1>6 DEF IInv, Typed
  <1>8. Spread(chain, d)'
    BY <1>1, <1>3, <1>6 DEF Spread
  <1>9. WhenIdle'
    BY <1>1, <1>3, <1>6, <1>8 DEF IInv, WhenIdle, Aligned, Trims
  <1> QED
    BY <1>1, <1>7, <1>9
       DEF IInv, Places, WhenDown, WhenBack, WhenConnect, WhenTrimming

LEMMA InvariantStep == IInv /\ [Next]_vars => IInv'
  <1> SUFFICES ASSUME IInv, [Next]_vars
               PROVE  IInv'
    OBVIOUS
  <1>1. ASSUME NEW t \in Offered, AcceptToMemoryPool(t)
        PROVE  IInv'
    BY <1>1, Unmoved DEF AcceptToMemoryPool, placed, stores
  <1>2. ASSUME NEW s \in Branches, Receive(s)
        PROVE  IInv'
    BY <1>2, Unmoved DEF Receive, placed, stores
  <1>3. ASSUME NEW s \in MostWork, Begin(s)
        PROVE  IInv'
    <2>1. s \in Seq(Blocks)
      BY BranchesAssumption DEF MostWork
    <2>2. ~detached
      <3>1. ASSUME Ahead(coins, chain)
            PROVE  coins # chain
        BY <3>1, FrontLength DEF IInv, Typed, Ahead
      <3> QED
        BY <1>3, <3>1 DEF Begin, IInv, WhenIdle
    <2>3. Aligned /\ mode \notin Trims
      BY <1>3, <2>2 DEF Begin, IInv, WhenIdle, Trims
    <2>4. /\ chain' = chain /\ coins' = coins /\ perms' = perms /\ ents' = ents
          /\ wal' = wal /\ detached' = detached /\ mode' = mode /\ goal' = s
          /\ pc' = NextWrite(chain, s, FALSE)
      BY <1>3 DEF Begin, stores
    <2>5. Typed' /\ Aligned' /\ ~detached'
      BY <2>1, <2>2, <2>3, <2>4 DEF IInv, Typed, Aligned
    <2> QED
      BY <2>3, <2>4, <2>5, AtNext
  <1>4. ASSUME NEW s \in MostWork, BeginRejects(s)
        PROVE  IInv'
    BY <1>4, Unmoved DEF BeginRejects, placed, stores
  <1>5. ASSUME BeginAborts \/ Crash
        PROVE  IInv'
    <2>1. /\ chain' = chain /\ coins' = coins /\ perms' = perms /\ ents' = ents
          /\ wal' = wal /\ goal' = goal /\ detached' = detached
          /\ pc' = "down"
      BY <1>5 DEF BeginAborts, Crash, stores
    <2>2. Typed' /\ (\E c, d \in Seq(Blocks) : Spread(c, d))'
      BY <2>1, AlwaysSpread DEF IInv, Typed, Spread
    <2> QED
      BY <2>1, <2>2, Down
  <1>6. ASSUME Finish
        PROVE  IInv'
    <2>1. /\ Aligned /\ ~detached /\ mode \notin Trims
      BY <1>6 DEF Finish, EndStep, IInv, WhenConnect, WhenTrimming
    <2>2. /\ chain' = chain /\ coins' = coins /\ perms' = perms /\ ents' = ents
          /\ wal' = wal /\ goal' = goal /\ detached' = detached
          /\ pc' = "idle" /\ mode' \in {mode, "up"}
      BY <1>6 DEF Finish, EndStep, stores
    <2>3. Typed' /\ Aligned' /\ ~detached' /\ mode' \notin Trims
      BY <2>1, <2>2 DEF IInv, Typed, Aligned, Trims
    <2> QED
      BY <2>2, <2>3, AtRest
  <1>7. ASSUME UpDone
        PROVE  IInv'
    <2>1. pc = "idle" /\ mode = "up" /\ mode' = "trim"
          /\ UNCHANGED <<chain, coins, perms, ents, wal, goal, pc, detached>>
      BY <1>7 DEF UpDone, stores
    <2>2. Typed' /\ (\E y \in Seq(Blocks) : Spread(chain, y))'
      BY <2>1 DEF IInv, Typed, WhenIdle, Spread
    <2> QED
      BY <2>1, <2>2
         DEF IInv, Places, WhenDown, WhenBack, WhenConnect, WhenIdle, WhenTrimming, Trims
  <1>8. CASE UNCHANGED vars
    BY <1>8, Unmoved DEF vars, placed, stores
  <1> QED
    BY <1>1, <1>2, <1>3, <1>4, <1>5, <1>6, <1>7, <1>8,
       DisconnectKeeps, ConnectKeeps, StartKeeps, TrimKeeps
       DEF Next, Work, Load

LEMMA Invariance == Spec => []IInv
  BY InitHolds, InvariantStep, PTL DEF Spec

\* A running node has its coins, permissions, entities and wallet at its tip, unless
\* the wallet refused a block since the last start.  The order of the writes in
\* ConnectTip and DisconnectTip keeps any two stores at most one block apart, so
\* that going back to the lowest of them (LoadBlockIndexDB) finds them together.
THEOREM RunningStoresAgree == Spec => []StoresAgree
  <1>1. IInv => StoresAgree
    BY DEF IInv, WhenIdle, Aligned, StoresAgree, Running, Trims
  <1> QED
    BY <1>1, Invariance, PTL

\* The coins, from which a start takes its chain, and the other stores are blocks of
\* one branch, at most one of them apart, at every moment: also while the process is
\* gone, whatever cut it off.
THEOREM StoresOneApart == Spec => [](\E c, d \in Seq(Blocks) : Spread(c, d))
  BY Invariance, AlwaysSpread, PTL

-----------------------------------------------------------------------------
(***************************************************************************)
(* The verdicts.  What the checks say of a block's transactions is left    *)
(* as it is: the proof is about which ledger they are checked against.     *)
(***************************************************************************)

\* The blocks of a store break no rule; those of a set do.
Clean(store) ==
    \A s \in Branches \ {<<>>} : Last(s) \in Range(store) => BreaksNoRule(s)
Guilty(blocks) ==
    \A s \in Branches \ {<<>>} : Last(s) \in blocks => ~BreaksNoRule(s)

JInv ==
    /\ {chain, coins, goal} \subseteq Branches \cup {<<>>}
    /\ Clean(chain) /\ Clean(coins)
    /\ pc \in {"entsCommit", "coinsCommit", "walletCommit"} => Clean(Append(chain, Coming))
    /\ fails \in Nat /\ (detached => fails > 0)
    /\ fails = 0 => Guilty(failed) /\ Guilty(marks)

\* A branch begins with branches.
LEMMA PrefixIsBranch ==
    ASSUME NEW s \in Branches, NEW n \in 0..Len(s)
    PROVE  SubSeq(s, 1, n) \in Branches
  <1> DEFINE T == {k \in 0..Len(s) : SubSeq(s, 1, k) \notin Branches}
  <1>1. s \in Seq(Blocks) /\ Len(s) \in Nat
    BY BranchesAssumption, LenProperties
  <1>2. SUFFICES ASSUME T # {}
                 PROVE  FALSE
    OBVIOUS
  <1>3. PICK k \in T : \A j \in T : j <= k
    BY <1>1, <1>2, Greatest
  <1>4. k \in 0..Len(s) /\ SubSeq(s, 1, k) \notin Branches /\ k # Len(s)
    BY <1>1, SubSeqFull
  <1>5. k + 1 \in 0..Len(s) /\ k + 1 \notin T
    BY <1>1, <1>3, <1>4
  <1> DEFINE u == SubSeq(s, 1, k + 1)
  <1>6. u \in Branches
    BY <1>5
  <1>7. /\ u \in Seq(Blocks) /\ Len(u) = k + 1
        /\ \A i \in 1..(k + 1) : u[i] = s[i]
    BY <1>1, <1>5, PrefixOf
  <1>8. Front(u) \in Branches
    <2>1. u # <<>>
      BY <1>4, <1>7, EmptySeq
    <2> QED
      BY <1>6, <2>1, BranchesAssumption
  <1>9. Front(u) = SubSeq(s, 1, k)
    <2>1. Front(u) = SubSeq(u, 1, k)
      BY <1>4, <1>7 DEF Front
    <2>2. /\ SubSeq(u, 1, k) \in Seq(Blocks) /\ Len(SubSeq(u, 1, k)) = k
          /\ \A i \in 1..k : SubSeq(u, 1, k)[i] = u[i]
      <3> HIDE DEF u
      <3>1. k \in 0..Len(u)
        BY <1>4, <1>7
      <3> QED
        BY <1>7, <3>1, PrefixOf
    <2>3. /\ SubSeq(s, 1, k) \in Seq(Blocks) /\ Len(SubSeq(s, 1, k)) = k
          /\ \A i \in 1..k : SubSeq(s, 1, k)[i] = s[i]
      BY <1>1, <1>4, PrefixOf
    <2>4. SubSeq(u, 1, k) = SubSeq(s, 1, k)
      <3> HIDE DEF u
      <3>1. \A i \in 1..k : SubSeq(u, 1, k)[i] = SubSeq(s, 1, k)[i]
        BY <1>4, <1>7, <2>2, <2>3
      <3> QED
        BY <2>2, <2>3, <3>1, SeqEqual
    <2> QED
      BY <2>1, <2>4
  <1> QED
    BY <1>4, <1>8, <1>9

\* The block to connect makes a branch of the chain.
LEMMA ComingIsBranch ==
    ASSUME Typed, JInv, IsStrictPrefix(chain, goal)
    PROVE  /\ Append(chain, Coming) \in Branches \ {<<>>}
           /\ Last(Append(chain, Coming)) = Coming /\ Front(Append(chain, Coming)) = chain
           /\ Range(Append(chain, Coming)) = Range(chain) \cup {Coming}
           /\ \A s \in Branches \ {<<>>} : Last(s) = Coming => s = Append(chain, Coming)
  <1> DEFINE n == Len(chain) + 1
             d == Append(chain, Coming)
  <1>1. /\ chain \in Seq(Blocks) /\ goal \in Seq(Blocks)
        /\ Len(chain) \in Nat /\ Len(goal) \in Nat /\ n \in 1..Len(goal)
        /\ Coming \in Blocks
    BY PrefixShorter, ComingTyped, LenProperties DEF Typed
  <1>2. goal \in Branches
    BY <1>1, EmptySeq DEF JInv
  <1>3. SubSeq(goal, 1, n) \in Branches
    BY <1>1, <1>2, PrefixIsBranch
  <1>4. /\ SubSeq(goal, 1, n) \in Seq(Blocks) /\ Len(SubSeq(goal, 1, n)) = n
        /\ \A i \in 1..n : SubSeq(goal, 1, n)[i] = goal[i]
    BY <1>1, PrefixOf
  <1>5. /\ d \in Seq(Blocks) /\ d # <<>> /\ Len(d) = n /\ d[n] = Coming
        /\ \A i \in 1..Len(chain) : d[i] = chain[i]
    BY <1>1, AppendProperties
  <1>6. \A i \in 1..Len(chain) : chain[i] = goal[i]
    <2>1. SubSeq(chain, 1, Len(chain)) = SubSeq(goal, 1, Len(chain))
      BY DEF IsStrictPrefix, IsPrefix
    <2>2. /\ \A i \in 1..Len(chain) : SubSeq(chain, 1, Len(chain))[i] = chain[i]
          /\ \A i \in 1..Len(chain) : SubSeq(goal, 1, Len(chain))[i] = goal[i]
      BY <1>1, PrefixOf
    <2> QED
      BY <2>1, <2>2
  <1>7. d = SubSeq(goal, 1, n)
    <2>1. \A i \in 1..n : d[i] = SubSeq(goal, 1, n)[i]
      <3> SUFFICES ASSUME NEW i \in 1..n
                   PROVE  d[i] = goal[i]
        BY <1>4
      <3>1. CASE i = n
        BY <1>5, <3>1 DEF Coming
      <3>2. CASE i \in 1..Len(chain)
        BY <1>5, <1>6, <3>2
      <3> QED
        BY <1>1, <3>1, <3>2
    <2> HIDE DEF d
    <2> QED
      BY <1>4, <1>5, <2>1, SeqEqual
  <1>8. d \in Branches \ {<<>>} /\ Last(d) = Coming
    BY <1>3, <1>5, <1>7 DEF Last
  <1>9. Front(d) = chain
    BY <1>1, AppendAhead DEF Ahead
  <1>10. Range(d) = Range(chain) \cup {Coming}
    <2>1. /\ Range(chain) = {chain[i] : i \in 1..Len(chain)}
          /\ Range(d) = {d[i] : i \in 1..n}
      BY <1>1, <1>5, LenProperties DEF Range
    <2> HIDE DEF d
    <2>2. \A i \in 1..n : d[i] \in Range(chain) \cup {Coming}
      BY <1>1, <1>5, <2>1
    <2>3. \A i \in 1..Len(chain) : chain[i] \in Range(d)
      BY <1>1, <1>5, <2>1
    <2>4. Coming \in Range(d)
      BY <1>1, <1>5, <2>1
    <2> QED
      BY <2>1, <2>2, <2>3, <2>4
  <1>11. \A s \in Branches \ {<<>>} : Last(s) = Coming => s = d
    BY <1>8, BranchesAssumption
  <1> QED
    BY <1>8, <1>9, <1>10, <1>11

\* A store that loses its last block loses no branch and no verdict.
LEMMA FrontIsClean ==
    ASSUME NEW c \in Seq(Blocks), c # <<>>, c \in Branches \cup {<<>>}, Clean(c)
    PROVE  Front(c) \in Branches \cup {<<>>} /\ Clean(Front(c))
  <1>1. Front(c) \in Branches
    BY BranchesAssumption
  <1>2. Len(c) \in Nat /\ Len(c) >= 1 /\ Front(c) = SubSeq(c, 1, Len(c) - 1)
    BY EmptySeq, LenProperties DEF Front
  <1>3. /\ Len(Front(c)) = Len(c) - 1 /\ Front(c) \in Seq(Blocks)
        /\ \A i \in 1..(Len(c) - 1) : Front(c)[i] = c[i]
    <2>1. Len(c) - 1 \in 0..Len(c)
      BY <1>2
    <2> QED
      BY <1>2, <2>1, PrefixOf
  <1>4. Range(Front(c)) \subseteq Range(c)
    <2>1. /\ Range(Front(c)) = {Front(c)[i] : i \in 1..(Len(c) - 1)}
          /\ Range(c) = {c[i] : i \in 1..Len(c)}
      BY <1>3, LenProperties DEF Range
    <2> QED
      BY <1>2, <1>3, <2>1
  <1> QED
    BY <1>1, <1>4 DEF Clean

\* A step that leaves chain, coins and the marks alone and goes to no commit.
LEMMA Unjudged ==
    ASSUME JInv, UNCHANGED <<chain, coins, goal, failed, marks, fails>>, detached' = detached,
           pc' = pc \/ pc' \notin {"entsCommit", "coinsCommit", "walletCommit"}
    PROVE  JInv'
  BY DEF JInv, Clean, Guilty, Coming

LEMMA JudgedInit == Init => JInv
  <1> SUFFICES ASSUME Init
               PROVE  JInv
    OBVIOUS
  <1>1. /\ chain = <<>> /\ coins = <<>> /\ goal = <<>> /\ failed = {} /\ marks = {}
        /\ pc = "idle" /\ fails = 0 /\ detached = FALSE
    BY DEF Init
  <1>2. Range(<<>>) = {}
    <2>1. Len(<<>>) = 0 /\ <<>> \in Seq(Blocks)
      BY EmptySeq
    <2>2. DOMAIN <<>> = {}
      BY <2>1, LenProperties
    <2> QED
      BY <2>2 DEF Range
  <1>3. Clean(<<>>) /\ Guilty({})
    BY <1>2 DEF Clean, Guilty
  <1> QED
    BY <1>1, <1>3 DEF JInv

LEMMA DisconnectJudged ==
    ASSUME IInv, JInv, Disconnect
    PROVE  JInv'
  <1>1. chain # <<>> /\ chain \in Seq(Blocks) /\ chain \in Branches \cup {<<>>} /\ Clean(chain)
    BY DEF IInv, JInv, Typed, WhenBack, Disconnect, DisconnectCoins,
           DisconnectPermissions, DisconnectEntities, DisconnectWallet
  <1>2. Front(chain) \in Branches \cup {<<>>} /\ Clean(Front(chain))
    BY <1>1, FrontIsClean
  <1>3. CASE DisconnectCoins
    <2>1. /\ coins' = Front(chain) /\ marks' = failed /\ pc' = "permsBack"
          /\ UNCHANGED <<chain, goal, failed, detached, fails>>
      BY <1>3 DEF DisconnectCoins
    <2> QED
      BY <1>2, <2>1 DEF JInv, Clean, Guilty
  <1>4. CASE DisconnectPermissions \/ DisconnectEntities
    BY <1>4, Unjudged DEF DisconnectPermissions, DisconnectEntities, index
  <1>5. CASE DisconnectWallet
    <2>1. /\ chain' = Front(chain) /\ pc' \in {"coinsBack", "connect", "finish"}
          /\ UNCHANGED <<coins, goal, failed, marks, detached, fails>>
      BY <1>5 DEF DisconnectWallet, NextWrite, index
    <2> QED
      BY <1>2, <2>1 DEF JInv, Clean, Guilty
  <1> QED
    BY <1>3, <1>4, <1>5 DEF Disconnect

LEMMA ConnectJudged ==
    ASSUME IInv, JInv, Connect
    PROVE  JInv'
  <1> DEFINE d == Append(chain, Coming)
  <1>1. /\ Typed /\ IsStrictPrefix(chain, goal) /\ fails \in Nat
    BY DEF IInv, JInv, WhenConnect, Connect, ConnectBarred, ConnectPermissions,
           ConnectEntities, ConnectCoins, ConnectWallet
  <1>2. /\ d \in Branches \ {<<>>} /\ Last(d) = Coming /\ Front(d) = chain
        /\ Range(d) = Range(chain) \cup {Coming}
        /\ \A s \in Branches \ {<<>>} : Last(s) = Coming => s = d
    BY <1>1, ComingIsBranch
  <1> HIDE DEF d
  <1>3. BreaksNoRule(d) => Clean(d)
    BY <1>2 DEF JInv, Clean
  <1>4. ~BreaksNoRule(d) /\ Guilty(failed) => Guilty(failed \cup {Coming})
    BY <1>2 DEF Guilty
  <1>5. CASE ConnectBarred
    <2>1. /\ failed' = failed \cup {Coming} /\ pc' = "idle" /\ Coming \in BadMiners
          /\ UNCHANGED <<chain, coins, goal, marks, detached, fails>>
      BY <1>5 DEF ConnectBarred, Refuse, stores
    <2>2. ~BreaksNoRule(d)
      BY <1>2, <2>1 DEF BreaksNoRule
    <2> QED
      BY <1>4, <2>1, <2>2 DEF JInv, Clean, Guilty
  <1>6. CASE ConnectPermissions
    <2>1. perms = chain /\ Coming \notin BadMiners
          /\ UNCHANGED <<chain, coins, goal, marks, detached>>
      BY <1>6 DEF IInv, WhenConnect, Aligned, ConnectPermissions
    <2>2. BreaksNoRule(d)
             <=> ValidPrefix(Content[Coming], CheckedAgainst) = Len(Content[Coming])
      BY <1>2, <2>1 DEF BreaksNoRule, CheckedAgainst
    <2> DEFINE good == ValidPrefix(Content[Coming], CheckedAgainst)
    <2>3. \/ good = Len(Content[Coming]) /\ pc' = "entsCommit" /\ UNCHANGED <<failed, fails>>
          \/ /\ good < Len(Content[Coming])
             /\ failed' = failed \cup {Coming} /\ pc' = "idle" /\ UNCHANGED fails
          \/ fails' = fails + 1 /\ pc' = "idle"
      BY <1>6 DEF ConnectPermissions, Refuse
    <2> HIDE DEF good
    <2>4. CASE good = Len(Content[Coming]) /\ pc' = "entsCommit" /\ UNCHANGED <<failed, fails>>
      <3>1. Clean(d)' /\ d' = d
        BY <1>3, <2>1, <2>2, <2>4 DEF good, d, Coming, Clean
      <3> QED
        BY <2>1, <2>4, <3>1 DEF JInv, d, Clean, Guilty
    <2>5. CASE /\ good < Len(Content[Coming])
               /\ failed' = failed \cup {Coming} /\ pc' = "idle" /\ UNCHANGED fails
      <3>1. ~BreaksNoRule(d)
        <4>1. Len(Content[Coming]) \in Nat
          BY <1>1, ComingTyped, StoresAssumption, LenProperties
        <4>2. good # Len(Content[Coming])
          BY <2>5, <4>1
        <4> QED
          BY <2>2, <4>2 DEF good
      <3> QED
        BY <1>4, <2>1, <2>5, <3>1 DEF JInv, Clean, Guilty
    <2>6. CASE fails' = fails + 1 /\ pc' = "idle"
      BY <1>1, <2>1, <2>6 DEF JInv, Clean
    <2> QED
      BY <2>3, <2>4, <2>5, <2>6
  <1>7. CASE ConnectEntities
    <2>1. /\ pc = "entsCommit" /\ UNCHANGED <<chain, coins, goal, marks, detached>>
          /\ \/ pc' = "coinsCommit" /\ UNCHANGED <<failed, fails>>
             \/ fails' = fails + 1 /\ pc' = "idle"
      BY <1>7 DEF ConnectEntities, Refuse
    <2> QED
      BY <1>1, <2>1 DEF JInv, Clean, Guilty, Coming
  <1>8. CASE ConnectCoins
    <2>1. /\ pc = "coinsCommit" /\ coins' \in {chain, d}
          /\ UNCHANGED <<chain, goal, failed, detached>>
          /\ \/ marks' = failed /\ pc' = "walletCommit" /\ UNCHANGED fails
             \/ fails' = fails + 1 /\ pc' = "down"
      BY <1>8 DEF ConnectCoins, d
    <2>2. Clean(d)
      BY <2>1 DEF JInv, d
    <2>3. coins' \in Branches \cup {<<>>} /\ Clean(coins')
      BY <1>2, <2>1, <2>2 DEF JInv
    <2> QED
      BY <1>1, <2>1, <2>3 DEF JInv, Clean, Guilty, Coming
  <1>9. CASE ConnectWallet
    <2>1. /\ chain' \in {chain, coins} /\ UNCHANGED <<coins, goal, failed, marks>>
          /\ \/ UNCHANGED <<detached, fails>> /\ pc' \in {"coinsBack", "connect", "finish"}
             \/ fails' = fails + 1 /\ pc' = "idle"
      BY <1>9 DEF ConnectWallet, NextWrite, index
    <2> QED
      BY <1>1, <2>1 DEF JInv, Clean, Guilty
  <1> QED
    BY <1>5, <1>6, <1>7, <1>8, <1>9 DEF Connect

LEMMA StartJudged ==
    ASSUME IInv, JInv, Start
    PROVE  JInv'
  <1> DEFINE heights == {Len(perms), Len(ents), Len(wal)}
  <1> DEFINE lowest == CHOOSE h \in heights : \A k \in heights : h <= k
  <1>1. /\ chain' = coins /\ failed' = marks /\ detached' = FALSE
        /\ UNCHANGED <<coins, marks, fails>> /\ pc' \in {"coinsBack", "idle"}
        /\ goal' \in {goal} \/ (lowest < Len(coins) /\ goal' = SubSeq(coins, 1, lowest))
    BY DEF Start, StartFrom, stores
  <1>2. goal' \in Branches \cup {<<>>}
    <2>1. CASE goal' \in {goal}
      BY <2>1 DEF JInv
    <2>2. CASE lowest < Len(coins) /\ goal' = SubSeq(coins, 1, lowest)
      <3>1. /\ Len(perms) \in Nat /\ Len(ents) \in Nat /\ Len(wal) \in Nat
            /\ Len(coins) \in Nat /\ coins \in Seq(Blocks)
        BY LenProperties DEF IInv, Typed
      <3>2. \E h \in heights : \A k \in heights : h <= k
        BY <3>1
      <3>3. lowest \in Nat
        BY <3>1, <3>2
      <3>4. coins # <<>> /\ lowest \in 0..Len(coins)
        BY <2>2, <3>1, <3>3, EmptySeq
      <3>5. coins \in Branches
        BY <3>4 DEF JInv
      <3> HIDE DEF lowest
      <3> QED
        BY <2>2, <3>4, <3>5, PrefixIsBranch
    <2> QED
      BY <1>1, <2>1, <2>2
  <1> QED
    BY <1>1, <1>2 DEF JInv, Clean, Guilty

LEMMA JudgedStep == IInv /\ JInv /\ [Next]_vars => JInv'
  <1> SUFFICES ASSUME IInv, JInv, [Next]_vars
               PROVE  JInv'
    OBVIOUS
  <1>1. ASSUME NEW t \in Offered, AcceptToMemoryPool(t)
        PROVE  JInv'
    BY <1>1, Unjudged DEF AcceptToMemoryPool, stores, index
  <1>2. ASSUME NEW s \in Branches, Receive(s)
        PROVE  JInv'
    BY <1>2, Unjudged DEF Receive, stores
  <1>3. ASSUME NEW s \in MostWork, Begin(s)
        PROVE  JInv'
    <2>1. s \in Branches
      BY DEF MostWork
    <2>2. /\ goal' = s /\ pc' \in {"coinsBack", "connect", "finish"}
          /\ UNCHANGED <<chain, coins, failed, marks, detached, fails>>
      BY <1>3 DEF Begin, NextWrite, stores, index
    <2> QED
      BY <2>1, <2>2 DEF JInv, Clean, Guilty
  <1>4. ASSUME NEW s \in MostWork, BeginRejects(s)
        PROVE  JInv'
    <2>1. detached /\ fails > 0
      BY <1>4 DEF BeginRejects, IInv, WhenIdle, JInv
    <2>2. pc' = pc /\ pc = "idle" /\ UNCHANGED <<chain, coins, goal, marks, detached, fails>>
      BY <1>4 DEF BeginRejects, stores
    <2> QED
      BY <2>1, <2>2 DEF JInv, Clean
  <1>5. ASSUME BeginAborts \/ Crash
        PROVE  JInv'
    BY <1>5, Unjudged DEF BeginAborts, Crash, stores, index
  <1>6. ASSUME Finish \/ UpDone \/ TrimPermissions \/ TrimEntities \/ TrimWallet
        PROVE  JInv'
    BY <1>6, Unjudged DEF Finish, EndStep, UpDone, TrimPermissions, TrimEntities, TrimWallet,
                          stores, index
  <1>7. CASE UNCHANGED vars
    BY <1>7, Unjudged DEF vars, stores, index
  <1> QED
    BY <1>1, <1>2, <1>3, <1>4, <1>5, <1>6, <1>7, DisconnectJudged, ConnectJudged, StartJudged
       DEF Next, Work, Load

\* The blocks of the active chain break no rule, and as long as no write failed only a
\* block that breaks one is marked: ConnectBlock and CheckBlockPermissions judge a
\* block with the permission ledger at its parent, whatever the pool has put in memory
\* and however reorganisations, crashes and starts came there.
THEOREM BlocksJudgedByTheirBranch == Spec => []VerdictsOfTheBranch
  <1>1. JInv => VerdictsOfTheBranch
    BY DEF JInv, Clean, Guilty, VerdictsOfTheBranch
  <1>2. Spec => []JInv
    BY JudgedInit, JudgedStep, Invariance, PTL DEF Spec
  <1> QED
    BY <1>1, <1>2, PTL

\* A sequence that is not empty is one without its last element, and that element.
LEMMA FrontAndLast ==
    ASSUME NEW S, NEW s \in Seq(S), s # <<>>
    PROVE  /\ Front(s) \in Seq(S) /\ Last(s) \in S /\ s = Append(Front(s), Last(s))
           /\ Len(Front(s)) = Len(s) - 1
  <1>1. Len(s) \in Nat \ {0}
    BY EmptySeq
  <1>2. Len(s) - 1 \in 0..Len(s) /\ Len(s) \in 1..Len(s)
    BY <1>1
  <1> DEFINE f == Front(s)
             x == Last(s)
  <1>3. /\ f \in Seq(S) /\ Len(f) = Len(s) - 1
        /\ \A i \in 1..(Len(s) - 1) : f[i] = s[i]
    BY <1>2, PrefixOf DEF Front
  <1>4. x = s[Len(s)] /\ x \in S
    BY <1>2, ElementOfSeq DEF Last
  <1> HIDE DEF f, x
  <1>5. /\ Append(f, x) \in Seq(S) /\ Len(Append(f, x)) = Len(f) + 1
        /\ \A i \in 1..Len(f) : Append(f, x)[i] = f[i]
        /\ Append(f, x)[Len(f) + 1] = x
    BY <1>3, <1>4, AppendProperties
  <1>6. Len(Append(f, x)) = Len(s)
    BY <1>1, <1>3, <1>5
  <1>7. \A i \in 1..Len(s) : Append(f, x)[i] = s[i]
    <2> SUFFICES ASSUME NEW i \in 1..Len(s)
                 PROVE  Append(f, x)[i] = s[i]
      OBVIOUS
    <2>1. CASE i = Len(s)
      BY <1>1, <1>3, <1>4, <1>5, <2>1
    <2>2. CASE i # Len(s)
      <3>1. i \in 1..(Len(s) - 1) /\ i \in 1..Len(f)
        BY <1>1, <1>3, <2>2
      <3> QED
        BY <1>3, <1>5, <3>1
    <2> QED
      BY <2>1, <2>2
  <1>8. Append(f, x) = s
    BY <1>5, <1>6, <1>7, SeqEqual
  <1> QED
    BY <1>3, <1>4, <1>8 DEF f, x

LEMMA FrontOfAppend ==
    ASSUME NEW S, NEW s \in Seq(S), NEW x \in S
    PROVE  /\ Append(s, x) \in Seq(S) /\ Append(s, x) # <<>>
           /\ Front(Append(s, x)) = s /\ Last(Append(s, x)) = x
  <1>1. /\ Append(s, x) \in Seq(S) /\ Append(s, x) # <<>>
        /\ Len(Append(s, x)) = Len(s) + 1 /\ Append(s, x)[Len(s) + 1] = x
    BY AppendProperties
  <1>2. Front(Append(s, x)) = s
    BY AppendAhead DEF Ahead
  <1> QED
    BY <1>1, <1>2 DEF Last

\* What holds of the empty sequence and with s of s and one element more holds of all.
LEMMA SeqInduction ==
    ASSUME NEW S, NEW P, <<>> \in P,
           \A s \in Seq(S) : \A x \in S : s \in P => Append(s, x) \in P
    PROVE  Seq(S) \subseteq P
  <1> SUFFICES ASSUME NEW s \in Seq(S)
               PROVE  s \in P
    OBVIOUS
  <1> DEFINE K == {k \in Nat : \A u \in Seq(S) : Len(u) = k => u \in P}
             n == Len(s)
  <1>1. n \in Nat
    BY LenProperties
  <1>2. 0 \in K
    <2>1. ASSUME NEW u \in Seq(S), Len(u) = 0 PROVE u \in P
      <3>1. u = <<>>
        BY <2>1, EmptySeq
      <3> QED
        BY <3>1
    <2> QED
      BY <2>1
  <1>3. ASSUME NEW m \in 0..(n - 1), m \in K PROVE m + 1 \in K
    <2>1. m \in Nat /\ m + 1 \in Nat
      OBVIOUS
    <2>2. ASSUME NEW u \in Seq(S), Len(u) = m + 1 PROVE u \in P
      <3>1. u # <<>>
        BY <2>1, <2>2, EmptySeq
      <3>2. /\ Front(u) \in Seq(S) /\ Last(u) \in S /\ u = Append(Front(u), Last(u))
            /\ Len(Front(u)) = m
        BY <2>1, <2>2, <3>1, FrontAndLast
      <3>3. Front(u) \in P
        BY <1>3, <3>2
      <3> QED
        BY <3>2, <3>3
    <2> QED
      BY <2>1, <2>2
  <1> HIDE DEF K
  <1>4. 0..n \subseteq K
    BY <1>1, <1>2, <1>3, Induction
  <1>5. n \in K
    BY <1>1, <1>4
  <1> QED
    BY <1>5 DEF K

\* f is defined by recursion over the sequences of S.
Unfolds(f, S, a, rule) ==
    f[<<>>] = a /\ \A s \in Seq(S) \ {<<>>} : f[s] = rule[Last(s)][f[Front(s)]]

\* What is defined by recursion over sequences exists: the value at one of length n
\* is that of the n-th of the functions that unfold n times.
LEMMA SeqRecursion ==
    ASSUME NEW S, NEW T, NEW a \in T, NEW rule \in [S -> [T -> T]]
    PROVE  \E f \in [Seq(S) -> T] : Unfolds(f, S, a, rule)
  <1> DEFINE U == [Seq(S) -> T]
             base == [s \in Seq(S) |-> a]
             once(h) == [s \in Seq(S) |-> IF s = <<>> THEN a ELSE rule[Last(s)][h[Front(s)]]]
             unfold == [h \in U |-> once(h)]
             Up(g, n) == Recursive(g, n, base, [i \in 1..n |-> unfold])
  <1>1. base \in U
    OBVIOUS
  <1>2. ASSUME NEW h \in U PROVE once(h) \in U
    <2>1. ASSUME NEW s \in Seq(S), s # <<>> PROVE rule[Last(s)][h[Front(s)]] \in T
      <3>1. Front(s) \in Seq(S) /\ Last(s) \in S
        BY <2>1, FrontAndLast
      <3>2. h[Front(s)] \in T /\ rule[Last(s)] \in [T -> T]
        BY <3>1
      <3> QED
        BY <3>2
    <2> QED
      BY <2>1
  <1> HIDE DEF U, once
  <1>3. unfold \in [U -> U]
    BY <1>2
  <1>4. ASSUME NEW n \in Nat PROVE \E g \in [0..n -> U] : Up(g, n)
    <2>1. [i \in 1..n |-> unfold] \in [1..n -> [U -> U]]
      BY <1>3
    <2> HIDE DEF base, unfold
    <2> QED
      BY <1>1, <2>1, Recursion
  <1>5. ASSUME NEW n \in Nat, NEW g \in [0..n -> U], Up(g, n)
        PROVE  g[0] = base /\ \A i \in 1..n : g[i] = once(g[i - 1])
    <2>1. g[0] = base /\ \A i \in 1..n : g[i] = [j \in 1..n |-> unfold][i][g[i - 1]]
      BY <1>5 DEF Recursive
    <2>2. ASSUME NEW i \in 1..n PROVE g[i] = once(g[i - 1])
      <3>1. i - 1 \in 0..n /\ g[i - 1] \in U
        OBVIOUS
      <3>2. g[i] = unfold[g[i - 1]]
        BY <2>1
      <3> QED
        BY <3>1, <3>2
    <2> QED
      BY <2>1, <2>2
  <1> HIDE DEF Up
  <1> DEFINE chosen(n) == CHOOSE g \in [0..n -> U] : Up(g, n)
             f == [s \in Seq(S) |-> chosen(Len(s))[Len(s)][s]]
  <1>6. ASSUME NEW n \in Nat
        PROVE  /\ chosen(n) \in [0..n -> U] /\ chosen(n)[0] = base
               /\ \A i \in 1..n : chosen(n)[i] = once(chosen(n)[i - 1])
    <2>1. chosen(n) \in [0..n -> U] /\ Up(chosen(n), n)
      BY <1>4
    <2> HIDE DEF chosen
    <2> QED
      BY <1>5, <2>1
  <1> HIDE DEF chosen
  <1>7. ASSUME NEW n \in Nat, NEW m \in Nat, n <= m
        PROVE  chosen(n)[n] = chosen(m)[n]
    <2> DEFINE K == {k \in 0..n : chosen(n)[k] = chosen(m)[k]}
    <2>1. 0 \in K
      BY <1>6
    <2>2. ASSUME NEW k \in 0..(n - 1), k \in K PROVE k + 1 \in K
      <3>1. PICK j \in 1..n : j = k + 1 /\ j - 1 = k /\ j \in 0..n /\ j \in 1..m
        <4>1. k + 1 \in 1..n /\ k + 1 - 1 = k /\ k + 1 \in 0..n /\ k + 1 \in 1..m
          BY <1>7
        <4> QED
          BY <4>1
      <3>2. chosen(n)[j] = once(chosen(n)[j - 1]) /\ chosen(m)[j] = once(chosen(m)[j - 1])
        BY <1>6, <3>1
      <3>3. chosen(n)[j] = chosen(m)[j]
        BY <2>2, <3>1, <3>2
      <3> QED
        BY <3>1, <3>3
    <2> HIDE DEF K
    <2>3. 0..n \subseteq K
      BY <2>1, <2>2, Induction
    <2>4. n \in K
      BY <2>3
    <2> QED
      BY <2>4 DEF K
  <1>8. f \in [Seq(S) -> T]
    <2>1. ASSUME NEW s \in Seq(S) PROVE chosen(Len(s))[Len(s)][s] \in T
      <3>1. Len(s) \in Nat
        BY LenProperties
      <3>2. chosen(Len(s))[Len(s)] \in U
        BY <1>6, <3>1
      <3> QED
        BY <3>2 DEF U
    <2> QED
      BY <2>1
  <1>9. f[<<>>] = a
    <2>1. <<>> \in Seq(S) /\ Len(<<>>) = 0
      BY EmptySeq
    <2>2. f[<<>>] = chosen(0)[0][<<>>]
      BY <2>1
    <2>3. chosen(0)[0] = base
      BY <1>6
    <2> QED
      BY <2>1, <2>2, <2>3
  <1>10. ASSUME NEW s \in Seq(S) \ {<<>>} PROVE f[s] = rule[Last(s)][f[Front(s)]]
    <2> DEFINE n == Len(s)
    <2>1. /\ n \in Nat /\ n \in 1..n /\ n - 1 \in Nat /\ n - 1 <= n
          /\ Front(s) \in Seq(S) /\ Len(Front(s)) = n - 1
      BY EmptySeq, FrontAndLast
    <2>2. f[s] = chosen(n)[n][s] /\ f[Front(s)] = chosen(n - 1)[n - 1][Front(s)]
      BY <2>1
    <2> HIDE DEF n, f
    <2>3. chosen(n)[n] = once(chosen(n)[n - 1])
      BY <1>6, <2>1
    <2>4. chosen(n - 1)[n - 1] = chosen(n)[n - 1]
      BY <1>7, <2>1
    <2>5. f[s] = rule[Last(s)][chosen(n)[n - 1][Front(s)]]
      BY <2>2, <2>3 DEF once
    <2> QED
      BY <2>2, <2>4, <2>5
  <1> HIDE DEF f
  <1> QED
    BY <1>8, <1>9, <1>10 DEF Unfolds

-----------------------------------------------------------------------------
(* What the operators of the model do to one element more.                  *)

\* The transactions of a branch and one block more.
LEMMA TxsOfIs ==
    /\ TxsOf(<<>>) = <<>>
    /\ \A c \in Seq(Blocks) : TxsOf(c) \in Seq(Txs)
    /\ \A c \in Seq(Blocks) : \A b \in Blocks : TxsOf(Append(c, b)) = TxsOf(c) \o Content[b]
  <1> DEFINE T == Seq(Txs)
             S == Seq(Blocks)
             rule == [b \in Blocks |-> [x \in T |-> x \o Content[b]]]
             F(f) == [s \in S |-> IF s = <<>> THEN <<>> ELSE f[Front(s)] \o Content[Last(s)]]
             of == CHOOSE f : f = F(f)
  <1>1. \A c : TxsOf(c) = of[c]
    BY DEF TxsOf
  <1>2. \A b \in Blocks : \A x \in T : x \o Content[b] \in T
    BY StoresAssumption, ConcatProperties
  <1>3. <<>> \in T
    BY EmptySeq
  <1> HIDE DEF T
  <1>4. rule \in [Blocks -> [T -> T]]
    BY <1>2
  <1>5. PICK f \in [S -> T] : Unfolds(f, Blocks, <<>>, rule)
    <2> HIDE DEF rule
    <2> QED
      BY <1>3, <1>4, SeqRecursion
  <1>6. ASSUME NEW s \in S
        PROVE  f[s] = IF s = <<>> THEN <<>> ELSE f[Front(s)] \o Content[Last(s)]
    <2>1. CASE s = <<>>
      BY <1>5, <2>1 DEF Unfolds
    <2>2. CASE s # <<>>
      <3>1. Front(s) \in S /\ Last(s) \in Blocks
        BY <2>2, FrontAndLast
      <3>2. f[s] = rule[Last(s)][f[Front(s)]]
        BY <1>5, <2>2 DEF Unfolds
      <3>3. f[Front(s)] \in T
        BY <3>1
      <3> QED
        BY <2>2, <3>1, <3>2, <3>3
    <2> QED
      BY <2>1, <2>2
  <1>7. f = F(f)
    BY <1>6
  <1>8. of = F(of)
    <2> HIDE DEF F
    <2> QED
      BY <1>7
  <1> HIDE DEF of
  <1>9. of[<<>>] = <<>>
    <2>1. <<>> \in S
      BY EmptySeq
    <2> QED
      BY <1>8, <2>1
  <1>10. \A c \in S : \A b \in Blocks : of[Append(c, b)] = of[c] \o Content[b]
    <2> SUFFICES ASSUME NEW c \in S, NEW b \in Blocks
                 PROVE  of[Append(c, b)] = of[c] \o Content[b]
      OBVIOUS
    <2> DEFINE d == Append(c, b)
    <2>1. d \in S /\ d # <<>> /\ Front(d) = c /\ Last(d) = b
      BY FrontOfAppend
    <2> HIDE DEF d
    <2>2. of[d] = IF d = <<>> THEN <<>> ELSE of[Front(d)] \o Content[Last(d)]
      BY <1>8, <2>1
    <2> QED
      BY <2>1, <2>2 DEF d
  <1>11. S \subseteq {s \in S : of[s] \in T}
    <2> DEFINE P == {s \in S : of[s] \in T}
    <2>1. <<>> \in P
      BY <1>3, <1>9, EmptySeq
    <2>2. \A s \in S : \A b \in Blocks : s \in P => Append(s, b) \in P
      BY <1>2, <1>10, AppendProperties
    <2> HIDE DEF P
    <2> QED
      BY <2>1, <2>2, SeqInduction DEF P
  <1> QED
    BY <1>1, <1>9, <1>10, <1>11 DEF T

LEMMA AmongIs ==
    ASSUME NEW N
    PROVE  /\ Among(<<>>, N) = <<>>
           /\ \A s \in Seq(Txs) : Among(s, N) \in Seq(Txs)
           /\ \A s \in Seq(Txs) : \A t \in Txs :
                  Among(Append(s, t), N) =
                      IF t \in N THEN Append(Among(s, N), t) ELSE Among(s, N)
  <1> DEFINE S == Seq(Txs)
             one(x, t) == IF t \in N THEN Append(x, t) ELSE x
             rule == [t \in Txs |-> [x \in S |-> one(x, t)]]
             F(f) == [s \in S |->
                         IF s = <<>> THEN <<>>
                         ELSE IF Last(s) \in N THEN Append(f[Front(s)], Last(s))
                              ELSE f[Front(s)]]
             of == CHOOSE f : f = F(f)
  <1>1. \A s : Among(s, N) = of[s]
    BY DEF Among
  <1>2. \A t \in Txs : \A x \in S : one(x, t) \in S
    BY AppendProperties
  <1>3. <<>> \in S
    BY EmptySeq
  <1>4. rule \in [Txs -> [S -> S]]
    <2> HIDE DEF S, one
    <2> QED
      BY <1>2
  <1>5. PICK f \in [S -> S] : Unfolds(f, Txs, <<>>, rule)
    <2> HIDE DEF rule
    <2> QED
      BY <1>3, <1>4, SeqRecursion
  <1>6. ASSUME NEW s \in S
        PROVE  f[s] = IF s = <<>> THEN <<>> ELSE one(f[Front(s)], Last(s))
    <2>1. CASE s = <<>>
      BY <1>5, <2>1 DEF Unfolds
    <2>2. CASE s # <<>>
      <3>1. Front(s) \in S /\ Last(s) \in Txs
        BY <2>2, FrontAndLast
      <3>2. f[s] = rule[Last(s)][f[Front(s)]]
        BY <1>5, <2>2 DEF Unfolds
      <3>3. f[Front(s)] \in S
        BY <3>1
      <3> HIDE DEF one, S
      <3> QED
        BY <2>2, <3>1, <3>2, <3>3
    <2> QED
      BY <2>1, <2>2
  <1>7. f = F(f)
    BY <1>6
  <1>8. of = F(of)
    <2> HIDE DEF F
    <2> QED
      BY <1>7
  <1> HIDE DEF of
  <1>9. of[<<>>] = <<>>
    BY <1>3, <1>8
  <1>10. \A s \in S : \A t \in Txs : of[Append(s, t)] = one(of[s], t)
    <2> SUFFICES ASSUME NEW c \in S, NEW t \in Txs
                 PROVE  of[Append(c, t)] = one(of[c], t)
      OBVIOUS
    <2> DEFINE d == Append(c, t)
    <2>1. d \in S /\ d # <<>> /\ Front(d) = c /\ Last(d) = t
      BY FrontOfAppend
    <2> HIDE DEF d
    <2>2. of[d] = IF d = <<>> THEN <<>> ELSE one(of[Front(d)], Last(d))
      BY <1>8, <2>1
    <2> QED
      BY <2>1, <2>2 DEF d
  <1>11. S \subseteq {s \in S : of[s] \in S}
    <2> DEFINE P == {s \in S : of[s] \in S}
    <2>1. <<>> \in P
      BY <1>3, <1>9
    <2>2. \A s \in S : \A t \in Txs : s \in P => Append(s, t) \in P
      <3>1. \A s \in S : \A t \in Txs : Append(s, t) \in S
        BY AppendProperties
      <3> HIDE DEF one, S
      <3> QED
        BY <1>2, <1>10, <3>1
    <2> HIDE DEF P
    <2> QED
      BY <2>1, <2>2, SeqInduction DEF P
  <1> QED
    BY <1>1, <1>9, <1>10, <1>11

\* The transactions that are left, and the rows in memory: what a replay carries.
Carried == [pool : Seq(Txs), mem : Seq(Txs)]

LEMMA CarriedOne ==
    ASSUME NEW acc \in Carried, NEW t \in Txs
    PROVE  ReplayOne(acc, t) \in Carried /\ ResurrectOne(acc, t) \in Carried
  <1>1. acc.pool \in Seq(Txs) /\ acc.mem \in Seq(Txs)
    BY DEF Carried
  <1>2. Append(acc.pool, t) \in Seq(Txs) /\ Append(acc.mem, t) \in Seq(Txs)
    BY <1>1, AppendProperties
  <1> HIDE DEF Carried
  <1>3. \A x, y \in Seq(Txs) : [pool |-> x, mem |-> y] \in Carried
    BY DEF Carried
  <1> QED
    BY <1>1, <1>2, <1>3 DEF ReplayOne, ResurrectOne

LEMMA ReplayIs ==
    ASSUME NEW rows \in Seq(Txs)
    PROVE  /\ Replay(<<>>, rows) = [pool |-> <<>>, mem |-> rows]
           /\ \A s \in Seq(Txs) : Replay(s, rows) \in Carried
           /\ \A s \in Seq(Txs) : \A t \in Txs :
                  Replay(Append(s, t), rows) = ReplayOne(Replay(s, rows), t)
  <1> DEFINE S == Seq(Txs)
             start == [pool |-> <<>>, mem |-> rows]
             rule == [t \in Txs |-> [x \in Carried |-> ReplayOne(x, t)]]
             F(f) == [s \in S |->
                         IF s = <<>> THEN start ELSE ReplayOne(f[Front(s)], Last(s))]
             of == CHOOSE f : f = F(f)
  <1>1. \A s : Replay(s, rows) = of[s]
    BY DEF Replay
  <1>2. start \in Carried
    BY EmptySeq DEF Carried
  <1>3. rule \in [Txs -> [Carried -> Carried]]
    BY CarriedOne
  <1>4. PICK f \in [S -> Carried] : Unfolds(f, Txs, start, rule)
    <2> HIDE DEF rule, start
    <2> QED
      BY <1>2, <1>3, SeqRecursion
  <1>5. ASSUME NEW s \in S
        PROVE  f[s] = IF s = <<>> THEN start ELSE ReplayOne(f[Front(s)], Last(s))
    <2>1. CASE s = <<>>
      BY <1>4, <2>1 DEF Unfolds
    <2>2. CASE s # <<>>
      <3>1. Front(s) \in S /\ Last(s) \in Txs
        BY <2>2, FrontAndLast
      <3>2. f[s] = rule[Last(s)][f[Front(s)]]
        BY <1>4, <2>2 DEF Unfolds
      <3>3. f[Front(s)] \in Carried
        BY <3>1
      <3> QED
        BY <2>2, <3>1, <3>2, <3>3
    <2> QED
      BY <2>1, <2>2
  <1>6. f = F(f)
    BY <1>5
  <1>7. of = F(of)
    <2> HIDE DEF F
    <2> QED
      BY <1>6
  <1> HIDE DEF of
  <1>8. <<>> \in S /\ of[<<>>] = start
    BY <1>7, EmptySeq
  <1>9. \A s \in S : \A t \in Txs : of[Append(s, t)] = ReplayOne(of[s], t)
    <2> SUFFICES ASSUME NEW c \in S, NEW t \in Txs
                 PROVE  of[Append(c, t)] = ReplayOne(of[c], t)
      OBVIOUS
    <2> DEFINE d == Append(c, t)
    <2>1. d \in S /\ d # <<>> /\ Front(d) = c /\ Last(d) = t
      BY FrontOfAppend
    <2> HIDE DEF d
    <2>2. of[d] = IF d = <<>> THEN start ELSE ReplayOne(of[Front(d)], Last(d))
      BY <1>7, <2>1
    <2> QED
      BY <2>1, <2>2 DEF d
  <1>10. S \subseteq {s \in S : of[s] \in Carried}
    <2> DEFINE P == {s \in S : of[s] \in Carried}
    <2>1. <<>> \in P
      BY <1>2, <1>8
    <2>2. \A s \in S : \A t \in Txs : s \in P => Append(s, t) \in P
      BY <1>9, CarriedOne, AppendProperties
    <2> HIDE DEF P
    <2> QED
      BY <2>1, <2>2, SeqInduction DEF P
  <1> QED
    BY <1>1, <1>8, <1>9, <1>10

LEMMA ResurrectIs ==
    ASSUME NEW rows \in Seq(Txs)
    PROVE  /\ Resurrect(<<>>, rows) = [pool |-> <<>>, mem |-> rows]
           /\ \A s \in Seq(Txs) : Resurrect(s, rows) \in Carried
           /\ \A s \in Seq(Txs) : \A t \in Txs :
                  Resurrect(Append(s, t), rows) = ResurrectOne(Resurrect(s, rows), t)
  <1> DEFINE S == Seq(Txs)
             start == [pool |-> <<>>, mem |-> rows]
             rule == [t \in Txs |-> [x \in Carried |-> ResurrectOne(x, t)]]
             F(f) == [s \in S |->
                         IF s = <<>> THEN start ELSE ResurrectOne(f[Front(s)], Last(s))]
             of == CHOOSE f : f = F(f)
  <1>1. \A s : Resurrect(s, rows) = of[s]
    BY DEF Resurrect
  <1>2. start \in Carried
    BY EmptySeq DEF Carried
  <1>3. rule \in [Txs -> [Carried -> Carried]]
    BY CarriedOne
  <1>4. PICK f \in [S -> Carried] : Unfolds(f, Txs, start, rule)
    <2> HIDE DEF rule, start
    <2> QED
      BY <1>2, <1>3, SeqRecursion
  <1>5. ASSUME NEW s \in S
        PROVE  f[s] = IF s = <<>> THEN start ELSE ResurrectOne(f[Front(s)], Last(s))
    <2>1. CASE s = <<>>
      BY <1>4, <2>1 DEF Unfolds
    <2>2. CASE s # <<>>
      <3>1. Front(s) \in S /\ Last(s) \in Txs
        BY <2>2, FrontAndLast
      <3>2. f[s] = rule[Last(s)][f[Front(s)]]
        BY <1>4, <2>2 DEF Unfolds
      <3>3. f[Front(s)] \in Carried
        BY <3>1
      <3> QED
        BY <2>2, <3>1, <3>2, <3>3
    <2> QED
      BY <2>1, <2>2
  <1>6. f = F(f)
    BY <1>5
  <1>7. of = F(of)
    <2> HIDE DEF F
    <2> QED
      BY <1>6
  <1> HIDE DEF of
  <1>8. <<>> \in S /\ of[<<>>] = start
    BY <1>7, EmptySeq
  <1>9. \A s \in S : \A t \in Txs : of[Append(s, t)] = ResurrectOne(of[s], t)
    <2> SUFFICES ASSUME NEW c \in S, NEW t \in Txs
                 PROVE  of[Append(c, t)] = ResurrectOne(of[c], t)
      OBVIOUS
    <2> DEFINE d == Append(c, t)
    <2>1. d \in S /\ d # <<>> /\ Front(d) = c /\ Last(d) = t
      BY FrontOfAppend
    <2> HIDE DEF d
    <2>2. of[d] = IF d = <<>> THEN start ELSE ResurrectOne(of[Front(d)], Last(d))
      BY <1>7, <2>1
    <2> QED
      BY <2>1, <2>2 DEF d
  <1>10. S \subseteq {s \in S : of[s] \in Carried}
    <2> DEFINE P == {s \in S : of[s] \in Carried}
    <2>1. <<>> \in P
      BY <1>2, <1>8
    <2>2. \A s \in S : \A t \in Txs : s \in P => Append(s, t) \in P
      BY <1>9, CarriedOne, AppendProperties
    <2> HIDE DEF P
    <2> QED
      BY <2>1, <2>2, SeqInduction DEF P
  <1> QED
    BY <1>1, <1>8, <1>9, <1>10

-----------------------------------------------------------------------------
(* Coins spent, and rows allowed.                                           *)

\* No transaction of txs spends a coin that before or an earlier one of them does.
Fresh(txs, before) ==
    \A i \in DOMAIN txs : Inputs[txs[i]] \cap Spent(before \o SubSeq(txs, 1, i - 1)) = {}

\* Each of the rows could be written after before and the rows ahead of it.
Allowed(rows, before) ==
    \A i \in DOMAIN rows : Holds(Sender[rows[i]], before \o SubSeq(rows, 1, i - 1))

LEMMA PrefixOfAppend ==
    ASSUME NEW S, NEW s \in Seq(S), NEW x \in S
    PROVE  /\ DOMAIN Append(s, x) = 1..(Len(s) + 1)
           /\ Append(s, x)[Len(s) + 1] = x /\ SubSeq(Append(s, x), 1, Len(s)) = s
           /\ \A i \in 1..Len(s) : /\ Append(s, x)[i] = s[i]
                                   /\ SubSeq(Append(s, x), 1, i - 1) = SubSeq(s, 1, i - 1)
  <1> DEFINE d == Append(s, x)
  <1>1. /\ d \in Seq(S) /\ Len(d) = Len(s) + 1 /\ d[Len(s) + 1] = x
        /\ \A i \in 1..Len(s) : d[i] = s[i]
    BY AppendProperties
  <1>2. Len(s) \in Nat /\ DOMAIN d = 1..(Len(s) + 1)
    BY <1>1, LenProperties
  <1> HIDE DEF d
  <1>3. ASSUME NEW n \in 0..Len(s) PROVE SubSeq(d, 1, n) = SubSeq(s, 1, n)
    <2>1. /\ SubSeq(s, 1, n) \in Seq(S) /\ Len(SubSeq(s, 1, n)) = n
          /\ \A i \in 1..n : SubSeq(s, 1, n)[i] = s[i]
      BY PrefixOf
    <2>2. n \in 0..Len(d)
      BY <1>1, <1>2
    <2>3. /\ SubSeq(d, 1, n) \in Seq(S) /\ Len(SubSeq(d, 1, n)) = n
          /\ \A i \in 1..n : SubSeq(d, 1, n)[i] = d[i]
      BY <1>1, <2>2, PrefixOf
    <2>4. \A i \in 1..n : SubSeq(d, 1, n)[i] = SubSeq(s, 1, n)[i]
      BY <1>1, <1>2, <2>1, <2>3
    <2> QED
      BY <2>1, <2>3, <2>4, SeqEqual
  <1>4. SubSeq(d, 1, Len(s)) = s
    BY <1>2, <1>3, SubSeqFull
  <1>5. \A i \in 1..Len(s) : SubSeq(d, 1, i - 1) = SubSeq(s, 1, i - 1)
    <2> SUFFICES ASSUME NEW i \in 1..Len(s)
                 PROVE  SubSeq(d, 1, i - 1) = SubSeq(s, 1, i - 1)
      OBVIOUS
    <2>1. i - 1 \in 0..Len(s)
      BY <1>2
    <2> QED
      BY <1>3, <2>1
  <1> QED
    BY <1>1, <1>2, <1>4, <1>5 DEF d

LEMMA SpentIs ==
    /\ Spent(<<>>) = {}
    /\ \A s \in Seq(Txs) : \A t \in Txs : Spent(Append(s, t)) = Spent(s) \cup Inputs[t]
    /\ \A s, u \in Seq(Txs) : Spent(s \o u) = Spent(s) \cup Spent(u)
    /\ \A s \in Seq(Txs) : \A i \in 1..Len(s) : Inputs[s[i]] \subseteq Spent(s)
  <1>1. ASSUME NEW s \in Seq(Txs)
        PROVE  \A x : x \in Spent(s) <=> \E i \in 1..Len(s) : x \in Inputs[s[i]]
    BY LenProperties DEF Spent
  <1>2. Spent(<<>>) = {}
    <2>1. <<>> \in Seq(Txs) /\ 1..Len(<<>>) = {}
      BY EmptySeq
    <2> QED
      BY <1>1, <2>1
  <1>3. ASSUME NEW s \in Seq(Txs), NEW t \in Txs
        PROVE  Spent(Append(s, t)) = Spent(s) \cup Inputs[t]
    <2> DEFINE d == Append(s, t)
    <2>1. /\ d \in Seq(Txs) /\ Len(d) = Len(s) + 1 /\ d[Len(s) + 1] = t
          /\ \A i \in 1..Len(s) : d[i] = s[i]
      BY AppendProperties
    <2>2. /\ Len(s) \in Nat
          /\ \A i \in 1..Len(d) : i \in 1..Len(s) \/ i = Len(s) + 1
          /\ Len(s) + 1 \in 1..Len(d) /\ \A i \in 1..Len(s) : i \in 1..Len(d)
      BY <2>1, LenProperties
    <2> HIDE DEF d
    <2>3. ASSUME NEW x \in Spent(d) PROVE x \in Spent(s) \cup Inputs[t]
      BY <1>1, <2>1, <2>2
    <2>4. ASSUME NEW x \in Spent(s) PROVE x \in Spent(d)
      BY <1>1, <2>1, <2>2
    <2>5. ASSUME NEW x \in Inputs[t] PROVE x \in Spent(d)
      BY <1>1, <2>1, <2>2
    <2> QED
      BY <2>3, <2>4, <2>5 DEF d
  <1>4. ASSUME NEW s \in Seq(Txs), NEW u \in Seq(Txs)
        PROVE  Spent(s \o u) = Spent(s) \cup Spent(u)
    <2> DEFINE P == {v \in Seq(Txs) : Spent(s \o v) = Spent(s) \cup Spent(v)}
    <2>1. <<>> \in P
      BY <1>2, EmptySeq, ConcatEmptySeq
    <2>2. ASSUME NEW v \in Seq(Txs), NEW t \in Txs, v \in P PROVE Append(v, t) \in P
      <3>1. s \o Append(v, t) = Append(s \o v, t)
        BY AppendOfConcat
      <3>2. Append(v, t) \in Seq(Txs) /\ s \o v \in Seq(Txs)
        BY AppendProperties, ConcatProperties
      <3> DEFINE w == s \o v
                 vt == Append(v, t)
      <3>3. Spent(w) = Spent(s) \cup Spent(v)
        BY <2>2
      <3>4. w \in Seq(Txs)
        BY <3>2
      <3> HIDE DEF w
      <3>5. Spent(Append(w, t)) = Spent(w) \cup Inputs[t] /\ Spent(vt) = Spent(v) \cup Inputs[t]
        BY <1>3, <3>4
      <3>6. Spent(s \o vt) = Spent(Append(w, t))
        BY <3>1 DEF w
      <3> HIDE DEF vt
      <3>7. Spent(s \o vt) = Spent(s) \cup Spent(vt)
        BY <3>3, <3>5, <3>6
      <3> QED
        BY <3>2, <3>7 DEF vt
    <2> HIDE DEF P
    <2>3. Seq(Txs) \subseteq P
      BY <2>1, <2>2, SeqInduction
    <2> QED
      BY <2>3 DEF P
  <1>5. ASSUME NEW s \in Seq(Txs), NEW i \in 1..Len(s) PROVE Inputs[s[i]] \subseteq Spent(s)
    BY <1>1
  <1> QED
    BY <1>2, <1>3, <1>4, <1>5

LEMMA FreshIs ==
    ASSUME NEW before \in Seq(Txs)
    PROVE  /\ Fresh(<<>>, before)
           /\ \A s \in Seq(Txs) : \A t \in Txs :
                  Fresh(Append(s, t), before) <=>
                      Fresh(s, before) /\ Inputs[t] \cap (Spent(before) \cup Spent(s)) = {}
  <1>1. Fresh(<<>>, before)
    <2>1. DOMAIN <<>> = {}
      <3>1. <<>> \in Seq(Txs) /\ Len(<<>>) = 0
        BY EmptySeq
      <3> QED
        BY <3>1, LenProperties
    <2> QED
      BY <2>1 DEF Fresh
  <1>2. ASSUME NEW s \in Seq(Txs), NEW t \in Txs
        PROVE  Fresh(Append(s, t), before) <=>
                   Fresh(s, before) /\ Inputs[t] \cap (Spent(before) \cup Spent(s)) = {}
    <2> DEFINE d == Append(s, t)
               clear(x, v) == Inputs[x] \cap Spent(before \o v) = {}
    <2>1. /\ DOMAIN d = 1..(Len(s) + 1) /\ DOMAIN s = 1..Len(s) /\ Len(s) \in Nat
          /\ d[Len(s) + 1] = t /\ SubSeq(d, 1, Len(s)) = s
          /\ \A i \in 1..Len(s) : d[i] = s[i] /\ SubSeq(d, 1, i - 1) = SubSeq(s, 1, i - 1)
      BY PrefixOfAppend, LenProperties
    <2>2. clear(t, s) <=> Inputs[t] \cap (Spent(before) \cup Spent(s)) = {}
      BY SpentIs
    <2>3. Fresh(d, before) <=> \A i \in 1..(Len(s) + 1) : clear(d[i], SubSeq(d, 1, i - 1))
      BY <2>1 DEF Fresh
    <2>4. Fresh(s, before) <=> \A i \in 1..Len(s) : clear(s[i], SubSeq(s, 1, i - 1))
      BY <2>1 DEF Fresh
    <2> HIDE DEF d, clear
    <2>5. /\ \A i \in 1..(Len(s) + 1) : i \in 1..Len(s) \/ i = Len(s) + 1
          /\ \A i \in 1..Len(s) : i \in 1..(Len(s) + 1)
          /\ Len(s) + 1 \in 1..(Len(s) + 1) /\ Len(s) + 1 - 1 = Len(s)
      BY <2>1
    <2>6. ASSUME Fresh(d, before) PROVE Fresh(s, before) /\ clear(t, s)
      <3>1. \A i \in 1..Len(s) : clear(s[i], SubSeq(s, 1, i - 1))
        BY <2>1, <2>3, <2>5, <2>6
      <3>2. PICK n \in 1..(Len(s) + 1) : n = Len(s) + 1 /\ n - 1 = Len(s)
        BY <2>5
      <3>3. clear(d[n], SubSeq(d, 1, n - 1))
        BY <2>3, <2>6
      <3> QED
        BY <2>1, <2>4, <3>1, <3>2, <3>3
    <2>7. ASSUME Fresh(s, before), clear(t, s) PROVE Fresh(d, before)
      <3>1. ASSUME NEW i \in 1..(Len(s) + 1) PROVE clear(d[i], SubSeq(d, 1, i - 1))
        <4>1. CASE i \in 1..Len(s)
          BY <2>1, <2>4, <2>7, <4>1
        <4>2. CASE i = Len(s) + 1
          <5>1. i - 1 = Len(s)
            BY <2>1, <4>2
          <5> QED
            BY <2>1, <2>7, <4>2, <5>1
        <4> QED
          BY <2>5, <4>1, <4>2
      <3> QED
        BY <2>3, <3>1
    <2> QED
      BY <2>2, <2>6, <2>7 DEF d
  <1> QED
    BY <1>1, <1>2

LEMMA AllowedIs ==
    ASSUME NEW before
    PROVE  /\ Allowed(<<>>, before)
           /\ \A s \in Seq(Txs) : \A t \in Txs :
                  Allowed(Append(s, t), before) <=>
                      Allowed(s, before) /\ Holds(Sender[t], before \o s)
  <1>1. Allowed(<<>>, before)
    <2>1. DOMAIN <<>> = {}
      <3>1. <<>> \in Seq(Txs) /\ Len(<<>>) = 0
        BY EmptySeq
      <3> QED
        BY <3>1, LenProperties
    <2> QED
      BY <2>1 DEF Allowed
  <1>2. ASSUME NEW s \in Seq(Txs), NEW t \in Txs
        PROVE  Allowed(Append(s, t), before) <=>
                   Allowed(s, before) /\ Holds(Sender[t], before \o s)
    <2> DEFINE d == Append(s, t)
               may(x, v) == Holds(Sender[x], before \o v)
    <2>1. /\ DOMAIN d = 1..(Len(s) + 1) /\ DOMAIN s = 1..Len(s) /\ Len(s) \in Nat
          /\ d[Len(s) + 1] = t /\ SubSeq(d, 1, Len(s)) = s
          /\ \A i \in 1..Len(s) : d[i] = s[i] /\ SubSeq(d, 1, i - 1) = SubSeq(s, 1, i - 1)
      BY PrefixOfAppend, LenProperties
    <2>2. may(t, s) <=> Holds(Sender[t], before \o s)
      OBVIOUS
    <2>3. Allowed(d, before) <=> \A i \in 1..(Len(s) + 1) : may(d[i], SubSeq(d, 1, i - 1))
      BY <2>1 DEF Allowed
    <2>4. Allowed(s, before) <=> \A i \in 1..Len(s) : may(s[i], SubSeq(s, 1, i - 1))
      BY <2>1 DEF Allowed
    <2> HIDE DEF d, may
    <2>5. /\ \A i \in 1..(Len(s) + 1) : i \in 1..Len(s) \/ i = Len(s) + 1
          /\ \A i \in 1..Len(s) : i \in 1..(Len(s) + 1)
          /\ Len(s) + 1 \in 1..(Len(s) + 1) /\ Len(s) + 1 - 1 = Len(s)
      BY <2>1
    <2>6. ASSUME Allowed(d, before) PROVE Allowed(s, before) /\ may(t, s)
      <3>1. \A i \in 1..Len(s) : may(s[i], SubSeq(s, 1, i - 1))
        BY <2>1, <2>3, <2>5, <2>6
      <3>2. PICK n \in 1..(Len(s) + 1) : n = Len(s) + 1 /\ n - 1 = Len(s)
        BY <2>5
      <3>3. may(d[n], SubSeq(d, 1, n - 1))
        BY <2>3, <2>6
      <3> QED
        BY <2>1, <2>4, <3>1, <3>2, <3>3
    <2>7. ASSUME Allowed(s, before), may(t, s) PROVE Allowed(d, before)
      <3>1. ASSUME NEW i \in 1..(Len(s) + 1) PROVE may(d[i], SubSeq(d, 1, i - 1))
        <4>1. CASE i \in 1..Len(s)
          BY <2>1, <2>4, <2>7, <4>1
        <4>2. CASE i = Len(s) + 1
          <5>1. i - 1 = Len(s)
            BY <2>1, <4>2
          <5> QED
            BY <2>1, <2>7, <4>2, <5>1
        <4> QED
          BY <2>5, <4>1, <4>2
      <3> QED
        BY <2>3, <3>1
    <2> QED
      BY <2>2, <2>6, <2>7 DEF d
  <1> QED
    BY <1>1, <1>2

LEMMA AmongKeeps ==
    ASSUME NEW N, NEW before \in Seq(Txs), NEW X, \A t \in N : Inputs[t] \cap X = {},
           NEW s \in Seq(Txs)
    PROVE  /\ Spent(Among(s, N)) \subseteq Spent(s) /\ Spent(Among(s, N)) \cap X = {}
           /\ Fresh(s, before) => Fresh(Among(s, N), before)
  <1> DEFINE good(v, w) == /\ Spent(w) \subseteq Spent(v) /\ Spent(w) \cap X = {}
                           /\ Fresh(v, before) => Fresh(w, before)
             P == {v \in Seq(Txs) : good(v, Among(v, N))}
  <1>1. <<>> \in P
    <2>1. <<>> \in Seq(Txs) /\ Among(<<>>, N) = <<>> /\ Spent(<<>>) = {}
      BY AmongIs, SpentIs, EmptySeq
    <2> QED
      BY <2>1
  <1>2. ASSUME NEW v \in Seq(Txs), NEW t \in Txs, v \in P PROVE Append(v, t) \in P
    <2> DEFINE w == Among(v, N)
               u == Append(v, t)
    <2>1. w \in Seq(Txs) /\ u \in Seq(Txs) /\ Spent(u) = Spent(v) \cup Inputs[t]
      BY AmongIs, SpentIs, AppendProperties
    <2>2. Fresh(u, before) =>
              Fresh(v, before) /\ Inputs[t] \cap (Spent(before) \cup Spent(v)) = {}
      BY FreshIs
    <2>3. good(v, w)
      BY <1>2
    <2>4. CASE t \notin N
      <3>1. Among(u, N) = w
        BY <2>4, AmongIs
      <3> HIDE DEF u, w
      <3>2. good(u, w)
        BY <2>1, <2>2, <2>3
      <3> QED
        BY <2>1, <3>1, <3>2 DEF u
    <2>5. CASE t \in N
      <3>1. Among(u, N) = Append(w, t)
        BY <2>5, AmongIs
      <3> HIDE DEF u, w
      <3>2. Spent(Append(w, t)) = Spent(w) \cup Inputs[t]
        BY <2>1, SpentIs
      <3>3. Fresh(Append(w, t), before) <=>
                Fresh(w, before) /\ Inputs[t] \cap (Spent(before) \cup Spent(w)) = {}
        BY <2>1, FreshIs
      <3> DEFINE x == Append(w, t)
      <3> HIDE DEF x
      <3>4. Spent(x) \subseteq Spent(u) /\ Spent(x) \cap X = {}
        BY <2>1, <2>3, <2>5, <3>2, <1>2 DEF x
      <3>5. Fresh(u, before) => Fresh(x, before)
        BY <2>2, <2>3, <3>3 DEF x
      <3>6. good(u, x)
        BY <3>4, <3>5
      <3> QED
        BY <2>1, <3>1, <3>6 DEF u, x
    <2> QED
      BY <2>4, <2>5
  <1> HIDE DEF P
  <1>3. s \in P
    BY <1>1, <1>2, SeqInduction
  <1> QED
    BY <1>3 DEF P

LEMMA RowsIs ==
    /\ Rows(<<>>) = <<>>
    /\ \A s \in Seq(Txs) : Rows(s) \in Seq(Txs)
    /\ \A s \in Seq(Txs) : \A t \in Txs :
           Rows(Append(s, t)) = IF Writes(t) THEN Append(Rows(s), t) ELSE Rows(s)
    /\ \A s, u \in Seq(Txs) : Rows(s \o u) = Rows(s) \o Rows(u)
  <1> DEFINE N == {t \in Txs : Writes(t)}
  <1>1. \A s : Rows(s) = Among(s, N)
    BY DEF Rows
  <1>2. \A t \in Txs : t \in N <=> Writes(t)
    OBVIOUS
  <1> HIDE DEF N
  <1>3. /\ Rows(<<>>) = <<>>
        /\ \A s \in Seq(Txs) : Rows(s) \in Seq(Txs)
        /\ \A s \in Seq(Txs) : \A t \in Txs :
               Rows(Append(s, t)) = IF Writes(t) THEN Append(Rows(s), t) ELSE Rows(s)
    BY <1>1, <1>2, AmongIs
  <1>4. ASSUME NEW s \in Seq(Txs), NEW u \in Seq(Txs)
        PROVE  Rows(s \o u) = Rows(s) \o Rows(u)
    <2> DEFINE P == {v \in Seq(Txs) : Rows(s \o v) = Rows(s) \o Rows(v)}
    <2>1. <<>> \in P
      BY <1>3, EmptySeq, ConcatEmptySeq
    <2>2. ASSUME NEW v \in Seq(Txs), NEW t \in Txs, v \in P PROVE Append(v, t) \in P
      <3> DEFINE w == s \o v
                 vt == Append(v, t)
      <3>1. w \in Seq(Txs) /\ vt \in Seq(Txs) /\ s \o vt = Append(w, t)
        BY AppendOfConcat, AppendProperties, ConcatProperties
      <3>2. Rows(w) = Rows(s) \o Rows(v)
        BY <2>2
      <3>3. Rows(vt) = IF Writes(t) THEN Append(Rows(v), t) ELSE Rows(v)
        BY <1>3
      <3> HIDE DEF w, vt
      <3>4. Rows(Append(w, t)) = IF Writes(t) THEN Append(Rows(w), t) ELSE Rows(w)
        BY <1>3, <3>1
      <3>5. Rows(s) \in Seq(Txs) /\ Rows(v) \in Seq(Txs)
        BY <1>3
      <3>6. Rows(s) \o Append(Rows(v), t) = Append(Rows(s) \o Rows(v), t)
        BY <3>5, AppendOfConcat
      <3>7. Rows(s \o vt) = Rows(s) \o Rows(vt)
        <4>1. CASE Writes(t)
          BY <3>1, <3>2, <3>3, <3>4, <3>6, <4>1
        <4>2. CASE ~Writes(t)
          BY <3>1, <3>2, <3>3, <3>4, <4>2
        <4> QED
          BY <4>1, <4>2
      <3> QED
        BY <3>1, <3>7 DEF vt
    <2> HIDE DEF P
    <2>3. u \in P
      BY <2>1, <2>2, SeqInduction
    <2> QED
      BY <2>3 DEF P
  <1> QED
    BY <1>3, <1>4

LEMMA FreshConcat ==
    ASSUME NEW before \in Seq(Txs), NEW s \in Seq(Txs), NEW u \in Seq(Txs),
           Fresh(s, before), Fresh(u, before), Spent(s) \cap Spent(u) = {}
    PROVE  Fresh(s \o u, before)
  <1> DEFINE P == {v \in Seq(Txs) : Fresh(v, before) /\ Spent(s) \cap Spent(v) = {} =>
                                        Fresh(s \o v, before)}
  <1>1. <<>> \in P
    BY EmptySeq, ConcatEmptySeq
  <1>2. ASSUME NEW v \in Seq(Txs), NEW t \in Txs, v \in P PROVE Append(v, t) \in P
    <2> DEFINE w == s \o v
               vt == Append(v, t)
    <2>1. w \in Seq(Txs) /\ vt \in Seq(Txs) /\ s \o vt = Append(w, t)
      BY AppendOfConcat, AppendProperties, ConcatProperties
    <2>2. Fresh(v, before) /\ Spent(s) \cap Spent(v) = {} => Fresh(w, before)
      BY <1>2
    <2>3. Spent(w) = Spent(s) \cup Spent(v) /\ Spent(vt) = Spent(v) \cup Inputs[t]
      BY SpentIs
    <2>4. Fresh(vt, before) =>
              Fresh(v, before) /\ Inputs[t] \cap (Spent(before) \cup Spent(v)) = {}
      BY FreshIs
    <2> HIDE DEF w, vt
    <2>5. Fresh(w, before) /\ Inputs[t] \cap (Spent(before) \cup Spent(w)) = {} =>
              Fresh(Append(w, t), before)
      BY <2>1, FreshIs
    <2>6. ASSUME Fresh(vt, before), Spent(s) \cap Spent(vt) = {}
          PROVE  Fresh(s \o vt, before)
      <3>1. Fresh(w, before)
        BY <2>2, <2>3, <2>4, <2>6
      <3>2. Inputs[t] \cap (Spent(before) \cup Spent(w)) = {}
        BY <2>3, <2>4, <2>6
      <3> QED
        BY <2>1, <2>5, <3>1, <3>2
    <2> QED
      BY <2>1, <2>6 DEF vt
  <1> HIDE DEF P
  <1>3. u \in P
    BY <1>1, <1>2, SeqInduction
  <1> QED
    BY <1>3 DEF P

\* It only matters which coins are spent before, and of those only the ones s spends.
LEMMA FreshOther ==
    ASSUME NEW b \in Seq(Txs), NEW c \in Seq(Txs), NEW s \in Seq(Txs), Fresh(s, b),
           Spent(c) \cap Spent(s) \subseteq Spent(b)
    PROVE  Fresh(s, c)
  <1> DEFINE P == {v \in Seq(Txs) :
                       Fresh(v, b) /\ Spent(c) \cap Spent(v) \subseteq Spent(b) => Fresh(v, c)}
  <1>1. <<>> \in P
    BY EmptySeq, FreshIs
  <1>2. ASSUME NEW v \in Seq(Txs), NEW t \in Txs, v \in P PROVE Append(v, t) \in P
    <2> DEFINE w == Append(v, t)
    <2>1. w \in Seq(Txs) /\ Spent(w) = Spent(v) \cup Inputs[t]
      BY AppendProperties, SpentIs
    <2>2. /\ Fresh(w, b) <=> Fresh(v, b) /\ Inputs[t] \cap (Spent(b) \cup Spent(v)) = {}
          /\ Fresh(w, c) <=> Fresh(v, c) /\ Inputs[t] \cap (Spent(c) \cup Spent(v)) = {}
      BY FreshIs
    <2>3. Fresh(v, b) /\ Spent(c) \cap Spent(v) \subseteq Spent(b) => Fresh(v, c)
      BY <1>2
    <2> HIDE DEF w
    <2>4. ASSUME Fresh(w, b), Spent(c) \cap Spent(w) \subseteq Spent(b) PROVE Fresh(w, c)
      <3>1. Fresh(v, c)
        BY <2>1, <2>2, <2>3, <2>4
      <3>2. Inputs[t] \cap (Spent(c) \cup Spent(v)) = {}
        BY <2>1, <2>2, <2>4
      <3> QED
        BY <2>2, <3>1, <3>2
    <2> QED
      BY <2>1, <2>4 DEF w
  <1> HIDE DEF P
  <1>3. s \in P
    BY <1>1, <1>2, SeqInduction
  <1> QED
    BY <1>3 DEF P

-----------------------------------------------------------------------------
(* Replaying the pool, and taking back the transactions of a block.         *)

LEMMA ReplayKeeps ==
    ASSUME perms \in Seq(Blocks), NEW before \in Seq(Txs), NEW rows \in Seq(Txs),
           Allowed(rows, TxsOf(perms)), NEW txs \in Seq(Txs)
    PROVE  /\ Replay(txs, rows) \in Carried
           /\ Replay(txs, rows).mem = rows \o Rows(Replay(txs, rows).pool)
           /\ Allowed(Replay(txs, rows).mem, TxsOf(perms))
           /\ Spent(Replay(txs, rows).pool) \subseteq Spent(txs)
           /\ Fresh(txs, before) => Fresh(Replay(txs, rows).pool, before)
  <1> DEFINE good(v, r) == /\ r.mem = rows \o Rows(r.pool)
                           /\ Allowed(r.mem, TxsOf(perms))
                           /\ Spent(r.pool) \subseteq Spent(v)
                           /\ Fresh(v, before) => Fresh(r.pool, before)
             P == {v \in Seq(Txs) : good(v, Replay(v, rows))}
  <1>1. <<>> \in P
    <2>1. Replay(<<>>, rows) = [pool |-> <<>>, mem |-> rows]
      BY ReplayIs
    <2>2. rows \o Rows(<<>>) = rows /\ Spent(<<>>) = {} /\ <<>> \in Seq(Txs)
      BY RowsIs, SpentIs, EmptySeq, ConcatEmptySeq
    <2>3. good(<<>>, [pool |-> <<>>, mem |-> rows])
      BY <2>2
    <2> QED
      BY <2>1, <2>2, <2>3
  <1>2. ASSUME NEW v \in Seq(Txs), NEW t \in Txs, v \in P PROVE Append(v, t) \in P
    <2> DEFINE r == Replay(v, rows)
               n == ReplayOne(r, t)
               w == Append(v, t)
    <2>1. w \in Seq(Txs) /\ Replay(w, rows) = n /\ good(v, r)
      BY <1>2, ReplayIs, AppendProperties
    <2>2. /\ Spent(w) = Spent(v) \cup Inputs[t]
          /\ Fresh(w, before) <=>
                 Fresh(v, before) /\ Inputs[t] \cap (Spent(before) \cup Spent(v)) = {}
      BY SpentIs, FreshIs
    <2> DEFINE p == r.pool
               m == r.mem
    <2>3. p \in Seq(Txs) /\ m \in Seq(Txs)
      BY ReplayIs DEF Carried
    <2>4. n = [pool |-> Append(p, t), mem |-> IF Writes(t) THEN Append(m, t) ELSE m]
          \/ n = r
      BY DEF ReplayOne
    <2>5. n # r /\ Writes(t) => Holds(Sender[t], TxsOf(perms) \o m)
      BY DEF ReplayOne, MayWrite
    <2>6. m = rows \o Rows(p) /\ Allowed(m, TxsOf(perms)) /\ Spent(p) \subseteq Spent(v)
          /\ (Fresh(v, before) => Fresh(p, before))
      BY <2>1
    <2> HIDE DEF w, p, m
    <2>7. CASE n = r
      <3> HIDE DEF r, n
      <3>1. good(w, r)
        BY <2>1, <2>2
      <3> QED
        BY <2>1, <2>7, <3>1 DEF w
    <2>8. CASE n # r
      <3> DEFINE pt == Append(p, t)
                 mt == IF Writes(t) THEN Append(m, t) ELSE m
      <3>1. n.pool = pt /\ n.mem = mt
        <4>1. n = [pool |-> pt, mem |-> mt]
          BY <2>4, <2>8
        <4> HIDE DEF n, pt, mt
        <4> QED
          BY <4>1
      <3>2. /\ Spent(pt) = Spent(p) \cup Inputs[t]
            /\ Fresh(pt, before) <=>
                   Fresh(p, before) /\ Inputs[t] \cap (Spent(before) \cup Spent(p)) = {}
            /\ Rows(pt) = IF Writes(t) THEN Append(Rows(p), t) ELSE Rows(p)
            /\ Rows(p) \in Seq(Txs)
        BY <2>3, SpentIs, FreshIs, RowsIs
      <3>3. mt = rows \o Rows(pt)
        <4>1. rows \o Append(Rows(p), t) = Append(rows \o Rows(p), t)
          BY <3>2, AppendOfConcat
        <4> HIDE DEF pt
        <4>2. CASE Writes(t)
          BY <2>6, <3>2, <4>1, <4>2
        <4>3. CASE ~Writes(t)
          BY <2>6, <3>2, <4>3
        <4> QED
          BY <4>2, <4>3
      <3>4. Allowed(mt, TxsOf(perms))
        <4>1. CASE Writes(t)
          <5>1. Allowed(Append(m, t), TxsOf(perms)) <=>
                    Allowed(m, TxsOf(perms)) /\ Holds(Sender[t], TxsOf(perms) \o m)
            BY <2>3, AllowedIs
          <5> QED
            BY <2>5, <2>6, <2>8, <4>1, <5>1
        <4>2. CASE ~Writes(t)
          BY <2>6, <4>2
        <4> QED
          BY <4>1, <4>2
      <3> HIDE DEF pt, mt, n
      <3>5. Spent(pt) \subseteq Spent(w)
        BY <2>2, <2>6, <3>2
      <3>6. Fresh(w, before) => Fresh(pt, before)
        BY <2>2, <2>6, <3>2
      <3>7. good(w, n)
        BY <3>1, <3>3, <3>4, <3>5, <3>6
      <3> QED
        BY <2>1, <3>7 DEF w
    <2> QED
      BY <2>7, <2>8
  <1> HIDE DEF P
  <1>3. txs \in P
    BY <1>1, <1>2, SeqInduction
  <1> QED
    BY <1>3, ReplayIs DEF P

LEMMA ResurrectKeeps ==
    ASSUME perms \in Seq(Blocks), coins \in Seq(Blocks), pool \in Seq(Txs), NEW txs \in Seq(Txs)
    PROVE  /\ Resurrect(txs, <<>>) \in Carried
           /\ Resurrect(txs, <<>>).mem = Rows(Resurrect(txs, <<>>).pool)
           /\ Allowed(Resurrect(txs, <<>>).mem, TxsOf(perms))
           /\ Fresh(Resurrect(txs, <<>>).pool, TxsOf(coins))
           /\ Spent(Resurrect(txs, <<>>).pool) \cap Spent(pool) = {}
  <1> DEFINE B == TxsOf(coins)
             good(r) == /\ r.mem = Rows(r.pool)
                        /\ Allowed(r.mem, TxsOf(perms))
                        /\ Fresh(r.pool, B)
                        /\ Spent(r.pool) \cap Spent(pool) = {}
             P == {v \in Seq(Txs) : good(Resurrect(v, <<>>))}
  <1>0. <<>> \in Seq(Txs) /\ B \in Seq(Txs)
    BY EmptySeq, TxsOfIs
  <1> HIDE DEF B
  <1>1. <<>> \in P
    <2>1. Resurrect(<<>>, <<>>) = [pool |-> <<>>, mem |-> <<>>]
      BY <1>0, ResurrectIs
    <2>2. Rows(<<>>) = <<>> /\ Spent(<<>>) = {} /\ Allowed(<<>>, TxsOf(perms)) /\ Fresh(<<>>, B)
      BY <1>0, RowsIs, SpentIs, AllowedIs, FreshIs
    <2>3. good([pool |-> <<>>, mem |-> <<>>])
      BY <2>2
    <2> QED
      BY <1>0, <2>1, <2>3
  <1>2. ASSUME NEW v \in Seq(Txs), NEW t \in Txs, v \in P PROVE Append(v, t) \in P
    <2> DEFINE r == Resurrect(v, <<>>)
               n == ResurrectOne(r, t)
               w == Append(v, t)
    <2>1. w \in Seq(Txs) /\ Resurrect(w, <<>>) = n /\ good(r)
      <3>1. w \in Seq(Txs)
        BY AppendProperties
      <3>2. Resurrect(w, <<>>) = n
        BY <1>0, ResurrectIs
      <3>3. good(r)
        BY <1>2
      <3> HIDE DEF w, n, r, good
      <3> QED
        BY <3>1, <3>2, <3>3
    <2> DEFINE p == r.pool
               m == r.mem
    <2>2. p \in Seq(Txs) /\ m \in Seq(Txs)
      BY <1>0, ResurrectIs DEF Carried
    <2>3. n = [pool |-> Append(p, t), mem |-> IF Writes(t) THEN Append(m, t) ELSE m]
          \/ n = r
      BY DEF ResurrectOne
    <2>4. n # r => /\ Inputs[t] \cap (Spent(B) \cup Spent(p \o pool)) = {}
                   /\ Holds(Sender[t], TxsOf(perms) \o m)
      BY DEF ResurrectOne, Acceptable, B
    <2>5. m = Rows(p) /\ Allowed(m, TxsOf(perms)) /\ Fresh(p, B)
          /\ Spent(p) \cap Spent(pool) = {}
      BY <2>1
    <2> HIDE DEF w, p, m
    <2>6. Spent(p \o pool) = Spent(p) \cup Spent(pool)
      BY <2>2, SpentIs
    <2>7. CASE n = r
      BY <2>1, <2>7 DEF w
    <2>8. CASE n # r
      <3> DEFINE pt == Append(p, t)
                 mt == IF Writes(t) THEN Append(m, t) ELSE m
      <3>1. n.pool = pt /\ n.mem = mt
        <4>1. n = [pool |-> pt, mem |-> mt]
          BY <2>3, <2>8
        <4> HIDE DEF n, pt, mt
        <4> QED
          BY <4>1
      <3>2. /\ Spent(pt) = Spent(p) \cup Inputs[t]
            /\ Fresh(pt, B) <=> Fresh(p, B) /\ Inputs[t] \cap (Spent(B) \cup Spent(p)) = {}
            /\ Rows(pt) = IF Writes(t) THEN Append(Rows(p), t) ELSE Rows(p)
        BY <1>0, <2>2, SpentIs, FreshIs, RowsIs
      <3>3. mt = Rows(pt)
        BY <2>5, <3>2
      <3>4. Allowed(mt, TxsOf(perms))
        <4>1. CASE Writes(t)
          <5>1. Allowed(Append(m, t), TxsOf(perms)) <=>
                    Allowed(m, TxsOf(perms)) /\ Holds(Sender[t], TxsOf(perms) \o m)
            BY <2>2, AllowedIs
          <5> QED
            BY <2>4, <2>5, <2>8, <4>1, <5>1
        <4>2. CASE ~Writes(t)
          BY <2>5, <4>2
        <4> QED
          BY <4>1, <4>2
      <3> HIDE DEF pt, mt, n
      <3>5. Fresh(pt, B)
        BY <2>4, <2>5, <2>6, <2>8, <3>2
      <3>6. Spent(pt) \cap Spent(pool) = {}
        BY <2>4, <2>5, <2>6, <2>8, <3>2
      <3>7. good(n)
        BY <3>1, <3>3, <3>4, <3>5, <3>6
      <3> QED
        BY <2>1, <3>7 DEF w
    <2> QED
      BY <2>7, <2>8
  <1> HIDE DEF P
  <1>3. txs \in P
    BY <1>1, <1>2, SeqInduction
  <1> QED
    BY <1>0, <1>3, ResurrectIs DEF P, B

\* What DisconnectTip makes of the pool: the transactions of the block before those
\* that were in it, none of them spending a coin twice, and the rows of all.
LEMMA TakenBackKeeps ==
    ASSUME perms \in Seq(Blocks), coins \in Seq(Blocks), pool \in Seq(Txs), mem = <<>>,
           Fresh(pool, TxsOf(coins)), NEW txs \in Seq(Txs)
    PROVE  /\ TakenBack(txs).pool \in Seq(Txs)
           /\ TakenBack(txs).mem = Rows(TakenBack(txs).pool)
           /\ Allowed(TakenBack(txs).mem, TxsOf(perms))
           /\ Fresh(TakenBack(txs).pool, TxsOf(coins))
  <1> DEFINE back == Resurrect(txs, mem)
             kept == Replay(pool, back.mem)
             p == back.pool
             q == kept.pool
             B == TxsOf(coins)
  <1>1. TakenBack(txs) = [pool |-> p \o q, mem |-> kept.mem]
    BY DEF TakenBack
  <1>2. B \in Seq(Txs)
    BY TxsOfIs
  <1>3. /\ back \in Carried /\ back.mem = Rows(p) /\ Allowed(back.mem, TxsOf(perms))
        /\ Fresh(p, B) /\ Spent(p) \cap Spent(pool) = {}
    BY ResurrectKeeps
  <1>4. p \in Seq(Txs) /\ back.mem \in Seq(Txs)
    BY <1>3 DEF Carried
  <1> HIDE DEF back, p, B
  <1>5. /\ kept \in Carried /\ kept.mem = back.mem \o Rows(q)
        /\ Allowed(kept.mem, TxsOf(perms))
        /\ Spent(q) \subseteq Spent(pool) /\ (Fresh(pool, B) => Fresh(q, B))
    BY <1>2, <1>3, <1>4, ReplayKeeps
  <1>6. q \in Seq(Txs)
    BY <1>5 DEF Carried
  <1> HIDE DEF kept, q
  <1>7. p \o q \in Seq(Txs) /\ Rows(p \o q) = Rows(p) \o Rows(q)
    BY <1>4, <1>6, ConcatProperties, RowsIs
  <1>8. Fresh(q, B) /\ Spent(p) \cap Spent(q) = {}
    BY <1>3, <1>5 DEF B
  <1>9. Fresh(p \o q, B)
    BY <1>2, <1>3, <1>4, <1>6, <1>8, FreshConcat
  <1> DEFINE pq == p \o q
  <1> HIDE DEF pq
  <1>10. TakenBack(txs).pool = pq /\ TakenBack(txs).mem = kept.mem
    BY <1>1 DEF pq
  <1>11. kept.mem = Rows(pq)
    BY <1>3, <1>5, <1>7 DEF pq
  <1> QED
    BY <1>5, <1>7, <1>9, <1>10, <1>11 DEF pq, B

-----------------------------------------------------------------------------
(***************************************************************************)
(* The pool and the rows in memory, on top of the places of the stores:    *)
(* while a block is disconnected the rows are gone and what they were is   *)
(* only known from the pool; once ConnectBlock has cleared them they stay  *)
(* so until the pool is replayed.                                          *)
(***************************************************************************)
Backs == {"entsBack", "walletBack"}
Commits == {"entsCommit", "coinsCommit", "walletCommit"}

PInv ==
    /\ pool \in Seq(Txs) /\ unreplayed \in BOOLEAN
    /\ Fresh(pool, TxsOf(chain))
    /\ pc \in Backs => mem = <<>>
    /\ pc \in Commits => unreplayed
    /\ pc # "down" /\ ~detached /\ ~unreplayed => Allowed(Rows(pool), TxsOf(chain))
    /\ pc \notin Backs \cup {"down"} /\ ~detached /\ ~unreplayed => mem = Rows(pool)

\* A step that leaves the memory and the chain alone, to a place that asks no more.
LEMMA PoolUnmoved ==
    ASSUME PInv, UNCHANGED <<chain, pool, mem, unreplayed, detached>>,
           \/ pc' \in {pc, "down"}
           \/ pc = "entsBack" /\ pc' = "walletBack"
           \/ pc \in Commits /\ pc' \in Commits
           \/ pc \notin Backs \cup {"down"} /\ pc' \notin Backs \cup Commits
    PROVE  PInv'
  <1>1. pc' \in Backs => pc \in Backs
    BY DEF Backs, Commits
  <1>2. pc' \in Commits => pc \in Commits
    BY DEF Backs, Commits
  <1>3. pc' # "down" => pc # "down"
    BY DEF Backs, Commits
  <1>4. pc' \notin Backs \cup {"down"} => pc \notin Backs \cup {"down"}
    BY DEF Backs, Commits
  <1> QED
    BY <1>1, <1>2, <1>3, <1>4 DEF PInv

\* ... or one after which the pool must be replayed.
LEMMA Unreplayed ==
    ASSUME PInv, chain' = chain, pool' = pool, unreplayed' = TRUE, pc' \notin Backs
    PROVE  PInv'
  BY DEF PInv

\* ... or one that leaves the rows of all the pool in memory.
LEMMA Replayed ==
    ASSUME NEW p \in Seq(Txs), Fresh(p, TxsOf(chain')), Allowed(Rows(p), TxsOf(chain')),
           pool' = p, mem' = Rows(p), unreplayed' = FALSE, pc' \notin Backs \cup Commits
    PROVE  PInv'
  BY DEF PInv

LEMMA PoolInit == Init => PInv
  <1> SUFFICES ASSUME Init
               PROVE  PInv
    OBVIOUS
  <1>1. /\ chain = <<>> /\ pool = <<>> /\ mem = <<>> /\ unreplayed = FALSE
        /\ pc = "idle"
    BY DEF Init
  <1>2. <<>> \in Seq(Txs) /\ TxsOf(<<>>) = <<>> /\ Rows(<<>>) = <<>>
    BY TxsOfIs, RowsIs, EmptySeq
  <1>3. Fresh(<<>>, <<>>) /\ Allowed(<<>>, <<>>)
    BY <1>2, FreshIs, AllowedIs
  <1> QED
    BY <1>1, <1>2, <1>3 DEF PInv, Backs, Commits

LEMMA PoolAccepts ==
    ASSUME IInv, PInv, NEW t \in Offered, AcceptToMemoryPool(t)
    PROVE  PInv'
  <1>1. /\ pc = "idle" /\ ~detached /\ mode = "run" /\ pc' = pc /\ chain' = chain
        /\ detached' = detached
        /\ Acceptable(t, pool, mem) /\ t \in Txs
        /\ mem' = IF Writes(t) THEN Append(mem, t) ELSE mem
    BY StoresAssumption DEF AcceptToMemoryPool
  <1>2. coins = chain /\ perms = chain /\ chain \in Seq(Blocks)
    BY <1>1 DEF IInv, WhenIdle, Trims, Aligned, Typed
  <1>3. CASE t \in NameTaken
    BY <1>1, <1>3, Unreplayed DEF AcceptToMemoryPool, Backs
  <1>4. CASE t \notin NameTaken
    <2>1. pool' = Append(pool, t) /\ unreplayed' = unreplayed
      BY <1>4 DEF AcceptToMemoryPool
    <2> DEFINE p == Append(pool, t)
               B == TxsOf(chain)
    <2>2. B \in Seq(Txs) /\ p \in Seq(Txs) /\ pool \in Seq(Txs) /\ unreplayed \in BOOLEAN
          /\ Fresh(pool, B)
      BY <1>1, <1>2, TxsOfIs, AppendProperties DEF PInv
    <2>3. /\ Inputs[t] \cap (Spent(B) \cup Spent(pool)) = {}
          /\ Holds(Sender[t], B \o mem)
      BY <1>1, <1>2 DEF Acceptable
    <2> HIDE DEF B
    <2>4. Fresh(p, B)
      BY <1>1, <2>2, <2>3, FreshIs
    <2>5. ASSUME ~unreplayed PROVE Rows(p) = mem' /\ Allowed(Rows(p), B)
      <3>1. mem = Rows(pool) /\ Allowed(Rows(pool), B) /\ Rows(pool) \in Seq(Txs)
        BY <1>1, <2>2, <2>5, RowsIs DEF PInv, Backs, B
      <3>2. Rows(p) = IF Writes(t) THEN Append(Rows(pool), t) ELSE Rows(pool)
        BY <1>1, <2>2, RowsIs
      <3>3. CASE Writes(t)
        <4>1. Allowed(Append(Rows(pool), t), B) <=>
                  Allowed(Rows(pool), B) /\ Holds(Sender[t], B \o Rows(pool))
          BY <1>1, <3>1, AllowedIs
        <4> HIDE DEF p
        <4> QED
          BY <1>1, <2>3, <3>1, <3>2, <3>3, <4>1
      <3>4. CASE ~Writes(t)
        <4> HIDE DEF p
        <4> QED
          BY <1>1, <3>1, <3>2, <3>4
      <3> QED
        BY <3>3, <3>4
    <2> HIDE DEF p
    <2>6. pool' = p
      BY <2>1 DEF p
    <2> QED
      BY <1>1, <2>1, <2>2, <2>4, <2>5, <2>6 DEF PInv, Backs, Commits, B
  <1> QED
    BY <1>3, <1>4

LEMMA PoolDisconnects ==
    ASSUME IInv, PInv, Disconnect
    PROVE  PInv'
  <1>1. CASE DisconnectCoins
    BY <1>1, PoolUnmoved DEF DisconnectCoins, memory, Backs, Commits
  <1>2. CASE DisconnectPermissions
    <2>1. /\ UNCHANGED <<chain, pool, unreplayed, detached>> /\ mem' = <<>>
          /\ pc = "permsBack" /\ pc' = "entsBack"
      BY <1>2 DEF DisconnectPermissions
    <2> QED
      BY <2>1 DEF PInv, Backs, Commits
  <1>3. CASE DisconnectEntities
    BY <1>3, PoolUnmoved DEF DisconnectEntities, memory
  <1>4. CASE DisconnectWallet
    <2> DEFINE c == Front(chain)
               b == Last(chain)
               all == TakenBack(Content[b])
    <2>1. /\ pc = "walletBack" /\ chain' = c /\ pool' = all.pool /\ mem' = all.mem
          /\ unreplayed' = FALSE /\ pc' \in {"coinsBack", "connect", "finish"}
      BY <1>4 DEF DisconnectWallet, NextWrite
    <2>2. /\ chain \in Seq(Blocks) /\ chain # <<>> /\ coins = c /\ perms = c
          /\ pool \in Seq(Txs) /\ mem = <<>> /\ Fresh(pool, TxsOf(chain))
      BY <2>1 DEF IInv, Typed, WhenBack, PInv, Backs
    <2>3. c \in Seq(Blocks) /\ b \in Blocks /\ chain = Append(c, b)
      BY <2>2, FrontAndLast
    <2>4. Content[b] \in Seq(Txs)
      BY <2>3, StoresAssumption
    <2> HIDE DEF c, b
    <2>5. TxsOf(c) \in Seq(Txs) /\ TxsOf(chain) \in Seq(Txs)
          /\ TxsOf(chain) = TxsOf(c) \o Content[b]
      BY <2>2, <2>3, TxsOfIs
    <2>6. Spent(TxsOf(chain)) = Spent(TxsOf(c)) \cup Spent(Content[b])
      BY <2>4, <2>5, SpentIs
    <2>7. Fresh(pool, TxsOf(c))
      BY <2>2, <2>5, <2>6, FreshOther
    <2>8. /\ all.pool \in Seq(Txs) /\ all.mem = Rows(all.pool)
          /\ Allowed(all.mem, TxsOf(c)) /\ Fresh(all.pool, TxsOf(c))
      BY <2>2, <2>3, <2>4, <2>7, TakenBackKeeps
    <2> DEFINE p == all.pool
    <2>9. pool' = p /\ mem' = Rows(p) /\ p \in Seq(Txs) /\ Fresh(p, TxsOf(chain'))
          /\ Allowed(Rows(p), TxsOf(chain'))
      BY <2>1, <2>8
    <2>10. pc' \notin Backs \cup Commits /\ unreplayed' = FALSE
      BY <2>1 DEF Backs, Commits
    <2> HIDE DEF p
    <2> QED
      BY <2>9, <2>10, Replayed
  <1> QED
    BY <1>1, <1>2, <1>3, <1>4 DEF Disconnect

LEMMA PoolConnects ==
    ASSUME IInv, PInv, Connect
    PROVE  PInv'
  <1>1. CASE ConnectBarred
    BY <1>1, PoolUnmoved DEF ConnectBarred, Refuse, memory, Backs, Commits
  <1>2. CASE ConnectPermissions
    <2>1. chain' = chain /\ pool' = pool /\ unreplayed' = TRUE /\ pc' \in {"entsCommit", "idle"}
      BY <1>2 DEF ConnectPermissions, Refuse
    <2> QED
      BY <2>1, Unreplayed DEF Backs
  <1>3. CASE ConnectEntities
    <2>1. chain' = chain /\ pool' = pool /\ detached' = detached /\ pc = "entsCommit"
          /\ \/ mem' = mem /\ unreplayed' = unreplayed /\ pc' = "coinsCommit"
             \/ unreplayed' = TRUE /\ pc' = "idle"
      BY <1>3 DEF ConnectEntities, Refuse
    <2> QED
      BY <2>1, PoolUnmoved, Unreplayed DEF Backs, Commits
  <1>4. CASE ConnectCoins
    <2>1. UNCHANGED <<chain, pool, mem, unreplayed, detached>> /\ pc = "coinsCommit"
          /\ pc' \in {"walletCommit", "down"}
      BY <1>4 DEF ConnectCoins, memory
    <2> QED
      BY <2>1, PoolUnmoved DEF Commits
  <1>5. CASE ConnectWallet
    <2> DEFINE txs == Content[Coming]
               N == {t \in Txs : t \notin Range(txs) /\ Inputs[t] \cap Spent(txs) = {}}
               p == Among(pool, N)
               B == TxsOf(chain)
    <2>1. /\ pool' = p /\ pc = "walletCommit" /\ unreplayed' = unreplayed
          /\ chain' \in {chain, coins} /\ pc' \notin Backs
      BY <1>5 DEF ConnectWallet, WithoutBlock, NextWrite, Backs
    <2>2. unreplayed = TRUE /\ pool \in Seq(Txs) /\ Fresh(pool, B)
      BY <2>1 DEF PInv, Commits
    <2>3. coins = Append(chain, Coming) /\ chain \in Seq(Blocks) /\ Coming \in Blocks
      BY <2>1, ComingTyped DEF IInv, Typed, WhenConnect
    <2>4. txs \in Seq(Txs) /\ B \in Seq(Txs) /\ TxsOf(coins) = B \o txs
      BY <2>3, StoresAssumption, TxsOfIs
    <2>5. \A t \in N : Inputs[t] \cap Spent(txs) = {}
      OBVIOUS
    <2> HIDE DEF N, B, txs
    <2>6. p \in Seq(Txs)
      BY <2>2, AmongIs
    <2>7. Fresh(p, B) /\ Spent(p) \cap Spent(txs) = {}
      <3> DEFINE X == Spent(txs)
      <3>1. \A t \in N : Inputs[t] \cap X = {}
        BY <2>5
      <3> HIDE DEF X
      <3>2. /\ Spent(Among(pool, N)) \cap X = {}
            /\ Fresh(pool, B) => Fresh(Among(pool, N), B)
        BY <2>2, <2>4, <3>1, AmongKeeps
      <3> QED
        BY <2>2, <3>2 DEF X
    <2> HIDE DEF p
    <2>8. Fresh(p, B \o txs)
      <3> DEFINE C == B \o txs
      <3>1. C \in Seq(Txs) /\ Spent(C) = Spent(B) \cup Spent(txs)
        BY <2>4, ConcatProperties, SpentIs
      <3> HIDE DEF C
      <3>2. Spent(C) \cap Spent(p) \subseteq Spent(B)
        BY <2>7, <3>1
      <3>3. Fresh(p, C)
        BY <2>4, <2>6, <2>7, <3>1, <3>2, FreshOther
      <3> QED
        BY <3>3 DEF C
    <2>9. Fresh(p, TxsOf(chain'))
      BY <2>1, <2>4, <2>7, <2>8 DEF B
    <2> QED
      BY <2>1, <2>2, <2>6, <2>9 DEF PInv
  <1> QED
    BY <1>1, <1>2, <1>3, <1>4, <1>5 DEF Connect

LEMMA PoolFinishes ==
    ASSUME IInv, PInv, Finish
    PROVE  PInv'
  <1> DEFINE all == Replay(pool, <<>>)
             p == all.pool
  <1>1. /\ pc = "finish" /\ pool' = p /\ mem' = all.mem /\ unreplayed' = FALSE
        /\ pc' = "idle" /\ chain' = chain
    BY DEF Finish, EndStep
  <1>2. perms = chain /\ perms \in Seq(Blocks) /\ pool \in Seq(Txs) /\ Fresh(pool, TxsOf(chain))
    BY <1>1 DEF IInv, Typed, WhenConnect, Aligned, PInv
  <1>3. <<>> \in Seq(Txs) /\ Allowed(<<>>, TxsOf(perms)) /\ TxsOf(chain) \in Seq(Txs)
    BY <1>2, EmptySeq, AllowedIs, TxsOfIs
  <1>4. /\ all \in Carried /\ all.mem = <<>> \o Rows(p) /\ Allowed(all.mem, TxsOf(chain))
        /\ (Fresh(pool, TxsOf(chain)) => Fresh(p, TxsOf(chain)))
    BY <1>2, <1>3, ReplayKeeps
  <1>5. p \in Seq(Txs) /\ Rows(p) \in Seq(Txs)
    BY <1>4, RowsIs DEF Carried
  <1>6. all.mem = Rows(p)
    BY <1>4, <1>5, ConcatEmptySeq
  <1> HIDE DEF all, p
  <1>7. Fresh(p, TxsOf(chain')) /\ Allowed(Rows(p), TxsOf(chain')) /\ mem' = Rows(p)
    BY <1>1, <1>2, <1>4, <1>6
  <1>8. pc' \notin Backs \cup Commits
    BY <1>1 DEF Backs, Commits
  <1> QED
    BY <1>1, <1>5, <1>7, <1>8, Replayed

LEMMA PoolStarts ==
    ASSUME IInv, PInv, Start
    PROVE  PInv'
  <1>1. /\ chain' = coins /\ pool' = <<>> /\ mem' = <<>> /\ unreplayed' = FALSE
        /\ pc' \in {"coinsBack", "idle"} /\ coins \in Seq(Blocks)
    BY DEF Start, StartFrom, IInv, Typed
  <1>2. <<>> \in Seq(Txs) /\ TxsOf(coins) \in Seq(Txs) /\ Rows(<<>>) = <<>>
    BY <1>1, TxsOfIs, RowsIs, EmptySeq
  <1>3. Fresh(<<>>, TxsOf(coins)) /\ Allowed(<<>>, TxsOf(coins))
    BY <1>2, FreshIs, AllowedIs
  <1>4. pc' \notin Backs \cup Commits
    BY <1>1 DEF Backs, Commits
  <1> QED
    BY <1>1, <1>2, <1>3, <1>4, Replayed

LEMMA PoolTrims ==
    ASSUME IInv, PInv, TrimPermissions
    PROVE  PInv'
  <1>1. /\ pc = "idle" /\ pc' = pc /\ mem' = <<>>
        /\ unreplayed' = (unreplayed \/ pool # <<>>)
        /\ UNCHANGED <<chain, pool, detached>>
    BY DEF TrimPermissions
  <1>2. unreplayed' \in BOOLEAN /\ (~unreplayed' => ~unreplayed /\ pool = <<>>)
    BY <1>1 DEF PInv
  <1>3. Rows(<<>>) = <<>>
    BY RowsIs
  <1> QED
    BY <1>1, <1>2, <1>3 DEF PInv, Backs, Commits

LEMMA PoolStep == IInv /\ PInv /\ [Next]_vars => PInv'
  <1> SUFFICES ASSUME IInv, PInv, [Next]_vars
               PROVE  PInv'
    OBVIOUS
  <1>1. ASSUME NEW s \in Branches, Receive(s)
        PROVE  PInv'
    BY <1>1, PoolUnmoved DEF Receive, memory
  <1>2. ASSUME NEW s \in MostWork, Begin(s) \/ BeginRejects(s)
        PROVE  PInv'
    <2>1. UNCHANGED <<chain, pool, mem, unreplayed, detached>> /\ pc = "idle"
          /\ pc' \in {"idle", "coinsBack", "connect", "finish"}
      BY <1>2 DEF Begin, BeginRejects, NextWrite, memory
    <2> QED
      BY <2>1, PoolUnmoved DEF Backs, Commits
  <1>3. CASE BeginAborts \/ Crash
    BY <1>3, PoolUnmoved DEF BeginAborts, Crash, memory
  <1>4. CASE UpDone \/ TrimEntities \/ TrimWallet
    BY <1>4, PoolUnmoved DEF UpDone, TrimEntities, TrimWallet, memory
  <1>5. CASE UNCHANGED vars
    BY <1>5, PoolUnmoved DEF vars, memory
  <1> QED
    BY <1>1, <1>2, <1>3, <1>4, <1>5, PoolAccepts, PoolDisconnects, PoolConnects,
       PoolFinishes, PoolStarts, PoolTrims DEF Next, Work, Load

\* When a node is running the rows in memory are those of its pool, each written by an
\* address that could write it there, and the pool spends no coin twice, unless a
\* rejected block or transaction left them otherwise: AcceptToMemoryPool, DisconnectTip,
\* ConnectTip, ReplayMemPool and the start keep the two together, for any blocks,
\* transactions and crashes.
THEOREM PoolAndRowsAgree == Spec => []RowsAreThePools
  <1>1. ASSUME IInv, PInv PROVE RowsAreThePools
    <2> SUFFICES ASSUME Running, ~detached, ~unreplayed
                 PROVE  /\ mem = Rows(pool)
                        /\ Allowed(mem, TxsOf(chain))
                        /\ Fresh(pool, TxsOf(chain))
      BY DEF RowsAreThePools, Allowed, Fresh
    <2> QED
      BY <1>1 DEF PInv, Running, Backs
  <1>2. Spec => [](IInv /\ PInv)
    BY InitHolds, PoolInit, PoolStep, Invariance, PTL DEF Spec
  <1> QED
    BY <1>1, <1>2, PTL

-----------------------------------------------------------------------------
(***************************************************************************)
(* Disconnecting a block loses no transaction: those of the block could be *)
(* written after their branch once, and the pool's after them.             *)
(***************************************************************************)

\* A transaction that spends a coin nobody else does is not among the others.
LEMMA NotThere ==
    ASSUME NEW s \in Seq(Txs), NEW t \in Txs, Inputs[t] \cap Spent(s) = {}
    PROVE  t \notin Range(s)
  <1>1. ASSUME t \in Range(s) PROVE FALSE
    <2>1. PICK i \in 1..Len(s) : t = s[i]
      BY <1>1, LenProperties DEF Range
    <2>2. Inputs[t] \subseteq Spent(s)
      BY <2>1, SpentIs
    <2> QED
      BY <2>2, StoresAssumption
  <1> QED
    BY <1>1

\* The transactions of txs spend nothing that before does.
LEMMA FreshApart ==
    ASSUME NEW before \in Seq(Txs), NEW s \in Seq(Txs), Fresh(s, before)
    PROVE  Spent(s) \cap Spent(before) = {}
  <1> DEFINE P == {v \in Seq(Txs) : Fresh(v, before) => Spent(v) \cap Spent(before) = {}}
  <1>1. <<>> \in P
    BY EmptySeq, SpentIs
  <1>2. ASSUME NEW v \in Seq(Txs), NEW t \in Txs, v \in P PROVE Append(v, t) \in P
    <2> DEFINE w == Append(v, t)
    <2>1. w \in Seq(Txs) /\ Spent(w) = Spent(v) \cup Inputs[t]
      BY AppendProperties, SpentIs
    <2>2. Fresh(w, before) =>
              Fresh(v, before) /\ Inputs[t] \cap (Spent(before) \cup Spent(v)) = {}
      BY FreshIs
    <2>3. Fresh(v, before) => Spent(v) \cap Spent(before) = {}
      BY <1>2
    <2> HIDE DEF w
    <2>4. Fresh(w, before) => Spent(w) \cap Spent(before) = {}
      BY <2>1, <2>2, <2>3
    <2> QED
      BY <2>1, <2>4 DEF w
  <1> HIDE DEF P
  <1>3. s \in P
    BY <1>1, <1>2, SeqInduction
  <1> QED
    BY <1>3 DEF P

\* The last row about an address decides, ...
LEMMA HoldsIs ==
    ASSUME NEW who, NEW s \in Seq(Txs), NEW t \in Txs
    PROVE  /\ Change[t].who = who => (Holds(who, Append(s, t)) <=> Change[t].may)
           /\ Change[t].who # who => (Holds(who, Append(s, t)) <=> Holds(who, s))
  <1> DEFINE d == Append(s, t)
             A(u) == {i \in DOMAIN u : Change[u[i]].who = who}
             most(u) == CHOOSE i \in A(u) : \A j \in A(u) : j <= i
  <1>1. \A u : Holds(who, u) <=> IF A(u) = {} THEN who \in Holders ELSE Change[u[most(u)]].may
    BY DEF Holds
  <1>2. /\ DOMAIN d = 1..(Len(s) + 1) /\ DOMAIN s = 1..Len(s) /\ Len(s) \in Nat
        /\ d[Len(s) + 1] = t /\ \A i \in 1..Len(s) : d[i] = s[i]
    BY PrefixOfAppend, LenProperties
  <1>3. A(s) \subseteq A(d)
    BY <1>2
  <1> HIDE DEF d
  <1>4. ASSUME Change[t].who = who
        PROVE  Holds(who, d) <=> Change[t].may
    <2>1. Len(s) + 1 \in A(d)
      BY <1>2, <1>4
    <2>2. \A j \in A(d) : j \in Nat /\ j <= Len(s) + 1
      BY <1>2
    <2>3. most(d) \in A(d) /\ \A j \in A(d) : j <= most(d)
      BY <2>1, <2>2
    <2> HIDE DEF A, most
    <2>4. most(d) = Len(s) + 1
      <3>1. most(d) \in Nat /\ most(d) <= Len(s) + 1 /\ Len(s) + 1 <= most(d)
        BY <2>1, <2>2, <2>3
      <3> QED
        BY <1>2, <3>1
    <2> QED
      BY <1>1, <1>2, <2>1, <2>4
  <1>5. ASSUME Change[t].who # who
        PROVE  Holds(who, d) <=> Holds(who, s)
    <2>1. \A i \in A(d) : i \in A(s)
      <3> SUFFICES ASSUME NEW i \in A(d)
                   PROVE  i \in A(s)
        OBVIOUS
      <3>1. i \in 1..(Len(s) + 1) /\ Change[d[i]].who = who
        BY <1>2
      <3>2. i # Len(s) + 1
        BY <1>2, <1>5, <3>1
      <3>3. i \in 1..Len(s)
        BY <1>2, <3>1, <3>2
      <3> QED
        BY <1>2, <3>1, <3>3
    <2>2. A(d) = A(s)
      BY <1>3, <2>1
    <2>3. most(d) = most(s)
      BY <2>2
    <2>4. A(s) # {} => d[most(s)] = s[most(s)]
      <3>1. ASSUME A(s) # {} PROVE most(s) \in A(s)
        <4>1. A(s) \subseteq 0..Len(s)
          BY <1>2
        <4>2. \E x \in A(s) : \A y \in A(s) : y <= x
          <5> HIDE DEF A
          <5> QED
            BY <1>2, <3>1, <4>1, Greatest
        <4> HIDE DEF A
        <4> QED
          BY <4>2
      <3> HIDE DEF most
      <3> QED
        BY <1>2, <3>1
    <2> HIDE DEF A, most
    <2> QED
      BY <1>1, <2>2, <2>3, <2>4
  <1> QED
    BY <1>4, <1>5 DEF d

\* ... so that the transactions that write none do not matter.
LEMMA HoldsByRows ==
    ASSUME NEW who, who # NoChange.who, NEW before \in Seq(Txs), NEW s \in Seq(Txs)
    PROVE  Holds(who, before \o s) <=> Holds(who, before \o Rows(s))
  <1> DEFINE P == {v \in Seq(Txs) :
                       Holds(who, before \o v) <=> Holds(who, before \o Rows(v))}
  <1>1. <<>> \in P
    BY EmptySeq, RowsIs
  <1>2. ASSUME NEW v \in Seq(Txs), NEW t \in Txs, v \in P PROVE Append(v, t) \in P
    <2> DEFINE w == Append(v, t)
               r == Rows(v)
               bv == before \o v
               br == before \o r
    <2>1. w \in Seq(Txs) /\ r \in Seq(Txs) /\ Rows(w) = (IF Writes(t) THEN Append(r, t) ELSE r)
      BY AppendProperties, RowsIs
    <2>2. bv \in Seq(Txs) /\ br \in Seq(Txs)
      BY <2>1, ConcatProperties
    <2>3. before \o w = Append(bv, t) /\ before \o Append(r, t) = Append(br, t)
      <3> HIDE DEF r
      <3>1. before \o Append(v, t) = Append(before \o v, t)
        BY AppendOfConcat
      <3>2. before \o Append(r, t) = Append(before \o r, t)
        BY <2>1, AppendOfConcat
      <3> QED
        BY <3>1, <3>2
    <2>4. Holds(who, bv) <=> Holds(who, br)
      BY <1>2
    <2> HIDE DEF w, r, bv, br
    <2>5. CASE Change[t].who = who
      <3>1. Writes(t)
        BY <2>5 DEF Writes
      <3>2. Holds(who, Append(bv, t)) <=> Holds(who, Append(br, t))
        BY <2>2, <2>5, HoldsIs
      <3>3. Holds(who, before \o w) <=> Holds(who, before \o Rows(w))
        BY <2>1, <2>3, <3>1, <3>2
      <3> QED
        BY <2>1, <3>3 DEF w
    <2>6. CASE Change[t].who # who
      <3>1. /\ Holds(who, Append(bv, t)) <=> Holds(who, bv)
            /\ Holds(who, Append(br, t)) <=> Holds(who, br)
        BY <2>2, <2>6, HoldsIs
      <3>2. before \o Rows(w) = Append(br, t) \/ before \o Rows(w) = br
        BY <2>1, <2>3 DEF br
      <3>3. Holds(who, before \o w) <=> Holds(who, before \o Rows(w))
        BY <2>3, <2>4, <3>1, <3>2
      <3> QED
        BY <2>1, <3>3 DEF w
    <2> QED
      BY <2>5, <2>6
  <1> HIDE DEF P
  <1>3. s \in P
    BY <1>1, <1>2, SeqInduction
  <1> QED
    BY <1>3 DEF P

\* What ConnectBlock accepted follows its branch.
LEMMA AllFollow ==
    ASSUME NEW txs \in Seq(Txs), NEW before, ValidPrefix(txs, before) = Len(txs)
    PROVE  Fresh(txs, before) /\ Allowed(txs, before) /\ Range(txs) \cap NameTaken = {}
  <1> DEFINE ok(i) == CanFollow(txs[i], before \o SubSeq(txs, 1, i - 1))
             good(n) == /\ \A i \in 1..n : ok(i)
                        /\ n < Len(txs) => ~CanFollow(txs[n + 1], before \o SubSeq(txs, 1, n))
             K == {n \in 0..Len(txs) : \A i \in 1..n : ok(i)}
  <1>1. Len(txs) \in Nat /\ DOMAIN txs = 1..Len(txs)
    BY LenProperties
  <1>2. 0 \in K
    BY <1>1
  <1> HIDE DEF ok
  <1>3. PICK n \in K : \A m \in K : m <= n
    BY <1>1, <1>2, Greatest
  <1>4. n \in 0..Len(txs) /\ n \in Nat
    BY <1>1
  <1>5. n < Len(txs) => ~ok(n + 1)
    <2>1. ASSUME n < Len(txs), ok(n + 1) PROVE FALSE
      <3>1. n + 1 \in 0..Len(txs) /\ \A i \in 1..(n + 1) : i \in 1..n \/ i = n + 1
        BY <1>1, <1>4, <2>1
      <3>2. n + 1 \in K
        BY <1>3, <2>1, <3>1
      <3>3. n + 1 <= n
        BY <1>3, <3>2
      <3> QED
        BY <1>4, <3>3
    <2> QED
      BY <2>1
  <1>6. good(n)
    <2>1. n + 1 - 1 = n
      BY <1>4
    <2> QED
      BY <1>3, <1>5, <2>1 DEF ok
  <1>7. ValidPrefix(txs, before) = CHOOSE k \in 0..Len(txs) : good(k)
    BY DEF ValidPrefix, ok
  <1> HIDE DEF good
  <1>8. good(Len(txs))
    BY <1>4, <1>6, <1>7
  <1>9. \A i \in 1..Len(txs) : ok(i)
    BY <1>8 DEF good
  <1>10. \A i \in 1..Len(txs) :
             /\ Inputs[txs[i]] \cap Spent(before \o SubSeq(txs, 1, i - 1)) = {}
             /\ Holds(Sender[txs[i]], before \o SubSeq(txs, 1, i - 1))
             /\ txs[i] \notin NameTaken
    BY <1>9 DEF ok, CanFollow, WritesAfter
  <1> QED
    BY <1>1, <1>10 DEF Fresh, Allowed, Range

\* All of them come back ...
LEMMA AllComeBack ==
    ASSUME perms \in Seq(Blocks), coins = perms, pool \in Seq(Txs), NEW txs \in Seq(Txs),
           Fresh(txs, TxsOf(perms)), Allowed(txs, TxsOf(perms)), Range(txs) \cap NameTaken = {},
           Spent(txs) \cap Spent(pool) = {}
    PROVE  Resurrect(txs, <<>>) = [pool |-> txs, mem |-> Rows(txs)]
  <1> DEFINE B == TxsOf(perms)
             ok(v) == /\ Fresh(v, B) /\ Allowed(v, B) /\ Range(v) \cap NameTaken = {}
                      /\ Spent(v) \cap Spent(pool) = {}
             P == {v \in Seq(Txs) : ok(v) => Resurrect(v, <<>>) = [pool |-> v, mem |-> Rows(v)]}
  <1>0. <<>> \in Seq(Txs) /\ B \in Seq(Txs)
    BY EmptySeq, TxsOfIs
  <1> HIDE DEF B
  <1>1. <<>> \in P
    BY <1>0, ResurrectIs, RowsIs
  <1>2. ASSUME NEW v \in Seq(Txs), NEW t \in Txs, v \in P PROVE Append(v, t) \in P
    <2> DEFINE w == Append(v, t)
               r == Rows(v)
    <2>1. w \in Seq(Txs) /\ Spent(w) = Spent(v) \cup Inputs[t]
          /\ Rows(w) = (IF Writes(t) THEN Append(r, t) ELSE r)
          /\ Resurrect(w, <<>>) = ResurrectOne(Resurrect(v, <<>>), t)
      <3>1. w \in Seq(Txs) /\ Spent(w) = Spent(v) \cup Inputs[t]
        BY AppendProperties, SpentIs
      <3>2. Rows(w) = IF Writes(t) THEN Append(r, t) ELSE r
        BY RowsIs
      <3>3. Resurrect(w, <<>>) = ResurrectOne(Resurrect(v, <<>>), t)
        BY <1>0, ResurrectIs
      <3> HIDE DEF w, r
      <3> QED
        BY <3>1, <3>2, <3>3
    <2>2. Range(w) = Range(v) \cup {t}
      <3>1. /\ DOMAIN w = 1..(Len(v) + 1) /\ w[Len(v) + 1] = t
            /\ \A i \in 1..Len(v) : w[i] = v[i]
            /\ DOMAIN v = 1..Len(v) /\ Len(v) \in Nat
        BY PrefixOfAppend, LenProperties
      <3> HIDE DEF w
      <3>2. /\ \A i \in 1..(Len(v) + 1) : i \in 1..Len(v) \/ i = Len(v) + 1
            /\ \A i \in 1..Len(v) : i \in 1..(Len(v) + 1)
            /\ Len(v) + 1 \in 1..(Len(v) + 1)
        BY <3>1
      <3>3. \A x \in Range(w) : x \in Range(v) \cup {t}
        BY <3>1, <3>2 DEF Range
      <3>4. \A x \in Range(v) : x \in Range(w)
        BY <3>1, <3>2 DEF Range
      <3>5. t \in Range(w)
        BY <3>1, <3>2 DEF Range
      <3> QED
        BY <3>3, <3>4, <3>5
    <2>3. /\ Fresh(w, B) => Fresh(v, B) /\ Inputs[t] \cap (Spent(B) \cup Spent(v)) = {}
          /\ Allowed(w, B) => Allowed(v, B) /\ Holds(Sender[t], B \o v)
      BY <1>0, FreshIs, AllowedIs
    <2>4. ok(v) => Resurrect(v, <<>>) = [pool |-> v, mem |-> r]
      BY <1>2
    <2>5. r \in Seq(Txs) /\ v \o pool \in Seq(Txs) /\ Spent(v \o pool) = Spent(v) \cup Spent(pool)
      BY RowsIs, ConcatProperties, SpentIs
    <2> HIDE DEF w, r
    <2>6. ASSUME ok(w)
          PROVE  Resurrect(w, <<>>) = [pool |-> w, mem |-> Rows(w)]
      <3>1. Resurrect(v, <<>>) = [pool |-> v, mem |-> r]
        BY <2>1, <2>2, <2>3, <2>4, <2>6
      <3>2. Inputs[t] \cap (Spent(B) \cup Spent(v \o pool)) = {}
        BY <2>1, <2>3, <2>5, <2>6
      <3>3. t \notin NameTaken
        BY <2>2, <2>6
      <3>4. t \notin Range(v \o pool)
        <4> DEFINE vp == v \o pool
        <4>1. vp \in Seq(Txs) /\ Inputs[t] \cap Spent(vp) = {}
          BY <2>5, <3>2
        <4> HIDE DEF vp
        <4>2. t \notin Range(vp)
          BY <4>1, NotThere
        <4> QED
          BY <4>2 DEF vp
      <3>5. t \notin Range(B)
        BY <1>0, <3>2, NotThere
      <3>6. Holds(Sender[t], B \o r)
        <4>1. Sender[t] # NoChange.who
          BY StoresAssumption
        <4> DEFINE who == Sender[t]
        <4> HIDE DEF who
        <4>2. who # NoChange.who
          BY <4>1 DEF who
        <4>3. Holds(who, B \o v) <=> Holds(who, B \o Rows(v))
          BY <1>0, <4>2, HoldsByRows
        <4> QED
          BY <2>3, <2>6, <4>3 DEF who, r
      <3>7. Acceptable(t, v \o pool, r)
        <4>1. Inputs[t] \cap (Spent(TxsOf(coins)) \cup Spent(v \o pool)) = {}
          BY <3>2 DEF B
        <4>2. t \notin Range(TxsOf(coins)) /\ Holds(Sender[t], TxsOf(perms) \o r)
          BY <3>5, <3>6 DEF B
        <4> QED
          BY <3>4, <4>1, <4>2 DEF Acceptable
      <3>8. ResurrectOne([pool |-> v, mem |-> r], t)
                = [pool |-> Append(v, t), mem |-> IF Writes(t) THEN Append(r, t) ELSE r]
        BY <3>3, <3>7 DEF ResurrectOne
      <3>9. w = Append(v, t)
        BY DEF w
      <3> QED
        BY <2>1, <3>1, <3>8, <3>9
    <2> QED
      BY <2>1, <2>6 DEF w
  <1> HIDE DEF P
  <1>3. txs \in P
    BY <1>1, <1>2, SeqInduction
  <1> QED
    BY <1>3 DEF P, B

\* ... and all of the pool stay after them.
LEMMA AllStay ==
    ASSUME perms \in Seq(Blocks), NEW txs \in Seq(Txs), NEW s \in Seq(Txs),
           Allowed(Rows(s), TxsOf(perms) \o txs)
    PROVE  Replay(s, Rows(txs)) = [pool |-> s, mem |-> Rows(txs) \o Rows(s)]
  <1> DEFINE B == TxsOf(perms)
             C == B \o txs
             rows == Rows(txs)
             P == {v \in Seq(Txs) :
                       Allowed(Rows(v), C) => Replay(v, rows) = [pool |-> v, mem |-> rows \o Rows(v)]}
  <1>0. <<>> \in Seq(Txs) /\ B \in Seq(Txs) /\ C \in Seq(Txs) /\ rows \in Seq(Txs)
    BY EmptySeq, TxsOfIs, RowsIs, ConcatProperties
  <1> HIDE DEF B
  <1>1. <<>> \in P
    <2>1. Rows(<<>>) = <<>> /\ rows \o <<>> = rows
      BY <1>0, RowsIs, ConcatEmptySeq
    <2>2. Replay(<<>>, rows) = [pool |-> <<>>, mem |-> rows]
      BY <1>0, ReplayIs
    <2> QED
      BY <1>0, <2>1, <2>2
  <1>2. ASSUME NEW v \in Seq(Txs), NEW t \in Txs, v \in P PROVE Append(v, t) \in P
    <2> DEFINE w == Append(v, t)
               r == Rows(v)
               m == rows \o r
    <2>1. w \in Seq(Txs) /\ r \in Seq(Txs)
          /\ Rows(w) = (IF Writes(t) THEN Append(r, t) ELSE r)
          /\ Replay(w, rows) = ReplayOne(Replay(v, rows), t)
      <3>1. w \in Seq(Txs) /\ r \in Seq(Txs)
        BY AppendProperties, RowsIs
      <3>2. Rows(w) = IF Writes(t) THEN Append(r, t) ELSE r
        BY RowsIs
      <3> HIDE DEF rows
      <3>3. Replay(w, rows) = ReplayOne(Replay(v, rows), t)
        BY <1>0, ReplayIs
      <3> HIDE DEF w, r
      <3> QED
        BY <3>1, <3>2, <3>3
    <2>2. Allowed(r, C) => Replay(v, rows) = [pool |-> v, mem |-> m]
      BY <1>2
    <2>3. Allowed(Append(r, t), C) <=> Allowed(r, C) /\ Holds(Sender[t], C \o r)
      BY <2>1, AllowedIs
    <2>4. rows \o Append(r, t) = Append(m, t)
      BY <1>0, <2>1, AppendOfConcat
    <2>5. Holds(Sender[t], C \o r) => Holds(Sender[t], B \o m)
      <3> DEFINE who == Sender[t]
                 u == txs \o v
      <3>1. who # NoChange.who
        BY StoresAssumption
      <3>2. u \in Seq(Txs) /\ Rows(u) = m
        BY RowsIs, ConcatProperties
      <3>3. C \o v = B \o u
        <4>1. C = B \o txs /\ B \in Seq(Txs) /\ txs \in Seq(Txs) /\ v \in Seq(Txs)
          BY <1>0
        <4> HIDE DEF C, B, m
        <4> QED
          BY <4>1, ConcatAssociative
      <3> HIDE DEF who, u, m, C
      <3>4. Holds(who, C \o v) <=> Holds(who, C \o Rows(v))
        BY <1>0, <3>1, HoldsByRows
      <3>5. Holds(who, B \o u) <=> Holds(who, B \o Rows(u))
        BY <1>0, <3>1, <3>2, HoldsByRows
      <3>6. Holds(who, C \o r) => Holds(who, B \o m)
        BY <3>2, <3>3, <3>4, <3>5
      <3> QED
        BY <3>6 DEF who
    <2> HIDE DEF w, r, m, C, rows
    <2>6. ASSUME Allowed(Rows(w), C)
          PROVE  Replay(w, rows) = [pool |-> w, mem |-> rows \o Rows(w)]
      <3>1. Allowed(r, C) /\ (Writes(t) => Holds(Sender[t], B \o m))
        <4>1. CASE Writes(t)
          <5>1. Allowed(Append(r, t), C)
            BY <2>1, <2>6, <4>1
          <5> QED
            BY <2>3, <2>5, <5>1
        <4>2. CASE ~Writes(t)
          <5>1. Rows(w) = r
            BY <2>1, <4>2
          <5> QED
            BY <2>6, <4>2, <5>1
        <4> QED
          BY <4>1, <4>2
      <3>2. Replay(v, rows) = [pool |-> v, mem |-> m]
        BY <2>2, <3>1
      <3>3. Writes(t) => MayWrite(t, m)
        BY <3>1 DEF MayWrite, B
      <3>4. ReplayOne([pool |-> v, mem |-> m], t)
                = [pool |-> Append(v, t), mem |-> IF Writes(t) THEN Append(m, t) ELSE m]
        BY <3>3 DEF ReplayOne
      <3>5. rows \o Rows(w) = IF Writes(t) THEN Append(m, t) ELSE m
        <4>1. CASE Writes(t)
          BY <2>1, <2>4, <4>1
        <4>2. CASE ~Writes(t)
          BY <2>1, <4>2 DEF m
        <4> QED
          BY <4>1, <4>2
      <3>6. w = Append(v, t)
        BY DEF w
      <3> QED
        BY <2>1, <3>2, <3>4, <3>5, <3>6
    <2> QED
      BY <2>1, <2>6 DEF w
  <1> HIDE DEF P
  <1>3. s \in P
    BY <1>1, <1>2, SeqInduction
  <1> QED
    BY <1>3 DEF P, C, B, rows

\* DisconnectTip takes the transactions of a block back into the pool, before those
\* that were in it, and loses none of either: ConnectBlock accepted them after the same
\* branch, no other transaction has spent their coins since, and the pool's had their
\* rights with the block in the chain.
THEOREM DisconnectLosesNone == Spec => DisconnectKeepsAll
  <1> DEFINE A == pc = "walletBack" /\ pc' # "down" /\ ~unreplayed =>
                      Range(pool) \cup Range(Content[Last(chain)]) \subseteq Range(pool')
  <1>1. ASSUME IInv, JInv, PInv, [Next]_vars PROVE [A]_vars
    <2> SUFFICES ASSUME Next, pc = "walletBack", pc' # "down", ~unreplayed
                 PROVE  Range(pool) \cup Range(Content[Last(chain)]) \subseteq Range(pool')
      BY <1>1
    <2>1. DisconnectWallet
      BY DEF Next, Work, Load, Disconnect, Connect, AcceptToMemoryPool, Receive, Begin,
             BeginRejects, BeginAborts, DisconnectCoins, DisconnectPermissions,
             DisconnectEntities, ConnectBarred, ConnectPermissions, ConnectEntities,
             ConnectCoins, ConnectWallet, Finish, EndStep, Start, StartFrom, UpDone,
             TrimPermissions, TrimEntities, TrimWallet, Crash
    <2> DEFINE c == Front(chain)
               b == Last(chain)
               txs == Content[b]
    <2>2. /\ chain \in Seq(Blocks) /\ chain # <<>> /\ coins = c /\ perms = c /\ ~detached
          /\ pool \in Seq(Txs) /\ mem = <<>> /\ Fresh(pool, TxsOf(chain))
          /\ Allowed(Rows(pool), TxsOf(chain))
      BY <1>1 DEF IInv, Typed, WhenBack, PInv, Backs
    <2>3. c \in Seq(Blocks) /\ b \in Blocks /\ chain = Append(c, b)
      BY <2>2, FrontAndLast
    <2>4. txs \in Seq(Txs) /\ TxsOf(c) \in Seq(Txs) /\ TxsOf(chain) = TxsOf(c) \o txs
      BY <2>3, StoresAssumption, TxsOfIs
    <2>5. ValidPrefix(txs, TxsOf(c)) = Len(txs)
      <3>1. chain \in Branches \ {<<>>} /\ Last(chain) \in Range(chain)
        <4>1. Len(chain) \in 1..Len(chain) /\ DOMAIN chain = 1..Len(chain)
          BY <2>2, EmptySeq, LenProperties
        <4> QED
          BY <1>1, <2>2, <4>1 DEF JInv, Last, Range
      <3>2. BreaksNoRule(chain)
        BY <1>1, <3>1 DEF JInv, Clean
      <3> QED
        BY <3>2 DEF BreaksNoRule
    <2> DEFINE all == TakenBack(txs)
    <2>6. pool' = all.pool
      BY <2>1 DEF DisconnectWallet
    <2> HIDE DEF c, b, txs
    <2>7. Fresh(txs, TxsOf(c)) /\ Allowed(txs, TxsOf(c)) /\ Range(txs) \cap NameTaken = {}
      BY <2>4, <2>5, AllFollow
    <2>8. Spent(txs) \cap Spent(pool) = {}
      <3>1. Spent(TxsOf(chain)) = Spent(TxsOf(c)) \cup Spent(txs)
        BY <2>4, SpentIs
      <3>2. TxsOf(chain) \in Seq(Txs)
        BY <2>2, TxsOfIs
      <3>3. Spent(pool) \cap Spent(TxsOf(chain)) = {}
        BY <2>2, <3>2, FreshApart
      <3> QED
        BY <3>1, <3>3
    <2>9. Resurrect(txs, <<>>) = [pool |-> txs, mem |-> Rows(txs)]
      BY <2>2, <2>3, <2>4, <2>7, <2>8, AllComeBack
    <2>10. Replay(pool, Rows(txs)) = [pool |-> pool, mem |-> Rows(txs) \o Rows(pool)]
      <3>1. perms \in Seq(Blocks) /\ Allowed(Rows(pool), TxsOf(perms) \o txs)
        BY <2>2, <2>3, <2>4
      <3> QED
        BY <2>2, <2>4, <3>1, AllStay
    <2>11. pool' = txs \o pool
      <3> DEFINE back == Resurrect(txs, mem)
                 kept == Replay(pool, back.mem)
      <3>1. back.pool = txs /\ back.mem = Rows(txs)
        BY <2>2, <2>9
      <3>2. all = [pool |-> back.pool \o kept.pool, mem |-> kept.mem]
        BY DEF TakenBack
      <3> HIDE DEF back
      <3>3. kept.pool = pool
        BY <2>10, <3>1
      <3> HIDE DEF kept, all
      <3>4. all.pool = back.pool \o kept.pool
        BY <3>2
      <3> QED
        BY <2>6, <3>1, <3>3, <3>4
    <2> DEFINE d == txs \o pool
    <2>12. /\ Len(txs) \in Nat /\ Len(pool) \in Nat
           /\ DOMAIN txs = 1..Len(txs) /\ DOMAIN pool = 1..Len(pool)
           /\ d \in Seq(Txs) /\ Len(d) = Len(txs) + Len(pool)
           /\ \A i \in 1..(Len(txs) + Len(pool)) :
                  d[i] = IF i <= Len(txs) THEN txs[i] ELSE pool[i - Len(txs)]
      BY <2>2, <2>4, LenProperties, ConcatProperties
    <2> HIDE DEF d
    <2>13. DOMAIN d = 1..(Len(txs) + Len(pool))
      BY <2>12, LenProperties
    <2>14. ASSUME NEW i \in 1..Len(txs) PROVE txs[i] \in Range(d)
      <3>1. i \in 1..(Len(txs) + Len(pool)) /\ i <= Len(txs)
        BY <2>12
      <3> QED
        BY <2>12, <2>13, <3>1 DEF Range
    <2>15. ASSUME NEW i \in 1..Len(pool) PROVE pool[i] \in Range(d)
      <3>1. PICK j \in 1..(Len(txs) + Len(pool)) : ~(j <= Len(txs)) /\ j - Len(txs) = i
        <4>1. i + Len(txs) \in 1..(Len(txs) + Len(pool)) /\ ~(i + Len(txs) <= Len(txs))
              /\ i + Len(txs) - Len(txs) = i
          BY <2>12
        <4> QED
          BY <4>1
      <3> QED
        BY <2>12, <2>13, <3>1 DEF Range
    <2>16. Range(pool) \subseteq Range(d) /\ Range(txs) \subseteq Range(d)
      BY <2>12, <2>14, <2>15 DEF Range
    <2> QED
      BY <2>11, <2>16 DEF d, txs, b
  <1>2. Spec => [](IInv /\ JInv /\ PInv)
    BY InitHolds, JudgedInit, JudgedStep, PoolInit, PoolStep, Invariance, PTL DEF Spec
  <1> QED
    BY <1>1, <1>2, PTL DEF DisconnectKeepsAll, Spec
=============================================================================
