--------------------------- MODULE MCPermissions ----------------------------
(***************************************************************************)
(* Model checking of Permissions.                                          *)
(***************************************************************************)
EXTENDS Permissions, TLC

CONSTANTS AdminShare, MineShare, Minable

MCShare == [t \in Types |-> IF t = "admin" THEN AdminShare
                            ELSE IF t = "mine" THEN MineShare ELSE 0]

\* for good, and taken back
Forever == {<<0, 9>>, <<0, 0>>}
\* and for block 1 only
WithExpiry == {<<0, 9>>, <<0, 0>>, <<1, 2>>}

\* A checkpoint or a copy nobody will go back to is not part of a state.
MCView == <<m_Block, m_Row, m_MemPool, files, counts, cleared, call,
            IF call \in {"tx", "blocktx"} THEN checkpoint ELSE <<>>,
            IF call \in {"copied", "cleared"} THEN copied ELSE <<>> >>

Symmetry == Permutations(Addresses)
OtherSymmetry == Permutations(Addresses \ {Minable})

\* In the genesis block Minable makes everybody an administrator; later votes
\* are about one permission to mine; they come in blocks, one miner mines them
\* and CheckBlockPermissions is left out.
VotesAfterGenesis ==
    /\ call \notin {"copied", "tx"}
    /\ \A i \in 1..Len(m_MemPool) :
        LET r == m_MemPool[i]
        IN  IF m_Block >= 0 THEN r.key = <<Minable, "mine">>
            ELSE /\ r.key[2] = "admin" /\ r.admin = Minable
                 /\ r.ts = 1 /\ r.prev = 0 /\ r.gto > 0
    /\ m_Block >= 0 => Len(ledger) >= 5 /\ ledger[1].key[1] = Minable
    /\ \A i \in 1..Len(ledger) :
          ledger[i].key[2] = "miner" => ledger[i].key[1] = Minable
=============================================================================
