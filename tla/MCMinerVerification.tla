------------------------- MODULE MCMinerVerification -------------------------
(* An instance: the main chain 1, 2 and a longer branch 3, 4, 5; two        *)
(* addresses; who mines is free, what the blocks grant is one of a few.     *)
EXTENDS MinerVerification

CONSTANTS A, B

MCParent == <<0, 1, 0, 3, 4>>

Give(k, by) == [key |-> k, by |-> by, range |-> Always]
Take(k, by) == [key |-> k, by |-> by, range |-> <<0, 0>>]
None == [b \in 1..5 |-> NoGrant]

\* B becomes a miner on both branches, at different heights; on the branch
\* alone, where A then stops; B is made an administrator on the main chain and
\* grants itself on the branch, where it is none.
MCGrantChoices ==
    {[None EXCEPT ![1] = Give(<<B, "mine">>, A), ![4] = Give(<<B, "mine">>, A)],
     [None EXCEPT ![3] = Give(<<B, "mine">>, A), ![4] = Take(<<A, "mine">>, A)],
     [None EXCEPT ![1] = Give(<<B, "admin">>, A), ![3] = Give(<<B, "mine">>, B)]}
=============================================================================
