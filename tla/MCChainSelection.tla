-------------------------- MODULE MCChainSelection --------------------------
(* Two branches from genesis: 1 and 2-3-4.                                    *)
EXTENDS ChainSelection

MCParent == <<0, 0, 2, 3>>

\* All the blocks come and the operator does nothing; or the first three come,
\* with the operator's calls and changes in the wallet.
MCScenarios ==
    [valid : {Blocks, Blocks \ {2}, Blocks \ {3}, Blocks \ {1, 4}}, coming : {Blocks},
     events : {{"restart"}}]
    \cup [valid : {Blocks \ {2}, Blocks \ {3}}, coming : {{1, 2, 3}},
           events : {{"invalidate", "reconsider", "wallet"}}]
    \cup [valid : {Blocks}, coming : {{1, 2, 3}},
           events : {{"setlast"}, {"setlast", "reconsider"}}]
=============================================================================
