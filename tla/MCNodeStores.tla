---------------------------- MODULE MCNodeStores ----------------------------
(* Genesis has the branches 1-4, 1-5-6 and 2-3; 5 is of a barred miner.     *)
(* Transaction 1 gives the right to send to "a", 2 spends the coin of 1, 3   *)
(* and 4 are sent by "a", 5 takes the right away, 6 and 7 give others; 7     *)
(* fails after its rows are written.  Block 4 has a transaction that may not *)
(* follow the first.                                                         *)
EXTENDS NodeStores

MCBlocks == 1..6
MCBranches == {<<>>, <<1>>, <<2>>, <<2, 3>>, <<1, 4>>, <<1, 5>>, <<1, 5, 6>>}
MCContent == << <<1>>, <<2, 6>>, <<>>, <<5, 3>>, <<>>, <<>> >>
MCTxs == 1..7
MCSender == <<"admin", "admin", "a", "a", "admin", "admin", "admin">>
MCInputs == << {"c1"}, {"c1"}, {"c3"}, {"c4"}, {"c5"}, {"c6"}, {"c7"} >>
MCChange == << [who |-> "a", may |-> TRUE], NoChange, NoChange,
               [who |-> "b", may |-> TRUE], [who |-> "a", may |-> FALSE],
               [who |-> "c", may |-> TRUE], [who |-> "a", may |-> TRUE] >>
MCHolders == {"admin"}
=============================================================================
