---------------------------- MODULE MCRewardRoots ----------------------------
(* An instance of RewardRoots for TLC: two roots in one block, and one before *)
(* them.                                                                      *)
EXTENDS RewardRoots

MCCycles == {1, 2, 3}
MCBlock == <<2, 1, 2>>
==============================================================================
