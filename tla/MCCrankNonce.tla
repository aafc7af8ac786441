---------------------------- MODULE MCCrankNonce ----------------------------
(* Instances of CrankNonce for TLC: two calls at a time, interchangeable,   *)
(* of a crank that is new on the chain, and of one that is not.             *)
EXTENDS CrankNonce, TLC

MCSymmetry == Permutations(Callers)
==============================================================================
