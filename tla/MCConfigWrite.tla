---------------------------- MODULE MCConfigWrite ----------------------------
(* Two placement PUTs and two models of which the host holds one.           *)
EXTENDS ConfigWrite, TLC

(* One thing done by hand, on a checkout that may be dirty to begin with.   *)
MCMaxHand == 1
MCCeiling == 1

Symmetric == Permutations(Puts) \cup Permutations(Models)
=============================================================================
