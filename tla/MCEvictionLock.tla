---------------------------- MODULE MCEvictionLock ----------------------------
(* Small instances of EvictionLock for TLC.                                *)
EXTENDS EvictionLock, TLC

Symmetric == Permutations(Instances)
=============================================================================
