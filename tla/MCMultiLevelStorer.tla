-------------------------- MODULE MCMultiLevelStorer --------------------------
(* Small instances of MultiLevelStorer for TLC.                            *)
EXTENDS MultiLevelStorer, TLC

Symmetric == Permutations(Variants) \union Permutations(Writers)
=============================================================================
