---------------------------- MODULE MCKVReplicas ----------------------------
(***************************************************************************)
(* KVReplicas for TLC: the keys and TTLs of the runs.                      *)
(***************************************************************************)
EXTENDS KVReplicas

\* A key and one that it is a prefix of.
MCKeys == {<<1>>, <<1, 2>>}

MCTtl == {-1, 1}

Symmetry == Permutations(Replica)
=============================================================================
