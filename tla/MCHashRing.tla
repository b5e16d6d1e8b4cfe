----------------------------- MODULE MCHashRing -----------------------------
(* Instances of HashRing for TLC. *)
EXTENDS HashRing, TLC

Nodes == Permutations(RingNode)
=============================================================================
