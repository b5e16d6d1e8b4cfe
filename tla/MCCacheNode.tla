---------------------------- MODULE MCCacheNode ----------------------------
(* Instances of CacheNode for TLC. *)
EXTENDS CacheNode

CONSTANTS k1, k2, k3

NoSnapshot == <<>>
OneKeySnapshot == <<k1>>

(* The keys outside the snapshot are alike, and so are the clients. *)
Symmetry == Permutations(Client) \cup Permutations({k2, k3})
=============================================================================
