----------------------------- MODULE MCLRUCache -----------------------------
(* Instances of LRUCache for TLC. *)
EXTENDS LRUCache

(* The ttl_seconds arguments: none given, which is -1, and one second.      *)
DefaultAndShort == {-1, 1}

Symmetry == Permutations(Thread) \cup Permutations(Key)
              \cup Permutations(Value) \cup Permutations(Node)
=============================================================================
