------------------------------ MODULE CacheOps ------------------------------
(***************************************************************************)
(* What one completed call of an LRUCache method does, with the cache seen *)
(* as a single sequence of entries [key, val, exp], most recently SET      *)
(* first.  This is the sequential meaning of src/storage/LRUCache.cpp; the *)
(* three containers that realise it are in module LRUCache.                *)
(***************************************************************************)
EXTENDS Entries

CONSTANTS Capacity,      \* capacity_, the bound on the number of entries
          DefaultTTL     \* the 24 hours given to an entry without a TTL

ASSUME CapacityAssumption == Capacity \in Nat
ASSUME DefaultTTLAssumption == DefaultTTL \in Nat

(* Mutant: the default TTL is forgotten. *)
ExpireTimeWithoutDefault(t, ttl) == t + ttl

(* The end of life of an entry set at time t: a TTL that is not positive   *)
(* means the default one.                                                  *)
ExpireTime(t, ttl) == t + (IF ttl > 0 THEN ttl ELSE DefaultTTL)

(* Mutant: the old entry of the key stays. *)
PutBesideOld(s, e) == Newest(<<e>> \o s, Capacity)

(* set: the entry goes to the front, the oldest ones beyond the capacity go. *)
Put(s, e) == Newest(<<e>> \o Without(s, e.key), Capacity)
=============================================================================
