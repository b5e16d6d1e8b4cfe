------------------------------ MODULE HashRing ------------------------------
(***************************************************************************)
(* src/cluster/HashRing.cpp: the ring is a map from hashes to nodes.  Each *)
(* node stands on it at the hashes of its virtual nodes, and a key belongs *)
(* to the node at the first hash at or after its own.                      *)
(*                                                                         *)
(* The hash function is any function: it is chosen in RingInit, as the     *)
(* places of each node, and places of different nodes may coincide.        *)
(***************************************************************************)
EXTENDS Integers, FiniteSets, Functions

CONSTANTS RingNode,      \* the nodes that may be on the ring
          Fallback,      \* "localhost"
          HashSpace,     \* the number of hashes, 2^32 in the code
          VirtualNodes   \* VIRTUAL_NODES

ASSUME HashSpaceAssumption == HashSpace \in Nat \ {0}
ASSUME FallbackAssumption == Fallback \notin RingNode

VARIABLES places,        \* the hashes of the virtual nodes of each node
          ring,          \* ring_
          members        \* history: the nodes added and not removed since

ringVars == <<places, ring, members>>

Hash == 0 .. HashSpace - 1

-----------------------------------------------------------------------------
(* add_node                                                                *)
Add(n) ==
  /\ ring' = [h \in DOMAIN ring \cup places[n] |-> IF h \in places[n] THEN n ELSE ring[h]]
  /\ members' = members \cup {n}
  /\ UNCHANGED places

(* Mutant: the loop ends at the first entry it erases. *)
RemoveOnePlace(n) ==
  /\ \/ \E h \in DOMAIN ring : ring[h] = n /\ ring' = Restrict(ring, DOMAIN ring \ {h})
     \/ n \notin Range(ring) /\ UNCHANGED ring
  /\ members' = members \ {n}
  /\ UNCHANGED places

(* Mutant: entries are handed to the fallback and not erased. *)
RemoveToFallback(n) ==
  /\ ring' = [h \in DOMAIN ring |-> IF ring[h] = n THEN Fallback ELSE ring[h]]
  /\ members' = members \ {n}
  /\ UNCHANGED places

(* remove_node                                                             *)
Remove(n) ==
  /\ ring' = Restrict(ring, {h \in DOMAIN ring : ring[h] # n})
  /\ members' = members \ {n}
  /\ UNCHANGED places

RingInit ==
  /\ places \in [RingNode -> {P \in SUBSET Hash : Cardinality(P) \in 1 .. VirtualNodes}]
  /\ ring = <<>>
  /\ members = {}

RingNext == \E n \in RingNode : Add(n) \/ Remove(n)

RingSpec == RingInit /\ [][RingNext]_ringVars

-----------------------------------------------------------------------------
(* get_node, for a key with hash h                                         *)

Least(S) == CHOOSE s \in S : \A t \in S : s <= t

(* Mutant: the hash is taken modulo the number of places. *)
FirstFromModulo(D, h) ==
  CHOOSE s \in D : Cardinality({t \in D : t < s}) = h % Cardinality(D)

(* lower_bound among the places D, and the wrap to the first of them *)
FirstFrom(D, h) ==
  LET after == {s \in D : s >= h}
  IN IF after # {} THEN Least(after) ELSE Least(D)

Owner(h) == IF DOMAIN ring = {} THEN Fallback ELSE ring[FirstFrom(DOMAIN ring, h)]

-----------------------------------------------------------------------------
(* Properties.                                                             *)

(* Types of the variables. *)
RingTypeOK ==
  /\ places \in [RingNode -> SUBSET Hash]
  /\ ring \in [DOMAIN ring -> RingNode] /\ DOMAIN ring \subseteq Hash
  /\ members \subseteq RingNode

(* The ring holds places of its members only, and whatever was added and   *)
(* removed before, a member lacks a place only if another node hashes to   *)
(* the very same one: without such a collision the ring is a function of   *)
(* its members, and nodes of a cluster that know the same members agree on *)
(* the owner of every key, in whatever order they heard of them.           *)
RingMatchesMembers ==
  /\ \A h \in DOMAIN ring : ring[h] \in members /\ h \in places[ring[h]]
  /\ \A n \in members : \A h \in places[n] :
       \/ h \in DOMAIN ring /\ ring[h] = n
       \/ \E m \in RingNode \ {n} : h \in places[m]

(* Consistent hashing: a node that joins takes keys and gives none away,   *)
(* and a node that leaves takes none with it but its own.                  *)
OnlyTheNodesKeysMove ==
  [][\A n \in RingNode, h \in Hash :
       /\ Add(n) => Owner(h)' \in {Owner(h), n}
       /\ Remove(n) => Owner(h) = n \/ Owner(h)' = Owner(h)]_ringVars
=============================================================================
