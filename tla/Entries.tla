------------------------------ MODULE Entries ------------------------------
(***************************************************************************)
(* Sequences of entries [key, val, exp] of a cache, most recently SET      *)
(* first: what lookup, erase and expiry of src/storage/LRUCache.cpp do to  *)
(* them.                                                                   *)
(***************************************************************************)
EXTENDS Integers, Sequences

(* The comparison is strict: an entry is alive at its expiry instant.      *)
Expired(e, t) == e.exp < t

(* The entries of s at the positions in I, in the order they have in s.    *)
Keep(s, I) ==
  LET kept[n \in 0 .. Len(s)] ==
        IF n = 0 THEN <<>> ELSE IF n \in I THEN Append(kept[n - 1], s[n]) ELSE kept[n - 1]
  IN IF DOMAIN s \subseteq I THEN s ELSE kept[Len(s)]

Without(s, k) == Keep(s, {i \in DOMAIN s : s[i].key # k})

Unexpired(s, t) == Keep(s, {i \in DOMAIN s : ~Expired(s[i], t)})

Newest(s, n) == SubSeq(s, 1, IF Len(s) < n THEN Len(s) ELSE n)

(* The live entries of key k at time t: at most one in a well-formed s.    *)
Found(s, k, t) == {i \in DOMAIN s : s[i].key = k /\ ~Expired(s[i], t)}

Lookup(s, k, t, none) ==
  IF Found(s, k, t) = {} THEN none ELSE s[CHOOSE i \in Found(s, k, t) : TRUE].val
=============================================================================
