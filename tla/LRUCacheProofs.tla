--------------------------- MODULE LRUCacheProofs ---------------------------
(***************************************************************************)
(* Proofs about LRUCache for every number of threads and keys, every       *)
(* capacity and every clock.  The inductive invariant adds two things to   *)
(* the invariants the runs check: that a reader which found its key still  *)
(* finds it (TouchedKeyPresent), and by how much the entries may exceed    *)
(* the capacity while a set is still evicting (Overshoot).                 *)
(***************************************************************************)
EXTENDS LRUCache, SequenceLemmas

-----------------------------------------------------------------------------
(* Lists.                                                                  *)

(* What erase through an iterator does to a list.                          *)
LEMMA RemoveAtProperties ==
  ASSUME NEW S, NEW s \in Seq(S), NEW p \in 1 .. Len(s)
  PROVE  /\ RemoveAt(s, p) \in Seq(S)
         /\ Len(RemoveAt(s, p)) = Len(s) - 1
         /\ \A i \in 1 .. Len(s) - 1 :
               RemoveAt(s, p)[i] = IF i < p THEN s[i] ELSE s[i + 1]
<1> DEFINE front == SubSeq(s, 1, p - 1)
           back  == SubSeq(s, p + 1, Len(s))
<1>1. Len(s) \in Nat /\ \A i \in 1 .. Len(s) : s[i] \in S
  BY ElementOfSeq, LenProperties
<1>2. /\ front \in Seq(S) /\ Len(front) = p - 1
      /\ \A i \in 1 .. p - 1 : front[i] = s[i]
  <2>1. \A i \in 1 .. p - 1 : s[i] \in S
    BY <1>1
  <2>2. 1 \in Int /\ p - 1 \in Int
    BY <1>1
  <2> HIDE DEF front
  <2>3. /\ SubSeq(s, 1, p - 1) \in Seq(S)
        /\ Len(SubSeq(s, 1, p - 1)) = IF 1 <= p - 1 THEN (p - 1) - 1 + 1 ELSE 0
        /\ \A i \in 1 .. (p - 1) - 1 + 1 : SubSeq(s, 1, p - 1)[i] = s[1 + i - 1]
    BY <2>1, <2>2, SubSeqProperties
  <2> QED
    BY <1>1, <2>3 DEF front
<1>3. /\ back \in Seq(S) /\ Len(back) = Len(s) - p
      /\ \A i \in 1 .. Len(s) - p : back[i] = s[p + i]
  <2>1. \A i \in p + 1 .. Len(s) : s[i] \in S
    BY <1>1
  <2>2. p + 1 \in Int /\ Len(s) \in Int
    BY <1>1
  <2> HIDE DEF back
  <2>3. /\ SubSeq(s, p + 1, Len(s)) \in Seq(S)
        /\ Len(SubSeq(s, p + 1, Len(s))) =
             IF p + 1 <= Len(s) THEN Len(s) - (p + 1) + 1 ELSE 0
        /\ \A i \in 1 .. Len(s) - (p + 1) + 1 :
              SubSeq(s, p + 1, Len(s))[i] = s[(p + 1) + i - 1]
    BY <2>1, <2>2, SubSeqProperties
  <2> QED
    BY <1>1, <2>3 DEF back
<1> HIDE DEF front, back
<1>4. /\ front \o back \in Seq(S)
      /\ Len(front \o back) = Len(front) + Len(back)
      /\ \A i \in 1 .. Len(front) + Len(back) :
            (front \o back)[i] =
              IF i <= Len(front) THEN front[i] ELSE back[i - Len(front)]
  BY <1>2, <1>3, ConcatProperties
<1>5. RemoveAt(s, p) = front \o back
  BY DEF RemoveAt, front, back
<1>6. Len(front \o back) = Len(s) - 1
  BY <1>1, <1>2, <1>3, <1>4
<1>7. ASSUME NEW i \in 1 .. Len(s) - 1
      PROVE  (front \o back)[i] = IF i < p THEN s[i] ELSE s[i + 1]
  <2>1. CASE i < p
    BY <1>1, <1>2, <1>3, <1>4, <2>1
  <2>2. CASE ~(i < p)
    <3>1. (front \o back)[i] = back[i - (p - 1)]
      BY <1>1, <1>2, <1>3, <1>4, <2>2
    <3>2. i - (p - 1) \in 1 .. Len(s) - p /\ p + (i - (p - 1)) = i + 1
      BY <1>1, <2>2
    <3> QED
      BY <1>3, <2>2, <3>1, <3>2
  <2> QED
    BY <2>1, <2>2
<1> QED
  BY <1>4, <1>5, <1>6, <1>7

(* What pop_back does to a list that is not empty.                         *)
LEMMA FrontProperties ==
  ASSUME NEW S, NEW s \in Seq(S), s # <<>>
  PROVE  /\ Len(s) \in Nat \ {0}
         /\ Front(s) \in Seq(S)
         /\ Len(Front(s)) = Len(s) - 1
         /\ \A i \in 1 .. Len(s) - 1 : Front(s)[i] = s[i]
         /\ Last(s) = s[Len(s)]
<1>1. Len(s) \in Nat \ {0} /\ \A i \in 1 .. Len(s) : s[i] \in S
  BY ElementOfSeq, LenProperties, EmptySeq
<1>2. /\ SubSeq(s, 1, Len(s) - 1) \in Seq(S)
      /\ Len(SubSeq(s, 1, Len(s) - 1)) =
           IF 1 <= Len(s) - 1 THEN (Len(s) - 1) - 1 + 1 ELSE 0
      /\ \A i \in 1 .. (Len(s) - 1) - 1 + 1 :
            SubSeq(s, 1, Len(s) - 1)[i] = s[1 + i - 1]
  <2>1. \A i \in 1 .. Len(s) - 1 : s[i] \in S
    BY <1>1
  <2>2. 1 \in Int /\ Len(s) - 1 \in Int
    BY <1>1
  <2> QED
    BY <2>1, <2>2, SubSeqProperties
<1>3. Front(s) = SubSeq(s, 1, Len(s) - 1)
  BY DEF Front
<1> DEFINE n == Len(s)
<1> HIDE DEF n
<1>5. Front(s) \in Seq(S) /\ Len(Front(s)) = IF 1 <= n - 1 THEN (n - 1) - 1 + 1 ELSE 0
  BY <1>2, <1>3 DEF n
<1>6. n \in Nat \ {0}
  BY <1>1 DEF n
<1>7. Len(Front(s)) = n - 1
  BY <1>5, <1>6
<1>4. ASSUME NEW i \in 1 .. Len(s) - 1
      PROVE  Front(s)[i] = s[i]
  <2>1. i \in 1 .. (Len(s) - 1) - 1 + 1 /\ 1 + i - 1 = i
    BY <1>1
  <2> QED
    BY <1>2, <2>1 DEF Front
<1> QED
  BY <1>1, <1>4, <1>5, <1>7 DEF Last, n

(* What push_front does to a list.                                         *)
LEMMA PushFrontProperties ==
  ASSUME NEW S, NEW s \in Seq(S), NEW e \in S
  PROVE  /\ <<e>> \o s \in Seq(S)
         /\ Len(<<e>> \o s) = Len(s) + 1
         /\ (<<e>> \o s)[1] = e
         /\ \A i \in 2 .. Len(s) + 1 : (<<e>> \o s)[i] = s[i - 1]
<1>1. <<e>> \in Seq(S) /\ Len(<<e>>) = 1 /\ <<e>>[1] = e
  OBVIOUS
<1>2. Len(s) \in Nat
  BY LenProperties
<1>3. /\ <<e>> \o s \in Seq(S)
      /\ Len(<<e>> \o s) = Len(<<e>>) + Len(s)
      /\ \A i \in 1 .. Len(<<e>>) + Len(s) :
            (<<e>> \o s)[i] = IF i <= Len(<<e>>) THEN <<e>>[i] ELSE s[i - Len(<<e>>)]
  BY <1>1, ConcatProperties
<1> QED
  BY <1>1, <1>2, <1>3

-----------------------------------------------------------------------------
(* The list and its map of iterators.                                      *)

(* ContainersAgree as a relation between a set of keys, a list and a map.  *)
Linked(D, l, m) ==
  /\ DOMAIN m = D
  /\ \A k \in DOMAIN m : \E i \in DOMAIN l : l[i] = [node |-> m[k], key |-> k]
  /\ \A i \in DOMAIN l : l[i].key \in DOMAIN m /\ m[l[i].key] = l[i].node
  /\ \A i, j \in DOMAIN l : l[i].node = l[j].node => i = j

(* Erasing list node p together with the iterator of its key keeps the     *)
(* others linked (evict_lru, del, cleanup_expired, the first half of set). *)
LEMMA ErasedNodeStaysLinked ==
  ASSUME NEW D, NEW m, NEW l \in Seq(ListNode), NEW r \in Seq(ListNode),
         NEW p \in 1 .. Len(l),
         Linked(D, l, m),
         Len(r) = Len(l) - 1,
         \A i \in 1 .. Len(l) - 1 : r[i] = IF i < p THEN l[i] ELSE l[i + 1]
  PROVE  Linked(D \ {l[p].key}, r, Drop(m, l[p].key))
<1> DEFINE k == l[p].key
           d == Drop(m, k)
<1>1. /\ DOMAIN l = 1 .. Len(l) /\ DOMAIN r = 1 .. Len(r)
      /\ Len(l) \in Nat /\ Len(r) \in Nat
  BY LenProperties
<1>2. /\ DOMAIN m = D
      /\ \A x \in D : \E i \in 1 .. Len(l) : l[i] = [node |-> m[x], key |-> x]
      /\ \A i \in 1 .. Len(l) : l[i].key \in D /\ m[l[i].key] = l[i].node
      /\ \A i, j \in 1 .. Len(l) : l[i].node = l[j].node => i = j
  BY <1>1 DEF Linked
<1>3. DOMAIN d = D \ {k} /\ \A x \in D \ {k} : d[x] = m[x]
  BY <1>2 DEF Drop, Restrict
<1> HIDE DEF k, d
<1>4. ASSUME NEW x \in D \ {k}
      PROVE  \E i \in 1 .. Len(r) : r[i] = [node |-> d[x], key |-> x]
  <2>1. PICK i \in 1 .. Len(l) : l[i] = [node |-> m[x], key |-> x]
    BY <1>2
  <2>2. i # p
    BY <2>1 DEF k
  <2>3. CASE i < p
    <3>1. i \in 1 .. Len(r) /\ r[i] = l[i]
      BY <1>1, <2>3
    <3> QED
      BY <1>3, <2>1, <3>1
  <2>4. CASE i > p
    <3>1. i - 1 \in 1 .. Len(r) /\ r[i - 1] = l[i]
      BY <1>1, <2>4
    <3> QED
      BY <1>3, <2>1, <3>1
  <2> QED
    BY <1>1, <2>2, <2>3, <2>4
<1>5. ASSUME NEW i \in 1 .. Len(r)
      PROVE  \E j \in 1 .. Len(l) : j # p /\ r[i] = l[j] /\ j = (IF i < p THEN i ELSE i + 1)
  BY <1>1
<1>6. ASSUME NEW i \in 1 .. Len(r)
      PROVE  r[i].key \in D \ {k} /\ d[r[i].key] = r[i].node
  <2>1. PICK j \in 1 .. Len(l) : j # p /\ r[i] = l[j]
    BY <1>5
  <2>2. l[j].key # k
    <3>1. l[j].node # l[p].node
      BY <1>2, <2>1
    <3> QED
      BY <1>2, <3>1 DEF k
  <2> QED
    BY <1>2, <1>3, <2>1, <2>2
<1>7. ASSUME NEW i \in 1 .. Len(r), NEW j \in 1 .. Len(r), r[i].node = r[j].node
      PROVE  i = j
  <2>1. PICK x \in 1 .. Len(l) : r[i] = l[x] /\ x = (IF i < p THEN i ELSE i + 1)
    BY <1>5
  <2>2. PICK y \in 1 .. Len(l) : r[j] = l[y] /\ y = (IF j < p THEN j ELSE j + 1)
    BY <1>5
  <2>3. x = y
    BY <1>2, <1>7, <2>1, <2>2
  <2> QED
    BY <1>1, <2>1, <2>2, <2>3
<1>8. Linked(D \ {k}, r, d)
  BY <1>1, <1>3, <1>4, <1>6, <1>7 DEF Linked
<1> QED
  BY <1>8 DEF k, d

(* Putting a new node in front and binding its key keeps the list linked   *)
(* (the second half of set).                                               *)
LEMMA PushedNodeStaysLinked ==
  ASSUME NEW D, NEW m, NEW l \in Seq(ListNode),
         NEW k \in Key \ D, NEW n \in Node \ NodesOf(l),
         Linked(D, l, m)
  PROVE  Linked(D \cup {k}, <<[node |-> n, key |-> k]>> \o l, Bind(m, k, n))
<1> DEFINE e == [node |-> n, key |-> k]
           r == <<e>> \o l
           b == Bind(m, k, n)
<1>1. e \in ListNode /\ e.node = n /\ e.key = k
  BY DEF ListNode
<1> HIDE DEF e
<1>2. r \in Seq(ListNode) /\ Len(r) = Len(l) + 1 /\ r[1] = e
      /\ \A i \in 2 .. Len(l) + 1 : r[i] = l[i - 1]
  BY <1>1, PushFrontProperties
<1> HIDE DEF r
<1>3. /\ DOMAIN l = 1 .. Len(l) /\ DOMAIN r = 1 .. Len(r)
      /\ Len(l) \in Nat /\ Len(r) \in Nat
  BY <1>2, LenProperties
<1>4. /\ DOMAIN m = D
      /\ \A x \in D : \E i \in 1 .. Len(l) : l[i] = [node |-> m[x], key |-> x]
      /\ \A i \in 1 .. Len(l) : l[i].key \in D /\ m[l[i].key] = l[i].node
      /\ \A i, j \in 1 .. Len(l) : l[i].node = l[j].node => i = j
  BY <1>3 DEF Linked
<1>5. /\ DOMAIN b = D \cup {k} /\ b[k] = n
      /\ \A x \in D : b[x] = m[x]
  BY <1>4 DEF Bind
<1> HIDE DEF b
<1>6. \A i \in 1 .. Len(l) : l[i].node # n
  BY <1>3 DEF NodesOf
<1>7. ASSUME NEW x \in D \cup {k}
      PROVE  \E i \in 1 .. Len(r) : r[i] = [node |-> b[x], key |-> x]
  <2>1. CASE x = k
    BY <1>2, <1>3, <1>5, <2>1 DEF e
  <2>2. CASE x \in D
    <3>1. PICK i \in 1 .. Len(l) : l[i] = [node |-> m[x], key |-> x]
      BY <1>4, <2>2
    <3>2. i + 1 \in 1 .. Len(r) /\ r[i + 1] = l[i]
      <4>1. i + 1 \in 2 .. Len(l) + 1 /\ (i + 1) - 1 = i
        BY <1>3
      <4> QED
        BY <1>2, <1>3, <4>1
    <3> QED
      BY <1>5, <2>2, <3>1, <3>2
  <2> QED
    BY <2>1, <2>2
<1>8. ASSUME NEW i \in 1 .. Len(r)
      PROVE  r[i].key \in D \cup {k} /\ b[r[i].key] = r[i].node
  <2>1. CASE i = 1
    BY <1>1, <1>2, <1>5, <2>1
  <2>2. CASE i # 1
    <3>1. i - 1 \in 1 .. Len(l) /\ r[i] = l[i - 1]
      BY <1>2, <1>3, <2>2
    <3> QED
      BY <1>4, <1>5, <3>1
  <2> QED
    BY <2>1, <2>2
<1>9. ASSUME NEW i \in 1 .. Len(r), NEW j \in 1 .. Len(r), r[i].node = r[j].node
      PROVE  i = j
  <2>1. i = 1 \/ (i - 1 \in 1 .. Len(l) /\ r[i] = l[i - 1])
    BY <1>2, <1>3
  <2>2. j = 1 \/ (j - 1 \in 1 .. Len(l) /\ r[j] = l[j - 1])
    BY <1>2, <1>3
  <2>3. CASE i = 1 \/ j = 1
    BY <1>1, <1>2, <1>6, <1>9, <2>1, <2>2, <2>3
  <2>4. CASE i # 1 /\ j # 1
    <3>1. i - 1 = j - 1
      BY <1>4, <1>9, <2>1, <2>2, <2>4
    <3> QED
      BY <1>3, <3>1
  <2> QED
    BY <2>3, <2>4
<1>10. Linked(D \cup {k}, r, b)
  BY <1>3, <1>5, <1>7, <1>8, <1>9 DEF Linked
<1> QED
  BY <1>10 DEF e, r, b

(* The iterator kept for k designates a node of the list that carries k,   *)
(* so erasing through it removes the node of k and no other.               *)
LEMMA UnlinkedPlace ==
  ASSUME NEW k \in DOMAIN lruMap,
         lru \in Seq(ListNode),
         Linked(DOMAIN cache, lru, lruMap)
  PROVE  \E p \in 1 .. Len(lru) : lru[p].key = k /\ Unlinked(k) = RemoveAt(lru, p)
<1> DEFINE p == Position(lruMap[k])
<1>1. DOMAIN lru = 1 .. Len(lru)
  BY LenProperties
<1>2. \E i \in DOMAIN lru : lru[i].node = lruMap[k]
  BY DEF Linked
<1>3. p \in 1 .. Len(lru) /\ lru[p].node = lruMap[k]
  BY <1>1, <1>2 DEF Position
<1>4. Unlinked(k) = RemoveAt(lru, p)
  BY DEF Unlinked
<1> HIDE DEF p
<1>5. lru[p].key = k
  <2>1. PICK i \in DOMAIN lru : lru[i] = [node |-> lruMap[k], key |-> k]
    BY DEF Linked
  <2>2. lru[i].node = lru[p].node
    BY <1>3, <2>1
  <2>3. i = p
    BY <1>1, <1>3, <2>1, <2>2 DEF Linked
  <2> QED
    BY <2>1, <2>3
<1> QED
  BY <1>3, <1>4, <1>5

LEMMA UnlinkedKey ==
  ASSUME NEW k \in DOMAIN lruMap,
         lru \in Seq(ListNode),
         Linked(DOMAIN cache, lru, lruMap)
  PROVE  /\ Unlinked(k) \in Seq(ListNode)
         /\ Linked(DOMAIN cache \ {k}, Unlinked(k), Drop(lruMap, k))
<1>1. PICK p \in 1 .. Len(lru) : lru[p].key = k /\ Unlinked(k) = RemoveAt(lru, p)
  BY UnlinkedPlace
<1>2. /\ RemoveAt(lru, p) \in Seq(ListNode)
      /\ Len(RemoveAt(lru, p)) = Len(lru) - 1
      /\ \A i \in 1 .. Len(lru) - 1 :
            RemoveAt(lru, p)[i] = IF i < p THEN lru[i] ELSE lru[i + 1]
  BY RemoveAtProperties
<1>3. Linked(DOMAIN cache \ {lru[p].key}, RemoveAt(lru, p), Drop(lruMap, lru[p].key))
  BY <1>2, ErasedNodeStaysLinked
<1> QED
  BY <1>1, <1>2, <1>3

-----------------------------------------------------------------------------
(* The inductive invariant.                                                *)

(* A reader that found its key alive still finds it when it comes back.    *)
TouchedKeyPresent ==
  \A t \in Thread : pc[t] = "touch" => call[t].key \in DOMAIN cache

(* A set makes at most one entry too many.                                 *)
Overshoot ==
  /\ IsFiniteSet(DOMAIN cache)
  /\ Cardinality(DOMAIN cache) <= Capacity + 1

IInv ==
  /\ Types
  /\ LockDiscipline
  /\ TouchedKeyPresent
  /\ ContainersAgree
  /\ Overshoot
  /\ WithinCapacity

LEMMA AgreeIsLinked == ContainersAgree <=> Linked(DOMAIN cache, lru, lruMap)
BY DEF ContainersAgree, Linked

LEMMA AgreeIsLinkedNext == ContainersAgree' <=> Linked(DOMAIN cache', lru', lruMap')
BY DEF ContainersAgree, Linked

(* The fields of a call of each method.                                    *)
LEMMA CallFields ==
  ASSUME NEW c \in Call \cup {NoCall}
  PROVE  /\ c.op \in AllMethods \cup {"none"}
         /\ c.op = "set" => c.key \in Key /\ c.val \in Value /\ c.ttl \in TTL
         /\ c.op \in {"get", "exists", "del"} => c.key \in Key
BY DEF Call, NoCall, AllMethods

(* The initial state satisfies the invariant.                              *)
LEMMA InitInvariant == Init => IInv
<1> SUFFICES ASSUME Init
             PROVE  IInv
  OBVIOUS
<1>1. DOMAIN cache = {} /\ DOMAIN lruMap = {} /\ DOMAIN lru = {} /\ lru \in Seq(ListNode)
  BY DEF Init
<1>2. Types
  BY <1>1 DEF Init, Types, Locals, Entry
<1>3. LockDiscipline /\ TouchedKeyPresent
  BY DEF Init, LockDiscipline, Holds, TouchedKeyPresent
<1>4. ContainersAgree
  BY <1>1 DEF ContainersAgree
<1>5. Overshoot /\ WithinCapacity
  BY <1>1, FS_EmptySet, CapacityAssumption DEF Overshoot, WithinCapacity
<1> QED
  BY <1>2, <1>3, <1>4, <1>5 DEF IInv

-----------------------------------------------------------------------------
(* What the steps do to the containers.                                    *)

ContentsTypeOK ==
  /\ DOMAIN cache \subseteq Key /\ \A k \in DOMAIN cache : cache[k] \in Entry
  /\ lru \in Seq(ListNode)
  /\ DOMAIN lruMap \subseteq Key /\ \A k \in DOMAIN lruMap : lruMap[k] \in Node

ContentsOK == ContentsTypeOK /\ ContainersAgree /\ Overshoot

LEMMA InvariantContents == IInv => ContentsOK
BY DEF IInv, Types, ContentsOK, ContentsTypeOK

LEMMA UnchangedContents ==
  ASSUME ContentsOK, UNCHANGED contents
  PROVE  ContentsOK'
BY DEF ContentsOK, ContentsTypeOK, ContainersAgree, Overshoot, contents

(* The erase of one key from all three containers, as del, cleanup_expired *)
(* and evict_lru do it.                                                    *)
LEMMA ForgetContents ==
  ASSUME ContentsOK, NEW k \in DOMAIN cache,
         lru' \in Seq(ListNode),
         Linked(DOMAIN cache \ {k}, lru', Drop(lruMap, k)),
         lruMap' = Drop(lruMap, k),
         cache' = Drop(cache, k)
  PROVE  /\ ContentsOK'
         /\ DOMAIN cache' = DOMAIN cache \ {k}
         /\ Cardinality(DOMAIN cache') = Cardinality(DOMAIN cache) - 1
<1>1. DOMAIN cache' = DOMAIN cache \ {k} /\ \A x \in DOMAIN cache' : cache'[x] = cache[x]
  BY DEF Drop, Restrict
<1>2. DOMAIN lruMap' = DOMAIN lruMap \ {k} /\ \A x \in DOMAIN lruMap' : lruMap'[x] = lruMap[x]
  BY DEF Drop, Restrict
<1>3. ContentsTypeOK'
  BY <1>1, <1>2 DEF ContentsOK, ContentsTypeOK
<1>4. ContainersAgree'
  BY <1>1, AgreeIsLinkedNext
<1>5. /\ IsFiniteSet(DOMAIN cache) /\ Cardinality(DOMAIN cache) \in Nat
      /\ Cardinality(DOMAIN cache) <= Capacity + 1
  BY FS_CardinalityType DEF ContentsOK, Overshoot
<1>6. /\ IsFiniteSet(DOMAIN cache \ {k})
      /\ Cardinality(DOMAIN cache \ {k}) = Cardinality(DOMAIN cache) - 1
  BY <1>5, FS_RemoveElement
<1>7. Overshoot'
  BY <1>1, <1>5, <1>6, CapacityAssumption DEF Overshoot
<1> QED
  BY <1>1, <1>3, <1>4, <1>6, <1>7 DEF ContentsOK

LEMMA ForgetKeepsContents ==
  ASSUME ContentsOK, NEW k \in DOMAIN cache, Forget(k)
  PROVE  /\ ContentsOK'
         /\ DOMAIN cache' = DOMAIN cache \ {k}
         /\ Cardinality(DOMAIN cache') = Cardinality(DOMAIN cache) - 1
<1>1. Linked(DOMAIN cache, lru, lruMap) /\ lru \in Seq(ListNode)
  BY AgreeIsLinked DEF ContentsOK, ContentsTypeOK
<1>2. k \in DOMAIN lruMap
  BY <1>1 DEF Linked
<1>3. lru' \in Seq(ListNode) /\ Linked(DOMAIN cache \ {k}, lru', Drop(lruMap, k))
  BY <1>1, <1>2, UnlinkedKey DEF Forget
<1> QED
  BY <1>3, ForgetContents DEF Forget

(* A round of the eviction loop always finds a victim, and takes one entry *)
(* out: the early return of evict_lru on an empty list, which would keep   *)
(* the loop spinning, is never taken.                                      *)
LEMMA EvictKeepsContents ==
  ASSUME ContentsOK, NEW t \in Thread, Evict(t)
  PROVE  /\ lru # <<>>
         /\ ContentsOK'
         /\ Cardinality(DOMAIN cache') = Cardinality(DOMAIN cache) - 1
<1>1. Linked(DOMAIN cache, lru, lruMap) /\ lru \in Seq(ListNode)
  BY AgreeIsLinked DEF ContentsOK, ContentsTypeOK
<1>2. lru # <<>>
  <2>1. IsFiniteSet(DOMAIN cache) /\ Cardinality(DOMAIN cache) # 0
    BY FS_CardinalityType, CapacityAssumption DEF Evict, ContentsOK, Overshoot
  <2>2. PICK k \in DOMAIN cache : TRUE
    BY <2>1, FS_EmptySet
  <2>3. \E i \in DOMAIN lru : lru[i] = [node |-> lruMap[k], key |-> k]
    BY <1>1 DEF Linked
  <2> QED
    BY <2>3
<1> DEFINE k == Last(lru).key
<1>3. /\ Len(lru) \in Nat \ {0}
      /\ Front(lru) \in Seq(ListNode)
      /\ Len(Front(lru)) = Len(lru) - 1
      /\ \A i \in 1 .. Len(lru) - 1 : Front(lru)[i] = lru[i]
      /\ Last(lru) = lru[Len(lru)]
  BY <1>1, <1>2, FrontProperties
<1>4. \A i \in 1 .. Len(lru) - 1 :
         Front(lru)[i] = IF i < Len(lru) THEN lru[i] ELSE lru[i + 1]
  BY <1>3
<1>5. Linked(DOMAIN cache \ {k}, Front(lru), Drop(lruMap, k))
  <2>1. Len(lru) \in 1 .. Len(lru) /\ k = lru[Len(lru)].key
    BY <1>3
  <2> HIDE DEF k
  <2> QED
    BY <1>1, <1>3, <1>4, <2>1, ErasedNodeStaysLinked
<1>6. k \in DOMAIN cache
  BY <1>1, <1>3, LenProperties DEF Linked
<1>7. lru' = Front(lru) /\ cache' = Drop(cache, k) /\ lruMap' = Drop(lruMap, k)
  BY <1>2 DEF Evict
<1> QED
  BY <1>2, <1>3, <1>5, <1>6, <1>7, ForgetContents

(* Storing an entry: the old node of the key goes, a new one comes.        *)
LEMMA SetStoreKeepsContents ==
  ASSUME IInv, NEW t \in Thread, SetStore(t),
         Cardinality(DOMAIN cache) <= Capacity
  PROVE  ContentsOK' /\ DOMAIN cache' = DOMAIN cache \cup {call[t].key}
<1> DEFINE k == call[t].key
           rest == IF k \in DOMAIN lruMap THEN Unlinked(k) ELSE lru
           m == IF k \in DOMAIN lruMap THEN Drop(lruMap, k) ELSE lruMap
<1>1. /\ Linked(DOMAIN cache, lru, lruMap) /\ lru \in Seq(ListNode)
      /\ DOMAIN lruMap = DOMAIN cache
      /\ \A x \in DOMAIN lruMap : lruMap[x] \in Node
  BY AgreeIsLinked DEF IInv, Types, Linked
<1>2. k \in Key /\ call[t].val \in Value /\ call[t].ttl \in TTL
  BY CallFields DEF IInv, Types, LockDiscipline, Holds, SetStore
<1>3. rest \in Seq(ListNode) /\ Linked(DOMAIN cache \ {k}, rest, m)
  <2>1. CASE k \in DOMAIN lruMap
    BY <1>1, <2>1, UnlinkedKey
  <2>2. CASE k \notin DOMAIN lruMap
    <3>1. DOMAIN cache \ {k} = DOMAIN cache
      BY <1>1, <2>2
    <3> QED
      BY <1>1, <2>2, <3>1
  <2> QED
    BY <2>1, <2>2
<1>4. PICK n \in Node \ NodesOf(rest) :
         /\ lru' = <<[node |-> n, key |-> k]>> \o rest
         /\ lruMap' = Bind(lruMap, k, n)
  BY DEF SetStore
<1>5. Bind(m, k, n) = Bind(lruMap, k, n)
  BY DEF Bind, Drop, Restrict
<1> HIDE DEF rest, m
<1>6. Linked((DOMAIN cache \ {k}) \cup {k}, lru', lruMap')
  BY <1>2, <1>3, <1>4, <1>5, PushedNodeStaysLinked
<1>7. lru' \in Seq(ListNode)
  <2>1. [node |-> n, key |-> k] \in ListNode
    BY <1>2 DEF ListNode
  <2> QED
    BY <1>3, <1>4, <2>1, PushFrontProperties
<1>8. /\ DOMAIN cache' = DOMAIN cache \cup {k}
      /\ \A x \in DOMAIN cache : x # k => cache'[x] = cache[x]
      /\ cache'[k] = [val |-> call[t].val, exp |-> ExpireTime(now, call[t].ttl),
                      used |-> now]
  BY DEF SetStore, Bind
<1>9. ExpireTime(now, call[t].ttl) \in Nat /\ now \in Nat
  <2>1. call[t].ttl \in Int /\ now \in Nat
    BY <1>2, TTLAssumption DEF IInv, Types
  <2> QED
    BY <2>1, DefaultTTLAssumption DEF ExpireTime
<1>10. ContentsTypeOK'
  <2>1. cache'[k] \in Entry
    BY <1>2, <1>8, <1>9 DEF Entry
  <2>2. \A x \in DOMAIN cache' : x \in Key /\ cache'[x] \in Entry
    BY <1>2, <1>8, <2>1 DEF IInv, Types
  <2>3. /\ DOMAIN lruMap' = DOMAIN lruMap \cup {k}
        /\ \A x \in DOMAIN lruMap' : lruMap'[x] \in Node
    BY <1>1, <1>4 DEF Bind
  <2>4. DOMAIN lruMap' \subseteq Key
    BY <1>2, <2>3 DEF IInv, Types
  <2> QED
    BY <1>7, <2>2, <2>3, <2>4 DEF ContentsTypeOK
<1>11. ContainersAgree'
  <2>1. (DOMAIN cache \ {k}) \cup {k} = DOMAIN cache'
    BY <1>8
  <2> QED
    BY <1>6, <2>1, AgreeIsLinkedNext
<1>12. Overshoot'
  <2>1. IsFiniteSet(DOMAIN cache) /\ Cardinality(DOMAIN cache) \in Nat
    BY FS_CardinalityType DEF IInv, Overshoot
  <2>2. /\ IsFiniteSet(DOMAIN cache \cup {k})
        /\ Cardinality(DOMAIN cache \cup {k}) =
             IF k \in DOMAIN cache THEN Cardinality(DOMAIN cache)
                                   ELSE Cardinality(DOMAIN cache) + 1
    BY <2>1, FS_AddElement
  <2> QED
    BY <1>8, <2>1, <2>2, CapacityAssumption DEF Overshoot
<1> QED
  BY <1>8, <1>10, <1>11, <1>12 DEF ContentsOK

-----------------------------------------------------------------------------
(* The invariant is inductive.                                             *)

(* While one thread is in a section that needs the exclusive lock, no      *)
(* other thread is in a section that needs either lock.                    *)
LEMMA ExclusiveSection ==
  ASSUME IInv, NEW t \in Thread,
         pc[t] \in {"set", "evict", "del", "cleanup", "sweep"}
  PROVE  \A u \in Thread \ {t} :
            pc[u] \notin {"set", "evict", "del", "cleanup", "sweep",
                          "get", "touch", "exists", "size"}
BY DEF IInv, LockDiscipline, Holds

LEMMA InvariantParts ==
  ASSUME Types', LockDiscipline', TouchedKeyPresent', ContentsOK', WithinCapacity'
  PROVE  IInv'
BY DEF IInv, ContentsOK

LEMMA AcquireStep ==
  ASSUME IInv, NEW t \in Thread,
         LockUnique(t) \/ LockShared(t) \/ CallHitRate(t)
  PROVE  IInv'
<1>1. ContentsOK' /\ UNCHANGED <<contents, stats, reg, now>>
  BY InvariantContents, UnchangedContents DEF LockUnique, LockShared, CallHitRate, Enter
<1>2. PICK c \in Call :
         /\ pc[t] = "idle"
         /\ c.op \in AllMethods
         /\ call' = [call EXCEPT ![t] = c] /\ pc' = [pc EXCEPT ![t] = c.op]
  BY MethodsAssumption DEF LockUnique, LockShared, CallHitRate, Enter, Call
<1>3. Types'
  <2>1. writers' \subseteq Thread /\ readers' \subseteq Thread
    BY DEF IInv, Types, LockUnique, LockShared, CallHitRate, mutex
  <2>2. pc' \in [Thread -> Locals] /\ call' \in [Thread -> Call \cup {NoCall}]
    BY <1>2 DEF IInv, Types, Locals, AllMethods
  <2> QED
    BY <1>1, <2>1, <2>2
    DEF IInv, Types, ContentsOK, ContentsTypeOK, contents, stats
<1>4. \A u \in Thread \ {t} : pc'[u] = pc[u] /\ call'[u] = call[u]
  BY <1>2 DEF IInv, Types
<1>5. pc'[t] = c.op /\ call'[t] = c
  BY <1>2 DEF IInv, Types
<1>6. LockDiscipline'
  <2>1. CASE LockUnique(t)
    <3>1. /\ writers = {} /\ readers = {} /\ writers' = {t} /\ readers' = {}
          /\ c.op \in {"set", "del", "cleanup"}
      BY <1>2, <2>1 DEF LockUnique, Enter, IInv, Types
    <3> QED
      BY <1>4, <1>5, <3>1 DEF IInv, LockDiscipline, Holds
  <2>2. CASE LockShared(t)
    <3>1. /\ writers = {} /\ writers' = {} /\ readers' = readers \cup {t}
          /\ c.op \in {"get", "exists", "size"}
      BY <1>2, <2>2 DEF LockShared, Enter, IInv, Types
    <3> QED
      BY <1>4, <1>5, <3>1 DEF IInv, LockDiscipline, Holds
  <2>3. CASE CallHitRate(t)
    <3>1. /\ writers' = writers /\ readers' = readers
          /\ c.op = "hit_rate"
      BY <1>2, <2>3 DEF CallHitRate, Enter, mutex, IInv, Types
    <3> QED
      BY <1>4, <1>5, <3>1 DEF IInv, LockDiscipline, Holds
  <2> QED
    BY <2>1, <2>2, <2>3
<1>7. TouchedKeyPresent'
  BY <1>1, <1>2, <1>4, <1>5 DEF IInv, TouchedKeyPresent, AllMethods, contents
<1>8. WithinCapacity'
  BY <1>1, <1>2, <1>4, <1>5 DEF IInv, WithinCapacity, AllMethods, contents
<1> QED
  BY <1>1, <1>3, <1>6, <1>7, <1>8, InvariantParts

(* A step of thread t that moves it on and touches neither the lock nor    *)
(* the keys of the map: all reading methods, hit_rate, SweepStart.         *)
LEMMA ReadingStep ==
  ASSUME IInv, NEW t \in Thread,
         SweepStart(t) \/ GetMiss(t) \/ GetHit(t) \/ Touch(t) \/ Exists(t)
           \/ Size(t) \/ LoadHits(t) \/ LoadMisses(t)
  PROVE  IInv'
<1>1. UNCHANGED <<mutex, call, lru, lruMap, now>>
  BY DEF SweepStart, GetMiss, GetHit, Touch, Exists, Size, LoadHits, LoadMisses,
         Answer, Goto, contents
<1>2. PICK l \in {"sweep", "touch", "rate", "return"} :
         /\ pc' = [pc EXCEPT ![t] = l]
         /\ l = "sweep" => pc[t] = "cleanup"
         /\ l = "rate" => pc[t] = "hit_rate"
         /\ l = "touch" => pc[t] = "get" /\ call[t].key \in DOMAIN cache
  BY DEF SweepStart, GetMiss, GetHit, Touch, Exists, Size, LoadHits, LoadMisses,
         Answer, Goto, Live
<1>3. pc'[t] = l /\ \A u \in Thread \ {t} : pc'[u] = pc[u]
  BY <1>2 DEF IInv, Types
<1>4. DOMAIN cache' = DOMAIN cache /\ \A k \in DOMAIN cache : cache'[k] \in Entry
  <2>1. CASE Touch(t)
    <3>1. \A k \in DOMAIN cache : cache[k] \in Entry
      BY DEF IInv, Types
    <3>2. now \in Nat /\ cache' = [cache EXCEPT ![call[t].key].used = now]
      BY <2>1 DEF IInv, Types, Touch
    <3> QED
      BY <3>1, <3>2 DEF Entry
  <2>2. CASE UNCHANGED cache
    BY <2>2 DEF IInv, Types
  <2> QED
    BY <2>1, <2>2
    DEF SweepStart, GetMiss, GetHit, Exists, Size, LoadHits, LoadMisses, contents
<1>5. ContentsOK'
  BY <1>1, <1>4 DEF IInv, Types, ContentsOK, ContentsTypeOK, ContainersAgree, Overshoot
<1>6. hits' \in Nat /\ misses' \in Nat /\ reg' \in [Thread -> Nat]
  <2>1. hits' \in {hits, hits + 1} /\ misses' \in {misses, misses + 1}
    BY DEF SweepStart, GetMiss, GetHit, Touch, Exists, Size, LoadHits, LoadMisses, stats
  <2>2. \/ reg' = reg
        \/ \E n \in {now, hits} : reg' = [reg EXCEPT ![t] = n]
    BY DEF SweepStart, GetMiss, GetHit, Touch, Exists, Size, LoadHits, LoadMisses
  <2>3. hits \in Nat /\ misses \in Nat /\ now \in Nat /\ reg \in [Thread -> Nat]
    BY DEF IInv, Types
  <2>4. hits' \in Nat /\ misses' \in Nat
    BY <2>1, <2>3
  <2>5. reg' \in [Thread -> Nat]
    BY <2>2, <2>3
  <2> QED
    BY <2>4, <2>5
<1>7. Types'
  <2>1. pc' \in [Thread -> Locals]
    BY <1>2 DEF IInv, Types, Locals
  <2> QED
    BY <1>1, <1>5, <1>6, <2>1 DEF IInv, Types, ContentsOK, ContentsTypeOK, mutex
<1>8. LockDiscipline'
  BY <1>1, <1>2, <1>3 DEF IInv, LockDiscipline, Holds, mutex
<1>9. TouchedKeyPresent'
  BY <1>1, <1>2, <1>3, <1>4 DEF IInv, TouchedKeyPresent
<1>10. WithinCapacity'
  <2>1. pc[t] # "evict"
    BY DEF SweepStart, GetMiss, GetHit, Touch, Exists, Size, LoadHits, LoadMisses
  <2> QED
    BY <1>3, <1>4, <2>1 DEF IInv, WithinCapacity
<1> QED
  BY <1>5, <1>7, <1>8, <1>9, <1>10, InvariantParts

LEMMA ReturnStep ==
  ASSUME IInv, NEW t \in Thread, Return(t)
  PROVE  IInv'
<1>1. ContentsOK'
  BY InvariantContents, UnchangedContents DEF Return
<1>2. pc'[t] = "idle" /\ \A u \in Thread \ {t} : pc'[u] = pc[u] /\ call'[u] = call[u]
  BY DEF Return, IInv, Types
<1>3. Types'
  <2>1. /\ pc' \in [Thread -> Locals] /\ call' \in [Thread -> Call \cup {NoCall}]
        /\ reg' \in [Thread -> Nat]
    BY DEF Return, IInv, Types, Locals
  <2> QED
    BY <2>1 DEF Return, IInv, Types, contents, stats
<1>4. LockDiscipline'
  BY <1>2 DEF Return, IInv, LockDiscipline, Holds
<1>5. TouchedKeyPresent'
  BY <1>2 DEF Return, IInv, TouchedKeyPresent, contents
<1>6. WithinCapacity'
  <2>1. CASE pc[t] = "evict"
    BY <2>1 DEF Return, Finished, WithinCapacity, contents
  <2>2. CASE pc[t] # "evict"
    BY <1>2, <2>2 DEF Return, IInv, WithinCapacity, contents
  <2> QED
    BY <2>1, <2>2
<1> QED
  BY <1>1, <1>3, <1>4, <1>5, <1>6, InvariantParts

(* set puts the entry in; nobody else can be evicting, so the map was      *)
(* within the capacity before.                                             *)
LEMMA SetStoreStep ==
  ASSUME IInv, NEW t \in Thread, SetStore(t)
  PROVE  IInv'
<1>1. pc[t] = "set" /\ pc' = [pc EXCEPT ![t] = "evict"]
      /\ UNCHANGED <<stats, mutex, call, reg, now>>
  BY DEF SetStore, Goto
<1>2. \A u \in Thread \ {t} :
         pc[u] \notin {"set", "evict", "del", "cleanup", "sweep", "get", "touch"}
  BY <1>1, ExclusiveSection
<1>3. pc'[t] = "evict" /\ \A u \in Thread \ {t} : pc'[u] = pc[u]
  BY <1>1 DEF IInv, Types
<1>4. Cardinality(DOMAIN cache) <= Capacity
  BY <1>1, <1>2 DEF IInv, WithinCapacity
<1>5. ContentsOK'
  BY <1>4, SetStoreKeepsContents
<1>6. Types'
  <2>1. pc' \in [Thread -> Locals]
    BY <1>1 DEF IInv, Types, Locals
  <2> QED
    BY <1>1, <1>5, <2>1 DEF IInv, Types, ContentsOK, ContentsTypeOK, mutex, stats
<1>7. LockDiscipline'
  BY <1>1, <1>3 DEF IInv, LockDiscipline, Holds, mutex
<1>8. TouchedKeyPresent'
  BY <1>2, <1>3 DEF TouchedKeyPresent
<1>9. WithinCapacity'
  BY <1>3 DEF WithinCapacity
<1> QED
  BY <1>5, <1>6, <1>7, <1>8, <1>9, InvariantParts

(* A step of thread t, alone in its section, that takes one entry out and  *)
(* leaves the locks and the other threads alone.                           *)
LEMMA RemovingStep ==
  ASSUME IInv, NEW t \in Thread,
         NEW l \in {"evict", "sweep", "return"},
         pc[t] \in {"evict", "del", "sweep"},
         l = IF pc[t] = "del" THEN "return" ELSE pc[t],
         pc' = [pc EXCEPT ![t] = l],
         UNCHANGED <<stats, mutex, call, reg, now>>,
         ContentsOK',
         Cardinality(DOMAIN cache') <= Cardinality(DOMAIN cache)
  PROVE  IInv'
<1>1. \A u \in Thread \ {t} :
         pc[u] \notin {"set", "evict", "del", "cleanup", "sweep", "get", "touch"}
  BY ExclusiveSection
<1>2. pc'[t] = l /\ \A u \in Thread \ {t} : pc'[u] = pc[u]
  BY DEF IInv, Types
<1>3. Types'
  <2>1. pc' \in [Thread -> Locals]
    BY DEF IInv, Types, Locals
  <2> QED
    BY <2>1 DEF IInv, Types, ContentsOK, ContentsTypeOK, mutex, stats
<1>4. LockDiscipline'
  BY <1>2 DEF IInv, LockDiscipline, Holds, mutex
<1>5. TouchedKeyPresent'
  BY <1>1, <1>2 DEF TouchedKeyPresent
<1>6. WithinCapacity'
  <2>1. CASE pc[t] = "evict"
    BY <1>2, <2>1 DEF WithinCapacity
  <2>2. CASE pc[t] # "evict"
    <3>1. Cardinality(DOMAIN cache) <= Capacity
      BY <1>1, <2>2 DEF IInv, WithinCapacity
    <3>2. Cardinality(DOMAIN cache) \in Nat /\ Cardinality(DOMAIN cache') \in Nat
      BY FS_CardinalityType DEF IInv, Overshoot, ContentsOK
    <3> QED
      BY <3>1, <3>2, CapacityAssumption DEF WithinCapacity
  <2> QED
    BY <2>1, <2>2
<1> QED
  BY <1>3, <1>4, <1>5, <1>6, InvariantParts

LEMMA EvictStep ==
  ASSUME IInv, NEW t \in Thread, Evict(t)
  PROVE  IInv'
<1>1. ContentsOK' /\ Cardinality(DOMAIN cache') = Cardinality(DOMAIN cache) - 1
  BY InvariantContents, EvictKeepsContents
<1>2. Cardinality(DOMAIN cache) \in Nat
  BY FS_CardinalityType DEF IInv, Overshoot
<1>3. pc[t] = "evict" /\ pc' = [pc EXCEPT ![t] = "evict"]
      /\ UNCHANGED <<stats, mutex, call, reg, now>>
  BY DEF Evict, IInv, Types
<1>4. Cardinality(DOMAIN cache') <= Cardinality(DOMAIN cache)
  BY <1>1, <1>2
<1> QED
  BY <1>1, <1>3, <1>4, RemovingStep

LEMMA DelStep ==
  ASSUME IInv, NEW t \in Thread, Del(t)
  PROVE  IInv'
<1>1. pc[t] = "del" /\ pc' = [pc EXCEPT ![t] = "return"]
      /\ UNCHANGED <<stats, mutex, call, reg, now>>
  BY DEF Del, Goto
<1>2. Cardinality(DOMAIN cache) \in Nat
  BY FS_CardinalityType DEF IInv, Overshoot
<1>3. ContentsOK' /\ Cardinality(DOMAIN cache') <= Cardinality(DOMAIN cache)
  <2>1. CASE call[t].key \in DOMAIN cache
    <3>1. Forget(call[t].key)
      BY <2>1 DEF Del
    <3>2. ContentsOK' /\ Cardinality(DOMAIN cache') = Cardinality(DOMAIN cache) - 1
      BY <2>1, <3>1, InvariantContents, ForgetKeepsContents
    <3> QED
      BY <1>2, <3>2
  <2>2. CASE call[t].key \notin DOMAIN cache
    <3>1. UNCHANGED contents
      BY <2>2 DEF Del
    <3> QED
      BY <1>2, <3>1, InvariantContents, UnchangedContents DEF contents
  <2> QED
    BY <2>1, <2>2
<1> QED
  BY <1>1, <1>3, RemovingStep

LEMMA SweepStep ==
  ASSUME IInv, NEW t \in Thread, Sweep(t)
  PROVE  IInv'
<1>1. PICK k \in DOMAIN cache : Forget(k)
  BY DEF Sweep, Doomed
<1>2. ContentsOK' /\ Cardinality(DOMAIN cache') = Cardinality(DOMAIN cache) - 1
  BY <1>1, InvariantContents, ForgetKeepsContents
<1>3. Cardinality(DOMAIN cache) \in Nat
  BY FS_CardinalityType DEF IInv, Overshoot
<1>4. pc[t] = "sweep" /\ pc' = [pc EXCEPT ![t] = "sweep"]
      /\ UNCHANGED <<stats, mutex, call, reg, now>>
  BY DEF Sweep, IInv, Types
<1>5. Cardinality(DOMAIN cache') <= Cardinality(DOMAIN cache)
  BY <1>2, <1>3
<1> QED
  BY <1>2, <1>4, <1>5, RemovingStep

LEMMA TickStep ==
  ASSUME IInv, Tick
  PROVE  IInv'
BY DEF Tick, IInv, Types, LockDiscipline, Holds, TouchedKeyPresent, ContainersAgree,
       Overshoot, WithinCapacity, contents, stats, mutex

LEMMA StutterStep ==
  ASSUME IInv, UNCHANGED vars
  PROVE  IInv'
BY DEF vars, IInv, Types, LockDiscipline, Holds, TouchedKeyPresent, ContainersAgree,
       Overshoot, WithinCapacity, contents, stats, mutex

LEMMA NextInvariant == IInv /\ [Next]_vars => IInv'
<1> SUFFICES ASSUME IInv, [Next]_vars
             PROVE  IInv'
  OBVIOUS
<1>1. ASSUME NEW t \in Thread, LockUnique(t) \/ LockShared(t) \/ CallHitRate(t)
      PROVE  IInv'
  BY <1>1, AcquireStep
<1>2. ASSUME NEW t \in Thread, Body(t)
      PROVE  IInv'
  <2>1. CASE SetStore(t)
    BY <2>1, SetStoreStep
  <2>2. CASE Evict(t)
    BY <2>2, EvictStep
  <2>3. CASE Del(t)
    BY <2>3, DelStep
  <2>4. CASE Sweep(t)
    BY <2>4, SweepStep
  <2>5. CASE SweepStart(t) \/ GetMiss(t) \/ GetHit(t) \/ Touch(t) \/ Exists(t)
               \/ Size(t) \/ LoadHits(t) \/ LoadMisses(t)
    BY <2>5, ReadingStep
  <2>6. CASE Return(t)
    BY <2>6, ReturnStep
  <2> QED
    BY <1>2, <2>1, <2>2, <2>3, <2>4, <2>5, <2>6 DEF Body
<1>3. CASE Tick
  BY <1>3, TickStep
<1>4. CASE UNCHANGED vars
  BY <1>4, StutterStep
<1> QED
  BY <1>1, <1>2, <1>3, <1>4 DEF Next

-----------------------------------------------------------------------------
(* The answers.                                                            *)

LEMMA RepliesStep == IInv /\ Replies /\ [Next]_vars => Replies'
<1> SUFFICES ASSUME IInv, Replies, [Next]_vars
             PROVE  Replies'
  OBVIOUS
<1>1. pc \in [Thread -> Locals]
  BY DEF IInv, Types
<1>2. CASE UNCHANGED vars \/ Tick
  BY <1>2 DEF Replies, vars, Tick
<1>3. ASSUME NEW t \in Thread, LockUnique(t) \/ LockShared(t) \/ CallHitRate(t)
      PROVE  Replies'
  <2>1. pc[t] = "idle" /\ UNCHANGED reply /\ \A u \in Thread \ {t} : pc'[u] = pc[u]
    BY <1>1, <1>3 DEF LockUnique, LockShared, CallHitRate, Enter
  <2> QED
    BY <2>1 DEF Replies
<1>4. ASSUME NEW t \in Thread,
             GetMiss(t) \/ Touch(t) \/ Exists(t) \/ Size(t) \/ LoadMisses(t)
      PROVE  Replies'
  BY <1>1, <1>4 DEF Replies, GetMiss, Touch, Exists, Size, LoadMisses, Answer, Goto
<1>5. ASSUME NEW t \in Thread,
             SetStore(t) \/ Evict(t) \/ Del(t) \/ SweepStart(t) \/ Sweep(t) \/ GetHit(t)
               \/ LoadHits(t)
      PROVE  Replies'
  <2>1. /\ UNCHANGED reply /\ \A u \in Thread \ {t} : pc'[u] = pc[u]
        /\ pc[t] # "return"
    BY <1>1, <1>5 DEF SetStore, Evict, Del, SweepStart, Sweep, GetHit, LoadHits, Goto
  <2> QED
    BY <2>1 DEF Replies
<1>6. ASSUME NEW t \in Thread, Return(t)
      PROVE  Replies'
  BY <1>1, <1>6 DEF Replies, Return
<1> QED
  BY <1>2, <1>3, <1>4, <1>5, <1>6 DEF Next, Body

(* An answer is given under the call it answers, and taken back with it.   *)
LEMMA AnsweredStep ==
  ASSUME IInv, Replies, [Next]_vars, \A t \in Thread : Answered(t)
  PROVE  (\A t \in Thread : Answered(t))'
<1> SUFFICES ASSUME NEW u \in Thread
             PROVE  Answered(u)'
  OBVIOUS
<1>1. pc \in [Thread -> Locals] /\ call \in [Thread -> Call \cup {NoCall}]
  BY DEF IInv, Types
<1>2. Answered(u)
  OBVIOUS
<1>3. CASE reply'[u] = reply[u] /\ call'[u] = call[u]
  BY <1>2, <1>3 DEF Answered
<1>4. CASE reply'[u] = NoReply
  BY <1>4 DEF Answered, NoReply
<1>5. ASSUME NEW t \in Thread, NEW v, Answer(t, v),
             call[t].op = "get" => v \in Value \cup {Nil},
             call[t].op = "exists" => v \in BOOLEAN,
             call[t].op = "size" => v \in Nat,
             call[t].op = "hit_rate" => v \in [hits : Nat, total : Nat]
      PROVE  Answered(u)'
  <2>1. reply' = [reply EXCEPT ![t] = [op |-> call[t].op, val |-> v]] /\ call' = call
    BY <1>5 DEF Answer, Goto
  <2>2. CASE u # t
    BY <1>3, <2>1, <2>2
  <2>3. CASE u = t
    <3>1. reply'[u].op = call'[u].op /\ reply'[u].val = v
      BY <2>1, <2>3 DEF Replies
    <3> QED
      BY <1>5, <2>1, <2>3, <3>1 DEF Answered
  <2> QED
    BY <2>2, <2>3
<1>6. ASSUME NEW t \in Thread, LockUnique(t) \/ LockShared(t) \/ CallHitRate(t)
      PROVE  Answered(u)'
  <2>1. pc[t] = "idle" /\ reply' = reply /\ \A r \in Thread \ {t} : call'[r] = call[r]
    BY <1>1, <1>6 DEF LockUnique, LockShared, CallHitRate, Enter
  <2> QED
    BY <1>3, <1>4, <2>1 DEF Replies
<1>7. ASSUME NEW t \in Thread, Body(t)
      PROVE  Answered(u)'
  <2>0. Holds(t)
    BY DEF IInv, LockDiscipline
  <2>1. CASE GetMiss(t)
    <3>1. Answer(t, Nil) /\ call[t].op = "get"
      BY <2>0, <2>1 DEF GetMiss, Holds
    <3> QED
      BY <1>5, <3>1
  <2>2. CASE Touch(t)
    <3>1. Answer(t, cache[call[t].key].val) /\ call[t].op = "get"
      BY <2>0, <2>2 DEF Touch, Holds
    <3>2. cache[call[t].key].val \in Value
      BY <2>2 DEF Touch, IInv, Types, TouchedKeyPresent, Entry
    <3> QED
      BY <1>5, <3>1, <3>2
  <2>3. CASE Exists(t)
    <3>1. Answer(t, Live(call[t].key)) /\ call[t].op = "exists"
      BY <2>0, <2>3 DEF Exists, Holds
    <3>2. Live(call[t].key) \in BOOLEAN
      BY DEF Live
    <3> QED
      BY <1>5, <3>1, <3>2
  <2>4. CASE Size(t)
    <3>1. Answer(t, Cardinality(DOMAIN cache)) /\ call[t].op = "size"
      BY <2>0, <2>4 DEF Size, Holds
    <3>2. Cardinality(DOMAIN cache) \in Nat
      BY FS_CardinalityType DEF IInv, Overshoot
    <3> QED
      BY <1>5, <3>1, <3>2
  <2>5. CASE LoadMisses(t)
    <3>1. Answer(t, [hits |-> reg[t], total |-> reg[t] + misses]) /\ call[t].op = "hit_rate"
      BY <2>0, <2>5 DEF LoadMisses, Holds
    <3>2. reg[t] \in Nat /\ misses \in Nat
      BY DEF IInv, Types
    <3>3. [hits |-> reg[t], total |-> reg[t] + misses] \in [hits : Nat, total : Nat]
      BY <3>2
    <3> QED
      BY <1>5, <3>1, <3>3
  <2>6. CASE SetStore(t) \/ Evict(t) \/ Del(t) \/ SweepStart(t) \/ Sweep(t) \/ GetHit(t)
               \/ LoadHits(t)
    <3>1. reply' = reply /\ call' = call
      BY <2>6 DEF SetStore, Evict, Del, SweepStart, Sweep, GetHit, LoadHits, Goto
    <3> QED
      BY <1>3, <3>1
  <2>7. CASE Return(t)
    <3>1. u # t => reply'[u] = reply[u] /\ call'[u] = call[u]
      BY <1>1, <2>7 DEF Return, Replies
    <3>2. u = t => reply'[u] = NoReply
      BY <2>7 DEF Return, Replies
    <3> QED
      BY <1>3, <1>4, <3>1, <3>2
  <2> QED
    BY <1>7, <2>1, <2>2, <2>3, <2>4, <2>5, <2>6, <2>7 DEF Body
<1>8. CASE UNCHANGED vars \/ Tick
  BY <1>3, <1>8 DEF vars, Tick
<1> QED
  BY <1>6, <1>7, <1>8 DEF Next

-----------------------------------------------------------------------------
(* The theorems.                                                           *)

(* The inductive invariant holds in every reachable state.                 *)
THEOREM Invariant == Spec => []IInv
BY InitInvariant, NextInvariant, PTL DEF Spec

(* LRUCache.cpp keeps its variables in their types, runs every step that   *)
(* touches the containers under the lock its method takes, and answers     *)
(* each call in the type of its method.                                    *)
THEOREM TypeCorrect == Spec => []TypeOK
<1> DEFINE Given == \A t \in Thread : Answered(t)
<1>1. Init => Replies /\ Given
  BY DEF Init, Replies, Answered, NoReply
<1>2. IInv /\ Replies /\ [Next]_vars => Replies'
  BY RepliesStep
<1>3. IInv /\ Replies /\ Given /\ [Next]_vars => Given'
  BY AnsweredStep
<1>4. IInv /\ Replies /\ Given => TypeOK
  BY DEF IInv, TypeOK
<1> HIDE DEF Given
<1> QED
  BY <1>1, <1>2, <1>3, <1>4, Invariant, PTL DEF Spec

(* No erase of LRUCache.cpp ever follows a stale iterator, whatever the    *)
(* threads do: entries, list and iterators always describe the same keys.  *)
THEOREM ContainersAlwaysAgree == Spec => []ContainersAgree
<1>1. IInv => ContainersAgree
  BY DEF IInv
<1> QED
  BY <1>1, Invariant, PTL

(* Outside the eviction loop, which holds the exclusive lock, the cache    *)
(* never has more entries than its capacity.                               *)
THEOREM CapacityRespected == Spec => []WithinCapacity
<1>1. IInv => WithinCapacity
  BY DEF IInv
<1> QED
  BY <1>1, Invariant, PTL

(* A change that removes an entry or more brings the loops nearer the end. *)
Progress ==
  contents' # contents =>
    DOMAIN cache' \subseteq DOMAIN cache /\ DOMAIN cache' # DOMAIN cache

(* While a thread is inside a loop, only its own steps change containers.  *)
LEMMA LoopStep ==
  ASSUME IInv, NEW t \in Thread, pc[t] \in {"evict", "sweep"}, [Next]_vars
  PROVE  Progress
<1>1. ASSUME NEW u \in Thread, Body(u)
      PROVE  Progress
  <2>1. CASE Evict(u)
    <3>1. /\ lru # <<>>
          /\ Cardinality(DOMAIN cache') = Cardinality(DOMAIN cache) - 1
      BY <2>1, InvariantContents, EvictKeepsContents
    <3>2. DOMAIN cache' \subseteq DOMAIN cache
      BY <2>1, <3>1 DEF Evict, Drop, Restrict
    <3>3. Cardinality(DOMAIN cache) \in Nat
      BY FS_CardinalityType DEF IInv, Overshoot
    <3> QED
      BY <3>1, <3>2, <3>3 DEF Progress
  <2>2. CASE Sweep(u)
    <3>1. PICK k \in DOMAIN cache : Forget(k)
      BY <2>2 DEF Sweep, Doomed
    <3>2. DOMAIN cache' = DOMAIN cache \ {k}
      BY <3>1, InvariantContents, ForgetKeepsContents
    <3> QED
      BY <3>2 DEF Progress
  <2>3. CASE SetStore(u) \/ Del(u) \/ Touch(u)
    <3>1. u # t
      BY <2>3 DEF SetStore, Del, Touch
    <3>2. pc[u] \notin {"set", "del", "touch"}
      BY <3>1, ExclusiveSection
    <3> QED
      BY <2>3, <3>2 DEF SetStore, Del, Touch
  <2>4. CASE SweepStart(u) \/ GetMiss(u) \/ GetHit(u) \/ Exists(u) \/ Size(u)
               \/ LoadHits(u) \/ LoadMisses(u) \/ Return(u)
    BY <2>4 DEF SweepStart, GetMiss, GetHit, Exists, Size, LoadHits, LoadMisses, Return,
                Progress
  <2> QED
    BY <1>1, <2>1, <2>2, <2>3, <2>4 DEF Body
<1>2. ASSUME NEW u \in Thread, LockUnique(u) \/ LockShared(u) \/ CallHitRate(u)
      PROVE  Progress
  BY <1>2 DEF LockUnique, LockShared, CallHitRate, Enter, Progress
<1>3. Tick \/ UNCHANGED vars => Progress
  BY DEF Tick, vars, Progress
<1> QED
  BY <1>1, <1>2, <1>3 DEF Next

(* The eviction loop and the sweep come nearer to their end with every     *)
(* change made to the containers while they run: no other thread adds to   *)
(* what they remove.                                                       *)
THEOREM LoopsAlwaysProgress == Spec => LoopsMakeProgress
<1>1. IInv /\ [Next]_vars =>
        [(\E t \in Thread : pc[t] \in {"evict", "sweep"}) /\ contents' # contents =>
            DOMAIN cache' \subseteq DOMAIN cache /\ DOMAIN cache' # DOMAIN cache]_vars
  BY LoopStep DEF Progress
<1> QED
  BY <1>1, Invariant, PTL DEF Spec, LoopsMakeProgress

-----------------------------------------------------------------------------
(* hit_rate.                                                               *)

(* The hits that a thread in hit_rate has loaded are no more than there    *)
(* are, as the counter only grows.                                         *)
HitsLoaded ==
  /\ DOMAIN reply = Thread
  /\ \A t \in Thread : pc[t] = "rate" => reg[t] <= hits

(* Misses counted after the hits were loaded only lower the rate. *)
LEMMA LateMisses ==
  ASSUME NEW loaded \in Nat, NEW H \in Nat, NEW M \in Nat, loaded <= H
  PROVE  loaded + M <= H + M /\ loaded * (H + M) <= H * (loaded + M)
<1>1. PICK d \in Nat : H = loaded + d
  BY H - loaded \in Nat, H = loaded + (H - loaded)
<1>2. loaded * (H + M) = loaded * H + loaded * M /\ H * (loaded + M) = H * loaded + H * M
  OBVIOUS
<1>3. H * M = loaded * M + d * M
  BY <1>1
<1>4. loaded * H \in Nat /\ loaded * M \in Nat /\ d * M \in Nat /\ loaded * H = H * loaded
  OBVIOUS
<1> HIDE <1>1
<1> QED
  BY <1>2, <1>3, <1>4

(* What a step may do to the counters and to the loaded hits.              *)
LEMMA HitsLoadedStep == IInv /\ HitsLoaded /\ [Next]_vars => HitsLoaded'
<1> SUFFICES ASSUME IInv, HitsLoaded, [Next]_vars
             PROVE  HitsLoaded'
  OBVIOUS
<1>1. hits \in Nat /\ reg \in [Thread -> Nat] /\ pc \in [Thread -> Locals]
  BY DEF IInv, Types
<1>2. CASE UNCHANGED vars \/ Tick
  BY <1>2 DEF HitsLoaded, vars, Tick, stats
<1>3. ASSUME NEW u \in Thread, LockUnique(u) \/ LockShared(u) \/ CallHitRate(u)
      PROVE  HitsLoaded'
  <2>1. PICK l \in AllMethods : pc' = [pc EXCEPT ![u] = l]
    BY <1>3, MethodsAssumption DEF LockUnique, LockShared, CallHitRate, Enter
  <2>2. UNCHANGED <<hits, reg, reply>>
    BY <1>3 DEF LockUnique, LockShared, CallHitRate, Enter, stats
  <2> QED
    BY <1>1, <2>1, <2>2 DEF HitsLoaded, AllMethods
<1>4. ASSUME NEW u \in Thread, LoadHits(u)
      PROVE  HitsLoaded'
  BY <1>1, <1>4 DEF LoadHits, Goto, stats, HitsLoaded
<1>5. ASSUME NEW u \in Thread, Body(u), ~LoadHits(u)
      PROVE  HitsLoaded'
  <2>1. /\ hits' \in {hits, hits + 1}
        /\ DOMAIN reply' = DOMAIN reply
        /\ \A t \in Thread \ {u} : pc'[t] = pc[t] /\ reg'[t] = reg[t]
    BY <1>1, <1>5 DEF Body, SetStore, Evict, Del, SweepStart, Sweep, GetMiss, GetHit, Touch,
       Exists, Size, LoadMisses, Return, Answer, Goto, stats
  <2>2. pc'[u] # "rate"
    BY <1>1, <1>5 DEF Body, SetStore, Evict, Del, SweepStart, Sweep, GetMiss, GetHit, Touch,
       Exists, Size, LoadMisses, Return, Answer, Goto
  <2> QED
    BY <1>1, <2>1, <2>2 DEF HitsLoaded
<1> QED
  BY <1>2, <1>3, <1>4, <1>5 DEF Next

(* No lookup that comes between the two loads makes hit_rate report more   *)
(* than the true rate, for any number of threads and lookups.              *)
THEOREM RateNeverFlattered == Spec => RateNotFlattered
<1> DEFINE Fair ==
      \A t \in Thread :
        pc[t] = "rate" /\ pc'[t] = "return" =>
          LET r == reply'[t].val
          IN r.total <= hits + misses /\ r.hits * (hits + misses) <= hits * r.total
<1>1. Init => HitsLoaded
  BY DEF Init, HitsLoaded
<1>2. ASSUME IInv, HitsLoaded, [Next]_vars
      PROVE  [Fair]_vars
  <2> SUFFICES ASSUME Next, NEW t \in Thread, pc[t] = "rate", pc'[t] = "return"
               PROVE  LET r == reply'[t].val
                      IN r.total <= hits + misses /\ r.hits * (hits + misses) <= hits * r.total
    BY <1>2
  <2>1. pc \in [Thread -> Locals] /\ hits \in Nat /\ misses \in Nat /\ reg[t] \in Nat
    BY <1>2 DEF IInv, Types
  <2>2. LoadMisses(t)
    <3>1. \E u \in Thread : Body(u) \/ LockUnique(u) \/ LockShared(u) \/ CallHitRate(u)
      BY DEF Next, Tick
    <3>2. ASSUME NEW u \in Thread, u # t,
                 Body(u) \/ LockUnique(u) \/ LockShared(u) \/ CallHitRate(u)
          PROVE  pc'[t] = pc[t]
      BY <2>1, <3>2 DEF Body, SetStore, Evict, Del, SweepStart, Sweep, GetMiss, GetHit, Touch,
         Exists, Size, LoadHits, LoadMisses, Return, Answer, Goto,
         LockUnique, LockShared, CallHitRate, Enter
    <3>3. Body(t) \/ LockUnique(t) \/ LockShared(t) \/ CallHitRate(t)
      BY <3>1, <3>2
    <3> QED
      BY <3>3 DEF Body, SetStore, Evict, Del, SweepStart, Sweep, GetMiss, GetHit, Touch,
         Exists, Size, LoadHits, Return, Finished, LockUnique, LockShared, CallHitRate, Enter
  <2>3. reply'[t].val = [hits |-> reg[t], total |-> reg[t] + misses]
    BY <1>2, <2>2 DEF LoadMisses, Answer, HitsLoaded
  <2>4. reg[t] <= hits
    BY <1>2 DEF HitsLoaded
  <2> QED
    BY <2>1, <2>3, <2>4, LateMisses
<1>3. IInv /\ HitsLoaded /\ [Next]_vars => [Fair]_vars
  BY <1>2
<1> QED
  BY <1>1, <1>3, HitsLoadedStep, Invariant, PTL DEF Spec, RateNotFlattered

-----------------------------------------------------------------------------
(* The sequence of entries behind the three containers.                    *)

Record == [key : Key, val : Value, exp : Nat]

(* Containers that agree, as a relation of their values. *)
Containers(c, l, m) ==
  /\ DOMAIN c \subseteq Key /\ \A k \in DOMAIN c : c[k] \in Entry
  /\ l \in Seq(ListNode)
  /\ Linked(DOMAIN c, l, m)

RecordOf(c, k) == [key |-> k, val |-> c[k].val, exp |-> c[k].exp]

LEMMA RecordFields ==
  ASSUME NEW c, NEW k
  PROVE  /\ RecordOf(c, k).key = k /\ RecordOf(c, k).val = c[k].val
         /\ RecordOf(c, k).exp = c[k].exp
BY DEF RecordOf

RecordsOf(c, l) == [i \in DOMAIN l |-> RecordOf(c, l[i].key)]

Alive(c, l, cuts) == {i \in DOMAIN l : \A cut \in cuts : ~Expired(RecordsOf(c, l)[i], cut)}

StoreOf(c, l, cuts) == Newest(Keep(RecordsOf(c, l), Alive(c, l, cuts)), Capacity)

LEMMA PromisedStoreIs ==
  /\ PromisedStore = StoreOf(cache, lru, Cuts)
  /\ PromisedStore' = StoreOf(cache', lru', Cuts')
BY DEF PromisedStore, StoreOf, Alive, Entries, RecordsOf, RecordOf

LEMMA ContentsAreContainers ==
  /\ ContentsOK => Containers(cache, lru, lruMap)
  /\ ContentsOK' => Containers(cache', lru', lruMap')
BY AgreeIsLinked, AgreeIsLinkedNext DEF ContentsOK, ContentsTypeOK, Containers

(* One record for each key, and for each record its entry.                 *)
LEMMA RecordsProperties ==
  ASSUME NEW c, NEW l, NEW m, Containers(c, l, m)
  PROVE  /\ RecordsOf(c, l) \in Seq(Record) /\ Len(RecordsOf(c, l)) = Len(l)
         /\ \A i \in 1 .. Len(l) : l[i].key \in DOMAIN c
         /\ \A i \in 1 .. Len(l) : RecordsOf(c, l)[i] = RecordOf(c, l[i].key)
         /\ \A i, j \in 1 .. Len(l) : l[i].key = l[j].key => i = j
         /\ \A k \in DOMAIN c : \E i \in 1 .. Len(l) : l[i].key = k
         /\ Cardinality(DOMAIN c) = Len(l)
<1>1. /\ Len(l) \in Nat /\ DOMAIN l = 1 .. Len(l)
      /\ \A i \in 1 .. Len(l) : l[i] \in ListNode
  BY ElementOfSeq, LenProperties DEF Containers
<1>2. \A i \in 1 .. Len(l) : l[i].key \in DOMAIN c
  BY <1>1 DEF Containers, Linked
<1>3. \A i, j \in 1 .. Len(l) : l[i].key = l[j].key => i = j
  BY <1>1 DEF Containers, Linked
<1>4. ASSUME NEW k \in DOMAIN c
      PROVE  \E i \in 1 .. Len(l) : l[i].key = k
  <2>1. PICK i \in DOMAIN l : l[i] = [node |-> m[k], key |-> k]
    BY DEF Containers, Linked
  <2> QED
    BY <1>1, <2>1
<1> DEFINE s == RecordsOf(c, l)
<1>5. \A i \in 1 .. Len(l) : s[i] = RecordOf(c, l[i].key)
  BY <1>1 DEF RecordsOf
<1>6. s \in [1 .. Len(l) -> Record]
  <2>1. DOMAIN s = 1 .. Len(l) /\ s = [i \in 1 .. Len(l) |-> s[i]]
    BY <1>1 DEF RecordsOf
  <2>2. ASSUME NEW i \in 1 .. Len(l)
        PROVE  s[i] \in Record
    <3>1. l[i].key \in Key /\ c[l[i].key] \in Entry
      BY <1>2 DEF Containers
    <3>2. c[l[i].key].val \in Value /\ c[l[i].key].exp \in Nat
      BY <3>1 DEF Entry
    <3>3. RecordOf(c, l[i].key) \in Record
      BY <3>1, <3>2 DEF Record, RecordOf
    <3> HIDE DEF s
    <3> QED
      BY <1>5, <3>3
  <2> HIDE DEF s
  <2> QED
    BY <2>1, <2>2
<1>7. s \in Seq(Record) /\ Len(s) = Len(l)
  <2> HIDE DEF s
  <2> QED
    BY <1>1, <1>6, SeqDef, LenProperties
<1>8. Cardinality(DOMAIN c) = Len(l)
  <2> DEFINE f == [i \in 1 .. Len(l) |-> l[i].key]
  <2>1. f \in Bijection(1 .. Len(l), DOMAIN c)
    BY <1>2, <1>3, <1>4 DEF Bijection, Injection, Surjection, IsInjective
  <2> QED
    BY <1>1, <2>1, FS_CountingElements DEF ExistsBijection
<1> QED
  BY <1>2, <1>3, <1>4, <1>5, <1>7, <1>8

(* Where nothing is to be swept and nothing to be evicted, the store is    *)
(* all the records.                                                        *)
LEMMA StoreWhole ==
  ASSUME NEW c, NEW l, NEW m, Containers(c, l, m), NEW cuts,
         \A k \in DOMAIN c : \A cut \in cuts : ~Expired(c[k], cut)
  PROVE  /\ StoreOf(c, l, cuts) = Newest(RecordsOf(c, l), Capacity)
         /\ Cardinality(DOMAIN c) <= Capacity => StoreOf(c, l, cuts) = RecordsOf(c, l)
<1> DEFINE s == RecordsOf(c, l)
<1>1. /\ s \in Seq(Record) /\ Len(s) = Len(l)
      /\ \A i \in 1 .. Len(l) : l[i].key \in DOMAIN c /\ s[i] = RecordOf(c, l[i].key)
      /\ Cardinality(DOMAIN c) = Len(l)
  BY RecordsProperties
<1>2. DOMAIN l = 1 .. Len(l) /\ DOMAIN s = 1 .. Len(l)
  BY <1>1, LenProperties DEF Containers
<1>3. DOMAIN s \subseteq Alive(c, l, cuts)
  <2> HIDE DEF s
  <2>1. \A i \in 1 .. Len(l) : \A cut \in cuts : ~Expired(s[i], cut)
    <3> SUFFICES ASSUME NEW i \in 1 .. Len(l), NEW cut \in cuts
                 PROVE  ~Expired(s[i], cut)
      OBVIOUS
    <3>1. l[i].key \in DOMAIN c /\ s[i].exp = c[l[i].key].exp
      BY <1>1, RecordFields
    <3>2. ~Expired(c[l[i].key], cut)
      BY <3>1
    <3> QED
      BY <3>1, <3>2 DEF Expired
  <2> QED
    BY <1>2, <2>1 DEF Alive, s
<1>4. StoreOf(c, l, cuts) = Newest(s, Capacity)
  BY <1>3 DEF StoreOf, Keep
<1> HIDE DEF s
<1>5. Cardinality(DOMAIN c) <= Capacity => Newest(s, Capacity) = s
  BY <1>1, CapacityAssumption, NewestAll
<1> QED
  BY <1>4, <1>5 DEF s

(* The containers c, l lose the entry at p of the list. *)
Loses(c, l, p, d, r) ==
  /\ DOMAIN d = DOMAIN c \ {l[p].key} /\ \A k \in DOMAIN d : d[k] = c[k]
  /\ Len(r) = Len(l) - 1
  /\ \A i \in 1 .. Len(r) : r[i] = IF i < p THEN l[i] ELSE l[i + 1]

LEMMA LostRecord ==
  ASSUME NEW c, NEW l, NEW m, Containers(c, l, m), NEW p \in 1 .. Len(l),
         NEW d, NEW r, NEW q, Containers(d, r, q), Loses(c, l, p, d, r)
  PROVE  \A i \in 1 .. Len(r) :
           RecordsOf(d, r)[i] = IF i < p THEN RecordsOf(c, l)[i] ELSE RecordsOf(c, l)[i + 1]
<1> SUFFICES ASSUME NEW i \in 1 .. Len(r)
             PROVE  RecordsOf(d, r)[i] =
                      RecordsOf(c, l)[IF i < p THEN i ELSE i + 1]
  OBVIOUS
<1>1. Len(l) \in Nat /\ Len(r) = Len(l) - 1
  BY LenProperties DEF Containers, Loses
<1> DEFINE j == IF i < p THEN i ELSE i + 1
<1>2. j \in 1 .. Len(l)
  BY <1>1
<1>3. r[i] = l[j] /\ r[i].key \in DOMAIN d
  BY RecordsProperties DEF Loses
<1>4. d[r[i].key] = c[l[j].key]
  BY <1>3 DEF Loses
<1> HIDE DEF j
<1>5. RecordsOf(c, l)[j] = RecordOf(c, l[j].key)
  BY <1>2, RecordsProperties
<1>6. RecordsOf(d, r)[i] = RecordOf(d, r[i].key)
  BY RecordsProperties
<1>7. RecordsOf(d, r)[i] = RecordsOf(c, l)[j]
  BY <1>3, <1>4, <1>5, <1>6 DEF RecordOf
<1> QED
  BY <1>7 DEF j

(* The sweep takes entries that count no longer; those that stay are the   *)
(* same store.                                                             *)
LEMMA LostDead ==
  ASSUME NEW c, NEW l, NEW m, Containers(c, l, m), NEW p \in 1 .. Len(l),
         NEW d, NEW r, NEW q, Containers(d, r, q), Loses(c, l, p, d, r),
         NEW cuts, NEW cut \in cuts, Expired(c[l[p].key], cut)
  PROVE  StoreOf(d, r, cuts) = StoreOf(c, l, cuts)
<1> DEFINE s == RecordsOf(c, l)
           t == RecordsOf(d, r)
           I == Alive(c, l, cuts)
           J == Alive(d, r, cuts)
<1>1. /\ s \in Seq(Record) /\ Len(s) = Len(l) /\ t \in Seq(Record) /\ Len(t) = Len(r)
      /\ s[p] = RecordOf(c, l[p].key)
  BY RecordsProperties
<1>2. /\ Len(l) \in Nat /\ Len(r) = Len(l) - 1
      /\ DOMAIN l = 1 .. Len(l) /\ DOMAIN r = 1 .. Len(r)
  BY LenProperties DEF Containers, Loses
<1>3. \A i \in 1 .. Len(t) : t[i] = IF i < p THEN s[i] ELSE s[i + 1]
  BY <1>1, LostRecord
<1>4. p \notin I
  BY <1>1 DEF Alive, Expired, RecordOf
<1>5. ASSUME NEW i \in 1 .. Len(t)
      PROVE  i \in J <=> (IF i < p THEN i ELSE i + 1) \in I
  <2> DEFINE j == IF i < p THEN i ELSE i + 1
  <2>1. j \in 1 .. Len(l) /\ i \in 1 .. Len(r)
    BY <1>1, <1>2
  <2>2. t[i] = s[j]
    BY <1>3
  <2> HIDE DEF s, t, j
  <2>3. i \in J <=> \A x \in cuts : ~Expired(t[i], x)
    BY <1>2, <2>1 DEF Alive, t
  <2>4. j \in I <=> \A x \in cuts : ~Expired(s[j], x)
    BY <1>2, <2>1 DEF Alive, s
  <2>5. i \in J <=> j \in I
    BY <2>2, <2>3, <2>4
  <2> QED
    BY <2>5 DEF j
<1> HIDE DEF s, t, I, J
<1>6. Keep(t, J) = Keep(s, I)
  <2>1. p \in 1 .. Len(s) /\ Len(t) = Len(s) - 1
    BY <1>1, <1>2
  <2> QED
    BY <1>1, <1>3, <1>4, <1>5, <2>1, KeepSkips
<1> QED
  BY <1>6 DEF StoreOf, s, t, I, J

(* The erase of a key is the one of the promise. *)
LEMMA LostWithout ==
  ASSUME NEW c, NEW l, NEW m, Containers(c, l, m), NEW p \in 1 .. Len(l),
         NEW d, NEW r, NEW q, Containers(d, r, q), Loses(c, l, p, d, r)
  PROVE  RecordsOf(d, r) = Without(RecordsOf(c, l), l[p].key)
<1> DEFINE s == RecordsOf(c, l)
           t == RecordsOf(d, r)
           I == {i \in DOMAIN s : s[i].key # l[p].key}
<1>1. /\ s \in Seq(Record) /\ Len(s) = Len(l) /\ t \in Seq(Record) /\ Len(t) = Len(r)
      /\ \A i \in 1 .. Len(l) : s[i] = RecordOf(c, l[i].key)
      /\ \A i, j \in 1 .. Len(l) : l[i].key = l[j].key => i = j
  BY RecordsProperties
<1>2. /\ Len(l) \in Nat /\ Len(r) = Len(l) - 1
      /\ DOMAIN s = 1 .. Len(l) /\ DOMAIN t = 1 .. Len(r)
  BY <1>1, LenProperties DEF Containers, Loses
<1>3. \A i \in 1 .. Len(t) : t[i] = IF i < p THEN s[i] ELSE s[i + 1]
  BY <1>1, LostRecord
<1> HIDE DEF s, t
<1>4. \A i \in 1 .. Len(l) : s[i].key = l[i].key
  BY <1>1, RecordFields
<1>5. \A i \in 1 .. Len(l) : i \in I <=> i # p
  BY <1>1, <1>2, <1>4
<1>6. \A i \in 1 .. Len(t) : i \in DOMAIN t <=> (IF i < p THEN i ELSE i + 1) \in I
  <2> SUFFICES ASSUME NEW i \in 1 .. Len(t)
               PROVE  (IF i < p THEN i ELSE i + 1) \in I
    BY <1>1, <1>2
  <2>1. (IF i < p THEN i ELSE i + 1) \in 1 .. Len(l) /\ (IF i < p THEN i ELSE i + 1) # p
    BY <1>1, <1>2
  <2> HIDE DEF I
  <2> QED
    BY <1>5, <2>1
<1>7. p \notin I
  BY <1>5
<1> HIDE DEF I
<1>8. Keep(t, DOMAIN t) = Keep(s, I)
  BY <1>1, <1>2, <1>3, <1>6, <1>7, KeepSkips
<1>9. Keep(t, DOMAIN t) = t
  BY DEF Keep
<1> QED
  BY <1>8, <1>9 DEF Without, s, t, I

LEMMA NothingWithout ==
  ASSUME NEW c, NEW l, NEW m, Containers(c, l, m), NEW k, k \notin DOMAIN c
  PROVE  Without(RecordsOf(c, l), k) = RecordsOf(c, l)
<1> DEFINE s == RecordsOf(c, l)
<1>1. /\ Len(s) = Len(l) /\ s \in Seq(Record)
      /\ \A i \in 1 .. Len(l) : l[i].key \in DOMAIN c
      /\ \A i \in 1 .. Len(l) : s[i] = RecordOf(c, l[i].key)
  BY RecordsProperties
<1>2. DOMAIN s = 1 .. Len(l)
  BY <1>1, LenProperties
<1> HIDE DEF s
<1>3. \A i \in DOMAIN s : s[i].key # k
  BY <1>1, <1>2, RecordFields
<1>4. Without(s, k) = s
  BY <1>3 DEF Without, Keep
<1> QED
  BY <1>4 DEF s

(* What set puts in front of the list is in front of the records.          *)
LEMMA PushedRecord ==
  ASSUME NEW c, NEW l, NEW m, Containers(c, l, m), NEW k \in Key \ DOMAIN c,
         NEW n \in Node, NEW e \in Entry, NEW b, NEW q,
         Containers(b, <<[node |-> n, key |-> k]>> \o l, q),
         b[k] = e, \A x \in DOMAIN c : b[x] = c[x]
  PROVE  RecordsOf(b, <<[node |-> n, key |-> k]>> \o l) =
           <<[key |-> k, val |-> e.val, exp |-> e.exp]>> \o RecordsOf(c, l)
<1> DEFINE x == [node |-> n, key |-> k]
           w == <<x>> \o l
           y == [key |-> k, val |-> e.val, exp |-> e.exp]
           s == RecordsOf(c, l)
           z == <<y>> \o s
           t == RecordsOf(b, w)
<1>1. x \in ListNode /\ y \in Record /\ l \in Seq(ListNode) /\ x.key = k
  BY DEF ListNode, Record, Entry, Containers
<1>0. Containers(b, w, q)
  OBVIOUS
<1> HIDE DEF w
<1>2. /\ s \in Seq(Record) /\ Len(s) = Len(l)
      /\ \A i \in 1 .. Len(l) : l[i].key \in DOMAIN c
      /\ \A i \in 1 .. Len(l) : s[i] = RecordOf(c, l[i].key)
  BY RecordsProperties
<1>3. /\ t \in Seq(Record) /\ Len(t) = Len(w)
      /\ \A i \in 1 .. Len(w) : t[i] = RecordOf(b, w[i].key)
  BY <1>0, RecordsProperties
<1> HIDE DEF x, y, s, t
<1>4. /\ Len(w) = Len(l) + 1 /\ w[1] = x
      /\ \A i \in 2 .. Len(l) + 1 : w[i] = l[i - 1]
  BY <1>1, PushFrontProperties DEF w
<1>5. /\ z \in Seq(Record) /\ Len(z) = Len(s) + 1 /\ z[1] = y
      /\ \A i \in 2 .. Len(s) + 1 : z[i] = s[i - 1]
  BY <1>1, <1>2, PushFrontProperties
<1>6. Len(l) \in Nat
  BY <1>1, LenProperties
<1> HIDE DEF z
<1>7. ASSUME NEW i \in 1 .. Len(t)
      PROVE  t[i] = z[i]
  <2>0. t[i] = RecordOf(b, w[i].key)
    BY <1>3
  <2>1. CASE i = 1
    <3>1. w[i].key = k /\ z[i] = y
      BY <1>1, <1>4, <1>5, <2>1
    <3> QED
      BY <2>0, <3>1 DEF y, RecordOf
  <2>2. CASE i # 1
    <3> DEFINE j == i - 1
    <3>1. i \in 2 .. Len(l) + 1 /\ i \in 2 .. Len(s) + 1 /\ j \in 1 .. Len(l)
      BY <1>2, <1>3, <1>4, <1>6, <2>2
    <3>2. w[i] = l[j] /\ z[i] = s[j]
      BY <1>4, <1>5, <3>1
    <3> HIDE DEF j
    <3>3. b[w[i].key] = c[l[j].key]
      BY <1>2, <3>1, <3>2
    <3>4. s[j] = RecordOf(c, l[j].key)
      BY <1>2, <3>1
    <3> QED
      BY <2>0, <3>2, <3>3, <3>4 DEF RecordOf
  <2> QED
    BY <2>1, <2>2
<1>8. t = z
  BY <1>2, <1>3, <1>4, <1>5, <1>7, SeqEqual
<1> QED
  BY <1>8 DEF t, z, w, s, x, y

-----------------------------------------------------------------------------
(* What the answers show, and who may be sweeping.                         *)

(* What the clients of the promise see of one answer.                      *)
LEMMA PromisedReplyIs ==
  ASSUME Replies, Replies'
  PROVE  /\ PromisedReply = [t \in Thread |-> PromisedReply[t]]
         /\ PromisedReply' = [t \in Thread |-> PromisedReply'[t]]
         /\ \A t \in Thread :
              /\ pc[t] = "touch" =>
                   PromisedReply[t] = [op |-> "get", val |-> cache[call[t].key].val]
              /\ pc[t] # "touch" =>
                   PromisedReply[t] = IF reply[t].op = "hit_rate" THEN NoReply ELSE reply[t]
              /\ pc'[t] = "touch" =>
                   PromisedReply'[t] = [op |-> "get", val |-> cache'[call'[t].key].val]
              /\ pc'[t] # "touch" =>
                   PromisedReply'[t] = IF reply'[t].op = "hit_rate" THEN NoReply
                                                                   ELSE reply'[t]
<1>1. /\ PromisedReply = [t \in Thread |-> PromisedReply[t]]
      /\ PromisedReply' = [t \in Thread |-> PromisedReply'[t]]
  BY DEF PromisedReply
<1>2. ASSUME NEW t \in Thread
      PROVE  /\ pc[t] = "touch" =>
                  PromisedReply[t] = [op |-> "get", val |-> cache[call[t].key].val]
             /\ pc[t] # "touch" =>
                  PromisedReply[t] = IF reply[t].op = "hit_rate" THEN NoReply ELSE reply[t]
  BY DEF PromisedReply, Replies, NoReply
<1>3. ASSUME NEW t \in Thread
      PROVE  /\ pc'[t] = "touch" =>
                  PromisedReply'[t] = [op |-> "get", val |-> cache'[call'[t].key].val]
             /\ pc'[t] # "touch" =>
                  PromisedReply'[t] = IF reply'[t].op = "hit_rate" THEN NoReply ELSE reply'[t]
  BY DEF PromisedReply, Replies, NoReply
<1> QED
  BY <1>1, <1>2, <1>3

LEMMA OthersKept ==
  ASSUME Replies, Replies', NEW t \in Thread,
         \A u \in Thread \ {t} :
            /\ pc'[u] = pc[u] /\ call'[u] = call[u] /\ reply'[u] = reply[u]
            /\ pc[u] = "touch" => cache'[call[u].key].val = cache[call[u].key].val
  PROVE  /\ \A u \in Thread \ {t} : PromisedReply'[u] = PromisedReply[u]
         /\ PromisedReply' = [PromisedReply EXCEPT ![t] = PromisedReply'[t]]
<1>1. ASSUME NEW u \in Thread \ {t}
      PROVE  PromisedReply'[u] = PromisedReply[u]
  <2>1. CASE pc[u] = "touch"
    <3>1. pc'[u] = "touch" /\ u \in Thread
      BY <2>1
    <3>2. PromisedReply'[u] = [op |-> "get", val |-> cache'[call'[u].key].val]
      BY <3>1, PromisedReplyIs
    <3>3. PromisedReply[u] = [op |-> "get", val |-> cache[call[u].key].val]
      BY <2>1, <3>1, PromisedReplyIs
    <3>4. cache'[call'[u].key].val = cache[call[u].key].val
      BY <2>1
    <3> QED
      BY <3>2, <3>3, <3>4
  <2>2. CASE pc[u] # "touch"
    BY <2>2, PromisedReplyIs
  <2> QED
    BY <2>1, <2>2
<1>2. /\ PromisedReply = [u \in Thread |-> PromisedReply[u]]
      /\ PromisedReply' = [u \in Thread |-> PromisedReply'[u]]
  BY PromisedReplyIs
<1> QED
  BY <1>1, <1>2

LEMMA CutsAre ==
  /\ (\A t \in Thread : pc[t] # "sweep") => Cuts = {}
  /\ (\A t \in Thread : pc'[t] # "sweep") => Cuts' = {}
  /\ \A t \in Thread :
       /\ pc[t] = "sweep" /\ (\A u \in Thread \ {t} : pc[u] # "sweep") => Cuts = {reg[t]}
       /\ pc'[t] = "sweep" /\ (\A u \in Thread \ {t} : pc'[u] # "sweep") => Cuts' = {reg'[t]}
BY DEF Cuts

(* A thread that holds the lock, and is neither evicting nor sweeping,     *)
(* finds the store of the promise in the containers.                       *)
LEMMA StoreSeen ==
  ASSUME IInv, NEW t \in Thread,
         pc[t] \in {"set", "del", "cleanup", "get", "touch", "exists", "size"}
  PROVE  /\ Cuts = {} /\ PromisedStore = RecordsOf(cache, lru)
         /\ Cardinality(DOMAIN cache) <= Capacity
         /\ Containers(cache, lru, lruMap)
<1>1. \A u \in Thread : pc[u] \notin {"evict", "sweep"}
  BY DEF IInv, LockDiscipline, Holds
<1>2. Cuts = {}
  BY <1>1, CutsAre
<1>3. Cardinality(DOMAIN cache) <= Capacity
  BY <1>1 DEF IInv, WithinCapacity
<1>4. Containers(cache, lru, lruMap)
  BY InvariantContents, ContentsAreContainers
<1>5. StoreOf(cache, lru, {}) = RecordsOf(cache, lru)
  BY <1>3, <1>4, StoreWhole
<1> QED
  BY <1>2, <1>3, <1>4, <1>5, PromisedStoreIs

-----------------------------------------------------------------------------
(* Each step of LRUCache is a step of BoundedStore, or none.               *)

(* The operators that the instance of BoundedStore brings are those of     *)
(* CacheOps.                                                               *)
LEMMA SameOperators ==
  /\ \A s, I : Abstract!Keep(s, I) = Keep(s, I)
  /\ \A s, k : Abstract!Without(s, k) = Without(s, k)
  /\ \A s, t : Abstract!Unexpired(s, t) = Unexpired(s, t)
  /\ \A s, e : Abstract!Put(s, e) = Put(s, e)
  /\ \A s, k, t : Abstract!Found(s, k, t) = Found(s, k, t)
  /\ \A s, k, t, n : Abstract!Lookup(s, k, t, n) = Lookup(s, k, t, n)
  /\ \A t, ttl : Abstract!ExpireTime(t, ttl) = ExpireTime(t, ttl)
<1>1. \A s, I : Abstract!Keep(s, I) = Keep(s, I)
  BY DEF Abstract!Keep, Keep
<1>2. \A s, k : Abstract!Without(s, k) = Without(s, k)
  BY <1>1 DEF Abstract!Without, Without
<1>3. \A s, t : Abstract!Unexpired(s, t) = Unexpired(s, t)
  BY <1>1 DEF Abstract!Unexpired, Unexpired, Abstract!Expired, Expired
<1>4. \A s, e : Abstract!Put(s, e) = Put(s, e)
  BY <1>2 DEF Abstract!Put, Put, Abstract!Newest, Newest
<1>5. \A s, k, t : Abstract!Found(s, k, t) = Found(s, k, t)
  BY DEF Abstract!Found, Found, Abstract!Expired, Expired
<1>6. \A s, k, t, n : Abstract!Lookup(s, k, t, n) = Lookup(s, k, t, n)
  BY DEF Abstract!Lookup, Lookup, Abstract!Found, Found, Abstract!Expired, Expired
<1>7. \A t, ttl : Abstract!ExpireTime(t, ttl) = ExpireTime(t, ttl)
  BY DEF Abstract!ExpireTime, ExpireTime
<1> QED
  BY <1>1, <1>2, <1>3, <1>4, <1>5, <1>6, <1>7

Refines == [Abstract!Next]_<<PromisedStore, PromisedReply, now>>

LEMMA CutsKept ==
  ASSUME NEW t \in Thread, pc[t] # "sweep", pc'[t] # "sweep",
         \A u \in Thread \ {t} : pc'[u] = pc[u] /\ reg'[u] = reg[u]
  PROVE  Cuts' = Cuts
BY DEF Cuts

LEMMA FirstAnswer ==
  ASSUME Replies, Replies', NEW t \in Thread, NEW op, NEW v,
         pc[t] \notin {"touch", "return"},
         PromisedReply'[t] = [op |-> op, val |-> v],
         \A u \in Thread \ {t} :
            /\ pc'[u] = pc[u] /\ call'[u] = call[u] /\ reply'[u] = reply[u]
            /\ pc[u] = "touch" => cache'[call[u].key].val = cache[call[u].key].val
  PROVE  Abstract!Answer(t, op, v)
<1>1. PromisedReply' = [PromisedReply EXCEPT ![t] = [op |-> op, val |-> v]]
  BY OthersKept
<1>2. PromisedReply[t] = NoReply
  <2>1. reply[t] = NoReply
    BY DEF Replies
  <2>2. PromisedReply[t] = IF reply[t].op = "hit_rate" THEN NoReply ELSE reply[t]
    BY PromisedReplyIs
  <2> QED
    BY <2>1, <2>2
<1> QED
  BY <1>1, <1>2 DEF Abstract!Answer, Abstract!NoReply, NoReply

LEMMA LookupIs ==
  ASSUME NEW c, NEW l, NEW m, Containers(c, l, m), NEW k, NEW t, NEW none
  PROVE  /\ Found(RecordsOf(c, l), k, t) # {} <=> k \in DOMAIN c /\ ~Expired(c[k], t)
         /\ Lookup(RecordsOf(c, l), k, t, none) =
              IF k \in DOMAIN c /\ ~Expired(c[k], t) THEN c[k].val ELSE none
<1> DEFINE s == RecordsOf(c, l)
           F == Found(s, k, t)
<1>1. /\ s \in Seq(Record) /\ Len(s) = Len(l)
      /\ \A i \in 1 .. Len(l) : l[i].key \in DOMAIN c /\ s[i] = RecordOf(c, l[i].key)
      /\ \A x \in DOMAIN c : \E i \in 1 .. Len(l) : l[i].key = x
  BY RecordsProperties
<1>2. DOMAIN s = 1 .. Len(l)
  BY <1>1, LenProperties
<1> HIDE DEF s
<1>3. \A i \in 1 .. Len(l) : /\ s[i].key = l[i].key /\ s[i].val = c[l[i].key].val
                             /\ s[i].exp = c[l[i].key].exp
  BY <1>1, RecordFields
<1>4. \A i : i \in F <=> i \in 1 .. Len(l) /\ l[i].key = k /\ ~Expired(c[k], t)
  BY <1>2, <1>3 DEF Found, Expired
<1>5. F # {} <=> k \in DOMAIN c /\ ~Expired(c[k], t)
  <2> HIDE DEF F
  <2>1. CASE k \in DOMAIN c
    <3>1. PICK i \in 1 .. Len(l) : l[i].key = k
      BY <1>1, <2>1
    <3> QED
      BY <1>4, <2>1, <3>1
  <2>2. CASE k \notin DOMAIN c
    BY <1>1, <1>4, <2>2
  <2> QED
    BY <2>1, <2>2
<1>6. F # {} => s[CHOOSE i \in F : TRUE].val = c[k].val
  <2> SUFFICES ASSUME F # {}
               PROVE  s[CHOOSE i \in F : TRUE].val = c[k].val
    OBVIOUS
  <2> DEFINE j == CHOOSE i \in F : TRUE
  <2>1. j \in F
    OBVIOUS
  <2> HIDE DEF j, F
  <2>2. j \in 1 .. Len(l) /\ l[j].key = k
    BY <1>4, <2>1
  <2>3. s[j].val = c[k].val
    BY <1>3, <2>2
  <2> QED
    BY <2>3 DEF j
<1>7. Lookup(s, k, t, none) = IF k \in DOMAIN c /\ ~Expired(c[k], t) THEN c[k].val ELSE none
  BY <1>5, <1>6 DEF Lookup
<1> QED
  BY <1>5, <1>7 DEF s

(* Calling a method, and the steps of hit_rate, change nothing.            *)
LEMMA QuietRefines ==
  ASSUME IInv, Replies, Replies', NEW t \in Thread,
         LockUnique(t) \/ LockShared(t) \/ CallHitRate(t) \/ LoadHits(t) \/ LoadMisses(t)
  PROVE  Refines
<1>1. /\ UNCHANGED <<cache, lru, now>>
      /\ pc[t] \notin {"sweep", "touch", "return"} /\ pc'[t] \notin {"sweep", "touch"}
      /\ \A u \in Thread \ {t} : /\ pc'[u] = pc[u] /\ call'[u] = call[u]
                                 /\ reply'[u] = reply[u] /\ reg'[u] = reg[u]
  <2>1. CASE LockUnique(t) \/ LockShared(t) \/ CallHitRate(t)
    <3>1. PICK c \in Call :
             /\ c.op \in AllMethods /\ pc[t] = "idle"
             /\ call' = [call EXCEPT ![t] = c] /\ pc' = [pc EXCEPT ![t] = c.op]
             /\ UNCHANGED <<cache, lru, now, reply, reg>>
      BY <2>1, MethodsAssumption
      DEF LockUnique, LockShared, CallHitRate, Enter, contents, Call
    <3> QED
      BY <3>1 DEF IInv, Types, AllMethods
  <2>2. CASE LoadHits(t) \/ LoadMisses(t)
    BY <2>2 DEF LoadHits, LoadMisses, Answer, Goto, contents, IInv, Types, Replies
  <2> QED
    BY <2>1, <2>2
<1>2. Cuts' = Cuts
  BY <1>1, CutsKept
<1>3. PromisedStore' = PromisedStore
  BY <1>1, <1>2, PromisedStoreIs
<1>4. PromisedReply'[t] = PromisedReply[t]
  <2>1. reply'[t] = reply[t] \/ reply'[t].op = "hit_rate"
    BY DEF LockUnique, LockShared, CallHitRate, LoadHits, LoadMisses, Enter, Answer, IInv,
           LockDiscipline, Holds, Replies
  <2>2. reply[t] = NoReply
    BY <1>1 DEF Replies
  <2> QED
    BY <1>1, <2>1, <2>2, PromisedReplyIs DEF NoReply
<1>5. PromisedReply' = PromisedReply
  <2>1. PromisedReply' = [PromisedReply EXCEPT ![t] = PromisedReply'[t]]
    BY <1>1, OthersKept
  <2>2. PromisedReply = [u \in Thread |-> PromisedReply[u]]
    BY PromisedReplyIs
  <2> QED
    BY <1>4, <2>1, <2>2
<1> QED
  BY <1>1, <1>3, <1>5 DEF Refines

(* The reading methods answer what the store of the promise holds.         *)
LEMMA ReadingRefines ==
  ASSUME IInv, Replies, Replies', NEW t \in Thread,
         GetMiss(t) \/ GetHit(t) \/ Exists(t) \/ Size(t)
  PROVE  Refines
<1> DEFINE k == call[t].key
<1>1. /\ pc[t] \in {"get", "exists", "size"} /\ pc'[t] \in {"touch", "return"}
      /\ UNCHANGED <<cache, lru, now, call>>
      /\ \A u \in Thread \ {t} : /\ pc'[u] = pc[u] /\ reply'[u] = reply[u] /\ reg'[u] = reg[u]
  BY DEF GetMiss, GetHit, Exists, Size, Answer, Goto, contents, IInv, Types, Replies
<1>2. /\ Cuts = {} /\ PromisedStore = RecordsOf(cache, lru)
      /\ Containers(cache, lru, lruMap)
  BY <1>1, StoreSeen
<1>3. PromisedStore' = PromisedStore
  <2>1. Cuts' = Cuts
    BY <1>1, CutsKept
  <2> QED
    BY <1>1, <2>1, PromisedStoreIs
<1>4. /\ Found(PromisedStore, k, now) # {} <=> Live(k)
      /\ Lookup(PromisedStore, k, now, Nil) = IF Live(k) THEN cache[k].val ELSE Nil
  BY <1>2, LookupIs DEF Live
<1>5. /\ call[t].op = pc[t]
      /\ pc[t] \in {"get", "exists"} => k \in Key
  BY <1>1, CallFields DEF IInv, Types, LockDiscipline, Holds
<1> HIDE DEF k
<1>6. ASSUME NEW op, NEW v, PromisedReply'[t] = [op |-> op, val |-> v]
      PROVE  Abstract!Answer(t, op, v)
  BY <1>1, <1>6, FirstAnswer
<1>7. CASE GetMiss(t) \/ GetHit(t)
  <2>1. PromisedReply'[t] = [op |-> "get", val |-> Lookup(PromisedStore, k, now, Nil)]
    <3>1. CASE GetMiss(t)
      <4>1. pc'[t] = "return" /\ reply'[t] = [op |-> "get", val |-> Nil] /\ ~Live(k)
        BY <1>1, <1>5, <3>1 DEF GetMiss, Answer, Goto, IInv, Types, Replies, k
      <4>2. PromisedReply'[t] = reply'[t]
        BY <4>1, PromisedReplyIs
      <4> QED
        BY <1>4, <4>1, <4>2
    <3>2. CASE GetHit(t)
      <4>1. pc'[t] = "touch" /\ Live(k)
        BY <3>2 DEF GetHit, Goto, IInv, Types, k
      <4>2. PromisedReply'[t] = [op |-> "get", val |-> cache[k].val]
        BY <1>1, <4>1, PromisedReplyIs DEF k
      <4> QED
        BY <1>4, <4>1, <4>2
    <3> QED
      BY <1>7, <3>1, <3>2
  <2>2. k \in Key
    BY <1>5, <1>7 DEF GetMiss, GetHit
  <2>3. Abstract!Answer(t, "get", Lookup(PromisedStore, k, now, Nil))
    BY <1>6, <2>1
  <2>4. Abstract!Get(t, k)
    BY <1>1, <1>3, <2>3, SameOperators DEF Abstract!Get
  <2> QED
    BY <2>2, <2>4 DEF Refines, Abstract!Next
<1>8. CASE Exists(t)
  <2>1. pc'[t] = "return" /\ reply'[t] = [op |-> "exists", val |-> Live(k)] /\ k \in Key
    BY <1>1, <1>5, <1>8 DEF Exists, Answer, Goto, IInv, Types, Replies, k
  <2>2. PromisedReply'[t] = [op |-> "exists", val |-> Live(k)]
    BY <2>1, PromisedReplyIs
  <2>3. Live(k) = (Found(PromisedStore, k, now) # {})
    BY <1>4 DEF Live
  <2>4. Abstract!Answer(t, "exists", Found(PromisedStore, k, now) # {})
    BY <1>6, <2>2, <2>3
  <2>5. Abstract!Exists(t, k)
    BY <1>1, <1>3, <2>4, SameOperators DEF Abstract!Exists
  <2> QED
    BY <2>1, <2>5 DEF Refines, Abstract!Next
<1>9. CASE Size(t)
  <2>1. pc'[t] = "return" /\ reply'[t] = [op |-> "size", val |-> Cardinality(DOMAIN cache)]
    BY <1>1, <1>5, <1>9 DEF Size, Answer, Goto, IInv, Types, Replies
  <2>2. PromisedReply'[t] = [op |-> "size", val |-> Cardinality(DOMAIN cache)]
    BY <2>1, PromisedReplyIs
  <2>3. Cardinality(DOMAIN cache) = Len(PromisedStore)
    BY <1>2, RecordsProperties
  <2>4. Abstract!Answer(t, "size", Len(PromisedStore))
    BY <1>6, <2>2, <2>3
  <2>5. Abstract!Size(t)
    BY <1>1, <1>3, <2>4 DEF Abstract!Size
  <2> QED
    BY <2>5 DEF Refines, Abstract!Next
<1> QED
  BY <1>7, <1>8, <1>9

(* The answer of a get that hits is the one it had when it found the entry. *)
LEMMA TouchRefines ==
  ASSUME IInv, Replies, Replies', NEW t \in Thread, Touch(t)
  PROVE  Refines
<1> DEFINE k == call[t].key
<1>1. /\ pc[t] = "touch" /\ pc'[t] = "return" /\ call[t].op = "get"
      /\ UNCHANGED <<lru, now, call>>
      /\ cache' = [cache EXCEPT ![k].used = now]
      /\ reply'[t] = [op |-> "get", val |-> cache[k].val]
      /\ \A u \in Thread \ {t} : /\ pc'[u] = pc[u] /\ reply'[u] = reply[u] /\ reg'[u] = reg[u]
  BY DEF Touch, Answer, Goto, IInv, Types, Replies, LockDiscipline, Holds
<1>2. /\ DOMAIN cache' = DOMAIN cache
      /\ \A x \in DOMAIN cache : cache'[x].val = cache[x].val /\ cache'[x].exp = cache[x].exp
  BY <1>1 DEF IInv, Types, Entry
<1>3. Containers(cache, lru, lruMap)
  BY InvariantContents, ContentsAreContainers
<1>4. RecordsOf(cache', lru') = RecordsOf(cache, lru)
  <2>1. DOMAIN lru = 1 .. Len(lru)
    BY <1>3, LenProperties DEF Containers
  <2>2. ASSUME NEW i \in DOMAIN lru
        PROVE  RecordOf(cache', lru[i].key) = RecordOf(cache, lru[i].key)
    <3>1. lru[i].key \in DOMAIN cache
      BY <1>3, <2>1, RecordsProperties
    <3> QED
      BY <1>2, <3>1 DEF RecordOf
  <2> QED
    BY <1>1, <2>2 DEF RecordsOf
<1>5. PromisedStore' = PromisedStore
  <2>1. Cuts' = Cuts
    BY <1>1, CutsKept
  <2> QED
    BY <1>1, <1>4, <2>1, PromisedStoreIs DEF StoreOf, Alive
<1>6. PromisedReply' = PromisedReply
  <2>1. PromisedReply'[t] = PromisedReply[t]
    BY <1>1, PromisedReplyIs
  <2>2. \A u \in Thread : pc[u] = "touch" => call[u].key \in DOMAIN cache
    BY DEF IInv, TouchedKeyPresent
  <2> HIDE DEF k
  <2>3. PromisedReply' = [PromisedReply EXCEPT ![t] = PromisedReply'[t]]
    BY <1>1, <1>2, <2>2, OthersKept
  <2>4. PromisedReply = [u \in Thread |-> PromisedReply[u]]
    BY PromisedReplyIs
  <2> QED
    BY <2>1, <2>3, <2>4
<1> QED
  BY <1>1, <1>5, <1>6 DEF Refines

(* The methods that hold the lock alone.                                   *)

LEMMA WritersAreSilent ==
  ASSUME IInv, Replies, Replies', NEW t \in Thread,
         pc[t] \in {"set", "evict", "del", "cleanup", "sweep"}, pc'[t] # "touch",
         UNCHANGED <<call, reply>>, \A u \in Thread \ {t} : pc'[u] = pc[u]
  PROVE  PromisedReply' = PromisedReply
<1>1. \A u \in Thread \ {t} : pc[u] # "touch"
  BY ExclusiveSection
<1>2. PromisedReply' = [PromisedReply EXCEPT ![t] = PromisedReply'[t]]
  BY <1>1, OthersKept
<1>3. PromisedReply'[t] = PromisedReply[t]
  BY PromisedReplyIs
<1>4. PromisedReply = [u \in Thread |-> PromisedReply[u]]
  BY PromisedReplyIs
<1> QED
  BY <1>2, <1>3, <1>4

LEMMA ForgetLoses ==
  ASSUME ContentsOK, NEW k \in DOMAIN cache, Forget(k)
  PROVE  /\ Containers(cache, lru, lruMap) /\ Containers(cache', lru', lruMap')
         /\ \E p \in 1 .. Len(lru) : lru[p].key = k /\ Loses(cache, lru, p, cache', lru')
<1>1. /\ Linked(DOMAIN cache, lru, lruMap) /\ lru \in Seq(ListNode)
      /\ k \in DOMAIN lruMap
  BY AgreeIsLinked DEF ContentsOK, ContentsTypeOK, Linked
<1>2. PICK p \in 1 .. Len(lru) : lru[p].key = k /\ Unlinked(k) = RemoveAt(lru, p)
  BY <1>1, UnlinkedPlace
<1>3. DOMAIN cache' = DOMAIN cache \ {k} /\ \A x \in DOMAIN cache' : cache'[x] = cache[x]
  BY DEF Forget, Drop, Restrict
<1>4. /\ Len(lru') = Len(lru) - 1
      /\ \A i \in 1 .. Len(lru) - 1 : lru'[i] = IF i < p THEN lru[i] ELSE lru[i + 1]
  BY <1>1, <1>2, RemoveAtProperties DEF Forget
<1>5. Loses(cache, lru, p, cache', lru')
  BY <1>2, <1>3, <1>4 DEF Loses
<1>6. ContentsOK'
  BY ForgetKeepsContents
<1> QED
  BY <1>2, <1>5, <1>6, ContentsAreContainers

LEMMA DelRefines ==
  ASSUME IInv, IInv', Replies, Replies', NEW t \in Thread, Del(t)
  PROVE  Refines
<1> DEFINE k == call[t].key
<1>1. /\ pc[t] = "del" /\ pc'[t] = "return" /\ call[t].op = "del" /\ k \in Key
      /\ UNCHANGED <<call, reply, now>>
      /\ \A u \in Thread \ {t} : pc'[u] = pc[u] /\ reg'[u] = reg[u]
  BY CallFields DEF Del, Goto, IInv, Types, LockDiscipline, Holds
<1>2. PromisedReply' = PromisedReply
  BY <1>1, WritersAreSilent
<1>3. /\ Cuts = {} /\ PromisedStore = RecordsOf(cache, lru)
      /\ Containers(cache, lru, lruMap)
  BY <1>1, StoreSeen
<1> HIDE DEF k
<1>4. RecordsOf(cache', lru') = Without(RecordsOf(cache, lru), k)
  <2>1. CASE k \in DOMAIN cache
    <3>1. Forget(k)
      BY <2>1 DEF Del, k
    <3>2. ContentsOK
      BY InvariantContents
    <3>3. PICK p \in 1 .. Len(lru) : lru[p].key = k /\ Loses(cache, lru, p, cache', lru')
      BY <2>1, <3>1, <3>2, ForgetLoses
    <3>4. Containers(cache', lru', lruMap')
      BY <2>1, <3>1, <3>2, ForgetLoses
    <3> QED
      BY <1>3, <3>3, <3>4, LostWithout
  <2>2. CASE k \notin DOMAIN cache
    <3>1. cache' = cache /\ lru' = lru
      BY <2>2 DEF Del, contents, k
    <3> QED
      BY <1>3, <2>2, <3>1, NothingWithout
  <2> QED
    BY <2>1, <2>2
<1>5. PromisedStore' = RecordsOf(cache', lru')
  <2>1. Cuts' = {}
    BY <1>1, <1>3, CutsKept
  <2>2. \A u \in Thread : pc'[u] # "evict"
    BY <1>1, ExclusiveSection
  <2>3. Cardinality(DOMAIN cache') <= Capacity
    BY <2>2 DEF IInv, WithinCapacity
  <2>4. Containers(cache', lru', lruMap')
    BY ContentsAreContainers DEF IInv, Types, ContentsOK, ContentsTypeOK
  <2>5. StoreOf(cache', lru', {}) = RecordsOf(cache', lru')
    BY <2>3, <2>4, StoreWhole
  <2> QED
    BY <2>1, <2>5, PromisedStoreIs
<1>6. Abstract!Del(k)
  BY <1>1, <1>2, <1>3, <1>4, <1>5, SameOperators DEF Abstract!Del
<1> QED
  BY <1>1, <1>6 DEF Refines, Abstract!Next

(* A set takes effect when it stores its entry; what it evicts after that  *)
(* is no longer in the store of the promise.                               *)
LEMMA SetStoreRefines ==
  ASSUME IInv, IInv', Replies, Replies', NEW t \in Thread, SetStore(t)
  PROVE  Refines
<1> DEFINE k == call[t].key
           e == [val |-> call[t].val, exp |-> ExpireTime(now, call[t].ttl), used |-> now]
           y == [key |-> k, val |-> e.val, exp |-> e.exp]
           rest == IF k \in DOMAIN lruMap THEN Unlinked(k) ELSE lru
           c == Drop(cache, k)
           s == RecordsOf(cache, lru)
<1>1. /\ pc[t] = "set" /\ pc'[t] = "evict" /\ call[t].op = "set"
      /\ UNCHANGED <<call, reply, now>>
      /\ \A u \in Thread \ {t} : pc'[u] = pc[u] /\ reg'[u] = reg[u]
  BY DEF SetStore, Goto, IInv, Types, LockDiscipline, Holds
<1>2. k \in Key /\ call[t].val \in Value /\ call[t].ttl \in TTL
  BY <1>1, CallFields DEF IInv, Types
<1>3. e \in Entry
  <2>1. call[t].ttl \in Int /\ now \in Nat
    BY <1>2, TTLAssumption DEF IInv, Types
  <2> QED
    BY <1>2, <2>1, DefaultTTLAssumption DEF ExpireTime, Entry
<1>4. PromisedReply' = PromisedReply
  BY <1>1, WritersAreSilent
<1>5. /\ Cuts = {} /\ PromisedStore = s /\ Containers(cache, lru, lruMap)
  BY <1>1, StoreSeen
<1>6. DOMAIN c = DOMAIN cache \ {k} /\ \A x \in DOMAIN c : c[x] = cache[x]
  BY DEF Drop, Restrict
<1>7. PICK n \in Node : lru' = <<[node |-> n, key |-> k]>> \o rest
  BY DEF SetStore
<1>8. cache'[k] = e /\ \A x \in DOMAIN c : cache'[x] = c[x]
  BY <1>6 DEF SetStore, Bind
<1> HIDE DEF k, e, rest, c, s
<1>9. \E m : Containers(c, rest, m) /\ RecordsOf(c, rest) = Without(s, k)
  <2>1. CASE k \in DOMAIN lruMap
    <3>1. k \in DOMAIN cache /\ Linked(DOMAIN cache, lru, lruMap) /\ lru \in Seq(ListNode)
      BY <1>5, <2>1 DEF Containers, Linked
    <3>2. PICK p \in 1 .. Len(lru) : lru[p].key = k /\ Unlinked(k) = RemoveAt(lru, p)
      BY <2>1, <3>1, UnlinkedPlace
    <3>3. rest \in Seq(ListNode) /\ Linked(DOMAIN cache \ {k}, rest, Drop(lruMap, k))
      BY <2>1, <3>1, UnlinkedKey DEF rest
    <3>4. Containers(c, rest, Drop(lruMap, k))
      BY <1>5, <1>6, <3>3 DEF Containers
    <3>5. Loses(cache, lru, p, c, rest)
      <4>1. /\ Len(rest) = Len(lru) - 1
            /\ \A i \in 1 .. Len(lru) - 1 : rest[i] = IF i < p THEN lru[i] ELSE lru[i + 1]
        <5>1. rest = RemoveAt(lru, p)
          BY <2>1, <3>2 DEF rest
        <5> QED
          BY <3>1, <5>1, RemoveAtProperties
      <4>2. DOMAIN c = DOMAIN cache \ {lru[p].key} /\ \A x \in DOMAIN c : c[x] = cache[x]
        BY <1>6, <3>2
      <4> QED
        BY <4>1, <4>2 DEF Loses
    <3>6. RecordsOf(c, rest) = Without(s, k)
      BY <1>5, <3>2, <3>4, <3>5, LostWithout DEF s
    <3> QED
      BY <3>4, <3>6
  <2>2. CASE k \notin DOMAIN lruMap
    <3>1. k \notin DOMAIN cache /\ rest = lru
      BY <1>5, <2>2 DEF Containers, Linked, rest
    <3>2. DOMAIN c = DOMAIN cache
      BY <1>6, <3>1
    <3>3. Containers(c, lru, lruMap)
      BY <1>5, <1>6, <3>2 DEF Containers
    <3>4. RecordsOf(c, lru) = RecordsOf(cache, lru)
      <4>1. \A i \in DOMAIN lru : lru[i].key \in DOMAIN cache
        BY <1>5 DEF Containers, Linked
      <4>2. \A i \in DOMAIN lru : RecordOf(c, lru[i].key) = RecordOf(cache, lru[i].key)
        BY <1>6, <3>2, <4>1 DEF RecordOf
      <4> QED
        BY <4>2 DEF RecordsOf
    <3> QED
      BY <1>5, <3>1, <3>3, <3>4, NothingWithout DEF s
  <2> QED
    BY <2>1, <2>2
<1>10. Containers(cache', lru', lruMap')
  BY ContentsAreContainers DEF IInv, Types, ContentsOK, ContentsTypeOK
<1>11. RecordsOf(cache', lru') = <<y>> \o Without(s, k)
  <2>1. PICK m : Containers(c, rest, m) /\ RecordsOf(c, rest) = Without(s, k)
    BY <1>9
  <2>2. k \in Key \ DOMAIN c
    BY <1>2, <1>6
  <2>3. Containers(cache', <<[node |-> n, key |-> k]>> \o rest, lruMap')
    BY <1>7, <1>10
  <2>4. RecordsOf(cache', <<[node |-> n, key |-> k]>> \o rest) = <<y>> \o RecordsOf(c, rest)
    BY <1>3, <1>8, <2>1, <2>2, <2>3, PushedRecord
  <2> QED
    BY <1>7, <2>1, <2>4
<1>12. PromisedStore' = Put(PromisedStore, y)
  <2>1. Cuts' = {}
    BY <1>1, <1>5, CutsKept
  <2>2. StoreOf(cache', lru', {}) = Newest(RecordsOf(cache', lru'), Capacity)
    BY <1>10, StoreWhole
  <2>3. y.key = k
    OBVIOUS
  <2> HIDE DEF y
  <2> QED
    BY <1>5, <1>11, <2>1, <2>2, <2>3, PromisedStoreIs DEF Put
<1>13. y = [key |-> k, val |-> call[t].val, exp |-> ExpireTime(now, call[t].ttl)]
  BY DEF e
<1> HIDE DEF y
<1>14. Abstract!Set(k, call[t].val, call[t].ttl)
  BY <1>1, <1>4, <1>12, <1>13, SameOperators DEF Abstract!Set
<1> QED
  BY <1>2, <1>14 DEF Refines, Abstract!Next

(* A cleanup takes effect when it reads the clock. *)
LEMMA SweepStartRefines ==
  ASSUME IInv, IInv', Replies, Replies', NEW t \in Thread, SweepStart(t)
  PROVE  Refines
<1> DEFINE s == RecordsOf(cache, lru)
           I == {i \in DOMAIN s : ~Expired(s[i], now)}
<1>1. /\ pc[t] = "cleanup" /\ pc'[t] = "sweep" /\ reg'[t] = now
      /\ UNCHANGED <<cache, lru, call, reply, now>>
      /\ \A u \in Thread \ {t} : pc'[u] = pc[u] /\ reg'[u] = reg[u]
  BY DEF SweepStart, Goto, IInv, Types, contents
<1>2. PromisedReply' = PromisedReply
  BY <1>1, WritersAreSilent
<1>3. /\ PromisedStore = s /\ Containers(cache, lru, lruMap)
      /\ Cardinality(DOMAIN cache) <= Capacity
  BY <1>1, StoreSeen
<1>4. Cuts' = {now}
  <2>1. \A u \in Thread \ {t} : pc'[u] # "sweep"
    BY <1>1, ExclusiveSection
  <2> QED
    BY <1>1, <2>1, CutsAre
<1>5. Alive(cache, lru, {now}) = I
  BY DEF Alive, RecordsOf
<1>6. s \in Seq(Record) /\ Len(s) <= Capacity
  BY <1>3, RecordsProperties
<1> HIDE DEF s
<1>7. Newest(Keep(s, I), Capacity) = Keep(s, I)
  <2>1. Keep(s, I) \in Seq(Record) /\ Len(Keep(s, I)) <= Len(s)
    BY <1>6, KeepProperties, KeepShorter
  <2>2. Len(Keep(s, I)) \in Nat /\ Len(s) \in Nat
    BY <1>6, <2>1, LenProperties
  <2> HIDE DEF I
  <2>3. Len(Keep(s, I)) <= Capacity
    BY <1>6, <2>1, <2>2, CapacityAssumption
  <2> QED
    BY <2>1, <2>3, CapacityAssumption, NewestAll
<1>8. PromisedStore' = Unexpired(PromisedStore, now)
  <2>1. PromisedStore' = StoreOf(cache, lru, {now})
    BY <1>1, <1>4, PromisedStoreIs
  <2>2. StoreOf(cache, lru, {now}) = Newest(Keep(s, I), Capacity)
    BY <1>5 DEF StoreOf, s
  <2> QED
    BY <1>3, <1>7, <2>1, <2>2 DEF Unexpired
<1>9. Abstract!Cleanup
  BY <1>1, <1>2, <1>8, SameOperators DEF Abstract!Cleanup
<1> QED
  BY <1>9 DEF Refines, Abstract!Next

(* The sweep takes out entries that the promised store holds no more.      *)
LEMMA SweepRefines ==
  ASSUME IInv, IInv', Replies, Replies', NEW t \in Thread, Sweep(t)
  PROVE  Refines
<1>1. /\ pc[t] = "sweep" /\ UNCHANGED <<pc, call, reg, reply, now>>
      /\ \E k \in Doomed(reg[t]) : Forget(k)
  BY DEF Sweep
<1>2. PICK k \in DOMAIN cache : Expired(cache[k], reg[t]) /\ Forget(k)
  BY <1>1 DEF Doomed
<1>3. PromisedReply' = PromisedReply
  BY <1>1, WritersAreSilent
<1>4. Cuts = {reg[t]} /\ Cuts' = Cuts
  <2>1. \A u \in Thread \ {t} : pc[u] # "sweep"
    BY <1>1, ExclusiveSection
  <2> QED
    BY <1>1, <2>1, CutsAre
<1>5. ContentsOK
  BY InvariantContents
<1>6. /\ Containers(cache, lru, lruMap) /\ Containers(cache', lru', lruMap')
      /\ \E p \in 1 .. Len(lru) : lru[p].key = k /\ Loses(cache, lru, p, cache', lru')
  BY <1>2, <1>5, ForgetLoses
<1>7. PICK p \in 1 .. Len(lru) : lru[p].key = k /\ Loses(cache, lru, p, cache', lru')
  BY <1>6
<1>8. StoreOf(cache', lru', {reg[t]}) = StoreOf(cache, lru, {reg[t]})
  <2> DEFINE cuts == {reg[t]}
  <2>1. \E cut \in cuts : Expired(cache[lru[p].key], cut)
    BY <1>2, <1>7
  <2> HIDE DEF cuts
  <2>2. StoreOf(cache', lru', cuts) = StoreOf(cache, lru, cuts)
    BY <1>6, <1>7, <2>1, LostDead
  <2> QED
    BY <2>2 DEF cuts
<1>9. PromisedStore' = PromisedStore
  BY <1>4, <1>8, PromisedStoreIs
<1> QED
  BY <1>1, <1>3, <1>9 DEF Refines

(* So does the eviction loop: its victim is beyond the capacity.           *)
LEMMA EvictRefines ==
  ASSUME IInv, IInv', Replies, Replies', NEW t \in Thread, Evict(t)
  PROVE  Refines
<1> DEFINE s == RecordsOf(cache, lru)
           r == RecordsOf(cache', lru')
           p == Len(lru)
<1>1. /\ pc[t] = "evict" /\ UNCHANGED <<pc, call, reg, reply, now>>
      /\ Cardinality(DOMAIN cache) > Capacity
  BY DEF Evict
<1>2. PromisedReply' = PromisedReply
  BY <1>1, WritersAreSilent
<1>3. Cuts = {} /\ Cuts' = {}
  <2>1. \A u \in Thread : pc[u] # "sweep"
    BY <1>1, ExclusiveSection
  <2> QED
    BY <1>1, <2>1, CutsAre
<1>4. /\ Containers(cache, lru, lruMap) /\ Containers(cache', lru', lruMap')
      /\ lru # <<>>
  BY InvariantContents, EvictKeepsContents, ContentsAreContainers
<1>5. /\ lru' = Front(lru) /\ cache' = Drop(cache, Last(lru).key)
      /\ lru \in Seq(ListNode)
  BY <1>4 DEF Evict, Containers
<1>6. /\ Len(lru) \in Nat \ {0} /\ Len(lru') = Len(lru) - 1 /\ Last(lru) = lru[Len(lru)]
      /\ \A i \in 1 .. Len(lru) - 1 : lru'[i] = lru[i]
  BY <1>4, <1>5, FrontProperties
<1>7. p \in 1 .. Len(lru)
  BY <1>6
<1>8. DOMAIN cache' = DOMAIN cache \ {lru[p].key} /\ \A k \in DOMAIN cache' : cache'[k] = cache[k]
  BY <1>5, <1>6 DEF Drop, Restrict
<1>9. Loses(cache, lru, p, cache', lru')
  BY <1>6, <1>8 DEF Loses
<1> HIDE DEF p
<1>10. /\ s \in Seq(Record) /\ Len(s) = Len(lru) /\ Cardinality(DOMAIN cache) = Len(lru)
       /\ r \in Seq(Record) /\ Len(r) = Len(lru')
  BY <1>4, RecordsProperties
<1>11. \A i \in 1 .. Len(lru') : r[i] = IF i < p THEN s[i] ELSE s[i + 1]
  BY <1>4, <1>7, <1>9, LostRecord
<1> HIDE DEF s, r
<1>12. /\ Len(r) = Len(s) - 1 /\ Capacity <= Len(r)
       /\ \A i \in 1 .. Len(r) : r[i] = s[i]
  BY <1>1, <1>6, <1>10, <1>11, CapacityAssumption DEF p
<1>13. Newest(r, Capacity) = Newest(s, Capacity)
  BY <1>10, <1>12, CapacityAssumption, NewestOfFront
<1>14. StoreOf(cache, lru, {}) = Newest(s, Capacity)
  BY <1>4, StoreWhole DEF s
<1>15. StoreOf(cache', lru', {}) = Newest(r, Capacity)
  BY <1>4, StoreWhole DEF r
<1>16. PromisedStore' = PromisedStore
  BY <1>3, <1>13, <1>14, <1>15, PromisedStoreIs
<1> QED
  BY <1>1, <1>2, <1>16 DEF Refines

(* The end of a method delivers its answer; the end of a sweep finds the   *)
(* promised store in the containers.                                       *)
LEMMA ReturnRefines ==
  ASSUME IInv, IInv', Replies, Replies', NEW t \in Thread, Return(t)
  PROVE  Refines
<1>1. /\ UNCHANGED <<cache, lru, now>>
      /\ Finished(t) /\ pc'[t] = "idle" /\ reply'[t] = NoReply
      /\ \A u \in Thread \ {t} : /\ pc'[u] = pc[u] /\ call'[u] = call[u]
                                 /\ reply'[u] = reply[u] /\ reg'[u] = reg[u]
  BY DEF Return, contents, IInv, Types, Replies
<1>2. PromisedReply' = [PromisedReply EXCEPT ![t] = NoReply]
  <2>1. PromisedReply' = [PromisedReply EXCEPT ![t] = PromisedReply'[t]]
    BY <1>1, OthersKept
  <2>2. PromisedReply'[t] = NoReply
    BY <1>1, PromisedReplyIs
  <2> QED
    BY <2>1, <2>2
<1>3. PromisedStore' = PromisedStore
  <2>1. CASE pc[t] = "sweep"
    <3>1. Doomed(reg[t]) = {}
      BY <1>1, <2>1 DEF Finished
    <3>2. \A u \in Thread \ {t} : pc[u] # "sweep" /\ pc'[u] # "sweep"
      BY <1>1, <2>1, ExclusiveSection
    <3>3. Cuts = {reg[t]} /\ Cuts' = {}
      BY <1>1, <2>1, <3>2, CutsAre
    <3>4. Containers(cache, lru, lruMap)
      BY InvariantContents, ContentsAreContainers
    <3>5. \A k \in DOMAIN cache : \A cut \in {reg[t]} : ~Expired(cache[k], cut)
      BY <3>1 DEF Doomed
    <3>6. StoreOf(cache, lru, {reg[t]}) = Newest(RecordsOf(cache, lru), Capacity)
      BY <3>4, <3>5, StoreWhole
    <3>7. StoreOf(cache, lru, {}) = Newest(RecordsOf(cache, lru), Capacity)
      BY <3>4, StoreWhole
    <3> QED
      BY <1>1, <3>3, <3>6, <3>7, PromisedStoreIs
  <2>2. CASE pc[t] # "sweep"
    <3>1. Cuts' = Cuts
      BY <1>1, <2>2, CutsKept
    <3> QED
      BY <1>1, <3>1, PromisedStoreIs
  <2> QED
    BY <2>1, <2>2
<1>4. Abstract!Receive(t)
  BY <1>1, <1>2, <1>3 DEF Abstract!Receive, Abstract!NoReply, NoReply
<1> QED
  BY <1>4 DEF Refines, Abstract!Next

LEMMA TickRefines ==
  ASSUME Tick
  PROVE  Refines
<1>1. /\ now < MaxTime /\ now' = now + 1
      /\ UNCHANGED <<cache, lru, pc, call, reg, reply>>
  BY DEF Tick, contents
<1>2. Cuts' = Cuts /\ PromisedReply' = PromisedReply
  BY <1>1 DEF Cuts, PromisedReply
<1>3. PromisedStore' = PromisedStore
  BY <1>1, <1>2, PromisedStoreIs
<1>4. Abstract!Tick
  BY <1>1, <1>2, <1>3 DEF Abstract!Tick
<1> QED
  BY <1>4 DEF Refines, Abstract!Next

LEMMA StutterRefines ==
  ASSUME UNCHANGED vars
  PROVE  Refines
<1>1. UNCHANGED <<cache, lru, pc, call, reg, reply, now>>
  BY DEF vars, contents
<1>2. Cuts' = Cuts /\ PromisedReply' = PromisedReply
  BY <1>1 DEF Cuts, PromisedReply
<1>3. PromisedStore' = PromisedStore
  BY <1>1, <1>2, PromisedStoreIs
<1> QED
  BY <1>1, <1>2, <1>3 DEF Refines

LEMMA StepRefines == IInv /\ IInv' /\ Replies /\ Replies' /\ [Next]_vars => Refines
<1> SUFFICES ASSUME IInv, IInv', Replies, Replies', [Next]_vars
             PROVE  Refines
  OBVIOUS
<1>1. CASE UNCHANGED vars
  BY <1>1, StutterRefines
<1>2. CASE Tick
  BY <1>2, TickRefines
<1>3. ASSUME NEW t \in Thread,
             LockUnique(t) \/ LockShared(t) \/ CallHitRate(t) \/ LoadHits(t) \/ LoadMisses(t)
      PROVE  Refines
  BY <1>3, QuietRefines
<1>4. ASSUME NEW t \in Thread, GetMiss(t) \/ GetHit(t) \/ Exists(t) \/ Size(t)
      PROVE  Refines
  BY <1>4, ReadingRefines
<1>5. ASSUME NEW t \in Thread, Touch(t)
      PROVE  Refines
  BY <1>5, TouchRefines
<1>6. ASSUME NEW t \in Thread, SetStore(t) \/ Evict(t)
      PROVE  Refines
  BY <1>6, SetStoreRefines, EvictRefines
<1>7. ASSUME NEW t \in Thread, Del(t)
      PROVE  Refines
  BY <1>7, DelRefines
<1>8. ASSUME NEW t \in Thread, SweepStart(t) \/ Sweep(t)
      PROVE  Refines
  BY <1>8, SweepStartRefines, SweepRefines
<1>9. ASSUME NEW t \in Thread, Return(t)
      PROVE  Refines
  BY <1>9, ReturnRefines
<1> QED
  BY <1>1, <1>2, <1>3, <1>4, <1>5, <1>6, <1>7, <1>8, <1>9 DEF Next, Body

LEMMA InitRefines == Init => Replies /\ Abstract!Init
<1> SUFFICES ASSUME Init
             PROVE  Replies /\ Abstract!Init
  OBVIOUS
<1>1. Replies
  BY DEF Init, Replies
<1>2. PromisedReply = [t \in Thread |-> Abstract!NoReply]
  BY DEF Init, PromisedReply, NoReply, Abstract!NoReply
<1>3. PromisedStore = <<>>
  <2>1. lru = <<>> /\ DOMAIN lru = {} /\ lru \in Seq(Record)
    BY DEF Init
  <2>2. Entries = <<>>
    BY <2>1 DEF Entries
  <2>3. Keep(Entries, {i \in DOMAIN lru : \A cut \in Cuts : ~Expired(Entries[i], cut)}) = <<>>
    BY <2>1, <2>2 DEF Keep
  <2>4. Len(<<>>) <= Capacity /\ <<>> \in Seq(Record)
    BY CapacityAssumption
  <2>5. Newest(<<>>, Capacity) = <<>>
    BY <2>4, CapacityAssumption, NewestAll
  <2> QED
    BY <2>3, <2>5 DEF PromisedStore
<1> QED
  BY <1>1, <1>2, <1>3 DEF Abstract!Init, Init

(* The three containers behind their shared mutex, with the eviction loop, *)
(* the sweep and the access times written under the shared lock, are to    *)
(* their callers one bounded store whose methods are atomic: for any       *)
(* number of threads, keys and calls, any capacity and any TTLs.           *)
THEOREM BehavesAsBoundedStore == Spec => ImplementsBoundedStore
<1>1. Init => Replies /\ Abstract!Init
  BY InitRefines
<1>2. IInv /\ Replies /\ [Next]_vars => Replies'
  BY RepliesStep
<1>3. IInv /\ IInv' /\ Replies /\ Replies' /\ [Next]_vars
        => [Abstract!Next]_<<PromisedStore, PromisedReply, now>>
  BY StepRefines DEF Refines
<1>4. IInv /\ IInv' /\ Replies /\ Replies' /\ [Next]_vars => [Abstract!Next]_(Abstract!vars)
  BY <1>3 DEF Abstract!vars
<1> QED
  BY <1>1, <1>2, <1>4, Invariant, PTL DEF Spec, ImplementsBoundedStore, Abstract!Spec
=============================================================================
