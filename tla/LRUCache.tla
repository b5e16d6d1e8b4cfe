------------------------------ MODULE LRUCache ------------------------------
(***************************************************************************)
(* src/storage/LRUCache.cpp: a map from keys to entries (cache_), a list   *)
(* of keys in recency order (lru_), and a map from keys to iterators into  *)
(* that list (lru_map_), all under one std::shared_mutex, with two atomic  *)
(* counters that are updated under the shared lock and read without it.    *)
(*                                                                         *)
(* Threads call the methods concurrently.  A method is a lock acquisition  *)
(* followed by the steps of its body; the last step releases the lock.     *)
(* An iterator is the list node it designates, so that erasing through a   *)
(* stale iterator is visible; the allocator may reuse any free node.       *)
(***************************************************************************)
EXTENDS CacheOps, SequencesExt

CONSTANTS Thread, Key, Value, TTL, Nil,
          Node,          \* the addresses of list nodes
          Methods,       \* the methods the threads call
          MaxTime,       \* bound on the clock
          MaxLookups     \* bound on hits_ + misses_

ASSUME TTLAssumption == TTL \subseteq Int
ASSUME NodeAssumption == IsFiniteSet(Node) => Cardinality(Node) > Capacity

VARIABLES cache,              \* cache_
          lru,                \* lru_, front first
          lruMap,             \* lru_map_
          hits, misses,       \* hits_, misses_
          writers, readers,   \* the exclusive and the shared holders of mtx_
          pc, call,           \* per thread: where it is, in which call
          reg,                \* per thread: its one local of interest
          reply,              \* per thread: the answer of the call it is in
          now                 \* std::chrono::steady_clock

contents == <<cache, lru, lruMap>>
stats == <<hits, misses>>
mutex == <<writers, readers>>
vars == <<contents, stats, mutex, pc, call, reg, reply, now>>

AllMethods == {"set", "get", "exists", "del", "cleanup", "size", "hit_rate"}

ASSUME MethodsAssumption == Methods \subseteq AllMethods

Call == [op : {"set"}, key : Key, val : Value, ttl : TTL]
          \cup [op : {"get", "exists", "del"}, key : Key]
          \cup [op : {"cleanup", "size", "hit_rate"}]

NoCall == [op |-> "none"]
NoReply == [op |-> "none", val |-> Nil]

ListNode == [node : Node, key : Key]

-----------------------------------------------------------------------------
(* Calls and locks.                                                        *)

Enter(t, c) ==
  /\ pc[t] = "idle"
  /\ c.op \in Methods
  /\ call' = [call EXCEPT ![t] = c]
  /\ pc' = [pc EXCEPT ![t] = c.op]
  /\ UNCHANGED <<contents, stats, reg, reply, now>>

(* Mutant: the lock is taken beside readers, as std::shared_lock would. *)
LockUniqueBesideReaders(t) ==
  \E c \in Call :
    /\ c.op \in {"set", "del", "cleanup"}
    /\ Enter(t, c)
    /\ writers = {}
    /\ writers' = {t}
    /\ UNCHANGED readers

(* std::unique_lock lock(mtx_) *)
LockUnique(t) ==
  \E c \in Call :
    /\ c.op \in {"set", "del", "cleanup"}
    /\ Enter(t, c)
    /\ writers = {} /\ readers = {}
    /\ writers' = {t}
    /\ UNCHANGED readers

(* std::shared_lock lock(mtx_) *)
LockShared(t) ==
  \E c \in Call :
    /\ c.op \in {"get", "exists", "size"}
    /\ c.op = "get" => hits + misses < MaxLookups
    /\ Enter(t, c)
    /\ writers = {}
    /\ readers' = readers \cup {t}
    /\ UNCHANGED writers

(* hit_rate takes no lock. *)
CallHitRate(t) == Enter(t, [op |-> "hit_rate"]) /\ UNCHANGED mutex

Goto(t, l) == pc' = [pc EXCEPT ![t] = l] /\ UNCHANGED <<mutex, call>>

Answer(t, v) ==
  /\ reply' = [reply EXCEPT ![t] = [op |-> call[t].op, val |-> v]]
  /\ Goto(t, "return")

-----------------------------------------------------------------------------
(* The containers.                                                         *)

Position(n) == CHOOSE i \in DOMAIN lru : lru[i].node = n

(* lru_.erase(lru_map_[k]) *)
Unlinked(k) == RemoveAt(lru, Position(lruMap[k]))

NodesOf(s) == {s[i].node : i \in DOMAIN s}

Drop(f, k) == Restrict(f, DOMAIN f \ {k})

Bind(f, k, v) == [x \in DOMAIN f \cup {k} |-> IF x = k THEN v ELSE f[x]]

(* The erase of list node, iterator and entry that del and cleanup share.  *)
Forget(k) ==
  /\ lru' = Unlinked(k)
  /\ lruMap' = Drop(lruMap, k)
  /\ cache' = Drop(cache, k)

-----------------------------------------------------------------------------
(* set                                                                     *)

(* Mutant: the old list node of the key is not erased. *)
SetStoreKeepingOldNode(t) ==
  LET k == call[t].key
  IN /\ pc[t] = "set"
     /\ \E n \in Node \ NodesOf(lru) :
          /\ lru' = <<[node |-> n, key |-> k]>> \o lru
          /\ lruMap' = Bind(lruMap, k, n)
     /\ cache' = Bind(cache, k, [val |-> call[t].val,
                                 exp |-> ExpireTime(now, call[t].ttl),
                                 used |-> now])
     /\ Goto(t, "evict")
     /\ UNCHANGED <<stats, reg, reply, now>>

(* The entry is built, the old list node erased, a new one put in front.   *)
SetStore(t) ==
  LET k == call[t].key
      rest == IF k \in DOMAIN lruMap THEN Unlinked(k) ELSE lru
  IN /\ pc[t] = "set"
     /\ \E n \in Node \ NodesOf(rest) :
          /\ lru' = <<[node |-> n, key |-> k]>> \o rest
          /\ lruMap' = Bind(lruMap, k, n)
     /\ cache' = Bind(cache, k, [val |-> call[t].val,
                                 exp |-> ExpireTime(now, call[t].ttl),
                                 used |-> now])
     /\ Goto(t, "evict")
     /\ UNCHANGED <<stats, reg, reply, now>>

(* Mutant: the victim is taken from the front. *)
EvictNewest(t) ==
  /\ pc[t] = "evict"
  /\ Cardinality(DOMAIN cache) > Capacity
  /\ lru' = Tail(lru)
  /\ cache' = Drop(cache, Head(lru).key)
  /\ lruMap' = Drop(lruMap, Head(lru).key)
  /\ UNCHANGED <<stats, mutex, pc, call, reg, reply, now>>

(* Mutant: the victim's entry stays in the map. *)
EvictKeepingEntry(t) ==
  /\ pc[t] = "evict"
  /\ Cardinality(DOMAIN cache) > Capacity
  /\ IF lru = <<>>
     THEN UNCHANGED contents
     ELSE /\ lru' = Front(lru)
          /\ lruMap' = Drop(lruMap, Last(lru).key)
          /\ UNCHANGED cache
  /\ UNCHANGED <<stats, mutex, pc, call, reg, reply, now>>

(* One round of the eviction loop.  evict_lru returns at once on an empty  *)
(* list, and the loop would then never end.                                *)
Evict(t) ==
  /\ pc[t] = "evict"
  /\ Cardinality(DOMAIN cache) > Capacity
  /\ IF lru = <<>>
     THEN UNCHANGED contents
     ELSE /\ lru' = Front(lru)
          /\ cache' = Drop(cache, Last(lru).key)
          /\ lruMap' = Drop(lruMap, Last(lru).key)
  /\ UNCHANGED <<stats, mutex, pc, call, reg, reply, now>>

-----------------------------------------------------------------------------
(* del                                                                     *)

Del(t) ==
  /\ pc[t] = "del"
  /\ IF call[t].key \in DOMAIN cache THEN Forget(call[t].key) ELSE UNCHANGED contents
  /\ Goto(t, "return")
  /\ UNCHANGED <<stats, reg, reply, now>>

-----------------------------------------------------------------------------
(* cleanup_expired: the clock is read once, then the map is swept in the   *)
(* order of its buckets, which is any order.                               *)

Doomed(cut) == {k \in DOMAIN cache : Expired(cache[k], cut)}

SweepStart(t) ==
  /\ pc[t] = "cleanup"
  /\ reg' = [reg EXCEPT ![t] = now]
  /\ Goto(t, "sweep")
  /\ UNCHANGED <<contents, stats, reply, now>>

Sweep(t) ==
  /\ pc[t] = "sweep"
  /\ \E k \in Doomed(reg[t]) : Forget(k)
  /\ UNCHANGED <<stats, mutex, pc, call, reg, reply, now>>

-----------------------------------------------------------------------------
(* get, exists, size: under the shared lock                                *)

Live(k) == k \in DOMAIN cache /\ ~Expired(cache[k], now)

GetMiss(t) ==
  /\ pc[t] = "get"
  /\ ~Live(call[t].key)
  /\ misses' = misses + 1
  /\ Answer(t, Nil)
  /\ UNCHANGED <<contents, hits, reg, now>>

GetHit(t) ==
  /\ pc[t] = "get"
  /\ Live(call[t].key)
  /\ Goto(t, "touch")
  /\ UNCHANGED <<contents, stats, reg, reply, now>>

(* The entry's access time is written although the lock is only shared.    *)
Touch(t) ==
  LET k == call[t].key
  IN /\ pc[t] = "touch"
     /\ cache' = [cache EXCEPT ![k].used = now]
     /\ hits' = hits + 1
     /\ Answer(t, cache[k].val)
     /\ UNCHANGED <<lru, lruMap, misses, reg, now>>

Exists(t) ==
  /\ pc[t] = "exists"
  /\ Answer(t, Live(call[t].key))
  /\ UNCHANGED <<contents, stats, reg, now>>

Size(t) ==
  /\ pc[t] = "size"
  /\ Answer(t, Cardinality(DOMAIN cache))
  /\ UNCHANGED <<contents, stats, reg, now>>

-----------------------------------------------------------------------------
(* hit_rate: two separate loads, without the lock.  The answer is kept as  *)
(* the pair hits, hits + misses whose quotient the code returns.           *)

LoadHits(t) ==
  /\ pc[t] = "hit_rate"
  /\ reg' = [reg EXCEPT ![t] = hits]
  /\ Goto(t, "rate")
  /\ UNCHANGED <<contents, stats, reply, now>>

(* Mutant: the quotient loads the hits once more. *)
LoadMissesAndHits(t) ==
  /\ pc[t] = "rate"
  /\ Answer(t, [hits |-> hits, total |-> reg[t] + misses])
  /\ UNCHANGED <<contents, stats, reg, now>>

LoadMisses(t) ==
  /\ pc[t] = "rate"
  /\ Answer(t, [hits |-> reg[t], total |-> reg[t] + misses])
  /\ UNCHANGED <<contents, stats, reg, now>>

-----------------------------------------------------------------------------
(* The end of every method: its answer is delivered, its lock released.    *)

(* Mutant: the eviction loop ends one entry too early. *)
FinishedOneTooMany(t) ==
  \/ pc[t] = "return"
  \/ pc[t] = "evict" /\ Cardinality(DOMAIN cache) <= Capacity + 1
  \/ pc[t] = "sweep" /\ Doomed(reg[t]) = {}

Finished(t) ==
  \/ pc[t] = "return"
  \/ pc[t] = "evict" /\ Cardinality(DOMAIN cache) <= Capacity
  \/ pc[t] = "sweep" /\ Doomed(reg[t]) = {}

Return(t) ==
  /\ Finished(t)
  /\ pc' = [pc EXCEPT ![t] = "idle"]
  /\ call' = [call EXCEPT ![t] = NoCall]
  /\ reg' = [reg EXCEPT ![t] = 0]
  /\ reply' = [reply EXCEPT ![t] = NoReply]
  /\ writers' = writers \ {t}
  /\ readers' = readers \ {t}
  /\ UNCHANGED <<contents, stats, now>>

-----------------------------------------------------------------------------
Tick ==
  /\ now < MaxTime
  /\ now' = now + 1
  /\ UNCHANGED <<contents, stats, mutex, pc, call, reg, reply>>

Init ==
  /\ cache = <<>> /\ lru = <<>> /\ lruMap = <<>>
  /\ hits = 0 /\ misses = 0
  /\ writers = {} /\ readers = {}
  /\ pc = [t \in Thread |-> "idle"]
  /\ call = [t \in Thread |-> NoCall]
  /\ reg = [t \in Thread |-> 0]
  /\ reply = [t \in Thread |-> NoReply]
  /\ now = 0

(* The steps of a method body, once it holds its lock. *)
Body(t) ==
  \/ SetStore(t) \/ Evict(t)
  \/ Del(t)
  \/ SweepStart(t) \/ Sweep(t)
  \/ GetMiss(t) \/ GetHit(t) \/ Touch(t)
  \/ Exists(t) \/ Size(t)
  \/ LoadHits(t) \/ LoadMisses(t)
  \/ Return(t)

Next ==
  \/ \E t \in Thread : LockUnique(t) \/ LockShared(t) \/ CallHitRate(t) \/ Body(t)
  \/ Tick

Spec == Init /\ [][Next]_vars

-----------------------------------------------------------------------------
(* Properties.                                                             *)

Entry == [val : Value, exp : Nat, used : Nat]

Locals == {"idle", "set", "evict", "del", "cleanup", "sweep", "get", "touch",
           "exists", "size", "hit_rate", "rate", "return"}

Types ==
  /\ DOMAIN cache \subseteq Key /\ \A k \in DOMAIN cache : cache[k] \in Entry
  /\ lru \in Seq(ListNode)
  /\ DOMAIN lruMap \subseteq Key /\ \A k \in DOMAIN lruMap : lruMap[k] \in Node
  /\ hits \in Nat /\ misses \in Nat /\ now \in Nat
  /\ writers \subseteq Thread /\ readers \subseteq Thread
  /\ pc \in [Thread -> Locals]
  /\ call \in [Thread -> Call \cup {NoCall}]
  /\ reg \in [Thread -> Nat]

(* The lock under which each step of a method runs, and the call it is in. *)
Holds(t) ==
  /\ pc[t] \in {"set", "evict"} => call[t].op = "set" /\ t \in writers
  /\ pc[t] = "del" => call[t].op = "del" /\ t \in writers
  /\ pc[t] \in {"cleanup", "sweep"} => t \in writers
  /\ pc[t] \in {"get", "touch"} => call[t].op = "get" /\ t \in readers
  /\ pc[t] \in {"exists", "size"} => call[t].op = pc[t] /\ t \in readers
  /\ pc[t] \in {"hit_rate", "rate"} => call[t].op = "hit_rate"

LockDiscipline ==
  /\ \A t \in Thread : Holds(t)
  /\ \A t, u \in writers : t = u
  /\ writers # {} => readers = {}

(* A thread has an answer only when its method is about to return.         *)
Replies ==
  /\ DOMAIN reply = Thread
  /\ \A t \in Thread : pc[t] # "return" => reply[t] = NoReply

(* It is an answer to the call the thread is in, of the type of its method. *)
Answered(t) ==
  /\ reply[t].op \in {"none", call[t].op}
  /\ reply[t].op = "get" => reply[t].val \in Value \cup {Nil}
  /\ reply[t].op = "exists" => reply[t].val \in BOOLEAN
  /\ reply[t].op = "size" => reply[t].val \in Nat
  /\ reply[t].op = "hit_rate" => reply[t].val \in [hits : Nat, total : Nat]

(* The variables have their types; every step of a method that touches the *)
(* containers runs under the lock its method takes, exclusive for set, del *)
(* and cleanup_expired, shared for get, exists and size, and an exclusive  *)
(* holder is alone; answers are to the call made, and of its type.         *)
TypeOK == Types /\ LockDiscipline /\ Replies /\ \A t \in Thread : Answered(t)

(* Every iterator in lru_map_ designates the live list node that carries   *)
(* its key, every list node is designated, and the map of entries has the  *)
(* same keys.  All the erase calls of LRUCache.cpp dereference lru_map_    *)
(* without looking: a stale iterator is undefined behaviour.               *)
ContainersAgree ==
  /\ DOMAIN lruMap = DOMAIN cache
  /\ \A k \in DOMAIN lruMap :
        \E i \in DOMAIN lru : lru[i] = [node |-> lruMap[k], key |-> k]
  /\ \A i \in DOMAIN lru :
        lru[i].key \in DOMAIN lruMap /\ lruMap[lru[i].key] = lru[i].node
  /\ \A i, j \in DOMAIN lru : lru[i].node = lru[j].node => i = j

(* Nobody but the thread inside the eviction loop ever finds more entries  *)
(* than capacity_: size() and the readers never see the overshoot that set *)
(* creates before it evicts.                                               *)
WithinCapacity ==
  (\A t \in Thread : pc[t] # "evict") => Cardinality(DOMAIN cache) <= Capacity

(* hit_rate loads the two counters one after the other, without the lock.  *)
(* Lookups may come in between, and still it never reports more than the   *)
(* true rate, nor counts lookups that have not happened.                   *)
RateNotFlattered ==
  [][\A t \in Thread :
       pc[t] = "rate" /\ pc'[t] = "return" =>
         LET r == reply'[t].val
         IN r.total <= hits + misses /\ r.hits * (hits + misses) <= hits * r.total]_vars

(* While a thread is in the eviction loop of set or the sweep of            *)
(* cleanup_expired, nothing is done to the containers but what brings that *)
(* loop nearer to its end: each change leaves fewer entries.               *)
LoopsMakeProgress ==
  [][(\E t \in Thread : pc[t] \in {"evict", "sweep"}) /\ contents' # contents =>
        DOMAIN cache' \subseteq DOMAIN cache /\ DOMAIN cache' # DOMAIN cache]_vars

(* The entry evicted is the least recently used one, reads counting as     *)
(* uses: no entry left behind was last used strictly before it.            *)
EvictsLeastRecentlyUsed ==
  [][\A k \in DOMAIN cache \ DOMAIN cache' :
       (\E t \in Thread : pc[t] = "evict") =>
         \A other \in DOMAIN cache' : cache[k].used <= cache[other].used]_vars

-----------------------------------------------------------------------------
(* The promise kept.  A set has happened once its entry is stored, however *)
(* many evictions are still due; a cleanup has happened once it has read   *)
(* the clock, whatever it has left to sweep; a get that hits has its       *)
(* answer when it finds the entry alive.                                   *)

Entries ==
  [i \in DOMAIN lru |-> LET k == lru[i].key
                        IN [key |-> k, val |-> cache[k].val, exp |-> cache[k].exp]]

Cuts == {reg[t] : t \in {u \in Thread : pc[u] = "sweep"}}

PromisedStore ==
  Newest(Keep(Entries, {i \in DOMAIN lru : \A cut \in Cuts : ~Expired(Entries[i], cut)}),
         Capacity)

PromisedReply ==
  [t \in Thread |->
     CASE pc[t] = "touch" -> [op |-> "get", val |-> cache[call[t].key].val]
       [] reply[t].op = "hit_rate" -> NoReply
       [] OTHER -> reply[t]]

Abstract == INSTANCE BoundedStore WITH store <- PromisedStore, reply <- PromisedReply

(* The three containers under their mutex behave as one bounded sequence   *)
(* of entries whose operations are atomic.                                 *)
ImplementsBoundedStore == Abstract!Spec
=============================================================================
