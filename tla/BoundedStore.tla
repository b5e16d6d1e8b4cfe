---------------------------- MODULE BoundedStore ----------------------------
(***************************************************************************)
(* What LRUCache promises its callers: a bounded map whose every method    *)
(* takes effect at one instant.  There is one sequence of entries, no      *)
(* lock, no list node and no intermediate state.  Module LRUCache, with    *)
(* its three containers and its shared mutex, implements this              *)
(* specification.                                                          *)
(***************************************************************************)
EXTENDS CacheOps

CONSTANTS Thread,        \* the callers
          Key, Value,
          TTL,           \* the ttl_seconds arguments callers pass
          Nil,           \* the answer of a get that misses
          MaxTime        \* bound on the clock

VARIABLES store,         \* the entries, most recently set first
          reply,         \* per thread, an answer it has not received yet
          now            \* std::chrono::steady_clock

vars == <<store, reply, now>>

NoReply == [op |-> "none", val |-> Nil]

Answer(t, op, v) ==
  reply[t] = NoReply /\ reply' = [reply EXCEPT ![t] = [op |-> op, val |-> v]]

Init == store = <<>> /\ now = 0 /\ reply = [t \in Thread |-> NoReply]

Set(k, v, ttl) ==
  /\ store' = Put(store, [key |-> k, val |-> v, exp |-> ExpireTime(now, ttl)])
  /\ UNCHANGED <<reply, now>>

Del(k) == store' = Without(store, k) /\ UNCHANGED <<reply, now>>

Cleanup == store' = Unexpired(store, now) /\ UNCHANGED <<reply, now>>

Get(t, k) ==
  /\ Answer(t, "get", Lookup(store, k, now, Nil))
  /\ UNCHANGED <<store, now>>

Exists(t, k) ==
  /\ Answer(t, "exists", Found(store, k, now) # {})
  /\ UNCHANGED <<store, now>>

Size(t) == Answer(t, "size", Len(store)) /\ UNCHANGED <<store, now>>

Receive(t) ==
  reply' = [reply EXCEPT ![t] = NoReply] /\ UNCHANGED <<store, now>>

Tick == now < MaxTime /\ now' = now + 1 /\ UNCHANGED <<store, reply>>

Next ==
  \/ \E k \in Key, v \in Value, ttl \in TTL : Set(k, v, ttl)
  \/ \E k \in Key : Del(k)
  \/ Cleanup
  \/ \E t \in Thread, k \in Key : Get(t, k) \/ Exists(t, k)
  \/ \E t \in Thread : Size(t) \/ Receive(t)
  \/ Tick

Spec == Init /\ [][Next]_vars
=============================================================================
