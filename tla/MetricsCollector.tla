-------------------------- MODULE MetricsCollector --------------------------
(***************************************************************************)
(* src/monitoring/MetricsCollector.h: three atomic fields and a std::map   *)
(* of atomic counters.  record_latency loads the running total and stores  *)
(* the sum in a step of its own; the map grows without a lock.  Latencies  *)
(* are counted, not measured: every sample adds one to the total.          *)
(*                                                                         *)
(* The callers are the client threads of the server; pc says where in a    *)
(* method each of them is.                                                 *)
(***************************************************************************)
EXTENDS Integers, FiniteSets

CONSTANT Client

VARIABLES pc,            \* where each thread is
          total,         \* total_latency_
          requestCount,  \* request_count_
          active,        \* active_connections_
          counters,      \* counters_
          old,           \* per client: old_val of record_latency
          name,          \* per client: the argument of increment_counter
          crashed,       \* the process is gone
          samples,       \* history: the samples stored
          lone,          \* history: those whose record_latency no other overlapped
          alone,         \* history: the clients in such a one so far
          raced          \* history: a step on the map has met an insertion

latency == <<total, old, samples, lone, alone>>
map == <<counters, name, raced, crashed>>
metrics == <<latency, requestCount, active, map>>

Name == {"requests_blocked", "requests_success", "requests_failed"}

NoCounters == [n \in {} |-> 0]

Goto(c, from, to) == pc[c] = from /\ pc' = [pc EXCEPT ![c] = to]

-----------------------------------------------------------------------------
(* record_latency                                                          *)

Measuring == {d \in Client : pc[d] = "store"}

LoadTotal(c) ==
  /\ Goto(c, "latency", "store")
  /\ old' = [old EXCEPT ![c] = total]
  /\ alone' = IF Measuring = {} THEN {c} ELSE {}
  /\ UNCHANGED <<total, samples, lone, requestCount, active, map>>

(* Mutant: the sample takes the place of the total. *)
SummedWithoutOld(c) == 1

Summed(c) == old[c] + 1

StoreTotal(c) ==
  /\ Goto(c, "store", "count")
  /\ total' = Summed(c)
  /\ old' = [old EXCEPT ![c] = 0]
  /\ samples' = samples + 1
  /\ lone' = IF c \in alone THEN lone + 1 ELSE lone
  /\ alone' = alone \ {c}
  /\ UNCHANGED <<requestCount, active, map>>

CountRequest(c) ==
  /\ Goto(c, "count", "judge")
  /\ requestCount' = requestCount + 1
  /\ UNCHANGED <<latency, active, map>>

-----------------------------------------------------------------------------
(* increment_counter: counters_[name] looks for the name and inserts it if *)
(* it is not there; the increment itself is atomic, and no insertion moves *)
(* a node.  To look or insert while another thread inserts is a data race: *)
(* the process may crash, or go on with a tree in which nodes are lost,    *)
(* now or later.  What such a tree holds is not told apart: it is empty.   *)

CountOf(n) == IF n \in DOMAIN counters THEN counters[n] ELSE 0

Increment(n) ==
  counters' = [m \in DOMAIN counters \cup {n} |->
                 IF m = n THEN CountOf(n) + 1 ELSE counters[m]]

Undefined(c) == raced \/ \E d \in Client \ {c} : pc[d] = "insert"

Incremented(c, from) ==
  /\ Goto(c, from, "idle")
  /\ name' = [name EXCEPT ![c] = "none"]
  /\ \/ ~Undefined(c) /\ Increment(name[c]) /\ UNCHANGED raced
     \/ Undefined(c) /\ counters' = NoCounters /\ raced' = TRUE
  /\ UNCHANGED <<latency, requestCount, active, crashed>>

Races(c, from) ==
  /\ pc[c] = from
  /\ Undefined(c)
  /\ crashed' = TRUE /\ raced' = TRUE
  /\ UNCHANGED <<pc, latency, requestCount, active, counters, name>>

Find(c) ==
  \/ (name[c] \in DOMAIN counters \/ Undefined(c)) /\ Incremented(c, "find")
  \/ /\ name[c] \notin DOMAIN counters /\ ~Undefined(c)
     /\ Goto(c, "find", "insert")
     /\ UNCHANGED metrics
  \/ Races(c, "find")

Insert(c) == Incremented(c, "insert") \/ Races(c, "insert")

(* record_active_connections *)
RecordActive(n) ==
  /\ active' = n
  /\ UNCHANGED <<latency, requestCount, map>>

MetricsInit ==
  /\ total = 0 /\ requestCount = 0 /\ active = 0
  /\ counters = NoCounters
  /\ old = [c \in Client |-> 0]
  /\ name = [c \in Client |-> "none"]
  /\ crashed = FALSE
  /\ samples = 0 /\ lone = 0 /\ alone = {} /\ raced = FALSE

-----------------------------------------------------------------------------
(* Properties.                                                             *)

MetricsTypeOK ==
  /\ total \in Nat /\ requestCount \in Nat /\ active \in Nat
  /\ DOMAIN counters \subseteq Name /\ \A n \in DOMAIN counters : counters[n] \in Nat
  /\ old \in [Client -> Nat]
  /\ name \in [Client -> Name \cup {"none"}]
  /\ samples \in Nat /\ lone \in Nat /\ alone \subseteq Client
  /\ raced \in BOOLEAN /\ crashed \in BOOLEAN

(* record_latency is no "simple atomic operation": two of them at once may *)
(* lose a sample, and a late one all that were stored since it loaded.     *)
(* But a sample is lost only to one that overlapped it, and none counts    *)
(* twice.                                                                  *)
LoneSamplesKept == lone <= total /\ total <= samples
=============================================================================
