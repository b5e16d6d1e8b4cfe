---------------------------- MODULE NodeDiscovery ----------------------------
(***************************************************************************)
(* src/cluster/NodeDiscovery.cpp: a table of the nodes known, each with    *)
(* the time of its last heartbeat and a flag.  broadcast_heartbeat,        *)
(* add_seed_node and the queries hold a mutex; listen_for_heartbeats       *)
(* updates the same table and holds none.                                  *)
(*                                                                         *)
(* The clock has no zero: a time is kept as its age, which stops growing   *)
(* where the code can no longer tell it from an older one.                 *)
(***************************************************************************)
EXTENDS Integers, FiniteSets

CONSTANTS Node, Self,
          Thread,        \* the threads that broadcast and listen
          Nobody,
          Timeout,       \* NODE_TIMEOUT_MS
          MaxLag         \* bound on the ticks that pass inside one loop

Peer == Node \ {Self}

ASSUME NodesAssumption == Self \in Node /\ Nobody \notin Node \cup Thread
ASSUME TimeoutAssumption == Timeout \in Nat
(* A loop over the table takes no longer than half of the timeout. *)
ASSUME MaxLagAssumption == MaxLag \in Nat /\ 2 * MaxLag <= Timeout

VARIABLES age,           \* known_nodes_: the age of last_heartbeat
          alive,         \* known_nodes_: is_alive
          mutex,         \* the holder of nodes_mutex_
          pc,
          clock,         \* per thread: the age of its reading of the clock
          todo,          \* per thread: the nodes its loop has yet to visit
          node,          \* per thread: the node between two steps of a visit
          crashed,
          raced,         \* history: a listener has met a broadcast or an insertion
          judged         \* history: the age of the reading of the last cleanup

table == <<age, alive>>
loop == <<clock, todo, node>>
history == <<raced, judged>>
vars == <<table, mutex, pc, loop, crashed, history>>

Known == DOMAIN age
Oldest == Timeout + MaxLag + 1
Older(a) == IF a < Oldest THEN a + 1 ELSE a

Listening(t) == pc[t] = "listen"
Busy(t) == pc[t] # "idle"

(* The loop over known_nodes_ begins, its clock just read. *)
Loop(t, l) ==
  /\ pc' = [pc EXCEPT ![t] = l]
  /\ clock' = [clock EXCEPT ![t] = 0]
  /\ todo' = [todo EXCEPT ![t] = Known \ {Self}]
  /\ UNCHANGED node

(* Mutant: std::lock_guard is missing. *)
FreeAlways == TRUE

Free == mutex = Nobody

Visited(t, n) == todo' = [todo EXCEPT ![t] = @ \ {n}]

-----------------------------------------------------------------------------
(* broadcast_heartbeat, listen_for_heartbeats                              *)

Broadcast(t) ==
  /\ pc[t] = "idle"
  /\ Free
  /\ mutex' = t
  /\ age' = [age EXCEPT ![Self] = 0]
  /\ Loop(t, "exchange")
  /\ raced' = (raced \/ \E u \in Thread : Listening(u))
  /\ UNCHANGED <<alive, crashed, judged>>

Listen(t) ==
  /\ pc[t] = "idle"
  /\ Loop(t, "listen")
  /\ raced' = (raced \/ mutex # Nobody)
  /\ UNCHANGED <<table, mutex, crashed, judged>>

-----------------------------------------------------------------------------
(* simulate_heartbeat_exchange: any peer may be heard or not.              *)

Exchanging(t) == pc[t] \in {"exchange", "listen"} /\ node[t] = Nobody

Miss(t) ==
  /\ Exchanging(t)
  /\ \E n \in todo[t] : Visited(t, n)
  /\ UNCHANGED <<table, mutex, pc, clock, node, crashed, history>>

Hear(t) ==
  /\ Exchanging(t)
  /\ \E n \in todo[t] :
       /\ Visited(t, n)
       /\ age' = [age EXCEPT ![n] = clock[t]]
       /\ node' = [node EXCEPT ![t] = n]
  /\ UNCHANGED <<alive, mutex, pc, clock, crashed, history>>

Revive(t) ==
  /\ pc[t] \in {"exchange", "listen"} /\ node[t] # Nobody
  /\ alive' = [alive EXCEPT ![node[t]] = TRUE]
  /\ node' = [node EXCEPT ![t] = Nobody]
  /\ UNCHANGED <<age, mutex, pc, clock, todo, crashed, history>>

ListenEnd(t) ==
  /\ Listening(t) /\ Exchanging(t) /\ todo[t] = {}
  /\ pc' = [pc EXCEPT ![t] = "idle"]
  /\ clock' = [clock EXCEPT ![t] = 0]
  /\ UNCHANGED <<table, mutex, todo, node, crashed, history>>

-----------------------------------------------------------------------------
(* cleanup_dead_nodes, still under the mutex of broadcast_heartbeat        *)

CleanupBegin(t) ==
  /\ pc[t] = "exchange" /\ Exchanging(t) /\ todo[t] = {}
  /\ Loop(t, "cleanup")
  /\ UNCHANGED <<table, mutex, crashed, history>>

(* Mutants: the comparison is not strict, or with too long a time. *)
TimedOutAtOnce(n, t) == age[n] - clock[t] >= Timeout
TimedOutLate(n, t) == age[n] - clock[t] > Timeout + 1

TimedOut(n, t) == age[n] - clock[t] > Timeout

Judge(t) ==
  /\ pc[t] = "cleanup" /\ node[t] = Nobody
  /\ \E n \in todo[t] :
       /\ Visited(t, n)
       /\ node' = [node EXCEPT ![t] = IF TimedOut(n, t) THEN n ELSE Nobody]
  /\ UNCHANGED <<table, mutex, pc, clock, crashed, history>>

(* Mutant: the loop does not get past a dead node. *)
BuryAgain(t) ==
  /\ pc[t] = "cleanup" /\ node[t] # Nobody
  /\ alive' = [alive EXCEPT ![node[t]] = FALSE]
  /\ UNCHANGED <<age, mutex, pc, loop, crashed, history>>

Bury(t) ==
  /\ pc[t] = "cleanup" /\ node[t] # Nobody
  /\ alive' = [alive EXCEPT ![node[t]] = FALSE]
  /\ node' = [node EXCEPT ![t] = Nobody]
  /\ UNCHANGED <<age, mutex, pc, clock, todo, crashed, history>>

BroadcastEnd(t) ==
  /\ pc[t] = "cleanup" /\ node[t] = Nobody /\ todo[t] = {}
  /\ mutex' = Nobody
  /\ pc' = [pc EXCEPT ![t] = "idle"]
  /\ judged' = clock[t]
  /\ clock' = [clock EXCEPT ![t] = 0]
  /\ UNCHANGED <<table, todo, node, crashed, raced>>

-----------------------------------------------------------------------------
(* add_seed_node, called by any thread.  To insert a node while a listener *)
(* walks the table is a data race: the process may crash, or the listener  *)
(* miss nodes, which it may do anyway.                                     *)
AddSeedNode(n) ==
  /\ Free
  /\ \/ /\ age' = [m \in Known \cup {n} |-> IF m = n THEN 0 ELSE age[m]]
        /\ alive' = [m \in Known \cup {n} |-> m = n \/ alive[m]]
        /\ UNCHANGED crashed
     \/ /\ n \notin Known /\ \E t \in Thread : Listening(t)
        /\ crashed' = TRUE
        /\ UNCHANGED table
  /\ raced' = (raced \/ (n \notin Known /\ \E t \in Thread : Listening(t)))
  /\ UNCHANGED <<mutex, pc, loop, judged>>

Tick ==
  /\ \A t \in Thread : Busy(t) => clock[t] < MaxLag
  /\ age' = [n \in Known |-> Older(age[n])]
  /\ clock' = [t \in Thread |-> IF Busy(t) THEN clock[t] + 1 ELSE 0]
  /\ judged' = Older(judged)
  /\ UNCHANGED <<alive, mutex, pc, todo, node, crashed, raced>>

Init ==
  /\ age = [n \in {Self} |-> 0] /\ alive = [n \in {Self} |-> TRUE]
  /\ mutex = Nobody
  /\ pc = [t \in Thread |-> "idle"]
  /\ clock = [t \in Thread |-> 0]
  /\ todo = [t \in Thread |-> {}]
  /\ node = [t \in Thread |-> Nobody]
  /\ crashed = FALSE
  /\ raced = FALSE /\ judged = 0

Step(t) ==
  \/ Miss(t) \/ Hear(t) \/ Revive(t) \/ ListenEnd(t)
  \/ CleanupBegin(t) \/ Judge(t) \/ Bury(t) \/ BroadcastEnd(t)

Next ==
  /\ ~crashed
  /\ \/ \E t \in Thread : Broadcast(t) \/ Listen(t) \/ Step(t)
     \/ \E n \in Node : AddSeedNode(n)
     \/ Tick

Spec == Init /\ [][Next]_vars

(* A loop once begun goes on.  Nobody has to begin another one, and main   *)
(* broadcasts once.                                                        *)
FairSpec == Spec /\ \A t \in Thread : WF_vars(~crashed /\ Step(t))

-----------------------------------------------------------------------------
(* Properties.                                                             *)

(* Types of the variables, and who holds the mutex. *)
TypeOK ==
  /\ Self \in Known /\ Known \subseteq Node
  /\ age \in [Known -> 0 .. Oldest] /\ alive \in [Known -> BOOLEAN]
  /\ pc \in [Thread -> {"idle", "exchange", "listen", "cleanup"}]
  /\ mutex \in Thread \cup {Nobody}
  /\ \A t \in Thread : pc[t] \in {"exchange", "cleanup"} <=> mutex = t
  /\ clock \in [Thread -> 0 .. MaxLag]
  /\ todo \in [Thread -> SUBSET Peer]
  /\ node \in [Thread -> Peer \cup {Nobody}]
  /\ crashed \in BOOLEAN /\ raced \in BOOLEAN
  /\ judged \in 0 .. Oldest

(* A node is reported dead only if nothing has been heard of it for longer *)
(* than the timeout, or it has been heard of by a thread that is about to  *)
(* say so.  A listener that runs beside a broadcast can break this: its *)
(* heartbeat may come between the comparison of cleanup_dead_nodes and the *)
(* write after it.                                                         *)
DeadMeansSilent ==
  ~raced =>
    \A n \in Known :
      ~alive[n] => \/ age[n] > Timeout
                   \/ \E t \in Thread : pc[t] \in {"exchange", "listen"} /\ node[t] = n

(* A node reported alive was not out of time when the last cleanup looked, *)
(* whatever listeners and additions did meanwhile.                         *)
AliveMeansRecent ==
  (\A t \in Thread : pc[t] # "cleanup") =>
    \A n \in Known : n # Self /\ alive[n] => age[n] <= Timeout + judged

(* One broadcast is enough for every node that has fallen silent: one that *)
(* is out of time while broadcast_heartbeat runs is reported dead, unless  *)
(* it is heard of or added again meanwhile.  No other node, no listener    *)
(* and no tick of the clock keeps the cleanup from coming to it.           *)
OutOfTime(n) == n \in Known /\ age[n] = Oldest

SilentNodesDie ==
  \A n \in Peer :
    (\E t \in Thread : pc[t] = "exchange") /\ OutOfTime(n)
      ~> crashed \/ ~OutOfTime(n) \/ ~alive[n]
=============================================================================
