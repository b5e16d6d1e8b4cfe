------------------------------ MODULE Lifecycle ------------------------------
(***************************************************************************)
(* The life of the process: main.cpp starts its four threads, waits for    *)
(* the signal and joins them; the server (TCPServer.cpp) starts and joins  *)
(* its clients, which report to the metrics; the cleanup thread samples    *)
(* connection_count_; the dashboard (HttpDashboard.cpp) reports for ever.  *)
(* What a command does to cache and log is in CacheNode, and how the       *)
(* circuit breaker decides is in CircuitBreaker: here it may allow or      *)
(* block any request, and any command may fail.                            *)
(***************************************************************************)
EXTENDS MetricsCollector, Sequences

CONSTANT Rounds          \* the requests of a client, 10 in the code

ASSUME RoundsAssumption == Rounds \in Nat

(* The threads of main, in the order it starts and joins them. *)
Workers == <<"server", "discovery", "dashboard", "cleanup">>
Worker == {Workers[i] : i \in DOMAIN Workers}

ASSUME ClientAssumption == IsFiniteSet(Client) /\ Client \cap Worker = {}

VARIABLES main,          \* the next step of main
          shutdown,      \* shutdown_requested
          connections,   \* connection_count_
          rounds,        \* per client: the requests made
          gauge          \* the count the cleanup thread is about to record

vars == <<metrics, pc, main, shutdown, connections, rounds, gauge>>

(* The steps of main. *)
Wait == Len(Workers) + 1
JoinOf(i) == Wait + i
Returned == 2 * Len(Workers) + 2

-----------------------------------------------------------------------------
(* A thread that cannot be created throws, past threads that are joinable, *)
(* and that ends the process.                                              *)
StartFails ==
  /\ crashed' = TRUE
  /\ UNCHANGED <<pc, latency, requestCount, active, counters, name, raced>>

Start ==
  /\ main < Wait
  /\ \/ /\ Goto(Workers[main], "unborn", "run")
        /\ main' = main + 1
        /\ UNCHANGED metrics
     \/ StartFails /\ UNCHANGED main
  /\ UNCHANGED <<shutdown, connections, rounds, gauge>>

WaitForShutdown ==
  /\ main = Wait
  /\ shutdown
  /\ main' = main + 1
  /\ UNCHANGED <<metrics, pc, shutdown, connections, rounds, gauge>>

Join ==
  /\ \E i \in DOMAIN Workers : main = JoinOf(i) /\ pc[Workers[i]] = "over"
  /\ main' = main + 1
  /\ UNCHANGED <<metrics, pc, shutdown, connections, rounds, gauge>>

(* signal_handler, whenever a signal comes. *)
Signal ==
  /\ shutdown' = TRUE
  /\ UNCHANGED <<metrics, pc, main, connections, rounds, gauge>>

-----------------------------------------------------------------------------
(* TCPServer::start                                                        *)

SpawnClient ==
  /\ pc["server"] = "run"
  /\ \/ \E c \in Client : Goto(c, "unborn", "connect") /\ UNCHANGED metrics
     \/ (\E c \in Client : pc[c] = "unborn") /\ StartFails
  /\ UNCHANGED <<main, shutdown, connections, rounds, gauge>>

(* Mutant: the last client is not waited for. *)
JoinClientsButOne ==
  /\ \A c \in Client : pc[c] # "unborn"
  /\ \E c \in Client : \A d \in Client \ {c} : pc[d] = "over"
  /\ Goto("server", "run", "over")
  /\ UNCHANGED <<metrics, main, shutdown, connections, rounds, gauge>>

JoinClients ==
  /\ \A c \in Client : pc[c] = "over"
  /\ Goto("server", "run", "over")
  /\ UNCHANGED <<metrics, main, shutdown, connections, rounds, gauge>>

-----------------------------------------------------------------------------
(* TCPServer::handle_client_simulation                                     *)

Connect(c) ==
  /\ Goto(c, "connect", "idle")
  /\ connections' = connections + 1
  /\ UNCHANGED <<metrics, main, shutdown, rounds, gauge>>

(* Mutant: a round that is blocked does not count. *)
BeginRoundUncounted(c) ==
  /\ rounds[c] < Rounds
  /\ \/ /\ Goto(c, "idle", "latency")
        /\ rounds' = [rounds EXCEPT ![c] = @ + 1]
        /\ UNCHANGED name
     \/ /\ Goto(c, "idle", "find")
        /\ name' = [name EXCEPT ![c] = "requests_blocked"]
        /\ UNCHANGED rounds
  /\ UNCHANGED <<latency, requestCount, active, counters, raced, crashed,
                 main, shutdown, connections, gauge>>

(* The breaker allows the request, or blocks it. *)
BeginRound(c) ==
  /\ rounds[c] < Rounds
  /\ rounds' = [rounds EXCEPT ![c] = @ + 1]
  /\ \/ Goto(c, "idle", "latency") /\ UNCHANGED name
     \/ /\ Goto(c, "idle", "find")
        /\ name' = [name EXCEPT ![c] = "requests_blocked"]
  /\ UNCHANGED <<latency, requestCount, active, counters, raced, crashed,
                 main, shutdown, connections, gauge>>

(* Mutant: a failed request is not counted by name. *)
JudgeSuccessOnly(c) ==
  /\ \/ /\ Goto(c, "judge", "find")
        /\ name' = [name EXCEPT ![c] = "requests_success"]
     \/ Goto(c, "judge", "idle") /\ UNCHANGED name
  /\ UNCHANGED <<latency, requestCount, active, counters, raced, crashed>>

(* The command has succeeded, or failed. *)
Judge(c) ==
  /\ Goto(c, "judge", "find")
  /\ \E outcome \in {"requests_success", "requests_failed"} :
       name' = [name EXCEPT ![c] = outcome]
  /\ UNCHANGED <<latency, requestCount, active, counters, raced, crashed>>

Report(c) ==
  /\ LoadTotal(c) \/ StoreTotal(c) \/ CountRequest(c) \/ Judge(c) \/ Find(c) \/ Insert(c)
  /\ UNCHANGED <<main, shutdown, connections, rounds, gauge>>

(* Mutant: the count goes down once more. *)
DisconnectTwice(c) ==
  /\ rounds[c] = Rounds
  /\ Goto(c, "idle", "over")
  /\ connections' = connections - 2
  /\ UNCHANGED <<metrics, main, shutdown, rounds, gauge>>

Disconnect(c) ==
  /\ rounds[c] = Rounds
  /\ Goto(c, "idle", "over")
  /\ connections' = connections - 1
  /\ UNCHANGED <<metrics, main, shutdown, rounds, gauge>>

-----------------------------------------------------------------------------
(* The other threads of main.                                              *)

(* One broadcast and one exchange of heartbeats: see NodeDiscovery.        *)
Discover ==
  /\ Goto("discovery", "run", "over")
  /\ UNCHANGED <<metrics, main, shutdown, connections, rounds, gauge>>

(* HttpDashboard::start: it reports, which changes nothing, for ever.      *)
Dashboard == pc["dashboard"] = "run" /\ UNCHANGED vars

CleanupLoop ==
  /\ Goto("cleanup", "run", IF shutdown THEN "over" ELSE "sweep")
  /\ UNCHANGED <<metrics, main, shutdown, connections, rounds, gauge>>

CountConnections ==
  /\ Goto("cleanup", "sweep", "record")
  /\ gauge' = connections
  /\ UNCHANGED <<metrics, main, shutdown, connections, rounds>>

(* Mutant: the gauge keeps the highest count. *)
RecordPeak ==
  /\ Goto("cleanup", "record", "run")
  /\ RecordActive(IF active > gauge THEN active ELSE gauge)
  /\ UNCHANGED <<main, shutdown, connections, rounds, gauge>>

RecordConnections ==
  /\ Goto("cleanup", "record", "run")
  /\ RecordActive(gauge)
  /\ UNCHANGED <<main, shutdown, connections, rounds, gauge>>

-----------------------------------------------------------------------------
Init ==
  /\ MetricsInit
  /\ pc = [t \in Worker \cup Client |-> "unborn"]
  /\ main = 1 /\ shutdown = FALSE /\ connections = 0 /\ gauge = 0
  /\ rounds = [c \in Client |-> 0]

Main == Start \/ WaitForShutdown \/ Join
Server == SpawnClient \/ JoinClients
ClientStep(c) == Connect(c) \/ BeginRound(c) \/ Report(c) \/ Disconnect(c)
Cleanup == CleanupLoop \/ CountConnections \/ RecordConnections

(* No thread of a process that has crashed takes another step. *)
Next ==
  /\ ~crashed
  /\ \/ Main \/ Signal \/ Server \/ Discover \/ Dashboard \/ Cleanup
     \/ \E c \in Client : ClientStep(c)

Running(A) == ~crashed /\ A

(* The scheduler runs every thread that can run.  Signals need not come.   *)
Fairness ==
  /\ WF_vars(Running(Main)) /\ WF_vars(Running(Server)) /\ WF_vars(Running(Discover))
  /\ WF_vars(Running(Cleanup))
  /\ \A c \in Client : WF_vars(Running(ClientStep(c)))

Spec == Init /\ [][Next]_vars
FairSpec == Spec /\ Fairness

-----------------------------------------------------------------------------
(* Properties.                                                             *)

Locations ==
  {"unborn", "run", "over", "sweep", "record",
   "connect", "idle", "latency", "store", "count", "judge", "find", "insert"}

(* Types of the variables, and the ranges of the counts of connections.    *)
TypeOK ==
  /\ MetricsTypeOK
  /\ pc \in [Worker \cup Client -> Locations]
  /\ main \in 1 .. Returned
  /\ shutdown \in BOOLEAN
  /\ {connections, gauge, active} \subseteq 0 .. Cardinality(Client)
  /\ rounds \in [Client -> 0 .. Rounds]

(* What main passes a join, and in the end leaves its scope, over: when    *)
(* the server's thread has ended, all clients that use main's objects are  *)
(* gone, with all their requests made, and none is counted as connected.   *)
ServerLeavesNothing ==
  pc["server"] = "over" =>
    connections = 0 /\ \A c \in Client : pc[c] = "over" /\ rounds[c] = Rounds

(* When the server has ended, the counts agree: every request counted has  *)
(* an outcome counted under its name, and every round is a request or was  *)
(* blocked.  The map of counters spoils this only if a step on it met an   *)
(* insertion.                                                              *)
ReportsAddUp ==
  pc["server"] = "over" /\ ~raced =>
    /\ requestCount = CountOf("requests_success") + CountOf("requests_failed")
    /\ requestCount + CountOf("requests_blocked") = Rounds * Cardinality(Client)

(* After a signal everything ends that can: main gets to the join of the   *)
(* dashboard, and no thread but the dashboard's is left.                   *)
AllButDashboardEnd ==
  shutdown ~> \/ crashed
              \/ /\ main = JoinOf(3)
                 /\ \A w \in Worker \ {"dashboard"} : pc[w] = "over"

(* Unless it is stopped, the cleanup thread ends up recording that all     *)
(* connections are gone, however stale the counts it read on the way.      *)
GaugeCatchesUp == <>(shutdown \/ crashed) \/ <>[](active = 0)
=============================================================================
