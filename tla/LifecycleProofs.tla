--------------------------- MODULE LifecycleProofs ---------------------------
(***************************************************************************)
(* Theorems about Lifecycle, for any number of clients and rounds: the     *)
(* types, what the server leaves behind, and which samples of the latency  *)
(* can be lost.                                                            *)
(***************************************************************************)
EXTENDS Lifecycle, FiniteSetTheorems, TLAPS

(* The clients counted by connection_count_. *)
Connected == {c \in Client : pc[c] \notin {"unborn", "connect", "over"}}

Types ==
  /\ MetricsTypeOK
  /\ pc \in [Worker \cup Client -> Locations]
  /\ main \in 1 .. Returned /\ shutdown \in BOOLEAN
  /\ {gauge, active} \subseteq 0 .. Cardinality(Client)
  /\ rounds \in [Client -> 0 .. Rounds]

(* The count of connections is true, a client ends when its rounds are     *)
(* made, and the server after its clients.                                 *)
Counted ==
  /\ connections = Cardinality(Connected)
  /\ \A c \in Client : pc[c] = "over" => rounds[c] = Rounds
  /\ pc["server"] = "over" => \A c \in Client : pc[c] = "over"

(* What a client in record_latency has loaded has all lone samples in it,  *)
(* and no sample that was not stored; a client is alone in it if it is the *)
(* only one.                                                               *)
Loaded ==
  /\ LoneSamplesKept
  /\ \A c \in Measuring : lone <= old[c] /\ old[c] <= samples
  /\ \A c \in alone : Measuring = {c}

(* A client that looks a counter up, or inserts it, has a name to count.   *)
Named == \A c \in Client : pc[c] \in {"find", "insert"} => name[c] \in Name

IInv == Types /\ Named /\ Counted /\ Loaded

-----------------------------------------------------------------------------
LEMMA WorkerNames == Worker = {"server", "discovery", "dashboard", "cleanup"}
BY DEF Worker, Workers

LEMMA MainSteps == Wait = 5 /\ Returned = 10 /\ DOMAIN Workers = 1 .. 4
BY DEF Wait, Returned, Workers

LEMMA ClientsFinite == IsFiniteSet(Client) /\ Cardinality(Client) \in Nat
BY ClientAssumption, FS_CardinalityType

LEMMA InitInvariant == Init => IInv
<1> SUFFICES ASSUME Init
             PROVE  IInv
  OBVIOUS
<1>1. Types
  <2>1. MetricsTypeOK
    BY DEF Init, MetricsInit, MetricsTypeOK, NoCounters
  <2>2. pc \in [Worker \cup Client -> Locations]
    BY DEF Init, Locations
  <2>3. main \in 1 .. Returned
    BY MainSteps DEF Init
  <2>6. shutdown \in BOOLEAN
    BY DEF Init
  <2>4. {gauge, active} \subseteq 0 .. Cardinality(Client)
    BY ClientsFinite DEF Init, MetricsInit
  <2>5. rounds \in [Client -> 0 .. Rounds]
    BY RoundsAssumption DEF Init
  <2> QED
    BY <2>1, <2>2, <2>3, <2>4, <2>5, <2>6 DEF Types
<1>2. Counted
  <2>1. Connected = {}
    BY DEF Connected, Init
  <2> QED
    BY <2>1, FS_EmptySet, WorkerNames DEF Counted, Init
<1>3. Loaded
  BY DEF Init, MetricsInit, Loaded, LoneSamplesKept, Measuring
<1>4. Named
  BY DEF Init, Named
<1> QED
  BY <1>1, <1>2, <1>3, <1>4 DEF IInv

-----------------------------------------------------------------------------
(* Latencies.                                                              *)

(* A step that leaves record_latency alone.                                *)
LEMMA QuietStep ==
  ASSUME Loaded, UNCHANGED latency, Measuring' = Measuring
  PROVE  Loaded'
BY DEF Loaded, LoneSamplesKept, latency

(* A move between two places outside of record_latency.                    *)
LEMMA QuietMove ==
  ASSUME Types, Loaded, UNCHANGED latency,
         NEW t \in Worker \cup Client, NEW from, NEW to, Goto(t, from, to),
         from # "store", to # "store"
  PROVE  Loaded'
<1>1. Measuring' = Measuring
  BY DEF Measuring, Goto, Types
<1> QED
  BY <1>1, QuietStep

LEMMA LoadStep ==
  ASSUME Types, Loaded, NEW c \in Client, LoadTotal(c)
  PROVE  Loaded'
<1>1. /\ Measuring' = Measuring \cup {c} /\ c \notin Measuring
      /\ old' = [old EXCEPT ![c] = total] /\ old \in [Client -> Nat]
      /\ UNCHANGED <<total, samples, lone>>
  BY DEF LoadTotal, Goto, Measuring, Types, MetricsTypeOK
<1>2. LoneSamplesKept'
  BY <1>1 DEF Loaded, LoneSamplesKept
<1>3. ASSUME NEW d \in Measuring'
      PROVE  lone' <= old'[d] /\ old'[d] <= samples'
  <2>1. CASE d = c
    BY <1>1, <2>1 DEF Loaded, LoneSamplesKept
  <2>2. CASE d # c
    <3>1. d \in Measuring /\ d \in Client /\ old'[d] = old[d]
      BY <1>1, <1>3, <2>2 DEF Measuring
    <3> QED
      BY <1>1, <3>1 DEF Loaded
  <2> QED
    BY <2>1, <2>2
<1>4. ASSUME NEW d \in alone'
      PROVE  Measuring' = {d}
  BY <1>1, <1>4 DEF LoadTotal
<1> QED
  BY <1>2, <1>3, <1>4 DEF Loaded

LEMMA StoreStep ==
  ASSUME Types, Loaded, NEW c \in Client, StoreTotal(c)
  PROVE  Loaded'
<1>1. /\ c \in Measuring /\ Measuring' = Measuring \ {c}
      /\ total' = old[c] + 1 /\ samples' = samples + 1
      /\ old' = [old EXCEPT ![c] = 0] /\ old \in [Client -> Nat]
      /\ lone \in Nat /\ samples \in Nat /\ lone' \in {lone, lone + 1}
      /\ alone' = alone \ {c}
  BY DEF StoreTotal, Summed, Goto, Measuring, Types, MetricsTypeOK
<1>2. /\ old[c] \in Nat /\ lone <= old[c] /\ old[c] <= samples
      /\ \A d \in alone : Measuring = {d}
  BY <1>1 DEF Loaded
<1>3. LoneSamplesKept'
  BY <1>1, <1>2 DEF LoneSamplesKept
<1>4. ASSUME NEW d \in Measuring'
      PROVE  lone' <= old'[d] /\ old'[d] <= samples'
  <2>1. d \in Measuring /\ d \in Client /\ d # c
    BY <1>1, <1>4 DEF Measuring
  <2>2. lone' = lone
    BY <1>2, <2>1 DEF StoreTotal
  <2>3. old'[d] = old[d] /\ old[d] \in Nat /\ lone <= old[d] /\ old[d] <= samples
    BY <1>1, <2>1 DEF Loaded
  <2> QED
    BY <1>1, <2>2, <2>3
<1>5. ASSUME NEW d \in alone'
      PROVE  Measuring' = {d}
  BY <1>1, <1>2, <1>5
<1> QED
  BY <1>3, <1>4, <1>5 DEF Loaded

LEMMA NextLoaded ==
  ASSUME Types, Loaded, Next
  PROVE  Loaded'
<1>1. CASE Signal \/ WaitForShutdown \/ Join \/ Dashboard
  <2>1. UNCHANGED <<pc, latency>>
    BY <1>1 DEF Signal, WaitForShutdown, Join, Dashboard, vars, metrics
  <2> QED
    BY <2>1, QuietStep DEF Measuring
<1>2. CASE Start
  <2>1. CASE StartFails
    <3>1. UNCHANGED <<pc, latency>>
      BY <2>1 DEF StartFails
    <3> QED
      BY <3>1, QuietStep DEF Measuring
  <2>2. CASE Goto(Workers[main], "unborn", "run") /\ UNCHANGED metrics
    <3>1. Workers[main] \in Worker
      BY <1>2, MainSteps DEF Start, Types, Worker
    <3> QED
      BY <2>2, <3>1, QuietMove DEF metrics
  <2> QED
    BY <1>2, <2>1, <2>2 DEF Start
<1>3. CASE SpawnClient
  <2>1. CASE StartFails
    <3>1. UNCHANGED <<pc, latency>>
      BY <2>1 DEF StartFails
    <3> QED
      BY <3>1, QuietStep DEF Measuring
  <2>2. ASSUME NEW c \in Client, Goto(c, "unborn", "connect"), UNCHANGED metrics
        PROVE  Loaded'
    BY <2>2, QuietMove DEF metrics
  <2> QED
    BY <1>3, <2>1, <2>2 DEF SpawnClient
<1>4. CASE JoinClients \/ Discover \/ Cleanup
  <2>1. UNCHANGED latency
    BY <1>4 DEF JoinClients, Discover, Cleanup, CleanupLoop, CountConnections,
                RecordConnections, RecordActive, metrics
  <2>2. \/ Goto("server", "run", "over") \/ Goto("discovery", "run", "over")
        \/ Goto("cleanup", "run", "over") \/ Goto("cleanup", "run", "sweep")
        \/ Goto("cleanup", "sweep", "record") \/ Goto("cleanup", "record", "run")
    BY <1>4 DEF JoinClients, Discover, Cleanup, CleanupLoop, CountConnections,
                RecordConnections
  <2> QED
    BY <2>1, <2>2, WorkerNames, QuietMove
<1>5. ASSUME NEW c \in Client, ClientStep(c)
      PROVE  Loaded'
  <2>1. CASE LoadTotal(c)
    BY <2>1, LoadStep
  <2>2. CASE StoreTotal(c)
    BY <2>2, StoreStep
  <2>3. CASE Races(c, "find") \/ Races(c, "insert")
    <3>1. UNCHANGED <<pc, latency>>
      BY <2>3 DEF Races
    <3> QED
      BY <3>1, QuietStep DEF Measuring
  <2>4. CASE Connect(c) \/ BeginRound(c) \/ CountRequest(c) \/ Judge(c) \/ Disconnect(c)
    <3>1. UNCHANGED latency
      BY <2>4 DEF Connect, BeginRound, CountRequest, Judge, Disconnect, metrics
    <3>2. \/ Goto(c, "connect", "idle") \/ Goto(c, "idle", "latency")
          \/ Goto(c, "idle", "find") \/ Goto(c, "count", "judge")
          \/ Goto(c, "judge", "find") \/ Goto(c, "idle", "over")
      BY <2>4 DEF Connect, BeginRound, CountRequest, Judge, Disconnect
    <3> QED
      BY <3>1, <3>2, QuietMove
  <2>5. CASE Incremented(c, "find") \/ Incremented(c, "insert")
             \/ (Goto(c, "find", "insert") /\ UNCHANGED metrics)
    <3>1. UNCHANGED latency
      BY <2>5 DEF Incremented, metrics
    <3>2. Goto(c, "find", "idle") \/ Goto(c, "insert", "idle") \/ Goto(c, "find", "insert")
      BY <2>5 DEF Incremented
    <3> QED
      BY <3>1, <3>2, QuietMove
  <2> QED
    BY <1>5, <2>1, <2>2, <2>3, <2>4, <2>5 DEF ClientStep, Report, Find, Insert
<1> QED
  BY <1>1, <1>2, <1>3, <1>4, <1>5 DEF Next, Main, Server

-----------------------------------------------------------------------------
(* Types.                                                                  *)

LEMMA MoveType ==
  ASSUME Types, NEW t \in Worker \cup Client, NEW from, NEW to \in Locations, Goto(t, from, to)
  PROVE  pc' \in [Worker \cup Client -> Locations]
BY DEF Types, Goto

(* The locations a step moves a thread to.                                 *)
LEMMA NextMoves ==
  ASSUME Types, Next
  PROVE  pc' \in [Worker \cup Client -> Locations]
<1> USE DEF Locations
<1>1. CASE Signal \/ WaitForShutdown \/ Join \/ Dashboard
  BY <1>1 DEF Signal, WaitForShutdown, Join, Dashboard, vars, Types
<1>2. CASE Start
  <2>1. CASE StartFails
    BY <2>1 DEF StartFails, Types
  <2>2. CASE Goto(Workers[main], "unborn", "run")
    <3>1. Workers[main] \in Worker
      BY <1>2, MainSteps DEF Start, Types, Worker
    <3> QED
      BY <2>2, <3>1, MoveType
  <2> QED
    BY <1>2, <2>1, <2>2 DEF Start
<1>3. CASE SpawnClient
  BY <1>3, MoveType DEF SpawnClient, StartFails, Types
<1>4. CASE JoinClients \/ Discover \/ Cleanup
  <2>1. \/ Goto("server", "run", "over") \/ Goto("discovery", "run", "over")
        \/ Goto("cleanup", "run", "over") \/ Goto("cleanup", "run", "sweep")
        \/ Goto("cleanup", "sweep", "record") \/ Goto("cleanup", "record", "run")
    BY <1>4 DEF JoinClients, Discover, Cleanup, CleanupLoop, CountConnections,
                RecordConnections
  <2> QED
    BY <2>1, WorkerNames, MoveType
<1>5. ASSUME NEW c \in Client, ClientStep(c)
      PROVE  pc' \in [Worker \cup Client -> Locations]
  <2>1. CASE Races(c, "find") \/ Races(c, "insert")
    BY <2>1 DEF Races, Types
  <2>2. CASE ~(Races(c, "find") \/ Races(c, "insert"))
    <3>1. \/ Goto(c, "latency", "store") \/ Goto(c, "store", "count")
          \/ Goto(c, "find", "idle") \/ Goto(c, "insert", "idle") \/ Goto(c, "find", "insert")
          \/ Goto(c, "connect", "idle") \/ Goto(c, "idle", "latency")
          \/ Goto(c, "idle", "find") \/ Goto(c, "count", "judge")
          \/ Goto(c, "judge", "find") \/ Goto(c, "idle", "over")
      BY <1>5, <2>2 DEF ClientStep, Report, Find, Insert, Incremented, LoadTotal, StoreTotal,
                        Connect, BeginRound, CountRequest, Judge, Disconnect
    <3> QED
      BY <3>1, MoveType
  <2> QED
    BY <2>1, <2>2
<1> QED
  BY <1>1, <1>2, <1>3, <1>4, <1>5 DEF Next, Main, Server

(* The fields of the collector, when only pc and the variables of          *)
(* Lifecycle change, or the process dies.                                  *)
LEMMA QuietMetrics ==
  ASSUME MetricsTypeOK, UNCHANGED metrics \/ StartFails
  PROVE  MetricsTypeOK'
<1>1. CASE UNCHANGED metrics
  BY <1>1 DEF MetricsTypeOK, metrics, latency, map
<1>2. CASE StartFails
  BY <1>2 DEF MetricsTypeOK, StartFails, latency
<1> QED
  BY <1>1, <1>2

LEMMA IncrementType ==
  ASSUME MetricsTypeOK, NEW n \in Name, Increment(n)
  PROVE  DOMAIN counters' \subseteq Name /\ \A m \in DOMAIN counters' : counters'[m] \in Nat
BY DEF MetricsTypeOK, Increment, CountOf

LEMMA NextMetrics ==
  ASSUME IInv, Next
  PROVE  MetricsTypeOK'
<1>1. MetricsTypeOK
  BY DEF IInv, Types
<1>2. CASE Main \/ Signal \/ Server \/ Discover \/ Dashboard \/ CleanupLoop \/ CountConnections
  <2>1. UNCHANGED metrics \/ StartFails
    BY <1>2 DEF Main, Start, WaitForShutdown, Join, Signal, Server, SpawnClient, JoinClients,
                Discover, Dashboard, CleanupLoop, CountConnections, vars
  <2> QED
    BY <1>1, <2>1, QuietMetrics
<1>3. CASE RecordConnections
  <2>1. gauge \in Nat
    BY ClientsFinite DEF IInv, Types
  <2> QED
    BY <1>1, <1>3, <2>1 DEF RecordConnections, RecordActive, MetricsTypeOK, latency, map
<1>4. ASSUME NEW c \in Client, ClientStep(c)
      PROVE  MetricsTypeOK'
  <2>1. CASE Connect(c) \/ Disconnect(c)
    BY <1>1, <2>1, QuietMetrics DEF Connect, Disconnect
  <2>2. CASE LoadTotal(c) \/ StoreTotal(c)
    BY <1>1, <2>2 DEF LoadTotal, StoreTotal, Summed, MetricsTypeOK, map
  <2>3. CASE BeginRound(c) \/ CountRequest(c) \/ Judge(c)
    BY <1>1, <2>3 DEF BeginRound, CountRequest, Judge, MetricsTypeOK, latency, map, Name
  <2>4. CASE Incremented(c, "find") \/ Incremented(c, "insert")
    <3>1. pc[c] \in {"find", "insert"}
      BY <2>4 DEF Incremented, Goto
    <3>2. name[c] \in Name
      BY <3>1 DEF IInv, Named
    <3>3. DOMAIN counters' \subseteq Name /\ \A m \in DOMAIN counters' : counters'[m] \in Nat
      <4>1. CASE Increment(name[c])
        BY <1>1, <3>2, <4>1, IncrementType
      <4>2. CASE counters' = NoCounters
        BY <4>2 DEF NoCounters
      <4> QED
        BY <2>4, <4>1, <4>2 DEF Incremented
    <3>4. raced' \in BOOLEAN
      BY <1>1, <2>4 DEF Incremented, MetricsTypeOK
    <3>5. name' \in [Client -> Name \cup {"none"}]
      BY <1>1, <2>4 DEF Incremented, MetricsTypeOK
    <3> QED
      BY <1>1, <2>4, <3>3, <3>4, <3>5 DEF Incremented, MetricsTypeOK, latency
  <2>5. CASE Races(c, "find") \/ Races(c, "insert")
    BY <1>1, <2>5 DEF Races, MetricsTypeOK, latency
  <2>6. CASE UNCHANGED metrics
    BY <1>1, <2>6, QuietMetrics
  <2> QED
    BY <1>4, <2>1, <2>2, <2>3, <2>4, <2>5, <2>6 DEF ClientStep, Report, Find, Insert
<1> QED
  BY <1>2, <1>3, <1>4 DEF Next, Cleanup

LEMMA NextTypes ==
  ASSUME IInv, Next
  PROVE  Types'
<1>1. Types /\ connections \in 0 .. Cardinality(Client)
  <2>1. Connected \subseteq Client
    BY DEF Connected
  <2>2. Cardinality(Connected) <= Cardinality(Client) /\ Cardinality(Connected) \in Nat
    BY <2>1, ClientsFinite, FS_Subset, FS_CardinalityType
  <2> QED
    BY <2>2, ClientsFinite DEF IInv, Counted
<1>2. MetricsTypeOK' /\ pc' \in [Worker \cup Client -> Locations]
  BY <1>1, NextMetrics, NextMoves
<1>3. main' \in 1 .. Returned
  <2>1. main' \in {main, main + 1} /\ (main' # main => main < Returned)
    BY <1>1, MainSteps DEF Types, Next, Main, Start, WaitForShutdown, Join, JoinOf, Signal,
         Server, SpawnClient, JoinClients, Discover, Dashboard, Cleanup, CleanupLoop,
         CountConnections, RecordConnections, ClientStep, Connect, BeginRound, Report,
         Disconnect, vars
  <2> QED
    BY <1>1, <2>1, MainSteps DEF Types
<1>4. shutdown' \in BOOLEAN
  BY <1>1 DEF Types, Next, Main, Start, WaitForShutdown, Join, Signal,
       Server, SpawnClient, JoinClients, Discover, Dashboard, Cleanup, CleanupLoop,
       CountConnections, RecordConnections, ClientStep, Connect, BeginRound, Report,
       Disconnect, vars
<1>5. gauge' \in {gauge, connections} /\ active' \in {active, gauge}
  BY DEF Next, Main, Start, StartFails, WaitForShutdown, Join, Signal,
       Server, SpawnClient, JoinClients, Discover, Dashboard, Cleanup, CleanupLoop,
       CountConnections, RecordConnections, RecordActive, ClientStep, Connect, BeginRound,
       Report, LoadTotal, StoreTotal, CountRequest, Judge, Find, Insert, Incremented, Races,
       Disconnect, vars, metrics
<1>6. rounds' \in [Client -> 0 .. Rounds]
  <2>1. \/ rounds' = rounds
        \/ \E c \in Client : rounds[c] < Rounds /\ rounds' = [rounds EXCEPT ![c] = @ + 1]
    BY DEF Next, Main, Start, WaitForShutdown, Join, Signal,
         Server, SpawnClient, JoinClients, Discover, Dashboard, Cleanup, CleanupLoop,
         CountConnections, RecordConnections, ClientStep, Connect, BeginRound, Report,
         Disconnect, vars
  <2> QED
    BY <1>1, <2>1, RoundsAssumption DEF Types
<1> QED
  BY <1>1, <1>2, <1>3, <1>4, <1>5, <1>6 DEF Types

-----------------------------------------------------------------------------
(* Names and counts.                                                       *)

LEMMA NamedMove ==
  ASSUME Types, Named, UNCHANGED name,
         NEW t \in Worker \cup Client, NEW from, NEW to, Goto(t, from, to),
         to = "insert" => from = "find", to # "find"
  PROVE  Named'
BY DEF Types, Named, Goto

LEMMA NamedClient ==
  ASSUME Types, Named, NEW c \in Client, NEW to, NEW n,
         pc' = [pc EXCEPT ![c] = to], name' = [name EXCEPT ![c] = n],
         to \in {"find", "insert"} => n \in Name
  PROVE  Named'
BY DEF Types, MetricsTypeOK, Named

(* A step of a thread of main but not of main.                             *)
LEMMA WorkerMoves ==
  ASSUME JoinClients \/ Discover \/ Cleanup
  PROVE  \E t \in Worker, to \in {"over", "sweep", "record", "run"} :
           /\ pc' = [pc EXCEPT ![t] = to] /\ pc[t] \in {"run", "sweep", "record"}
           /\ UNCHANGED <<connections, rounds, name>>
           /\ t = "server" => \A c \in Client : pc[c] = "over"
BY WorkerNames DEF JoinClients, Discover, Cleanup, CleanupLoop, CountConnections,
     RecordConnections, RecordActive, Goto, metrics, map

LEMMA NextNamed ==
  ASSUME Types, Named, Next
  PROVE  Named'
<1>1. CASE Signal \/ WaitForShutdown \/ Join \/ Dashboard \/ StartFails
  BY <1>1 DEF Signal, WaitForShutdown, Join, Dashboard, StartFails, vars, metrics, map, Named
<1>2. CASE Start
  <2>1. CASE Goto(Workers[main], "unborn", "run") /\ UNCHANGED metrics
    <3>1. Workers[main] \in Worker
      BY <1>2, MainSteps DEF Start, Types, Worker
    <3> QED
      BY <2>1, <3>1, NamedMove DEF metrics, map
  <2> QED
    BY <1>1, <1>2, <2>1 DEF Start
<1>3. CASE SpawnClient
  BY <1>1, <1>3, NamedMove DEF SpawnClient, metrics, map
<1>4. CASE JoinClients \/ Discover \/ Cleanup
  BY <1>4, WorkerMoves, NamedMove DEF Goto
<1>5. ASSUME NEW c \in Client, ClientStep(c)
      PROVE  Named'
  <2>1. CASE Races(c, "find") \/ Races(c, "insert")
    BY <2>1 DEF Races, Named
  <2>2. CASE Incremented(c, "find") \/ Incremented(c, "insert")
    BY <2>2, NamedClient DEF Incremented, Goto
  <2>3. CASE Goto(c, "find", "insert") /\ UNCHANGED metrics
    BY <2>3, NamedMove DEF metrics, map
  <2>4. CASE Judge(c)
    BY <2>4, NamedClient DEF Judge, Goto, Name
  <2>5. CASE BeginRound(c)
    <3>1. CASE Goto(c, "idle", "latency") /\ UNCHANGED name
      BY <3>1, NamedMove
    <3>2. CASE Goto(c, "idle", "find") /\ name' = [name EXCEPT ![c] = "requests_blocked"]
      BY <3>2, NamedClient DEF Goto, Name
    <3> QED
      BY <2>5, <3>1, <3>2 DEF BeginRound
  <2>6. CASE Connect(c) \/ LoadTotal(c) \/ StoreTotal(c) \/ CountRequest(c) \/ Disconnect(c)
    <3>1. UNCHANGED name
      BY <2>6 DEF Connect, LoadTotal, StoreTotal, CountRequest, Disconnect, metrics, map
    <3>2. \/ Goto(c, "connect", "idle") \/ Goto(c, "latency", "store")
          \/ Goto(c, "store", "count") \/ Goto(c, "count", "judge") \/ Goto(c, "idle", "over")
      BY <2>6 DEF Connect, LoadTotal, StoreTotal, CountRequest, Disconnect
    <3> QED
      BY <3>1, <3>2, NamedMove
  <2> QED
    BY <1>5, <2>1, <2>2, <2>3, <2>4, <2>5, <2>6 DEF ClientStep, Report, Find, Insert
<1> QED
  BY <1>1, <1>2, <1>3, <1>4, <1>5 DEF Next, Main, Server

(* A thread that neither comes nor goes leaves the counts alone.           *)
LEMMA CountedMove ==
  ASSUME Types, Counted, UNCHANGED <<connections, rounds>>,
         NEW t \in Worker \cup Client, NEW to, pc' = [pc EXCEPT ![t] = to],
         t \in Client => /\ pc[t] # "over" /\ to # "over"
                        /\ (pc[t] \in {"unborn", "connect"} <=> to \in {"unborn", "connect"}),
         t = "server" /\ to = "over" => \A c \in Client : pc[c] = "over"
  PROVE  Counted'
<1>1. pc'[t] = to /\ \A u \in (Worker \cup Client) \ {t} : pc'[u] = pc[u]
  BY DEF Types
<1>2. Connected' = Connected
  BY <1>1 DEF Connected
<1>3. "server" \in Worker \ Client
  BY WorkerNames, ClientAssumption
<1> QED
  BY <1>1, <1>2, <1>3 DEF Counted

LEMMA NextCounted ==
  ASSUME Types, Counted, Next
  PROVE  Counted'
<1>1. CASE Signal \/ WaitForShutdown \/ Join \/ Dashboard
  BY <1>1 DEF Signal, WaitForShutdown, Join, Dashboard, vars, Counted, Connected
<1>2. CASE Start
  <2>1. CASE StartFails
    BY <1>2, <2>1 DEF Start, StartFails, Counted, Connected
  <2>2. CASE Goto(Workers[main], "unborn", "run")
    <3>1. Workers[main] \in Worker /\ Workers[main] \notin Client
      BY <1>2, MainSteps, ClientAssumption DEF Start, Types, Worker
    <3> QED
      BY <1>2, <2>2, <3>1, CountedMove DEF Start, Goto
  <2> QED
    BY <1>2, <2>1, <2>2 DEF Start
<1>3. CASE SpawnClient
  <2>1. CASE StartFails
    BY <1>3, <2>1 DEF SpawnClient, StartFails, Counted, Connected
  <2>2. ASSUME NEW c \in Client, Goto(c, "unborn", "connect")
        PROVE  Counted'
    BY <1>3, <2>2, WorkerNames, ClientAssumption, CountedMove DEF SpawnClient, Goto
  <2> QED
    BY <1>3, <2>1, <2>2 DEF SpawnClient
<1>4. CASE JoinClients \/ Discover \/ Cleanup
  <2>1. Worker \cap Client = {}
    BY ClientAssumption
  <2> QED
    BY <1>4, <2>1, WorkerMoves, CountedMove
<1>5. ASSUME NEW c \in Client, ClientStep(c)
      PROVE  Counted'
  <2>1. IsFiniteSet(Connected) /\ Cardinality(Connected) \in Nat /\ c # "server"
    <3>1. Connected \subseteq Client
      BY DEF Connected
    <3> QED
      BY <3>1, ClientsFinite, FS_Subset, FS_CardinalityType, WorkerNames, ClientAssumption
  <2>2. CASE Connect(c)
    <3>1. Connected' = Connected \cup {c} /\ c \notin Connected
      BY <2>2 DEF Connect, Goto, Connected, Types
    <3>2. pc[c] = "connect" /\ pc'["server"] = pc["server"] /\ UNCHANGED rounds
          /\ \A d \in Client : pc'[d] = "over" <=> pc[d] = "over"
      BY <2>1, <2>2, WorkerNames DEF Connect, Goto, Types
    <3> QED
      BY <2>1, <2>2, <3>1, <3>2, FS_AddElement DEF Connect, Counted
  <2>3. CASE Disconnect(c)
    <3>1. Connected' = Connected \ {c} /\ c \in Connected
      BY <2>3 DEF Disconnect, Goto, Connected, Types
    <3>2. pc'["server"] = pc["server"] /\ UNCHANGED rounds /\ rounds[c] = Rounds
          /\ pc'[c] = "over" /\ \A d \in Client \ {c} : pc'[d] = pc[d]
      BY <2>1, <2>3, WorkerNames DEF Disconnect, Goto, Types
    <3>3. connections' = Cardinality(Connected')
      BY <2>1, <2>3, <3>1, FS_RemoveElement DEF Disconnect, Counted
    <3> QED
      BY <3>2, <3>3 DEF Counted
  <2>4. CASE BeginRound(c)
    <3>1. Connected' = Connected
      BY <2>4 DEF BeginRound, Goto, Connected, Types
    <3>2. /\ pc'["server"] = pc["server"] /\ UNCHANGED connections
          /\ pc[c] = "idle" /\ pc'[c] # "over" /\ \A d \in Client \ {c} : pc'[d] = pc[d]
          /\ \A d \in Client \ {c} : rounds'[d] = rounds[d]
      BY <2>1, <2>4, WorkerNames DEF BeginRound, Goto, Types
    <3> QED
      BY <3>1, <3>2 DEF Counted
  <2>5. CASE Report(c)
    <3>1. CASE Races(c, "find") \/ Races(c, "insert")
      BY <2>5, <3>1 DEF Report, Races, Counted, Connected
    <3>2. CASE ~(Races(c, "find") \/ Races(c, "insert"))
      <4>1. \E from, to \in {"latency", "store", "count", "judge", "find", "insert", "idle"} :
               Goto(c, from, to)
        BY <2>5, <3>2 DEF Report, LoadTotal, StoreTotal, CountRequest, Judge, Find, Insert,
                          Incremented
      <4> QED
        BY <2>1, <2>5, <4>1, CountedMove DEF Report, Goto
    <3> QED
      BY <3>1, <3>2
  <2> QED
    BY <1>5, <2>2, <2>3, <2>4, <2>5 DEF ClientStep
<1> QED
  BY <1>1, <1>2, <1>3, <1>4, <1>5 DEF Next, Main, Server

LEMMA NextInvariant == IInv /\ [Next]_vars => IInv'
<1>1. IInv /\ Next => IInv'
  BY NextTypes, NextNamed, NextCounted, NextLoaded DEF IInv
<1>2. IInv /\ UNCHANGED vars => IInv'
  BY DEF IInv, Types, MetricsTypeOK, Named, Counted, Connected, Loaded, LoneSamplesKept,
         Measuring, vars, metrics, latency, map
<1> QED
  BY <1>1, <1>2

-----------------------------------------------------------------------------
(* The theorems.                                                           *)

(* The inductive invariant holds in every reachable state.                 *)
THEOREM Invariant == Spec => []IInv
BY InitInvariant, NextInvariant, PTL DEF Spec

(* The variables keep their types, and connection_count_ stays between     *)
(* zero and the number of clients.                                         *)
THEOREM TypeCorrect == Spec => []TypeOK
<1>1. IInv => TypeOK
  <2>1. Connected \subseteq Client
    BY DEF Connected
  <2>2. Cardinality(Connected) \in 0 .. Cardinality(Client)
    BY <2>1, ClientsFinite, FS_Subset, FS_CardinalityType
  <2> QED
    BY <2>2 DEF IInv, Types, Counted, TypeOK
<1> QED
  BY <1>1, Invariant, PTL

(* When the thread of TCPServer::start ends, its clients have ended, have  *)
(* made all their requests, and are no longer counted.                     *)
THEOREM ServerEndsLast == Spec => []ServerLeavesNothing
<1>1. IInv => ServerLeavesNothing
  <2> SUFFICES ASSUME IInv, pc["server"] = "over"
               PROVE  connections = 0 /\ \A c \in Client : pc[c] = "over" /\ rounds[c] = Rounds
    BY DEF ServerLeavesNothing
  <2>1. Connected = {}
    BY DEF IInv, Counted, Connected
  <2> QED
    BY <2>1, FS_EmptySet DEF IInv, Counted
<1> QED
  BY <1>1, Invariant, PTL

(* However many threads are in record_latency at once, a sample whose      *)
(* recording no other overlapped stays in the total, and no sample is in   *)
(* it twice.                                                               *)
THEOREM LoneSamplesAreKept == Spec => []LoneSamplesKept
<1>1. IInv => LoneSamplesKept
  BY DEF IInv, Loaded
<1> QED
  BY <1>1, Invariant, PTL

-----------------------------------------------------------------------------
(* The counts of requests.                                                 *)

(* Requests that are counted, but not yet by the name of their outcome.    *)
Judging == {c \in Client : \/ pc[c] = "judge"
                           \/ /\ pc[c] \in {"find", "insert"}
                              /\ name[c] \in {"requests_success", "requests_failed"}}

(* Rounds begun, not yet counted as a request or as blocked.               *)
Begun == {c \in Client : \/ pc[c] \in {"latency", "store", "count"}
                         \/ pc[c] \in {"find", "insert"} /\ name[c] = "requests_blocked"}

(* All rounds that were begun: the n-th of client c is <<c, n>>.           *)
Made == {r \in Client \X (1 .. Rounds) : r[2] <= rounds[r[1]]}

(* At any moment, every request counted has its outcome counted or is on   *)
(* its way there, and every round begun is a request, blocked or on its    *)
(* way; unless the map of counters was raced.                              *)
Tallied ==
  ~raced =>
    /\ requestCount = CountOf("requests_success") + CountOf("requests_failed")
                        + Cardinality(Judging)
    /\ requestCount + CountOf("requests_blocked") + Cardinality(Begun) = Cardinality(Made)

LEMMA TallySets ==
  ASSUME Types
  PROVE  /\ IsFiniteSet(Judging) /\ Cardinality(Judging) \in Nat
         /\ IsFiniteSet(Begun) /\ Cardinality(Begun) \in Nat
         /\ IsFiniteSet(Made) /\ Cardinality(Made) \in Nat
         /\ requestCount \in Nat /\ \A n \in Name : CountOf(n) \in Nat
<1>1. /\ IsFiniteSet(Judging) /\ Cardinality(Judging) \in Nat
      /\ IsFiniteSet(Begun) /\ Cardinality(Begun) \in Nat
  <2>1. Judging \subseteq Client /\ Begun \subseteq Client
    BY DEF Judging, Begun
  <2> QED
    BY <2>1, ClientsFinite, FS_Subset, FS_CardinalityType
<1>2. IsFiniteSet(Made) /\ Cardinality(Made) \in Nat
  <2>1. IsFiniteSet(1 .. Rounds)
    BY RoundsAssumption, FS_Interval
  <2>2. IsFiniteSet(Client \X (1 .. Rounds))
    BY <2>1, ClientsFinite, FS_Product
  <2>3. Made \subseteq Client \X (1 .. Rounds)
    BY DEF Made
  <2> QED
    BY <2>2, <2>3, FS_Subset, FS_CardinalityType
<1>3. requestCount \in Nat /\ \A n \in Name : CountOf(n) \in Nat
  BY DEF Types, MetricsTypeOK, CountOf
<1> QED
  BY <1>1, <1>2, <1>3

(* A step that changes neither a count nor who is on the way to one.       *)
LEMMA TallyKept ==
  ASSUME Tallied, UNCHANGED <<requestCount, counters, raced, rounds>>,
         Judging' = Judging, Begun' = Begun
  PROVE  Tallied'
<1>1. Made' = Made
  BY DEF Made
<1> QED
  BY <1>1 DEF Tallied, CountOf

(* A thread of main, or a client outside of a request, moves.              *)
LEMMA TallyMove ==
  ASSUME Types, Tallied, UNCHANGED <<requestCount, counters, raced, rounds, name>>,
         NEW t \in Worker \cup Client, NEW to, pc' = [pc EXCEPT ![t] = to],
         t \in Client => {pc[t], to} \subseteq {"unborn", "connect", "idle", "over"}
  PROVE  Tallied'
<1>1. Judging' = Judging /\ Begun' = Begun
  BY DEF Judging, Begun, Types
<1> QED
  BY <1>1, TallyKept

LEMMA TallyBegin ==
  ASSUME Types, Types', Tallied, NEW c \in Client, BeginRound(c)
  PROVE  Tallied'
<1> DEFINE r == <<c, rounds[c] + 1>>
<1>1. /\ rounds[c] \in 0 .. Rounds /\ rounds[c] < Rounds
      /\ rounds' = [rounds EXCEPT ![c] = @ + 1]
      /\ UNCHANGED <<requestCount, counters, raced>>
  BY DEF BeginRound, Types
<1>2. Judging' = Judging /\ Begun' = Begun \cup {c} /\ c \notin Begun
  BY DEF BeginRound, Goto, Judging, Begun, Types, MetricsTypeOK
<1>3. r \in Client \X (1 .. Rounds) /\ r[1] = c /\ r[2] = rounds[c] + 1
  BY <1>1, RoundsAssumption
<1>4. Made' = Made \cup {r} /\ r \notin Made
  <2>1. ASSUME NEW x \in Client \X (1 .. Rounds)
        PROVE  x[2] <= rounds'[x[1]] <=> x[2] <= rounds[x[1]] \/ x = r
    <3>1. x = <<x[1], x[2]>> /\ x[1] \in Client /\ x[2] \in 1 .. Rounds
      OBVIOUS
    <3>2. CASE x[1] = c
      <4>1. rounds'[x[1]] = rounds[c] + 1
        BY <1>1, <3>2 DEF Types
      <4>2. x = r <=> x[2] = rounds[c] + 1
        BY <3>1, <3>2
      <4> QED
        BY <1>1, <3>1, <3>2, <4>1, <4>2, RoundsAssumption
    <3>3. CASE x[1] # c
      <4>1. rounds'[x[1]] = rounds[x[1]]
        BY <1>1, <3>1, <3>3 DEF Types
      <4> QED
        BY <1>3, <3>3, <4>1
    <3> QED
      BY <3>2, <3>3
  <2>2. ~(r[2] <= rounds[r[1]])
    BY <1>1, <1>3
  <2> HIDE DEF r
  <2> QED
    BY <1>3, <2>1, <2>2 DEF Made
<1> HIDE DEF r
<1>5. /\ Cardinality(Begun') = Cardinality(Begun) + 1
      /\ Cardinality(Made') = Cardinality(Made) + 1
  BY <1>2, <1>4, TallySets, FS_AddElement
<1>6. \A n : CountOf(n)' = CountOf(n)
  BY <1>1 DEF CountOf
<1> QED
  BY <1>1, <1>2, <1>5, <1>6, TallySets DEF Tallied, Name

LEMMA TallyRequest ==
  ASSUME Types, Tallied, NEW c \in Client, CountRequest(c), UNCHANGED rounds
  PROVE  Tallied'
<1>1. /\ requestCount' = requestCount + 1 /\ UNCHANGED <<counters, raced, name>>
      /\ Judging' = Judging \cup {c} /\ c \notin Judging
      /\ Begun' = Begun \ {c} /\ c \in Begun
  BY DEF CountRequest, Goto, Judging, Begun, Types, map
<1>2. /\ Cardinality(Judging') = Cardinality(Judging) + 1
      /\ Cardinality(Begun') = Cardinality(Begun) - 1
  BY <1>1, TallySets, FS_AddElement, FS_RemoveElement
<1>3. Made' = Made /\ \A n : CountOf(n)' = CountOf(n)
  BY <1>1 DEF Made, CountOf
<1> QED
  BY <1>1, <1>2, <1>3, TallySets DEF Tallied, Name

LEMMA TallyJudge ==
  ASSUME Types, Tallied, NEW c \in Client, Judge(c), UNCHANGED rounds
  PROVE  Tallied'
<1>1. Judging' = Judging /\ Begun' = Begun
  <2>1. PICK n \in {"requests_success", "requests_failed"} : name' = [name EXCEPT ![c] = n]
    BY DEF Judge
  <2>2. pc[c] = "judge" /\ pc' = [pc EXCEPT ![c] = "find"]
    BY DEF Judge, Goto
  <2> QED
    BY <2>1, <2>2 DEF Judging, Begun, Types, MetricsTypeOK
<1>2. UNCHANGED <<requestCount, counters, raced>>
  BY DEF Judge
<1> QED
  BY <1>1, <1>2, TallyKept

(* The increment of a counter ends the request's way to it.                *)
LEMMA TallyIncrement ==
  ASSUME Types, Named, Tallied, NEW c \in Client, UNCHANGED rounds,
         Incremented(c, "find") \/ Incremented(c, "insert")
  PROVE  Tallied'
<1> SUFFICES ASSUME ~raced'
             PROVE  Tallied'
  BY DEF Tallied
<1>1. /\ pc[c] \in {"find", "insert"} /\ pc' = [pc EXCEPT ![c] = "idle"]
      /\ name' = [name EXCEPT ![c] = "none"]
      /\ Increment(name[c]) /\ ~raced /\ UNCHANGED requestCount
  BY DEF Incremented, Goto
<1>2. PICK n \in Name : n = name[c]
  BY <1>1 DEF Named
<1>3. CountOf(n)' = CountOf(n) + 1 /\ \A m \in Name \ {n} : CountOf(m)' = CountOf(m)
  BY <1>1, <1>2 DEF Increment, CountOf
<1>4. Made' = Made
  BY DEF Made
<1>5. CASE n = "requests_blocked"
  <2>1. Judging' = Judging /\ Begun' = Begun \ {c} /\ c \in Begun
    BY <1>1, <1>2, <1>5 DEF Judging, Begun, Types, MetricsTypeOK
  <2>2. Cardinality(Begun') = Cardinality(Begun) - 1
    BY <2>1, TallySets, FS_RemoveElement
  <2>3. /\ CountOf("requests_blocked")' = CountOf("requests_blocked") + 1
        /\ CountOf("requests_success")' = CountOf("requests_success")
        /\ CountOf("requests_failed")' = CountOf("requests_failed")
    BY <1>3, <1>5 DEF Name
  <2> QED
    BY <1>1, <1>4, <2>1, <2>2, <2>3, TallySets DEF Tallied, Name
<1>6. CASE n \in {"requests_success", "requests_failed"}
  <2>1. Judging' = Judging \ {c} /\ c \in Judging /\ Begun' = Begun
    BY <1>1, <1>2, <1>6 DEF Judging, Begun, Types, MetricsTypeOK
  <2>2. Cardinality(Judging') = Cardinality(Judging) - 1
    BY <2>1, TallySets, FS_RemoveElement
  <2>3. /\ CountOf("requests_blocked")' = CountOf("requests_blocked")
        /\ \/ /\ CountOf("requests_success")' = CountOf("requests_success") + 1
              /\ CountOf("requests_failed")' = CountOf("requests_failed")
           \/ /\ CountOf("requests_success")' = CountOf("requests_success")
              /\ CountOf("requests_failed")' = CountOf("requests_failed") + 1
    BY <1>3, <1>6 DEF Name
  <2> QED
    BY <1>1, <1>4, <2>1, <2>2, <2>3, TallySets DEF Tallied, Name
<1> QED
  BY <1>2, <1>5, <1>6 DEF Name

LEMMA NextTallied == IInv /\ IInv' /\ Tallied /\ [Next]_vars => Tallied'
<1> SUFFICES ASSUME IInv, IInv', Tallied, [Next]_vars
             PROVE  Tallied'
  OBVIOUS
<1>1. Types /\ Named /\ Types'
  BY DEF IInv
<1>2. CASE \/ UNCHANGED vars \/ Signal \/ WaitForShutdown \/ Join \/ Dashboard
           \/ StartFails /\ UNCHANGED rounds
  <2>1. UNCHANGED <<requestCount, counters, raced, rounds, pc, name>>
    BY <1>2 DEF Signal, WaitForShutdown, Join, Dashboard, StartFails, vars, metrics, map
  <2>2. Judging' = Judging /\ Begun' = Begun
    BY <2>1 DEF Judging, Begun
  <2> QED
    BY <2>1, <2>2, TallyKept
<1>3. CASE Start
  <2>1. CASE Goto(Workers[main], "unborn", "run") /\ UNCHANGED metrics
    <3>1. Workers[main] \in Worker /\ Workers[main] \notin Client
      BY <1>1, <1>3, MainSteps, ClientAssumption DEF Start, Types, Worker
    <3>2. UNCHANGED <<requestCount, counters, raced, rounds, name>>
      BY <1>3, <2>1 DEF Start, metrics, map
    <3> QED
      BY <1>1, <2>1, <3>1, <3>2, TallyMove DEF Goto
  <2> QED
    BY <1>2, <1>3, <2>1 DEF Start
<1>4. CASE SpawnClient
  <2>1. ASSUME NEW c \in Client, Goto(c, "unborn", "connect"), UNCHANGED metrics
        PROVE  Tallied'
    <3>1. UNCHANGED <<requestCount, counters, raced, rounds, name>>
      BY <1>4, <2>1 DEF SpawnClient, metrics, map
    <3> QED
      BY <1>1, <2>1, <3>1, TallyMove DEF Goto
  <2> QED
    BY <1>2, <1>4, <2>1 DEF SpawnClient
<1>5. CASE JoinClients \/ Discover \/ Cleanup
  <2>1. UNCHANGED <<requestCount, counters, raced>>
    BY <1>5 DEF JoinClients, Discover, Cleanup, CleanupLoop, CountConnections,
                RecordConnections, RecordActive, metrics, map
  <2>2. PICK t \in Worker, to \in {"over", "sweep", "record", "run"} :
           pc' = [pc EXCEPT ![t] = to] /\ UNCHANGED <<rounds, name>>
    BY <1>5, WorkerMoves
  <2>3. t \notin Client
    BY ClientAssumption
  <2> QED
    BY <1>1, <2>1, <2>2, <2>3, TallyMove
<1>6. ASSUME NEW c \in Client, ClientStep(c)
      PROVE  Tallied'
  <2>1. CASE Connect(c) \/ Disconnect(c)
    <3>1. UNCHANGED <<requestCount, counters, raced, rounds, name>>
      BY <2>1 DEF Connect, Disconnect, metrics, map
    <3>2. Goto(c, "connect", "idle") \/ Goto(c, "idle", "over")
      BY <2>1 DEF Connect, Disconnect
    <3> QED
      BY <1>1, <3>1, <3>2, TallyMove DEF Goto
  <2>2. CASE BeginRound(c)
    BY <1>1, <2>2, TallyBegin
  <2>3. CASE Report(c)
    <3>0. UNCHANGED rounds
      BY <2>3 DEF Report
    <3>1. CASE LoadTotal(c) \/ StoreTotal(c)
      <4>1. UNCHANGED <<requestCount, counters, raced, name>>
        BY <3>1 DEF LoadTotal, StoreTotal, map
      <4>2. Goto(c, "latency", "store") \/ Goto(c, "store", "count")
        BY <3>1 DEF LoadTotal, StoreTotal
      <4>3. Judging' = Judging /\ Begun' = Begun
        BY <1>1, <4>1, <4>2 DEF Goto, Judging, Begun, Types
      <4> QED
        BY <3>0, <4>1, <4>3, TallyKept
    <3>2. CASE CountRequest(c)
      BY <1>1, <3>0, <3>2, TallyRequest
    <3>3. CASE Judge(c)
      BY <1>1, <3>0, <3>3, TallyJudge
    <3>4. CASE Incremented(c, "find") \/ Incremented(c, "insert")
      BY <1>1, <3>0, <3>4, TallyIncrement
    <3>5. CASE Races(c, "find") \/ Races(c, "insert")
      BY <3>5 DEF Races, Tallied
    <3>6. CASE Goto(c, "find", "insert") /\ UNCHANGED metrics
      <4>1. UNCHANGED <<requestCount, counters, raced, name>>
        BY <3>6 DEF metrics, map
      <4>2. Judging' = Judging /\ Begun' = Begun
        BY <1>1, <3>6, <4>1 DEF Goto, Judging, Begun, Types
      <4> QED
        BY <3>0, <4>1, <4>2, TallyKept
    <3> QED
      BY <2>3, <3>1, <3>2, <3>3, <3>4, <3>5, <3>6 DEF Report, Find, Insert
  <2> QED
    BY <1>6, <2>1, <2>2, <2>3 DEF ClientStep
<1> QED
  BY <1>2, <1>3, <1>4, <1>5, <1>6 DEF Next, Main, Server

(* When the server has ended, the metrics' totals and counters agree, for  *)
(* any number of clients and rounds, unless two threads met in the map of  *)
(* counters while one was inserting.                                       *)
THEOREM ReportsAlwaysAddUp == Spec => []ReportsAddUp
<1>1. Init => Tallied
  <2> SUFFICES ASSUME Init
               PROVE  Tallied
    OBVIOUS
  <2>1. Judging = {} /\ Begun = {}
    BY DEF Init, Judging, Begun
  <2>2. Made = {}
    BY DEF Init, Made
  <2>3. requestCount = 0 /\ \A n : CountOf(n) = 0
    BY DEF Init, MetricsInit, NoCounters, CountOf
  <2> QED
    BY <2>1, <2>2, <2>3, FS_EmptySet DEF Tallied
<1>2. IInv /\ Tallied => ReportsAddUp
  <2> SUFFICES ASSUME IInv, Tallied, pc["server"] = "over", ~raced
               PROVE  /\ requestCount = CountOf("requests_success") + CountOf("requests_failed")
                      /\ requestCount + CountOf("requests_blocked")
                           = Rounds * Cardinality(Client)
    BY DEF ReportsAddUp
  <2>1. \A c \in Client : pc[c] = "over" /\ rounds[c] = Rounds
    BY DEF IInv, Counted
  <2>2. Judging = {} /\ Begun = {}
    BY <2>1 DEF Judging, Begun
  <2>3. Made = Client \X (1 .. Rounds)
    BY <2>1, RoundsAssumption DEF Made
  <2>4. Cardinality(Made) = Rounds * Cardinality(Client)
    <3>1. IsFiniteSet(1 .. Rounds) /\ Cardinality(1 .. Rounds) = Rounds
      BY RoundsAssumption, FS_Interval
    <3>2. Cardinality(Client \X (1 .. Rounds)) = Cardinality(Client) * Cardinality(1 .. Rounds)
      BY <3>1, ClientsFinite, FS_Product
    <3>3. Cardinality(Client) * Rounds = Rounds * Cardinality(Client)
      BY ClientsFinite, RoundsAssumption
    <3> QED
      BY <2>3, <3>1, <3>2, <3>3
  <2>5. Types
    BY DEF IInv
  <2>6. /\ requestCount = CountOf("requests_success") + CountOf("requests_failed") + 0
        /\ requestCount + CountOf("requests_blocked") + 0 = Cardinality(Made)
    BY <2>2, FS_EmptySet DEF Tallied
  <2> QED
    BY <2>4, <2>5, <2>6, TallySets DEF Name
<1> QED
  BY <1>1, <1>2, NextTallied, Invariant, PTL DEF Spec
=============================================================================
