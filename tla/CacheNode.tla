------------------------------ MODULE CacheNode ------------------------------
(***************************************************************************)
(* One running node: src/main.cpp with src/network/TCPServer.cpp and       *)
(* src/storage/WAL.cpp, over the cache that BoundedStore specifies.        *)
(*                                                                         *)
(* Client threads serve requests.  A write changes the cache first and is  *)
(* appended to the log afterwards, in two critical sections of their own;  *)
(* then it is acknowledged.  The process may be killed at any moment; the  *)
(* next one loads the snapshot file, replays the log and serves again.     *)
(* Every SET stores a value of its own, so that a value names the request  *)
(* that wrote it.                                                          *)
(***************************************************************************)
EXTENDS CacheOps, SequencesExt

CONSTANTS Client,        \* the client threads of the server
          Key,
          Nil,           \* "(nil)", the answer to a GET that misses
          Snapshot,      \* the keys of snapshot.dat, in the order they load
          MaxRequests,   \* bound on the requests of a client
          MaxKills,      \* bound on the times the process is killed
          MaxFaults,     \* bound on the writes the disk refuses
          MaxTime        \* bound on the clock

ASSUME SnapshotAssumption == Snapshot \in Seq(Key)
ASSUME NilAssumption == Nil \notin [client : Client \cup {Nil}, n : 0 .. MaxRequests]
ASSUME BoundsAssumption ==
  MaxRequests \in Nat /\ MaxKills \in Nat /\ MaxFaults \in Nat /\ MaxTime \in Nat

VARIABLES phase,         \* "recovering" or "serving"
          pos,           \* the next record to recover
          store,         \* the contents of the cache
          log,           \* the lines of wal.log
          stream,        \* the state of wal_file_: "good" or "bad"
          pc, cmd,       \* per client: where it is, in which request
          answer,        \* per client: the value its last GET returned
          issued,        \* per client: the requests it has made
          now,           \* std::chrono::steady_clock
          kills, faults,
          acked,         \* history: the requests answered with OK
          history        \* history: every request ever made

disk == <<log, faults>>
memory == <<store, stream>>
clients == <<pc, cmd, answer, issued>>
ghosts == <<acked, history>>
vars == <<phase, pos, memory, disk, clients, now, kills, ghosts>>

Request == [client : Client, n : 1 .. MaxRequests]
FromSnapshot == [client |-> Nil, n |-> 0]
NoRequest == [op |-> "none"]

-----------------------------------------------------------------------------
(* What one SET or DEL, live or recovered, does to the cache at time t.    *)
Applied(s, r, t) ==
  CASE r.op = "SET" -> Put(s, [key |-> r.key, val |-> r.req, exp |-> ExpireTime(t, 0)])
    [] r.op = "DEL" -> Without(s, r.key)
    [] OTHER -> s

(* Mutant: the log is replayed before the snapshot is loaded. *)
ScriptLogFirst ==
  log \o [i \in DOMAIN Snapshot |->
            [op |-> "SET", key |-> Snapshot[i], req |-> FromSnapshot]]

Script ==
  [i \in DOMAIN Snapshot |-> [op |-> "SET", key |-> Snapshot[i], req |-> FromSnapshot]]
    \o log

-----------------------------------------------------------------------------
(* main: the snapshot, then the log, one cache operation per record.       *)
Recover ==
  /\ phase = "recovering"
  /\ pos <= Len(Script)
  /\ store' = Applied(store, Script[pos], now)
  /\ pos' = pos + 1
  /\ UNCHANGED <<phase, stream, disk, clients, now, kills, ghosts>>

(* Mutant: the last record is not replayed. *)
ServeOneTooEarly ==
  /\ phase = "recovering"
  /\ pos >= Len(Script)
  /\ phase' = "serving"
  /\ UNCHANGED <<pos, memory, disk, clients, now, kills, ghosts>>

Serve ==
  /\ phase = "recovering"
  /\ pos > Len(Script)
  /\ phase' = "serving"
  /\ UNCHANGED <<pos, memory, disk, clients, now, kills, ghosts>>

(* The process is killed and started again.  Its memory is lost, and what  *)
(* its clients were doing; the lines flushed to wal.log are not.           *)
Kill ==
  /\ kills < MaxKills
  /\ kills' = kills + 1
  /\ phase' = "recovering" /\ pos' = 1
  /\ store' = <<>> /\ stream' = "good"
  /\ pc' = [c \in Client |-> "idle"]
  /\ cmd' = [c \in Client |-> NoRequest]
  /\ answer' = [c \in Client |-> Nil]
  /\ UNCHANGED <<disk, issued, now, ghosts>>

-----------------------------------------------------------------------------
(* A client thread: one round of handle_client_simulation.                 *)

Begin(c) ==
  /\ phase = "serving"
  /\ pc[c] = "idle"
  /\ issued[c] < MaxRequests
  /\ issued' = [issued EXCEPT ![c] = @ + 1]
  /\ \E op \in {"SET", "GET", "DEL"}, k \in Key :
       LET r == [op |-> op, key |-> k, req |-> [client |-> c, n |-> issued'[c]]]
       IN /\ cmd' = [cmd EXCEPT ![c] = r]
          /\ history' = history \cup {[op |-> op, key |-> k, req |-> r.req,
                                       born |-> now, before |-> acked]}
  /\ pc' = [pc EXCEPT ![c] = "cache"]
  /\ UNCHANGED <<phase, pos, memory, disk, answer, now, kills, acked>>

Step(c, from, to) == pc[c] = from /\ pc' = [pc EXCEPT ![c] = to]

(* Mutant: deletions are not logged. *)
UpdateWithoutLoggingDel(c) ==
  /\ cmd[c].op \in {"SET", "DEL"}
  /\ Step(c, "cache", IF cmd[c].op = "SET" THEN "log" ELSE "reply")
  /\ store' = Applied(store, cmd[c], now)
  /\ UNCHANGED <<phase, pos, stream, disk, cmd, answer, issued, now, kills, ghosts>>

(* cache_.set or cache_.del *)
Update(c) ==
  /\ cmd[c].op \in {"SET", "DEL"}
  /\ Step(c, "cache", "log")
  /\ store' = Applied(store, cmd[c], now)
  /\ UNCHANGED <<phase, pos, stream, disk, cmd, answer, issued, now, kills, ghosts>>

(* cache_.get *)
Read(c) ==
  /\ cmd[c].op = "GET"
  /\ Step(c, "cache", "reply")
  /\ answer' = [answer EXCEPT ![c] = Lookup(store, cmd[c].key, now, Nil)]
  /\ UNCHANGED <<phase, pos, memory, disk, cmd, issued, now, kills, ghosts>>

(* wal_.append: a line, flushed.  Nobody looks at the state of the stream, *)
(* and a stream that failed once ignores everything written to it after.   *)
LogAppend(c) ==
  /\ Step(c, "log", "reply")
  /\ \/ /\ stream = "good"
        /\ log' = Append(log, cmd[c])
        /\ UNCHANGED <<stream, faults>>
     \/ /\ stream = "good" /\ faults < MaxFaults
        /\ stream' = "bad" /\ faults' = faults + 1
        /\ UNCHANGED log
     \/ /\ stream = "bad"
        /\ UNCHANGED <<stream, disk>>
  /\ UNCHANGED <<phase, pos, store, cmd, answer, issued, now, kills, ghosts>>

(* Mutant: OK may be sent before the line is written. *)
ReplyEarly(c) ==
  /\ \/ Step(c, "reply", "idle") /\ cmd' = [cmd EXCEPT ![c] = NoRequest]
     \/ Step(c, "log", "log") /\ UNCHANGED cmd
  /\ acked' = acked \cup {cmd[c].req}
  /\ answer' = [answer EXCEPT ![c] = Nil]
  /\ UNCHANGED <<phase, pos, memory, disk, issued, now, kills, history>>

(* The response is printed: OK for a write, whatever happened to its line. *)
Reply(c) ==
  /\ Step(c, "reply", "idle")
  /\ cmd' = [cmd EXCEPT ![c] = NoRequest]
  /\ acked' = acked \cup {cmd[c].req}
  /\ answer' = [answer EXCEPT ![c] = Nil]
  /\ UNCHANGED <<phase, pos, memory, disk, issued, now, kills, history>>

-----------------------------------------------------------------------------
(* Mutant: an entry is dropped at its expiry instant already. *)
CleanupTooEarly ==
  /\ phase = "serving"
  /\ store' = Unexpired(store, now + 1)
  /\ UNCHANGED <<phase, pos, stream, disk, clients, now, kills, ghosts>>

(* The background thread of main. *)
Cleanup ==
  /\ phase = "serving"
  /\ store' = Unexpired(store, now)
  /\ UNCHANGED <<phase, pos, stream, disk, clients, now, kills, ghosts>>

Tick ==
  /\ now < MaxTime
  /\ now' = now + 1
  /\ UNCHANGED <<phase, pos, memory, disk, clients, kills, ghosts>>

Init ==
  /\ phase = "recovering" /\ pos = 1
  /\ store = <<>> /\ log = <<>> /\ stream = "good"
  /\ pc = [c \in Client |-> "idle"]
  /\ cmd = [c \in Client |-> NoRequest]
  /\ answer = [c \in Client |-> Nil]
  /\ issued = [c \in Client |-> 0]
  /\ now = 0 /\ kills = 0 /\ faults = 0
  /\ acked = {} /\ history = {}

Serving(c) == Begin(c) \/ Update(c) \/ Read(c) \/ LogAppend(c) \/ Reply(c)

Next ==
  \/ Recover \/ Serve \/ Kill
  \/ \E c \in Client : Serving(c)
  \/ Cleanup \/ Tick

Spec == Init /\ [][Next]_vars

-----------------------------------------------------------------------------
(* Properties.                                                             *)

Command == [op : {"SET", "GET", "DEL"}, key : Key, req : Request]
Entry == [key : Key, val : Request \cup {FromSnapshot}, exp : Nat]

(* Types of the variables; and the cache has one entry per key, whatever   *)
(* clients, eviction, cleanup and an interrupted replay have done to it.   *)
TypeOK ==
  /\ phase \in {"recovering", "serving"} /\ pos \in Nat \ {0}
  /\ store \in Seq(Entry) /\ stream \in {"good", "bad"}
  /\ \A i, j \in DOMAIN store : store[i].key = store[j].key => i = j
  /\ log \in Seq(Command)
  /\ pc \in [Client -> {"idle", "cache", "log", "reply"}]
  /\ cmd \in [Client -> Command \cup {NoRequest}]
  /\ answer \in [Client -> Request \cup {FromSnapshot, Nil}]
  /\ issued \in [Client -> 0 .. MaxRequests]
  /\ now \in Nat /\ kills \in Nat /\ faults \in Nat
  /\ acked \subseteq Request
  /\ \A h \in history : [op |-> h.op, key |-> h.key, req |-> h.req] \in Command

Writes == {h \in history : h.op \in {"SET", "DEL"}}

Logged(h) == \E i \in DOMAIN log : log[i].req = h.req

(* A write answered with OK is on a line of wal.log: the log gives the     *)
(* durability that the list of features promises.                          *)
AckedIsLogged == \A h \in Writes : h.req \in acked => Logged(h)

(* A write that was acknowledged before another one began is before it in  *)
(* the log, in whatever processes they ran: replay never lets an older     *)
(* write win over a newer one.                                             *)
LogKeepsRealTimeOrder ==
  \A h \in Writes : \A i, j \in DOMAIN log :
     log[i].req = h.req /\ log[j].req \in h.before => j < i

(* The GET client c is about to answer, as its history recorded it.        *)
Answering(c) == pc[c] = "reply" /\ cmd[c].op = "GET"
Past(c) == CHOOSE h \in history : h.req = cmd[c].req

(* A GET never returns a value that had been replaced, by a write already  *)
(* acknowledged, when the GET began, be it in an earlier process: the      *)
(* value is that of the snapshot, or of a write no such write came after.  *)
ReadsNotStale ==
  \A c \in Client :
    Answering(c) /\ answer[c] # Nil =>
      ~\E h \in Writes : /\ h.key = cmd[c].key
                         /\ h.req \in Past(c).before
                         /\ answer[c] \in h.before \cup {FromSnapshot}

(* The entries of the snapshot, as writes made before all others. *)
Loads ==
  {[op |-> "SET", key |-> Snapshot[i], req |-> FromSnapshot, born |-> 0, before |-> {}] :
     i \in DOMAIN Snapshot}

(* The writes that did not finish before h began; the snapshot is loaded   *)
(* entry by entry.                                                         *)
Since(h) ==
  {d \in Writes : d.req \notin h.before} \cup (IF h \in Loads THEN Loads ELSE {})

(* The other keys that were set since. *)
Rivals(h) == {d.key : d \in {g \in Since(h) : g.op = "SET"}} \ {h.key}

(* What h stored may be gone: it has outlived its TTL, or its key was      *)
(* deleted since, or as many keys as the cache holds were set since.       *)
MayBeGone(h) ==
  \/ now > h.born + DefaultTTL
  \/ \E d \in Since(h) : d.op = "DEL" /\ d.key = h.key
  \/ Cardinality(Rivals(h)) >= Capacity

(* A GET misses only a key that is gone: every acknowledged SET of the key *)
(* has outlived its TTL, or has a DEL that did not finish before it began, *)
(* or as many keys as the cache holds were set after it began; and so for  *)
(* the entries of the snapshot.                                            *)
MissesAreJustified ==
  \A c \in Client :
    Answering(c) /\ answer[c] = Nil =>
      \A h \in Loads \cup {g \in Writes : g.req \in Past(c).before} :
        h.op = "SET" /\ h.key = cmd[c].key => MayBeGone(h)

Contents(s) == [i \in DOMAIN s |-> [key |-> s[i].key, val |-> s[i].val]]

(* What the records of a script make of an empty cache, one after the      *)
(* other, at time t.                                                       *)
Replayed(script, t) ==
  LET after[n \in 0 .. Len(script)] ==
        IF n = 0 THEN <<>> ELSE Applied(after[n - 1], script[n], t)
  IN after[Len(script)]

Recovered == Replayed(Script, now)

(* While no write is between its two halves, a restart would give back     *)
(* exactly what the cache holds, down to the order of eviction.            *)
RecoveryIsExact ==
  phase = "serving" /\ (\A c \in Client : pc[c] # "log") =>
    Contents(store) = Contents(Recovered)

(* And so it does unless writes overlapped, in different clients or by a   *)
(* kill that left one unacknowledged, or an entry may have expired.        *)
RecoveryIsExactInOrder ==
  (\A g, h \in Writes : g = h \/ g.req \in h.before \/ h.req \in g.before)
    /\ now <= DefaultTTL => RecoveryIsExact
=============================================================================
