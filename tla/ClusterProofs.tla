--------------------------- MODULE ClusterProofs ---------------------------
(***************************************************************************)
(* Theorems about the two parts of src/cluster.                            *)
(*                                                                         *)
(* NodeDiscovery, for any nodes, threads and timeout: who is reported dead *)
(* has been silent, and who is reported alive has not.                     *)
(*                                                                         *)
(* HashRing, for every set of nodes, every hash space and every hash       *)
(* function.  The one fact about numbers is that a set of hashes that is   *)
(* not empty has a least element; the rest is about which places a step    *)
(* adds, takes over or erases.                                             *)
(***************************************************************************)
EXTENDS NodeDiscovery, HashRing, FiniteSetTheorems, WellFoundedInduction, TLAPS

-----------------------------------------------------------------------------
(* NodeDiscovery.                                                          *)

(* A thread has written the heartbeat of n, and not yet that n is alive.   *)
Reviving(t, n) == pc[t] \in {"exchange", "listen"} /\ node[t] = n

(* What the loops visit is in the table, and is never the node itself,     *)
(* which therefore stays alive.                                            *)
LoopsInTable ==
  /\ alive[Self]
  /\ \A t \in Thread :
       /\ todo[t] \subseteq Known \ {Self}
       /\ node[t] \in (Known \ {Self}) \cup {Nobody}
       /\ pc[t] = "idle" => node[t] = Nobody

(* Without a race nobody listens during a broadcast, so that the verdict   *)
(* of the cleanup stands until it is carried out.                          *)
Silence ==
  ~raced =>
    /\ \A t \in Thread : pc[t] = "listen" => mutex = Nobody
    /\ \A t \in Thread : pc[t] = "cleanup" /\ node[t] # Nobody => age[node[t]] > Timeout
    /\ \A n \in Known : ~alive[n] => age[n] > Timeout \/ \E t \in Thread : Reviving(t, n)

(* A heartbeat about to be acknowledged is no older than two loops. *)
Heartbeats ==
  \A t \in Thread, n \in Known : Reviving(t, n) => age[n] <= MaxLag + clock[t]

(* While a cleanup is under way, its own reading of the clock counts for   *)
(* the nodes it has dealt with.                                            *)
Recent ==
  \A n \in Known \ {Self} :
    alive[n] =>
      /\ (\A t \in Thread : pc[t] # "cleanup") => age[n] <= Timeout + judged
      /\ \A t \in Thread :
           pc[t] = "cleanup" /\ n \notin todo[t] /\ node[t] # n => age[n] <= Timeout + clock[t]

IInv == TypeOK /\ LoopsInTable /\ Silence /\ Heartbeats /\ Recent

-----------------------------------------------------------------------------
LEMMA InitInvariant == Init => IInv
<1> SUFFICES ASSUME Init
             PROVE  IInv
  OBVIOUS
<1> USE NodesAssumption, TimeoutAssumption, MaxLagAssumption
<1>1. Known = {Self} /\ alive[Self] /\ age[Self] = 0
  BY DEF Init, Known
<1>2. TypeOK
  <2>1. age \in [Known -> 0 .. Oldest] /\ alive \in [Known -> BOOLEAN]
    BY <1>1 DEF Init, Oldest
  <2>2. clock \in [Thread -> 0 .. MaxLag] /\ judged \in 0 .. Oldest
    BY DEF Init, Oldest
  <2> QED
    BY <1>1, <2>1, <2>2 DEF Init, TypeOK, Peer
<1>3. LoopsInTable
  BY <1>1 DEF Init, LoopsInTable
<1>4. Silence
  BY <1>1 DEF Init, Silence
<1>5. Heartbeats
  BY DEF Init, Heartbeats, Reviving
<1>6. Recent
  BY <1>1 DEF Init, Recent
<1> QED
  BY <1>2, <1>3, <1>4, <1>5, <1>6 DEF IInv

-----------------------------------------------------------------------------
(* The actions, one by one.                                                *)

LEMMA BroadcastInv ==
  ASSUME IInv, NEW t \in Thread, Broadcast(t)
  PROVE  IInv'
<1> USE NodesAssumption, TimeoutAssumption, MaxLagAssumption
<1>1. /\ Known' = Known /\ alive' = alive /\ judged' = judged /\ node' = node
      /\ age' \in [Known -> 0 .. Oldest] /\ age'[Self] = 0
      /\ \A n \in Known \ {Self} : age'[n] = age[n]
  BY DEF Broadcast, Loop, Known, IInv, TypeOK, Oldest
<1>2. /\ pc[t] = "idle" /\ pc'[t] = "exchange" /\ clock'[t] = 0 /\ todo'[t] = Known \ {Self}
      /\ \A u \in Thread \ {t} : pc'[u] = pc[u] /\ clock'[u] = clock[u] /\ todo'[u] = todo[u]
      /\ mutex = Nobody /\ mutex' = t /\ node[t] = Nobody
  BY DEF Broadcast, Loop, Free, IInv, TypeOK, LoopsInTable
<1>3. \A u \in Thread : pc[u] # "cleanup" /\ pc'[u] # "cleanup"
  BY <1>2 DEF IInv, TypeOK
<1>4. TypeOK'
  <2>1. pc' \in [Thread -> {"idle", "exchange", "listen", "cleanup"}]
    BY DEF Broadcast, Loop, IInv, TypeOK
  <2>2. clock' \in [Thread -> 0 .. MaxLag] /\ todo' \in [Thread -> SUBSET Peer]
    BY DEF Broadcast, Loop, IInv, TypeOK, Peer
  <2>3. \A u \in Thread : pc'[u] \in {"exchange", "cleanup"} <=> mutex' = u
    BY <1>2 DEF IInv, TypeOK
  <2>4. raced' \in BOOLEAN
    BY DEF Broadcast
  <2> QED
    BY <1>1, <1>2, <2>1, <2>2, <2>3, <2>4 DEF Broadcast, IInv, TypeOK
<1>5. LoopsInTable'
  BY <1>1, <1>2 DEF IInv, LoopsInTable
<1>6. Silence'
  <2> SUFFICES ASSUME ~raced'
               PROVE  Silence'
    BY DEF Silence
  <2>1. ~raced /\ \A u \in Thread : pc[u] # "listen"
    BY DEF Broadcast, Listening
  <2>2. \A u \in Thread : pc'[u] # "listen"
    BY <1>2, <2>1
  <2>3. ASSUME NEW n \in Known, ~alive[n]
        PROVE  age'[n] > Timeout \/ \E u \in Thread : Reviving(u, n)'
    <3>1. n # Self
      BY <2>3 DEF IInv, LoopsInTable
    <3>2. CASE age[n] > Timeout
      BY <1>1, <3>1, <3>2
    <3>3. CASE \E u \in Thread : Reviving(u, n)
      BY <1>2, <2>1, <3>3 DEF Reviving, IInv, TypeOK
    <3> QED
      BY <2>1, <2>3, <3>2, <3>3 DEF IInv, Silence
  <2> QED
    BY <1>1, <1>3, <2>2, <2>3 DEF Silence
<1>7. Heartbeats'
  <2> SUFFICES ASSUME NEW u \in Thread, NEW n \in Known, Reviving(u, n)'
               PROVE  age'[n] <= MaxLag + clock'[u]
    BY <1>1 DEF Heartbeats
  <2>1. u # t /\ n # Self /\ Reviving(u, n)
    BY <1>1, <1>2 DEF Reviving, IInv, LoopsInTable, TypeOK
  <2> QED
    BY <1>1, <1>2, <2>1 DEF IInv, Heartbeats
<1>8. Recent'
  BY <1>1, <1>3 DEF IInv, Recent
<1> QED
  BY <1>4, <1>5, <1>6, <1>7, <1>8 DEF IInv

LEMMA ListenInv ==
  ASSUME IInv, NEW t \in Thread, Listen(t)
  PROVE  IInv'
<1> USE NodesAssumption, TimeoutAssumption, MaxLagAssumption
<1>1. /\ Known' = Known /\ UNCHANGED <<age, alive, mutex, judged, node, crashed>>
      /\ raced' = (raced \/ mutex # Nobody)
      /\ pc[t] = "idle" /\ pc'[t] = "listen" /\ clock'[t] = 0 /\ todo'[t] = Known \ {Self}
      /\ \A u \in Thread \ {t} : pc'[u] = pc[u] /\ clock'[u] = clock[u] /\ todo'[u] = todo[u]
      /\ node[t] = Nobody
  BY DEF Listen, Loop, table, Known, IInv, TypeOK, LoopsInTable
<1>2. \A u \in Thread, n \in Known : Reviving(u, n)' <=> Reviving(u, n)
  BY <1>1 DEF Reviving, IInv, TypeOK
<1>3. \A u \in Thread : pc'[u] = "cleanup" <=> pc[u] = "cleanup"
  BY <1>1
<1>4. TypeOK'
  <2>1. pc' \in [Thread -> {"idle", "exchange", "listen", "cleanup"}]
    BY DEF Listen, Loop, IInv, TypeOK
  <2>2. clock' \in [Thread -> 0 .. MaxLag] /\ todo' \in [Thread -> SUBSET Peer]
    BY DEF Listen, Loop, IInv, TypeOK, Peer
  <2>3. \A u \in Thread : pc'[u] \in {"exchange", "cleanup"} <=> mutex' = u
    BY <1>1 DEF IInv, TypeOK
  <2>4. raced' \in BOOLEAN
    BY <1>1
  <2> QED
    BY <1>1, <2>1, <2>2, <2>3, <2>4 DEF IInv, TypeOK
<1>5. LoopsInTable'
  BY <1>1 DEF IInv, LoopsInTable
<1>6. Silence'
  <2> SUFFICES ASSUME ~raced'
               PROVE  Silence'
    BY DEF Silence
  <2>1. ~raced /\ mutex = Nobody
    BY <1>1
  <2> QED
    BY <1>1, <1>2, <1>3, <2>1 DEF IInv, Silence
<1>7. Heartbeats'
  <2> SUFFICES ASSUME NEW u \in Thread, NEW n \in Known, Reviving(u, n)'
               PROVE  age'[n] <= MaxLag + clock'[u]
    BY <1>1 DEF Heartbeats
  <2>1. u # t /\ Reviving(u, n)
    BY <1>1, <1>2 DEF Reviving
  <2> QED
    BY <1>1, <2>1 DEF IInv, Heartbeats
<1>8. Recent'
  <2> SUFFICES ASSUME NEW n \in Known \ {Self}, alive[n]
               PROVE  /\ (\A u \in Thread : pc'[u] # "cleanup") => age[n] <= Timeout + judged
                      /\ \A u \in Thread :
                           pc'[u] = "cleanup" /\ n \notin todo'[u] /\ node[u] # n
                             => age[n] <= Timeout + clock'[u]
    BY <1>1 DEF Recent
  <2>1. \A u \in Thread : pc'[u] = "cleanup" => u # t
    BY <1>1
  <2> QED
    BY <1>1, <1>3, <2>1 DEF IInv, Recent
<1> QED
  BY <1>4, <1>5, <1>6, <1>7, <1>8 DEF IInv

LEMMA MissInv ==
  ASSUME IInv, NEW t \in Thread, Miss(t)
  PROVE  IInv'
<1>1. /\ Known' = Known /\ UNCHANGED <<age, alive, mutex, pc, clock, node, crashed, raced, judged>>
      /\ todo' \in [Thread -> SUBSET Peer]
      /\ \A u \in Thread : todo'[u] \subseteq todo[u]
      /\ \A u \in Thread : pc[u] = "cleanup" => todo'[u] = todo[u]
  BY DEF Miss, Exchanging, Visited, table, history, Known, IInv, TypeOK
<1>2. TypeOK' /\ LoopsInTable'
  BY <1>1 DEF IInv, TypeOK, LoopsInTable
<1>3. Silence' /\ Heartbeats'
  BY <1>1 DEF IInv, Silence, Heartbeats, Reviving
<1>4. Recent'
  BY <1>1 DEF IInv, Recent
<1> QED
  BY <1>2, <1>3, <1>4 DEF IInv

LEMMA HearInv ==
  ASSUME IInv, NEW t \in Thread, Hear(t)
  PROVE  IInv'
<1> USE NodesAssumption, TimeoutAssumption, MaxLagAssumption
<1> PICK n \in todo[t] : /\ Visited(t, n)
                         /\ age' = [age EXCEPT ![n] = clock[t]]
                         /\ node' = [node EXCEPT ![t] = n]
  BY DEF Hear
<1>1. /\ n \in Known \ {Self} /\ n # Nobody /\ n \in Peer
      /\ pc[t] \in {"exchange", "listen"} /\ node[t] = Nobody
      /\ clock[t] \in 0 .. MaxLag
  BY DEF Hear, Exchanging, IInv, LoopsInTable, TypeOK, Peer
<1>2. /\ Known' = Known /\ UNCHANGED <<alive, mutex, pc, clock, crashed, raced, judged>>
      /\ age' \in [Known -> 0 .. Oldest] /\ age'[n] = clock[t]
      /\ \A m \in Known \ {n} : age'[m] = age[m]
      /\ node' \in [Thread -> Peer \cup {Nobody}] /\ node'[t] = n
      /\ todo' \in [Thread -> SUBSET Peer]
      /\ \A u \in Thread : todo'[u] \subseteq todo[u]
      /\ \A u \in Thread \ {t} : todo'[u] = todo[u] /\ node'[u] = node[u]
  BY <1>1 DEF Hear, Visited, history, Known, IInv, TypeOK, Oldest
<1>3. TypeOK'
  BY <1>2 DEF IInv, TypeOK
<1>4. LoopsInTable'
  BY <1>1, <1>2 DEF IInv, LoopsInTable
<1>5. Silence'
  <2> SUFFICES ASSUME ~raced
               PROVE  Silence'
    BY <1>2 DEF Silence
  <2>1. \A u \in Thread : pc[u] # "cleanup"
    BY <1>1 DEF IInv, TypeOK, Silence
  <2>2. ASSUME NEW m \in Known, ~alive[m]
        PROVE  age'[m] > Timeout \/ \E u \in Thread : Reviving(u, m)'
    <3>1. CASE m = n
      BY <1>1, <1>2, <3>1 DEF Reviving
    <3>2. CASE m # n /\ age[m] > Timeout
      BY <1>2, <3>2
    <3>3. CASE \E u \in Thread : Reviving(u, m)
      <4>1. PICK u \in Thread : Reviving(u, m)
        BY <3>3
      <4>2. u # t
        BY <1>1, <4>1 DEF Reviving, IInv, TypeOK
      <4>3. Reviving(u, m)'
        BY <1>2, <4>1, <4>2 DEF Reviving
      <4> QED
        BY <4>3
    <3> QED
      BY <2>2, <3>1, <3>2, <3>3 DEF IInv, Silence
  <2> QED
    BY <1>2, <2>1, <2>2 DEF IInv, Silence
<1>6. Heartbeats'
  <2> SUFFICES ASSUME NEW u \in Thread, NEW m \in Known, Reviving(u, m)'
               PROVE  age'[m] <= MaxLag + clock[u]
    BY <1>2 DEF Heartbeats
  <2>0. clock[u] \in Nat /\ clock[t] \in Nat /\ clock[t] <= MaxLag
    BY DEF IInv, TypeOK
  <2>1. CASE m = n
    BY <1>2, <2>0, <2>1
  <2>2. CASE m # n
    BY <1>2, <2>2 DEF IInv, Heartbeats, Reviving
  <2> QED
    BY <2>1, <2>2
<1>7. Recent'
  <2> SUFFICES ASSUME NEW m \in Known \ {Self}, alive[m]
               PROVE  /\ (\A u \in Thread : pc[u] # "cleanup") => age'[m] <= Timeout + judged
                      /\ \A u \in Thread :
                           pc[u] = "cleanup" /\ m \notin todo'[u] /\ node'[u] # m
                             => age'[m] <= Timeout + clock[u]
    BY <1>2 DEF Recent
  <2>0. judged \in Nat /\ clock \in [Thread -> 0 .. MaxLag]
    BY DEF IInv, TypeOK, Oldest
  <2>1. CASE m = n
    BY <1>1, <1>2, <2>0, <2>1
  <2>2. CASE m # n
    BY <1>1, <1>2, <2>2 DEF IInv, Recent
  <2> QED
    BY <2>1, <2>2
<1> QED
  BY <1>3, <1>4, <1>5, <1>6, <1>7 DEF IInv

LEMMA ReviveInv ==
  ASSUME IInv, NEW t \in Thread, Revive(t)
  PROVE  IInv'
<1> USE NodesAssumption, TimeoutAssumption, MaxLagAssumption
<1> DEFINE n == node[t]
<1>1. /\ Reviving(t, n) /\ n \in Known \ {Self} /\ n # Nobody
      /\ Known' = Known /\ UNCHANGED <<age, mutex, pc, clock, todo, crashed, raced, judged>>
      /\ alive' \in [Known -> BOOLEAN] /\ alive'[n] = TRUE
      /\ \A m \in Known \ {n} : alive'[m] = alive[m]
      /\ node' \in [Thread -> Peer \cup {Nobody}] /\ node'[t] = Nobody
      /\ \A u \in Thread \ {t} : node'[u] = node[u]
  BY DEF Revive, Reviving, history, Known, IInv, TypeOK, LoopsInTable
<1>2. \A u \in Thread, m \in Known : Reviving(u, m)' => Reviving(u, m)
  BY <1>1 DEF Reviving, IInv, TypeOK
<1>3. TypeOK' /\ LoopsInTable'
  BY <1>1 DEF IInv, TypeOK, LoopsInTable
<1>4. Silence'
  <2> SUFFICES ASSUME ~raced
               PROVE  Silence'
    BY <1>1 DEF Silence
  <2>1. ASSUME NEW m \in Known, ~alive'[m]
        PROVE  age[m] > Timeout \/ \E u \in Thread : Reviving(u, m)'
    <3>1. m # n /\ ~alive[m]
      BY <1>1, <2>1
    <3>2. \A u \in Thread : Reviving(u, m) => Reviving(u, m)'
      BY <1>1, <3>1 DEF Reviving
    <3> QED
      BY <3>1, <3>2 DEF IInv, Silence
  <2> QED
    BY <1>1, <2>1 DEF IInv, Silence
<1>5. Heartbeats'
  BY <1>1, <1>2 DEF IInv, Heartbeats
<1>6. age[n] <= Timeout
  <2>1. age[n] <= MaxLag + clock[t]
    BY <1>1 DEF IInv, Heartbeats
  <2>2. clock[t] \in 0 .. MaxLag /\ age[n] \in Nat
    BY <1>1 DEF IInv, TypeOK, Oldest
  <2> QED
    BY <2>1, <2>2
<1>7. Recent'
  <2> SUFFICES ASSUME NEW m \in Known \ {Self}, alive'[m]
               PROVE  /\ (\A u \in Thread : pc[u] # "cleanup") => age[m] <= Timeout + judged
                      /\ \A u \in Thread :
                           pc[u] = "cleanup" /\ m \notin todo[u] /\ node'[u] # m
                             => age[m] <= Timeout + clock[u]
    BY <1>1 DEF Recent
  <2>0. judged \in Nat /\ clock \in [Thread -> 0 .. MaxLag] /\ age[n] \in Nat
    BY <1>1 DEF IInv, TypeOK, Oldest
  <2>1. CASE m = n
    BY <1>6, <2>0, <2>1
  <2>2. CASE m # n
    BY <1>1, <2>2 DEF IInv, Recent, Reviving
  <2> QED
    BY <2>1, <2>2
<1> QED
  BY <1>3, <1>4, <1>5, <1>7 DEF IInv

LEMMA ListenEndInv ==
  ASSUME IInv, NEW t \in Thread, ListenEnd(t)
  PROVE  IInv'
<1> USE NodesAssumption, MaxLagAssumption
<1>1. /\ Known' = Known /\ UNCHANGED <<age, alive, mutex, todo, node, crashed, raced, judged>>
      /\ pc[t] = "listen" /\ node[t] = Nobody /\ pc'[t] = "idle"
      /\ pc' \in [Thread -> {"idle", "exchange", "listen", "cleanup"}]
      /\ clock' \in [Thread -> 0 .. MaxLag]
      /\ \A u \in Thread \ {t} : pc'[u] = pc[u] /\ clock'[u] = clock[u]
  BY DEF ListenEnd, Listening, Exchanging, table, history, Known, IInv, TypeOK
<1>2. \A u \in Thread, n \in Known : Reviving(u, n)' <=> u # t /\ Reviving(u, n)
  BY <1>1 DEF Reviving
<1>3. \A u \in Thread, n \in Known : Reviving(u, n) => u # t
  BY <1>1 DEF Reviving, IInv, TypeOK
<1>4. TypeOK'
  <2>1. \A u \in Thread : pc'[u] \in {"exchange", "cleanup"} <=> mutex' = u
    BY <1>1 DEF IInv, TypeOK
  <2> QED
    BY <1>1, <2>1 DEF IInv, TypeOK
<1>5. LoopsInTable'
  BY <1>1 DEF IInv, LoopsInTable
<1>6. Silence'
  BY <1>1, <1>2, <1>3 DEF IInv, Silence
<1>7. Heartbeats'
  BY <1>1, <1>2 DEF IInv, Heartbeats
<1>8. Recent'
  <2>1. \A u \in Thread : pc'[u] = "cleanup" <=> pc[u] = "cleanup"
    BY <1>1
  <2>2. \A u \in Thread : pc'[u] = "cleanup" => u # t
    BY <1>1
  <2> QED
    BY <1>1, <2>1, <2>2 DEF IInv, Recent
<1> QED
  BY <1>4, <1>5, <1>6, <1>7, <1>8 DEF IInv

LEMMA CleanupBeginInv ==
  ASSUME IInv, NEW t \in Thread, CleanupBegin(t)
  PROVE  IInv'
<1> USE NodesAssumption, TimeoutAssumption, MaxLagAssumption
<1>1. /\ Known' = Known /\ UNCHANGED <<age, alive, mutex, node, crashed, raced, judged>>
      /\ pc[t] = "exchange" /\ node[t] = Nobody /\ mutex = t
      /\ pc'[t] = "cleanup" /\ todo'[t] = Known \ {Self} /\ clock'[t] = 0
      /\ pc' \in [Thread -> {"idle", "exchange", "listen", "cleanup"}]
      /\ clock' \in [Thread -> 0 .. MaxLag] /\ todo' \in [Thread -> SUBSET Peer]
      /\ \A u \in Thread \ {t} : pc'[u] = pc[u] /\ clock'[u] = clock[u] /\ todo'[u] = todo[u]
  BY DEF CleanupBegin, Loop, Exchanging, table, history, Known, IInv, TypeOK, Peer
<1>2. \A u \in Thread, n \in Known : Reviving(u, n) => u # t /\ Reviving(u, n)'
  BY <1>1 DEF Reviving, IInv, TypeOK
<1>3. \A u \in Thread : pc'[u] = "cleanup" <=> u = t
  BY <1>1 DEF IInv, TypeOK
<1>4. TypeOK'
  <2>1. \A u \in Thread : pc'[u] \in {"exchange", "cleanup"} <=> mutex' = u
    BY <1>1 DEF IInv, TypeOK
  <2> QED
    BY <1>1, <2>1 DEF IInv, TypeOK
<1>5. LoopsInTable'
  BY <1>1 DEF IInv, LoopsInTable
<1>6. Silence'
  <2>1. \A u \in Thread : pc'[u] = "listen" => pc[u] = "listen"
    BY <1>1
  <2>2. ~raced => \A n \in Known : ~alive[n] => age[n] > Timeout \/ \E u \in Thread : Reviving(u, n)'
    BY <1>2 DEF IInv, Silence
  <2> QED
    BY <1>1, <1>3, <2>1, <2>2 DEF IInv, Silence
<1>7. Heartbeats'
  <2>1. \A u \in Thread, n \in Known : Reviving(u, n)' => u # t /\ Reviving(u, n)
    BY <1>1 DEF Reviving
  <2> QED
    BY <1>1, <2>1 DEF IInv, Heartbeats
<1>8. Recent'
  BY <1>1, <1>3 DEF Recent
<1> QED
  BY <1>4, <1>5, <1>6, <1>7, <1>8 DEF IInv

LEMMA JudgeInv ==
  ASSUME IInv, NEW t \in Thread, Judge(t)
  PROVE  IInv'
<1> USE NodesAssumption, TimeoutAssumption, MaxLagAssumption
<1> PICK n \in todo[t] : /\ Visited(t, n)
                         /\ node' = [node EXCEPT ![t] = IF TimedOut(n, t) THEN n ELSE Nobody]
  BY DEF Judge
<1>1. /\ n \in Known \ {Self} /\ n \in Peer /\ n # Nobody
      /\ pc[t] = "cleanup" /\ node[t] = Nobody /\ mutex = t
      /\ Known' = Known /\ UNCHANGED <<age, alive, mutex, pc, clock, crashed, raced, judged>>
      /\ node' \in [Thread -> Peer \cup {Nobody}]
      /\ node'[t] = IF TimedOut(n, t) THEN n ELSE Nobody
      /\ todo' \in [Thread -> SUBSET Peer] /\ todo'[t] = todo[t] \ {n}
      /\ \A u \in Thread \ {t} : todo'[u] = todo[u] /\ node'[u] = node[u]
  BY DEF Judge, Visited, table, history, Known, IInv, TypeOK, LoopsInTable, Peer
<1>2. \A u \in Thread, m \in Known : Reviving(u, m)' <=> Reviving(u, m)
  BY <1>1 DEF Reviving
<1>3. age[n] \in Nat /\ clock[t] \in Nat
  BY <1>1 DEF IInv, TypeOK, Oldest
<1>4. TypeOK' /\ LoopsInTable'
  BY <1>1 DEF IInv, TypeOK, LoopsInTable
<1>5. Silence'
  <2>1. TimedOut(n, t) => age[n] > Timeout
    BY <1>3 DEF TimedOut
  <2>2. ~raced => \A u \in Thread : pc[u] = "cleanup" /\ node'[u] # Nobody => age[node'[u]] > Timeout
    BY <1>1, <2>1 DEF IInv, Silence
  <2> QED
    BY <1>1, <1>2, <2>2 DEF IInv, Silence
<1>6. Heartbeats'
  BY <1>1, <1>2 DEF IInv, Heartbeats
<1>7. Recent'
  <2> SUFFICES ASSUME NEW m \in Known \ {Self}, alive[m], NEW u \in Thread,
                      pc[u] = "cleanup", m \notin todo'[u], node'[u] # m
               PROVE  age[m] <= Timeout + clock[u]
    BY <1>1 DEF Recent
  <2>1. u = t
    BY <1>1 DEF IInv, TypeOK
  <2>2. CASE m = n
    BY <1>1, <1>3, <2>1, <2>2 DEF TimedOut
  <2>3. CASE m # n
    <3>1. m \notin todo[t] /\ node[t] # m
      BY <1>1, <2>1, <2>3 DEF IInv, TypeOK
    <3> QED
      BY <1>1, <2>1, <3>1 DEF IInv, Recent
  <2> QED
    BY <2>2, <2>3
<1> QED
  BY <1>4, <1>5, <1>6, <1>7 DEF IInv

LEMMA BuryInv ==
  ASSUME IInv, NEW t \in Thread, Bury(t)
  PROVE  IInv'
<1> USE NodesAssumption, TimeoutAssumption, MaxLagAssumption
<1> DEFINE n == node[t]
<1>1. /\ n \in Known \ {Self} /\ n # Nobody /\ pc[t] = "cleanup" /\ mutex = t
      /\ Known' = Known /\ UNCHANGED <<age, mutex, pc, clock, todo, crashed, raced, judged>>
      /\ alive' \in [Known -> BOOLEAN] /\ alive'[n] = FALSE
      /\ \A m \in Known \ {n} : alive'[m] = alive[m]
      /\ node' \in [Thread -> Peer \cup {Nobody}] /\ node'[t] = Nobody
      /\ \A u \in Thread \ {t} : node'[u] = node[u]
  BY DEF Bury, history, Known, IInv, TypeOK, LoopsInTable
<1>2. \A u \in Thread, m \in Known : Reviving(u, m)' <=> Reviving(u, m)
  BY <1>1 DEF Reviving
<1>3. TypeOK' /\ LoopsInTable'
  BY <1>1 DEF IInv, TypeOK, LoopsInTable
<1>4. Silence'
  <2> SUFFICES ASSUME ~raced
               PROVE  Silence'
    BY <1>1 DEF Silence
  <2>1. age[n] > Timeout
    BY <1>1 DEF IInv, Silence
  <2>2. ASSUME NEW m \in Known, ~alive'[m]
        PROVE  age[m] > Timeout \/ \E u \in Thread : Reviving(u, m)'
    <3>1. CASE m = n
      BY <2>1, <3>1
    <3>2. CASE m # n
      BY <1>1, <1>2, <2>2, <3>2 DEF IInv, Silence
    <3> QED
      BY <3>1, <3>2
  <2> QED
    BY <1>1, <2>2 DEF IInv, Silence
<1>5. Heartbeats'
  BY <1>1, <1>2 DEF IInv, Heartbeats
<1>6. Recent'
  <2> SUFFICES ASSUME NEW m \in Known \ {Self}, alive'[m]
               PROVE  /\ (\A u \in Thread : pc[u] # "cleanup") => age[m] <= Timeout + judged
                      /\ \A u \in Thread :
                           pc[u] = "cleanup" /\ m \notin todo[u] /\ node'[u] # m
                             => age[m] <= Timeout + clock[u]
    BY <1>1 DEF Recent
  <2>1. m # n /\ alive[m]
    BY <1>1
  <2>2. \A u \in Thread : node'[u] # m => node[u] # m
    BY <1>1, <2>1
  <2> QED
    BY <2>1, <2>2 DEF IInv, Recent
<1> QED
  BY <1>3, <1>4, <1>5, <1>6 DEF IInv

LEMMA BroadcastEndInv ==
  ASSUME IInv, NEW t \in Thread, BroadcastEnd(t)
  PROVE  IInv'
<1> USE NodesAssumption, TimeoutAssumption, MaxLagAssumption
<1>1. /\ Known' = Known /\ UNCHANGED <<age, alive, todo, node, crashed, raced>>
      /\ pc[t] = "cleanup" /\ node[t] = Nobody /\ todo[t] = {} /\ mutex = t
      /\ pc'[t] = "idle" /\ mutex' = Nobody /\ judged' = clock[t]
      /\ pc' \in [Thread -> {"idle", "exchange", "listen", "cleanup"}]
      /\ clock' \in [Thread -> 0 .. MaxLag] /\ judged' \in 0 .. Oldest
      /\ \A u \in Thread \ {t} : pc'[u] = pc[u] /\ clock'[u] = clock[u]
  BY DEF BroadcastEnd, table, Known, IInv, TypeOK, Oldest
<1>2. \A u \in Thread, n \in Known : Reviving(u, n)' <=> Reviving(u, n)
  BY <1>1 DEF Reviving
<1>3. \A u \in Thread : pc'[u] # "cleanup"
  BY <1>1 DEF IInv, TypeOK
<1>4. TypeOK'
  <2>1. \A u \in Thread : pc'[u] \in {"exchange", "cleanup"} <=> mutex' = u
    BY <1>1 DEF IInv, TypeOK
  <2> QED
    BY <1>1, <2>1 DEF IInv, TypeOK
<1>5. LoopsInTable'
  BY <1>1 DEF IInv, LoopsInTable
<1>6. Silence'
  BY <1>1, <1>2, <1>3 DEF IInv, Silence
<1>7. Heartbeats'
  <2>1. \A u \in Thread, n \in Known : Reviving(u, n) => u # t
    BY <1>1 DEF Reviving
  <2> QED
    BY <1>1, <1>2, <2>1 DEF IInv, Heartbeats
<1>8. Recent'
  <2>1. \A n \in Known \ {Self} : n # Nobody
    BY DEF IInv, TypeOK
  <2> QED
    BY <1>1, <1>3, <2>1 DEF IInv, Recent
<1> QED
  BY <1>4, <1>5, <1>6, <1>7, <1>8 DEF IInv

LEMMA AddSeedNodeInv ==
  ASSUME IInv, NEW n \in Node, AddSeedNode(n)
  PROVE  IInv'
<1> USE NodesAssumption, TimeoutAssumption, MaxLagAssumption
<1>1. /\ UNCHANGED <<mutex, pc, clock, todo, node, judged>> /\ mutex = Nobody
      /\ raced => raced'
      /\ raced' \in BOOLEAN /\ crashed' \in BOOLEAN
  BY DEF AddSeedNode, Free, loop, IInv, TypeOK
<1>2. \A t \in Thread : pc[t] # "cleanup"
  BY <1>1 DEF IInv, TypeOK
<1>3. CASE UNCHANGED table
  <2>1. Known' = Known /\ UNCHANGED <<age, alive>>
    BY <1>3 DEF table, Known
  <2>2. TypeOK' /\ LoopsInTable'
    BY <1>1, <2>1 DEF IInv, TypeOK, LoopsInTable
  <2>3. Silence' /\ Heartbeats' /\ Recent'
    BY <1>1, <2>1 DEF IInv, Silence, Heartbeats, Recent, Reviving
  <2> QED
    BY <2>2, <2>3 DEF IInv
<1>4. CASE /\ age' = [m \in Known \cup {n} |-> IF m = n THEN 0 ELSE age[m]]
           /\ alive' = [m \in Known \cup {n} |-> m = n \/ alive[m]]
  <2>1. /\ Known' = Known \cup {n}
        /\ age' \in [Known' -> 0 .. Oldest] /\ alive' \in [Known' -> BOOLEAN]
        /\ age'[n] = 0 /\ alive'[n]
    <3>1. Known' = Known \cup {n}
      BY <1>4 DEF Known
    <3>2. age' \in [Known' -> 0 .. Oldest] /\ age'[n] = 0
      BY <1>4, <3>1 DEF IInv, TypeOK, Oldest
    <3>3. \A m \in Known \cup {n} : (m = n \/ alive[m]) \in BOOLEAN
      OBVIOUS
    <3>4. alive' \in [Known' -> BOOLEAN]
      BY <1>4, <3>1, <3>3, Zenon
    <3>5. alive'[n]
      BY <1>4
    <3> QED
      BY <3>1, <3>2, <3>4, <3>5
  <2>2. \A m \in Known \ {n} : age'[m] = age[m] /\ (alive'[m] <=> alive[m])
    BY <1>4
  <2>3. TypeOK'
    BY <1>1, <2>1 DEF IInv, TypeOK
  <2>4. LoopsInTable'
    <3>1. alive'[Self]
      BY <2>1, <2>2 DEF IInv, TypeOK, LoopsInTable
    <3> QED
      BY <1>1, <2>1, <3>1 DEF IInv, LoopsInTable
  <2>5. Silence'
    BY <1>1, <1>2, <2>1, <2>2 DEF IInv, Silence, Reviving
  <2>6. Heartbeats'
    <3> SUFFICES ASSUME NEW t \in Thread, NEW m \in Known \cup {n}, Reviving(t, m)
                 PROVE  age'[m] <= MaxLag + clock[t]
      BY <1>1, <2>1 DEF Heartbeats, Reviving
    <3>1. CASE m = n
      BY <2>1, <3>1 DEF IInv, TypeOK
    <3>2. CASE m # n
      BY <2>2, <3>2 DEF IInv, Heartbeats
    <3> QED
      BY <3>1, <3>2
  <2>7. Recent'
    <3> SUFFICES ASSUME NEW m \in (Known \cup {n}) \ {Self}, alive'[m]
                 PROVE  age'[m] <= Timeout + judged
      BY <1>1, <1>2, <2>1 DEF Recent
    <3>1. CASE m = n
      BY <2>1, <3>1 DEF IInv, TypeOK, Oldest
    <3>2. CASE m # n
      BY <1>2, <2>2, <3>2 DEF IInv, Recent
    <3> QED
      BY <3>1, <3>2
  <2> QED
    BY <2>3, <2>4, <2>5, <2>6, <2>7 DEF IInv
<1> QED
  BY <1>3, <1>4 DEF AddSeedNode

LEMMA TickInv ==
  ASSUME IInv, Tick
  PROVE  IInv'
<1> USE NodesAssumption, TimeoutAssumption, MaxLagAssumption
<1>1. /\ Known' = Known /\ UNCHANGED <<alive, mutex, pc, todo, node, crashed, raced>>
      /\ \A n \in Known : age[n] \in 0 .. Oldest /\ age'[n] = Older(age[n])
      /\ judged \in 0 .. Oldest /\ judged' = Older(judged)
      /\ \A t \in Thread : clock[t] \in 0 .. MaxLag /\ clock'[t] \in 0 .. MaxLag
      /\ \A t \in Thread : pc[t] # "idle" => clock'[t] = clock[t] + 1
      /\ age' \in [Known -> 0 .. Oldest] /\ clock' \in [Thread -> 0 .. MaxLag]
  BY DEF Tick, Busy, Known, IInv, TypeOK, Older, Oldest
<1>2. \A a \in 0 .. Oldest : Older(a) \in 0 .. Oldest /\ a <= Older(a) /\ Older(a) <= a + 1
  BY DEF Older, Oldest
<1>3. TypeOK' /\ LoopsInTable'
  BY <1>1, <1>2 DEF IInv, TypeOK, LoopsInTable
<1>4. Silence'
  <2>1. \A n \in Known : age[n] > Timeout => age'[n] > Timeout
    BY <1>1, <1>2, Oldest \in Int DEF Oldest
  <2>2. \A t \in Thread : node[t] # Nobody => node[t] \in Known
    BY DEF IInv, LoopsInTable
  <2> QED
    BY <1>1, <2>1, <2>2 DEF IInv, Silence, Reviving
<1>5. Heartbeats'
  <2> SUFFICES ASSUME NEW t \in Thread, NEW n \in Known, Reviving(t, n)
               PROVE  age'[n] <= MaxLag + clock'[t]
    BY <1>1 DEF Heartbeats, Reviving
  <2>1. age[n] <= MaxLag + clock[t] /\ clock'[t] = clock[t] + 1
    BY <1>1 DEF IInv, Heartbeats, Reviving
  <2>2. age[n] \in Int /\ age'[n] \in Int /\ age'[n] <= age[n] + 1 /\ clock[t] \in Int
    BY <1>1, <1>2 DEF Oldest
  <2> QED
    BY <2>1, <2>2
<1>6. Recent'
  <2> SUFFICES ASSUME NEW n \in Known \ {Self}, alive[n]
               PROVE  /\ (\A t \in Thread : pc[t] # "cleanup") => age'[n] <= Timeout + judged'
                      /\ \A t \in Thread :
                           pc[t] = "cleanup" /\ n \notin todo[t] /\ node[t] # n
                             => age'[n] <= Timeout + clock'[t]
    BY <1>1 DEF Recent
  <2>1. age[n] \in 0 .. Oldest /\ age'[n] \in 0 .. Oldest /\ age'[n] <= age[n] + 1
    BY <1>1, <1>2
  <2>2. ASSUME \A t \in Thread : pc[t] # "cleanup"
        PROVE  age'[n] <= Timeout + judged'
    <3>1. age[n] <= Timeout + judged
      BY <2>2 DEF IInv, Recent
    <3> QED
      BY <1>1, <2>1, <3>1 DEF Older, Oldest
  <2>3. ASSUME NEW t \in Thread, pc[t] = "cleanup", n \notin todo[t], node[t] # n
        PROVE  age'[n] <= Timeout + clock'[t]
    <3>1. age[n] <= Timeout + clock[t] /\ clock'[t] = clock[t] + 1 /\ clock[t] \in 0 .. MaxLag
      BY <1>1, <2>3 DEF IInv, Recent
    <3> QED
      BY <2>1, <3>1 DEF Oldest
  <2> QED
    BY <2>2, <2>3
<1> QED
  BY <1>3, <1>4, <1>5, <1>6 DEF IInv

-----------------------------------------------------------------------------
LEMMA NextInvariant == IInv /\ [Next]_vars => IInv'
<1> SUFFICES ASSUME IInv, [Next]_vars
             PROVE  IInv'
  OBVIOUS
<1>1. CASE UNCHANGED vars
  <2>1. UNCHANGED <<age, alive, mutex, pc, clock, todo, node, crashed, raced, judged>>
    BY <1>1 DEF vars, table, loop, history
  <2> QED
    BY <2>1 DEF IInv, TypeOK, LoopsInTable, Silence, Heartbeats, Recent, Reviving, Known
<1>2. CASE \E t \in Thread : Broadcast(t) \/ Listen(t) \/ Step(t)
  BY <1>2, BroadcastInv, ListenInv, MissInv, HearInv, ReviveInv, ListenEndInv,
     CleanupBeginInv, JudgeInv, BuryInv, BroadcastEndInv DEF Step
<1>3. CASE \E n \in Node : AddSeedNode(n)
  BY <1>3, AddSeedNodeInv
<1>4. CASE Tick
  BY <1>4, TickInv
<1> QED
  BY <1>1, <1>2, <1>3, <1>4 DEF Next

(* The strengthened invariant holds of every execution. *)
THEOREM Invariant == Spec => []IInv
BY InitInvariant, NextInvariant, PTL DEF Spec

(* Types, and that the mutex of broadcast_heartbeat has one holder, who is *)
(* in the exchange or the cleanup.                                         *)
THEOREM TypeCorrect == Spec => []TypeOK
<1>1. IInv => TypeOK
  BY DEF IInv
<1> QED
  BY <1>1, Invariant, PTL

(* As long as nobody listens during a broadcast, cleanup_dead_nodes        *)
(* reports no node dead that was heard of within the timeout.              *)
THEOREM DeadAreSilent == Spec => []DeadMeansSilent
<1>1. IInv => DeadMeansSilent
  BY DEF IInv, Silence, DeadMeansSilent, Reviving
<1> QED
  BY <1>1, Invariant, PTL

(* A node is reported alive only if it was within the timeout when the     *)
(* last cleanup looked, even where listeners write the table meanwhile.    *)
THEOREM AliveAreRecent == Spec => []AliveMeansRecent
<1>1. IInv => AliveMeansRecent
  BY DEF IInv, Recent, AliveMeansRecent
<1> QED
  BY <1>1, Invariant, PTL

-----------------------------------------------------------------------------
(* HashRing.                                                               *)

(* Of the sets of hashes up to s, for s in S, one is minimal by inclusion, *)
(* because they are finite.                                                *)
LEMMA LeastExists ==
  ASSUME NEW S \in SUBSET Hash, S # {}
  PROVE  Least(S) \in S /\ \A t \in S : Least(S) <= t
<1> DEFINE Below(s) == {t \in S : t <= s}
           Order == StrictSubsetOrdering(Hash)
           All == {Below(s) : s \in S}
<1>1. S \subseteq Int /\ IsFiniteSet(Hash)
  BY HashSpaceAssumption, FS_Interval DEF Hash
<1>2. All \subseteq SUBSET Hash /\ All # {}
  OBVIOUS
<1>3. IsWellFoundedOn(Order, SUBSET Hash)
  BY <1>1, FS_StrictSubsetOrderingWellFounded, FS_FiniteSubsetsOfFinite
<1>4. PICK B \in All : \A C \in All : <<C, B>> \notin Order
  <2> HIDE DEF All, Order
  <2> QED
    BY <1>2, <1>3, WFMin
<1>5. PICK s \in S : B = Below(s)
  OBVIOUS
<1>6. \A t \in S : s <= t
  <2> SUFFICES ASSUME NEW t \in S, ~(s <= t)
               PROVE  FALSE
    OBVIOUS
  <2>1. t < s /\ t <= t /\ s <= s
    BY <1>1
  <2>2. \A x \in S : x <= t => x <= s
    BY <1>1, <2>1
  <2>3. Below(t) \subseteq Below(s) /\ s \in Below(s) /\ s \notin Below(t)
    BY <2>1, <2>2
  <2>4. <<Below(t), Below(s)>> \in Order
    BY <2>3 DEF StrictSubsetOrdering
  <2> QED
    BY <1>4, <1>5, <2>4
<1> QED
  BY <1>6 DEF Least

(* Hash h falls on s among the places D: s is the first at or after it, or *)
(* the first of all if there is none.                                      *)
FallsOn(D, h, s) ==
  /\ s \in D
  /\ \/ s >= h /\ \A t \in D : t >= h => s <= t
     \/ (\A t \in D : t < h) /\ \A t \in D : s <= t

LEMMA FirstFromFalls ==
  ASSUME NEW D \in SUBSET Hash, D # {}, NEW h \in Hash
  PROVE  FallsOn(D, h, FirstFrom(D, h))
<1> DEFINE after == {s \in D : s >= h}
<1>1. CASE after # {}
  <2>1. Least(after) \in after /\ \A t \in after : Least(after) <= t
    BY <1>1, LeastExists
  <2> QED
    BY <1>1, <2>1 DEF FallsOn, FirstFrom
<1>2. CASE after = {}
  <2>1. Least(D) \in D /\ \A t \in D : Least(D) <= t
    BY LeastExists
  <2>2. \A t \in D : t < h
    BY <1>2, HashSpaceAssumption DEF Hash
  <2> QED
    BY <1>2, <2>1, <2>2 DEF FallsOn, FirstFrom
<1> QED
  BY <1>1, <1>2

(* It falls on one place only, and still does when others are taken away.  *)
LEMMA FallsOnSame ==
  ASSUME NEW D \in SUBSET Hash, NEW E \in SUBSET D, NEW h \in Hash,
         NEW s \in E, FallsOn(D, h, s)
  PROVE  s = FirstFrom(E, h)
<1>1. FallsOn(E, h, FirstFrom(E, h))
  BY FirstFromFalls
<1>2. FallsOn(E, h, s)
  BY DEF FallsOn
<1>3. E \subseteq Int /\ h \in Int
  BY HashSpaceAssumption DEF Hash
<1> DEFINE f == FirstFrom(E, h)
<1>4. f \in E /\ f \in Int /\ s \in Int
  BY <1>1, <1>3 DEF FallsOn
<1>5. s <= f
  BY <1>1, <1>2, <1>3, <1>4 DEF FallsOn
<1>6. f <= s
  BY <1>1, <1>2, <1>3, <1>4 DEF FallsOn
<1> QED
  BY <1>4, <1>5, <1>6

-----------------------------------------------------------------------------
(* The places on the ring are those of its members.                        *)

RingIInv == RingTypeOK /\ RingMatchesMembers

LEMMA RingInitInvariant == RingInit => RingIInv
BY DEF RingInit, RingIInv, RingTypeOK, RingMatchesMembers

LEMMA AddStep ==
  ASSUME RingIInv, NEW n \in RingNode, Add(n)
  PROVE  RingIInv'
<1>1. /\ DOMAIN ring' = DOMAIN ring \cup places[n]
      /\ \A h \in DOMAIN ring' : ring'[h] = IF h \in places[n] THEN n ELSE ring[h]
      /\ members' = members \cup {n} /\ places' = places
  BY DEF Add
<1>2. RingTypeOK'
  BY <1>1 DEF RingIInv, RingTypeOK, Add
<1>3. RingMatchesMembers'
  BY <1>1 DEF RingIInv, RingTypeOK, RingMatchesMembers
<1> QED
  BY <1>2, <1>3 DEF RingIInv

LEMMA RemoveStep ==
  ASSUME RingIInv, NEW n \in RingNode, Remove(n)
  PROVE  RingIInv'
<1>1. /\ DOMAIN ring' = {h \in DOMAIN ring : ring[h] # n}
      /\ ring' = [h \in {x \in DOMAIN ring : ring[x] # n} |-> ring[h]]
      /\ \A h \in DOMAIN ring' : ring'[h] = ring[h]
      /\ members' = members \ {n} /\ places' = places
  BY DEF Remove, Restrict
<1>2. RingTypeOK'
  BY <1>1 DEF RingIInv, RingTypeOK
<1>3. RingMatchesMembers'
  BY <1>1 DEF RingIInv, RingTypeOK, RingMatchesMembers
<1> QED
  BY <1>2, <1>3 DEF RingIInv

LEMMA RingNextInvariant == RingIInv /\ [RingNext]_ringVars => RingIInv'
<1> SUFFICES ASSUME RingIInv, [RingNext]_ringVars
             PROVE  RingIInv'
  OBVIOUS
<1>1. CASE UNCHANGED ringVars
  BY <1>1 DEF ringVars, RingIInv, RingTypeOK, RingMatchesMembers
<1>2. CASE RingNext
  BY <1>2, AddStep, RemoveStep DEF RingNext
<1> QED
  BY <1>1, <1>2

(* The inductive invariant of the ring, its types and what the members     *)
(* have to do with its positions, holds in every reachable state.          *)
THEOREM RingInvariant == RingSpec => []RingIInv
BY RingInitInvariant, RingNextInvariant, PTL DEF RingSpec

(* The variables of the ring keep their types.                             *)
THEOREM RingTypeCorrect == RingSpec => []RingTypeOK
<1>1. RingIInv => RingTypeOK
  BY DEF RingIInv
<1> QED
  BY <1>1, RingInvariant, PTL

(* add_node and remove_node leave on the ring exactly the places of the    *)
(* members, but for those that two nodes hash to.                          *)
THEOREM RingKeepsItsMembers == RingSpec => []RingMatchesMembers
<1>1. RingIInv => RingMatchesMembers
  BY DEF RingIInv
<1> QED
  BY <1>1, RingInvariant, PTL

-----------------------------------------------------------------------------
(* Consistent hashing.                                                     *)

LEMMA AddMoves ==
  ASSUME RingTypeOK, RingTypeOK', NEW n \in RingNode, Add(n), NEW h \in Hash
  PROVE  Owner(h)' \in {Owner(h), n}
<1>1. /\ DOMAIN ring' = DOMAIN ring \cup places[n]
      /\ \A s \in DOMAIN ring' : ring'[s] = IF s \in places[n] THEN n ELSE ring[s]
      /\ DOMAIN ring' \subseteq Hash
  BY DEF Add, RingTypeOK
<1>2. CASE DOMAIN ring' = {}
  BY <1>1, <1>2 DEF Owner
<1>3. CASE DOMAIN ring' # {}
  <2> DEFINE s == FirstFrom(DOMAIN ring', h)
  <2>1. Owner(h)' = ring'[s]
    BY <1>3 DEF Owner
  <2>2. s \in DOMAIN ring' /\ FallsOn(DOMAIN ring', h, s)
    BY <1>1, <1>3, FirstFromFalls DEF FallsOn
  <2>3. CASE s \in places[n]
    BY <1>1, <2>1, <2>2, <2>3
  <2>4. CASE s \notin places[n]
    <3>1. s \in DOMAIN ring /\ DOMAIN ring \subseteq DOMAIN ring'
      BY <1>1, <2>2, <2>4
    <3>2. s = FirstFrom(DOMAIN ring, h)
      BY <1>1, <2>2, <3>1, FallsOnSame
    <3> QED
      BY <1>1, <2>1, <2>2, <2>4, <3>1, <3>2 DEF Owner
  <2> QED
    BY <2>3, <2>4
<1> QED
  BY <1>2, <1>3

LEMMA RemoveMoves ==
  ASSUME RingTypeOK, NEW n \in RingNode, Remove(n), NEW h \in Hash
  PROVE  Owner(h) = n \/ Owner(h)' = Owner(h)
<1>1. ring' = [s \in {x \in DOMAIN ring : ring[x] # n} |-> ring[s]]
  BY DEF Remove, Restrict
<1>2. DOMAIN ring' \subseteq DOMAIN ring /\ DOMAIN ring \subseteq Hash
  BY <1>1 DEF RingTypeOK
<1>3. CASE DOMAIN ring = {}
  BY <1>2, <1>3 DEF Owner
<1>4. CASE DOMAIN ring # {}
  <2> DEFINE s == FirstFrom(DOMAIN ring, h)
  <2>1. Owner(h) = ring[s]
    BY <1>4 DEF Owner
  <2>2. s \in DOMAIN ring /\ FallsOn(DOMAIN ring, h, s)
    BY <1>2, <1>4, FirstFromFalls DEF FallsOn
  <2>3. CASE ring[s] # n
    <3>1. s \in DOMAIN ring' /\ ring'[s] = ring[s]
      BY <1>1, <2>2, <2>3
    <3>2. s = FirstFrom(DOMAIN ring', h)
      BY <1>2, <2>2, <3>1, FallsOnSame
    <3> QED
      BY <2>1, <3>1, <3>2 DEF Owner
  <2> QED
    BY <2>1, <2>3
<1> QED
  BY <1>3, <1>4

(* Adding a node moves keys to it alone, removing one moves its own alone: *)
(* lower_bound and the wrap make get_node a consistent hash.               *)
THEOREM KeysStay == RingSpec => OnlyTheNodesKeysMove
<1>1. RingIInv /\ RingIInv' /\ [RingNext]_ringVars =>
        [\A n \in RingNode, h \in Hash :
           /\ Add(n) => Owner(h)' \in {Owner(h), n}
           /\ Remove(n) => Owner(h) = n \/ Owner(h)' = Owner(h)]_ringVars
  BY AddMoves, RemoveMoves DEF RingIInv
<1> QED
  BY <1>1, RingInvariant, PTL DEF RingSpec, OnlyTheNodesKeysMove
=============================================================================
