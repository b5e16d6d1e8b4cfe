-------------------------- MODULE CacheNodeProofs --------------------------
(***************************************************************************)
(* Proofs about CacheNode for every number of clients, keys, requests and  *)
(* kills.  The log keeps the real-time order of the writes because a       *)
(* request is acknowledged after its line is appended, and because the     *)
(* number of a request in flight is new: nobody has it in its past.        *)
(***************************************************************************)
EXTENDS CacheNode, SequenceLemmas

-----------------------------------------------------------------------------
(* What set does to the cache.                                             *)

(* Besides e, q has entries of other keys of s. *)
OnlyFrom(s, e, q) ==
  \A n \in 1 .. Len(q) :
     q[n] = e \/ \E i \in 1 .. Len(s) : q[n] = s[i] /\ s[i].key # e.key

(* The entries of s moved behind e in q, but for those that now have as    *)
(* many keys before them as the cache holds.                               *)
Pushed(s, e, q) ==
  \A T : \A i \in 1 .. Len(s) :
     /\ s[i].key # e.key
     /\ IsFiniteSet(T) /\ e.key \in T /\ Ahead(s, i) \subseteq T
     => \/ \E n \in 1 .. Len(q) : q[n] = s[i] /\ Ahead(q, n) \subseteq T
        \/ Capacity <= Cardinality(T)

(* What set leaves: its entry in front and the others behind it.           *)
LEMMA PutEntries ==
  ASSUME NEW S, NEW s \in Seq(S), NEW e \in S, NEW q, q = Put(s, e)
  PROVE  /\ q \in Seq(S)
         /\ OnlyFrom(s, e, q)
         /\ Capacity = 0 \/ (1 \in 1 .. Len(q) /\ q[1] = e)
         /\ UniqueKeys(s) => UniqueKeys(q)
         /\ UniqueKeys(s) => Pushed(s, e, q)
<1> DEFINE r == Without(s, e.key)
           w == <<e>> \o r
           len == IF Len(w) < Capacity THEN Len(w) ELSE Capacity
<1>1. /\ r \in Seq(S) /\ Len(r) \in Nat
      /\ \A n \in 1 .. Len(r) : \E i \in 1 .. Len(s) : r[n] = s[i] /\ s[i].key # e.key
      /\ \A i \in 1 .. Len(s) : s[i].key # e.key =>
            \E n \in 1 .. Len(r) : r[n] = s[i] /\ Ahead(r, n) \subseteq Ahead(s, i)
      /\ UniqueKeys(s) => UniqueKeys(r)
  BY WithoutEntries, LenProperties
<1> HIDE DEF r
<1>2. /\ w \in Seq(S) /\ Len(w) = Len(r) + 1 /\ w[1] = e
      /\ \A n \in 2 .. Len(w) : n - 1 \in 1 .. Len(r) /\ w[n] = r[n - 1]
  <2>1. <<e>> \in Seq(S) /\ Len(<<e>>) = 1 /\ <<e>>[1] = e
    OBVIOUS
  <2>2. /\ w \in Seq(S) /\ Len(w) = 1 + Len(r)
        /\ \A i \in 1 .. 1 + Len(r) : w[i] = IF i <= 1 THEN <<e>>[i] ELSE r[i - 1]
    BY <1>1, <2>1, ConcatProperties
  <2> QED
    BY <1>1, <2>1, <2>2
<1> HIDE DEF w
<1>3. q = SubSeq(w, 1, len)
  BY DEF Put, Newest, w, r
<1>4. len \in 0 .. Len(w) /\ (len = Len(w) \/ len = Capacity) /\ len <= Capacity
  BY <1>1, <1>2, CapacityAssumption
<1> HIDE DEF len
<1>5. /\ q \in Seq(S) /\ Len(q) = len
      /\ \A n \in 1 .. len : n \in 1 .. Len(w) /\ q[n] = w[n]
  <2>1. \A n \in 1 .. len : n \in 1 .. Len(w) /\ w[n] \in S
    BY <1>1, <1>2, <1>4, ElementOfSeq
  <2> QED
    BY <1>1, <1>2, <1>3, <1>4, <2>1, SubSeqProperties
<1>6. ASSUME NEW n \in 1 .. Len(w), n # 1
      PROVE  /\ n - 1 \in 1 .. Len(r) /\ w[n] = r[n - 1]
             /\ \E i \in 1 .. Len(s) : w[n] = s[i] /\ s[i].key # e.key
  <2>1. n \in 2 .. Len(w)
    BY <1>1, <1>2, <1>6
  <2> QED
    BY <1>1, <1>2, <2>1
<1>7. ASSUME UniqueKeys(s)
      PROVE  UniqueKeys(w) /\ UniqueKeys(q)
  <2>1. ASSUME NEW i \in 1 .. Len(w), NEW j \in 1 .. Len(w), w[i].key = w[j].key
        PROVE  i = j
    <3>1. CASE i # 1 /\ j # 1
      <4>1. /\ i - 1 \in 1 .. Len(r) /\ w[i] = r[i - 1]
            /\ j - 1 \in 1 .. Len(r) /\ w[j] = r[j - 1]
        BY <1>6, <3>1
      <4>2. UniqueKeys(r)
        BY <1>1, <1>7
      <4>3. i - 1 = j - 1
        BY <2>1, <4>1, <4>2 DEF UniqueKeys
      <4> QED
        BY <1>1, <1>2, <4>3
    <3>2. CASE i = 1 \/ j = 1
      BY <1>2, <1>6, <2>1, <3>2
    <3> QED
      BY <3>1, <3>2
  <2> QED
    BY <1>5, <2>1 DEF UniqueKeys
<1>8. ASSUME UniqueKeys(s), NEW i \in 1 .. Len(s), s[i].key # e.key,
             NEW T, IsFiniteSet(T), e.key \in T, Ahead(s, i) \subseteq T
      PROVE  \/ \E n \in 1 .. Len(q) : q[n] = s[i] /\ Ahead(q, n) \subseteq T
             \/ Capacity <= Cardinality(T)
  <2>1. PICK m \in 1 .. Len(r) : r[m] = s[i] /\ Ahead(r, m) \subseteq Ahead(s, i)
    BY <1>1, <1>8
  <2>2. m + 1 \in 2 .. Len(w) /\ w[m + 1] = s[i]
    BY <1>1, <1>2, <2>1
  <2>3. Ahead(w, m + 1) \subseteq T
    <3>1. ASSUME NEW j \in 1 .. m
          PROVE  w[j].key \in T
      <4>1. CASE j = 1
        BY <1>2, <1>8, <4>1
      <4>2. CASE j # 1
        <5>1. j \in 2 .. Len(w) /\ j - 1 \in 1 .. m - 1
          BY <1>1, <1>2, <4>2
        <5>2. w[j] = r[j - 1] /\ r[j - 1].key \in Ahead(r, m)
          BY <1>2, <5>1 DEF Ahead
        <5> QED
          BY <1>8, <2>1, <5>2
      <4> QED
        BY <4>1, <4>2
    <3>2. (m + 1) - 1 = m
      BY <1>1
    <3> QED
      BY <3>1, <3>2 DEF Ahead
  <2>4. CASE m + 1 <= len
    <3>1. m + 1 \in 1 .. len
      BY <1>1, <1>2, <1>4, <2>4
    <3>2. ASSUME NEW j \in 1 .. (m + 1) - 1
          PROVE  q[j] = w[j]
      BY <1>1, <1>2, <1>4, <1>5, <3>1
    <3>3. Ahead(q, m + 1) \subseteq T
      BY <2>3, <3>2 DEF Ahead
    <3> QED
      BY <1>5, <2>2, <3>1, <3>3
  <2>5. CASE ~(m + 1 <= len)
    <3>1. m + 1 \in 1 .. Len(w) /\ UniqueKeys(w)
      BY <1>1, <1>2, <1>7, <1>8
    <3>2. (m + 1) - 1 <= Cardinality(T)
      BY <1>2, <1>8, <2>3, <3>1, PlaceBound
    <3>3. len = Capacity /\ len <= m
      BY <1>1, <1>2, <1>4, <2>5
    <3>4. Cardinality(T) \in Nat
      BY <1>8, FS_CardinalityType
    <3> QED
      BY <1>1, <3>2, <3>3, <3>4, CapacityAssumption
  <2> QED
    BY <2>4, <2>5
<1>9. Capacity = 0 \/ (1 \in 1 .. Len(q) /\ q[1] = e)
  BY <1>1, <1>2, <1>4, <1>5, CapacityAssumption
<1>10. OnlyFrom(s, e, q)
  <2> SUFFICES ASSUME NEW n \in 1 .. Len(q), q[n] # e
               PROVE  \E i \in 1 .. Len(s) : q[n] = s[i] /\ s[i].key # e.key
    BY DEF OnlyFrom
  <2>1. n \in 1 .. Len(w) /\ n # 1 /\ q[n] = w[n]
    BY <1>2, <1>5
  <2> QED
    BY <1>6, <2>1
<1>11. UniqueKeys(s) => Pushed(s, e, q)
  BY <1>8 DEF Pushed
<1> QED
  BY <1>5, <1>7, <1>9, <1>10, <1>11

(* It does the same to keys and values whatever the expiry times.          *)
LEMMA SamePut ==
  ASSUME NEW S, NEW s \in Seq(S), NEW r \in Seq(S), Same(s, r),
         NEW x \in S, NEW y \in S, x.key = y.key, x.val = y.val
  PROVE  Same(Put(s, x), Put(r, y))
<1> DEFINE a == Without(s, x.key)
           b == Without(r, y.key)
           v == <<x>> \o a
           w == <<y>> \o b
           len == IF Len(v) < Capacity THEN Len(v) ELSE Capacity
<1>1. /\ a \in Seq(S) /\ b \in Seq(S) /\ Same(a, b) /\ Len(a) \in Nat /\ Len(b) = Len(a)
      /\ \A i \in 1 .. Len(a) : a[i].key = b[i].key /\ a[i].val = b[i].val
  <2>1. a \in Seq(S) /\ b \in Seq(S)
    BY WithoutEntries
  <2>2. Same(a, b)
    BY SameWithout
  <2> QED
    BY <2>1, <2>2, LenProperties DEF Same
<1> HIDE DEF a, b
<1>2. /\ v \in Seq(S) /\ w \in Seq(S)
      /\ Len(v) = 1 + Len(a) /\ Len(w) = 1 + Len(a)
      /\ \A i \in 1 .. 1 + Len(a) : /\ v[i] = IF i <= 1 THEN x ELSE a[i - 1]
                                    /\ w[i] = IF i <= 1 THEN y ELSE b[i - 1]
  <2>1. /\ <<x>> \in Seq(S) /\ Len(<<x>>) = 1 /\ <<x>>[1] = x
        /\ <<y>> \in Seq(S) /\ Len(<<y>>) = 1 /\ <<y>>[1] = y
    OBVIOUS
  <2>2. /\ v \in Seq(S) /\ Len(v) = 1 + Len(a)
        /\ \A i \in 1 .. 1 + Len(a) : v[i] = IF i <= 1 THEN <<x>>[i] ELSE a[i - 1]
    BY <1>1, <2>1, ConcatProperties
  <2>3. /\ w \in Seq(S) /\ Len(w) = 1 + Len(a)
        /\ \A i \in 1 .. 1 + Len(a) : w[i] = IF i <= 1 THEN <<y>>[i] ELSE b[i - 1]
    BY <1>1, <2>1, ConcatProperties
  <2>4. \A i \in 1 .. 1 + Len(a) : i <= 1 => i = 1
    BY <1>1
  <2> QED
    BY <2>1, <2>2, <2>3, <2>4
<1> HIDE DEF v, w
<1>3. /\ Put(s, x) = SubSeq(v, 1, len) /\ Put(r, y) = SubSeq(w, 1, len)
      /\ len \in 0 .. Len(v)
  <2>1. Len(w) = Len(v)
    BY <1>2
  <2> QED
    BY <1>1, <1>2, <2>1, CapacityAssumption DEF Put, Newest, v, w, a, b
<1> HIDE DEF len
<1>4. \A i \in 1 .. len : /\ i \in 1 .. 1 + Len(a) /\ v[i] \in S /\ w[i] \in S
                          /\ v[i].key = w[i].key /\ v[i].val = w[i].val
  <2> SUFFICES ASSUME NEW i \in 1 .. len
               PROVE  /\ i \in 1 .. 1 + Len(a) /\ v[i] \in S /\ w[i] \in S
                      /\ v[i].key = w[i].key /\ v[i].val = w[i].val
    OBVIOUS
  <2>1. i \in 1 .. 1 + Len(a)
    BY <1>1, <1>2, <1>3
  <2>2. v[i] \in S /\ w[i] \in S
    BY <1>2, <2>1, ElementOfSeq
  <2>3. CASE i <= 1
    BY <1>2, <2>1, <2>2, <2>3
  <2>4. CASE ~(i <= 1)
    <3>1. i - 1 \in 1 .. Len(a)
      BY <1>1, <2>1, <2>4
    <3> QED
      BY <1>1, <1>2, <2>1, <2>2, <2>4, <3>1
  <2> QED
    BY <2>3, <2>4
<1>5. /\ Len(SubSeq(v, 1, len)) = len /\ \A i \in 1 .. len : SubSeq(v, 1, len)[i] = v[i]
      /\ Len(SubSeq(w, 1, len)) = len /\ \A i \in 1 .. len : SubSeq(w, 1, len)[i] = w[i]
  BY <1>1, <1>2, <1>3, <1>4, SubSeqProperties
<1> QED
  BY <1>3, <1>4, <1>5 DEF Same

-----------------------------------------------------------------------------
(* The inductive invariant.                                                *)

RequestTypes ==
  /\ pc \in [Client -> {"idle", "cache", "log", "reply"}]
  /\ cmd \in [Client -> Command \cup {NoRequest}]
  /\ issued \in [Client -> 0 .. MaxRequests]
  /\ log \in Seq(Command)

(* A request that has been made bears a number that has been given out.    *)
Made(req) == req \in Request /\ req.n <= issued[req.client]

AllMade ==
  /\ \A a \in acked : Made(a)
  /\ \A i \in DOMAIN log : Made(log[i].req)
  /\ \A h \in history : Made(h.req) /\ h.before \subseteq acked

(* A request in flight is its client's latest, and not acknowledged yet.   *)
InFlight ==
  \A c \in Client :
    pc[c] # "idle" => /\ cmd[c] \in Command
                      /\ cmd[c].req = [client |-> c, n |-> issued[c]]
                      /\ cmd[c].req \notin acked

(* The history knows what a request in flight does.                        *)
Remembered ==
  \A c \in Client : \A h \in history :
    pc[c] # "idle" /\ h.req = cmd[c].req => h.op = cmd[c].op

IInv ==
  RequestTypes /\ AllMade /\ InFlight /\ Remembered /\ LogKeepsRealTimeOrder

LEMMA InitInvariant == Init => IInv
<1> SUFFICES ASSUME Init
             PROVE  IInv
  OBVIOUS
<1>1. RequestTypes
  BY BoundsAssumption DEF Init, RequestTypes
<1>2. AllMade /\ InFlight /\ Remembered /\ LogKeepsRealTimeOrder
  BY DEF Init, AllMade, InFlight, Remembered, LogKeepsRealTimeOrder, Writes
<1> QED
  BY <1>1, <1>2 DEF IInv

-----------------------------------------------------------------------------
(* The steps.                                                              *)

(* Recovery, the clock and the cleanup leave requests and log alone.       *)
LEMMA QuietStep ==
  ASSUME IInv, UNCHANGED <<log, clients, ghosts>>
  PROVE  IInv'
BY DEF IInv, RequestTypes, AllMade, Made, InFlight, Remembered, LogKeepsRealTimeOrder,
       Writes, clients, ghosts

(* A kill forgets what was in flight; the numbers given out remain.        *)
LEMMA KillStep ==
  ASSUME IInv, Kill
  PROVE  IInv'
<1>1. RequestTypes'
  BY DEF Kill, IInv, RequestTypes, disk
<1>2. AllMade' /\ LogKeepsRealTimeOrder'
  BY DEF Kill, IInv, AllMade, Made, LogKeepsRealTimeOrder, Writes, disk, ghosts
<1>3. InFlight' /\ Remembered'
  BY DEF Kill, InFlight, Remembered
<1> QED
  BY <1>1, <1>2, <1>3 DEF IInv

(* A new request has a number nobody has seen.                             *)
LEMMA BeginStep ==
  ASSUME IInv, NEW c \in Client, Begin(c)
  PROVE  IInv'
<1>0. PICK req : req = [client |-> c, n |-> issued[c] + 1]
  OBVIOUS
<1>1. /\ issued \in [Client -> 0 .. MaxRequests] /\ MaxRequests \in Nat
      /\ issued' = [issued EXCEPT ![c] = issued[c] + 1]
      /\ issued'[c] = issued[c] + 1
      /\ issued'[c] \in 1 .. MaxRequests
  BY BoundsAssumption DEF Begin, IInv, RequestTypes
<1>2. PICK op \in {"SET", "GET", "DEL"}, k \in Key :
         /\ cmd' = [cmd EXCEPT ![c] = [op |-> op, key |-> k, req |-> req]]
         /\ history' = history \cup {[op |-> op, key |-> k, req |-> req,
                                      born |-> now, before |-> acked]}
  BY <1>0, <1>1 DEF Begin
<1>3. pc' = [pc EXCEPT ![c] = "cache"] /\ UNCHANGED <<log, acked>>
  BY DEF Begin, disk
<1>4. req \in Request /\ req.client = c /\ req.n = issued[c] + 1
  BY <1>0, <1>1 DEF Request
<1>5. \A r : Made(r) => Made(r)' /\ r # req
  <2> SUFFICES ASSUME NEW r, Made(r)
               PROVE  Made(r)' /\ r # req
    OBVIOUS
  <2>1. r \in Request /\ r.client \in Client /\ r.n \in Nat /\ r.n <= issued[r.client]
    BY DEF Made, Request
  <2>2. issued[r.client] \in Nat /\ issued[r.client] <= issued'[r.client]
    BY <1>1, <2>1
  <2>3. issued'[r.client] \in Nat
    BY <1>1, <2>1
  <2>4. Made(r)'
    BY <2>1, <2>2, <2>3 DEF Made
  <2>5. r # req
    BY <1>1, <1>4, <2>1
  <2> QED
    BY <2>4, <2>5
<1>6. Made(req)'
  BY <1>1, <1>4 DEF Made
<1>7. RequestTypes'
  <2>1. [op |-> op, key |-> k, req |-> req] \in Command
    BY <1>4 DEF Command
  <2>2. issued' \in [Client -> 0 .. MaxRequests]
    BY <1>1
  <2> QED
    BY <1>2, <1>3, <2>1, <2>2 DEF IInv, RequestTypes
<1>8. AllMade'
  BY <1>2, <1>3, <1>5, <1>6 DEF IInv, AllMade
<1>9. req \notin acked /\ \A i \in DOMAIN log : log[i].req # req
  BY <1>5 DEF IInv, AllMade
<1>10. InFlight'
  <2> SUFFICES ASSUME NEW d \in Client, pc'[d] # "idle"
               PROVE  /\ cmd'[d] \in Command
                      /\ cmd'[d].req = [client |-> d, n |-> issued'[d]]
                      /\ cmd'[d].req \notin acked'
    BY DEF InFlight
  <2>1. CASE d = c
    <3>1. cmd'[c] = [op |-> op, key |-> k, req |-> req]
      BY <1>2 DEF IInv, RequestTypes
    <3>2. cmd'[c] \in Command /\ cmd'[c].req = req
      BY <1>4, <3>1 DEF Command
    <3> QED
      BY <1>0, <1>1, <1>3, <1>9, <2>1, <3>2
  <2>2. CASE d # c
    <3>1. pc'[d] = pc[d] /\ cmd'[d] = cmd[d] /\ issued'[d] = issued[d]
      BY <1>1, <1>2, <1>3, <2>2 DEF IInv, RequestTypes
    <3> QED
      BY <1>3, <3>1 DEF IInv, InFlight
  <2> QED
    BY <2>1, <2>2
<1>11. Remembered'
  <2> SUFFICES ASSUME NEW d \in Client, NEW h \in history',
                      pc'[d] # "idle", h.req = cmd'[d].req
               PROVE  h.op = cmd'[d].op
    BY DEF Remembered
  <2>1. CASE d = c
    <3>1. cmd'[c] = [op |-> op, key |-> k, req |-> req]
      BY <1>2 DEF IInv, RequestTypes
    <3>2. h \notin history
      BY <1>5, <2>1, <3>1 DEF IInv, AllMade
    <3> QED
      BY <1>2, <2>1, <3>1, <3>2
  <2>2. CASE d # c
    <3>1. pc'[d] = pc[d] /\ cmd'[d] = cmd[d]
      BY <1>2, <1>3, <2>2 DEF IInv, RequestTypes
    <3>2. cmd[d].req = [client |-> d, n |-> issued[d]]
      BY <3>1 DEF IInv, InFlight
    <3>3. h.req # req
      BY <1>4, <2>2, <3>1, <3>2
    <3> QED
      BY <1>2, <3>1, <3>3 DEF IInv, Remembered
  <2> QED
    BY <2>1, <2>2
<1>12. LogKeepsRealTimeOrder'
  <2> SUFFICES ASSUME NEW h \in Writes', NEW i \in DOMAIN log, NEW j \in DOMAIN log,
                      log[i].req = h.req, log[j].req \in h.before
               PROVE  j < i
    BY <1>3 DEF LogKeepsRealTimeOrder
  <2>1. h \in history
    BY <1>2, <1>9 DEF Writes
  <2> QED
    BY <2>1 DEF IInv, LogKeepsRealTimeOrder, Writes
<1> QED
  BY <1>7, <1>8, <1>10, <1>11, <1>12 DEF IInv

(* Between Begin and Reply a request only moves on, and its line may be    *)
(* appended: the last one of the log, in nobody's past.                    *)
LEMMA WorkStep ==
  ASSUME IInv, NEW c \in Client, Update(c) \/ Read(c) \/ LogAppend(c)
  PROVE  IInv'
<1>1. /\ pc[c] # "idle"
      /\ UNCHANGED <<cmd, issued, acked, history>>
      /\ \E to \in {"log", "reply"} : pc' = [pc EXCEPT ![c] = to]
      /\ log' = log \/ log' = Append(log, cmd[c])
  BY DEF Update, Read, LogAppend, Step, ghosts, disk
<1>2. /\ pc' \in [Client -> {"idle", "cache", "log", "reply"}]
      /\ \A d \in Client : pc'[d] # "idle" => pc[d] # "idle"
  BY <1>1 DEF IInv, RequestTypes
<1>3. InFlight' /\ Remembered'
  BY <1>1, <1>2 DEF IInv, InFlight, Remembered
<1>4. CASE log' = log
  BY <1>1, <1>2, <1>3, <1>4
  DEF IInv, RequestTypes, AllMade, Made, LogKeepsRealTimeOrder, Writes
<1>5. CASE log' = Append(log, cmd[c])
  <2>1. cmd[c] \in Command /\ cmd[c].req \notin acked /\ Made(cmd[c].req)
    <3>1. /\ cmd[c] \in Command /\ cmd[c].req \notin acked
          /\ cmd[c].req = [client |-> c, n |-> issued[c]]
      BY <1>1 DEF IInv, InFlight
    <3>2. cmd[c].req \in Request /\ issued[c] \in 0 .. MaxRequests
      BY <3>1 DEF Command, IInv, RequestTypes
    <3> QED
      BY <3>1, <3>2, BoundsAssumption DEF Made
  <2>2. /\ log' \in Seq(Command) /\ Len(log) \in Nat /\ Len(log') = Len(log) + 1
        /\ DOMAIN log = 1 .. Len(log) /\ DOMAIN log' = 1 .. Len(log) + 1
        /\ \A i \in 1 .. Len(log) : log'[i] = log[i]
        /\ log'[Len(log) + 1] = cmd[c]
    <3>1. log \in Seq(Command)
      BY DEF IInv, RequestTypes
    <3>2. /\ Append(log, cmd[c]) \in Seq(Command)
          /\ Len(Append(log, cmd[c])) = Len(log) + 1
          /\ \A i \in 1 .. Len(log) : Append(log, cmd[c])[i] = log[i]
          /\ Append(log, cmd[c])[Len(log) + 1] = cmd[c]
      BY <2>1, <3>1, AppendProperties
    <3> QED
      BY <1>5, <3>1, <3>2, LenProperties
  <2>3. RequestTypes'
    BY <1>1, <1>2, <2>2 DEF IInv, RequestTypes
  <2>4. AllMade'
    <3>1. ASSUME NEW i \in DOMAIN log'
          PROVE  Made(log'[i].req)
      BY <2>1, <2>2 DEF IInv, AllMade
    <3> QED
      BY <1>1, <3>1 DEF IInv, AllMade, Made
  <2>5. LogKeepsRealTimeOrder'
    <3> SUFFICES ASSUME NEW h \in Writes, NEW i \in DOMAIN log', NEW j \in DOMAIN log',
                        log'[i].req = h.req, log'[j].req \in h.before
                 PROVE  j < i
      BY <1>1 DEF LogKeepsRealTimeOrder, Writes
    <3>1. log'[j].req \in acked
      BY DEF IInv, AllMade, Writes
    <3>2. j \in 1 .. Len(log)
      BY <2>1, <2>2, <3>1
    <3>3. CASE i = Len(log) + 1
      BY <2>2, <3>2, <3>3
    <3>4. CASE i \in 1 .. Len(log)
      BY <2>2, <3>2, <3>4 DEF IInv, LogKeepsRealTimeOrder
    <3> QED
      BY <2>2, <3>3, <3>4
  <2> QED
    BY <1>3, <2>3, <2>4, <2>5 DEF IInv
<1> QED
  BY <1>1, <1>4, <1>5

(* An acknowledgement puts a request into the pasts to come only.          *)
LEMMA ReplyStep ==
  ASSUME IInv, NEW c \in Client, Reply(c)
  PROVE  IInv'
<1>1. /\ pc[c] = "reply" /\ pc' = [pc EXCEPT ![c] = "idle"]
      /\ cmd' = [cmd EXCEPT ![c] = NoRequest]
      /\ acked' = acked \cup {cmd[c].req}
      /\ UNCHANGED <<issued, history, log>>
  BY DEF Reply, Step, disk
<1>2. cmd[c] \in Command /\ cmd[c].req = [client |-> c, n |-> issued[c]]
  BY <1>1 DEF IInv, InFlight
<1>3. Made(cmd[c].req)
  <2>1. cmd[c].req \in Request /\ issued[c] \in 0 .. MaxRequests
    BY <1>2 DEF Command, IInv, RequestTypes
  <2> QED
    BY <1>2, <2>1, BoundsAssumption DEF Made
<1>4. RequestTypes'
  BY <1>1 DEF IInv, RequestTypes
<1>5. AllMade'
  BY <1>1, <1>3 DEF IInv, AllMade, Made
<1>6. \A d \in Client : pc'[d] # "idle" => d # c /\ pc'[d] = pc[d] /\ cmd'[d] = cmd[d]
  BY <1>1 DEF IInv, RequestTypes
<1>7. InFlight'
  <2> SUFFICES ASSUME NEW d \in Client, pc'[d] # "idle"
               PROVE  /\ cmd'[d] \in Command
                      /\ cmd'[d].req = [client |-> d, n |-> issued'[d]]
                      /\ cmd'[d].req \notin acked'
    BY DEF InFlight
  <2>1. /\ cmd[d] \in Command /\ cmd[d].req \notin acked
        /\ cmd[d].req = [client |-> d, n |-> issued[d]]
    BY <1>6 DEF IInv, InFlight
  <2>2. cmd[d].req # cmd[c].req
    BY <1>2, <1>6, <2>1
  <2> QED
    BY <1>1, <1>6, <2>1, <2>2
<1>8. Remembered'
  BY <1>1, <1>6 DEF IInv, Remembered
<1>9. LogKeepsRealTimeOrder'
  BY <1>1 DEF IInv, LogKeepsRealTimeOrder, Writes
<1> QED
  BY <1>4, <1>5, <1>7, <1>8, <1>9 DEF IInv

LEMMA NextInvariant == IInv /\ [Next]_vars => IInv'
<1> SUFFICES ASSUME IInv, [Next]_vars
             PROVE  IInv'
  OBVIOUS
<1>1. CASE Recover \/ Serve \/ Cleanup \/ Tick \/ UNCHANGED vars
  <2>1. UNCHANGED <<log, clients, ghosts>>
    BY <1>1 DEF Recover, Serve, Cleanup, Tick, vars, disk
  <2> QED
    BY <2>1, QuietStep
<1>2. CASE Kill
  BY <1>2, KillStep
<1>3. ASSUME NEW c \in Client, Serving(c)
      PROVE  IInv'
  BY <1>3, BeginStep, WorkStep, ReplyStep DEF Serving
<1> QED
  BY <1>1, <1>2, <1>3 DEF Next

-----------------------------------------------------------------------------
(* The theorems.                                                           *)

THEOREM Invariant == Spec => []IInv
BY InitInvariant, NextInvariant, PTL DEF Spec

(* In the log, across kills and restarts, no write stands before one that  *)
(* was acknowledged before it began: process_command appends first and     *)
(* answers afterwards.                                                     *)
THEOREM RealTimeOrder == Spec => []LogKeepsRealTimeOrder
<1>1. IInv => LogKeepsRealTimeOrder
  BY DEF IInv
<1> QED
  BY <1>1, Invariant, PTL

-----------------------------------------------------------------------------
(* Durability, as long as the disk takes every line.  A write that is      *)
(* about to be answered is in the log, and the log only grows.             *)

Durable ==
  /\ stream = "good" /\ faults \in Nat
  /\ \A c \in Client :
       pc[c] = "reply" /\ cmd[c].op \in {"SET", "DEL"} =>
         \E i \in DOMAIN log : log[i].req = cmd[c].req
  /\ AckedIsLogged

LEMMA DurableStep ==
  ASSUME MaxFaults = 0, IInv, Durable, [Next]_vars
  PROVE  Durable'
<1>1. CASE Recover \/ Serve \/ Cleanup \/ Tick \/ UNCHANGED vars
  <2>1. UNCHANGED <<log, faults, stream, pc, cmd, acked, history>>
    BY <1>1 DEF Recover, Serve, Cleanup, Tick, vars, disk, memory, clients, ghosts
  <2> QED
    BY <2>1 DEF Durable, AckedIsLogged, Writes, Logged
<1>2. CASE Kill
  BY <1>2 DEF Kill, disk, ghosts, Durable, AckedIsLogged, Writes, Logged
<1>3. ASSUME NEW c \in Client, Begin(c)
      PROVE  Durable'
  <2>1. /\ pc' = [pc EXCEPT ![c] = "cache"]
        /\ \A d \in Client : d # c => cmd'[d] = cmd[d]
        /\ UNCHANGED <<log, faults, stream, acked>>
    BY <1>3 DEF Begin, disk, memory, IInv, RequestTypes
  <2>2. \A h \in history' : h \in history \/ h.req \notin acked
    <3>1. PICK op \in {"SET", "GET", "DEL"}, k \in Key :
            history' = history \cup {[op |-> op, key |-> k,
                                     req |-> [client |-> c, n |-> issued'[c]],
                                     born |-> now, before |-> acked]}
      BY <1>3 DEF Begin
    <3>2. issued'[c] = issued[c] + 1 /\ issued[c] \in Nat
      BY <1>3, BoundsAssumption DEF Begin, IInv, RequestTypes
    <3>3. [client |-> c, n |-> issued'[c]] \notin acked
      BY <3>2 DEF IInv, AllMade, Made
    <3> QED
      BY <3>1, <3>3
  <2>3. \A d \in Client : pc'[d] = "reply" => d # c /\ pc[d] = "reply"
    BY <2>1 DEF IInv, RequestTypes
  <2> QED
    BY <2>1, <2>2, <2>3 DEF Durable, AckedIsLogged, Writes, Logged
<1>4. ASSUME NEW c \in Client, Update(c) \/ Read(c)
      PROVE  Durable'
  <2>1. /\ \A d \in Client : pc'[d] = "reply" => pc[d] = "reply" \/ cmd[d].op = "GET"
        /\ UNCHANGED <<cmd, log, faults, stream, acked, history>>
    BY <1>4 DEF Update, Read, Step, disk, memory, ghosts, IInv, RequestTypes
  <2> QED
    BY <2>1 DEF Durable, AckedIsLogged, Writes, Logged
<1>5. ASSUME NEW c \in Client, LogAppend(c)
      PROVE  Durable'
  <2>1. /\ log' = Append(log, cmd[c]) /\ pc' = [pc EXCEPT ![c] = "reply"]
        /\ pc[c] = "log"
        /\ UNCHANGED <<cmd, faults, stream, acked, history>>
    BY <1>5 DEF LogAppend, Step, disk, ghosts, Durable
  <2>2. log \in Seq(Command) /\ cmd[c] \in Command
    BY <2>1 DEF IInv, RequestTypes, InFlight
  <2>3. /\ DOMAIN log \subseteq DOMAIN log'
        /\ \A i \in DOMAIN log : log'[i] = log[i]
        /\ Len(log) + 1 \in DOMAIN log' /\ log'[Len(log) + 1] = cmd[c]
    BY <2>1, <2>2, AppendProperties, LenProperties
  <2>4. \A d \in Client : pc'[d] = "reply" => d = c \/ pc[d] = "reply"
    BY <2>1 DEF IInv, RequestTypes
  <2> QED
    BY <2>1, <2>3, <2>4 DEF Durable, AckedIsLogged, Writes, Logged
<1>6. ASSUME NEW c \in Client, Reply(c)
      PROVE  Durable'
  <2>1. /\ pc[c] = "reply" /\ pc' = [pc EXCEPT ![c] = "idle"]
        /\ \A d \in Client : d # c => cmd'[d] = cmd[d]
        /\ acked' = acked \cup {cmd[c].req}
        /\ UNCHANGED <<log, faults, stream, history>>
    BY <1>6 DEF Reply, Step, disk, memory, IInv, RequestTypes
  <2>2. \A d \in Client : pc'[d] = "reply" => d # c /\ pc[d] = "reply"
    BY <2>1 DEF IInv, RequestTypes
  <2>3. \A h \in history : h.req = cmd[c].req => h.op = cmd[c].op
    BY <2>1 DEF IInv, Remembered
  <2> QED
    BY <2>1, <2>2, <2>3 DEF Durable, AckedIsLogged, Writes, Logged
<1> QED
  BY <1>1, <1>2, <1>3, <1>4, <1>5, <1>6 DEF Next, Serving

(* A write that was answered with OK is on a line of wal.log, if the disk  *)
(* never refuses a line: process_command answers after wal_.append, which  *)
(* flushes, and a kill takes nothing back.                                 *)
THEOREM Durability == ASSUME MaxFaults = 0 PROVE Spec => []AckedIsLogged
<1>1. Init => Durable
  BY DEF Init, Durable, AckedIsLogged, Writes
<1>2. IInv /\ Durable /\ [Next]_vars => Durable'
  BY DurableStep
<1>3. Durable => AckedIsLogged
  BY DEF Durable
<1> QED
  BY <1>1, <1>2, <1>3, Invariant, PTL DEF Spec

-----------------------------------------------------------------------------
(* What is recovered: the snapshot, then the log.                          *)

ScriptRecord == [op : {"SET", "GET", "DEL"}, key : Key, req : Request \cup {FromSnapshot}]

LEMMA ScriptProperties ==
  ASSUME log \in Seq(Command)
  PROVE  /\ Len(Snapshot) \in Nat /\ Len(log) \in Nat
         /\ DOMAIN Snapshot = 1 .. Len(Snapshot) /\ DOMAIN log = 1 .. Len(log)
         /\ Script \in Seq(ScriptRecord) /\ Len(Script) = Len(Snapshot) + Len(log)
         /\ \A i \in 1 .. Len(Snapshot) :
               Script[i].op = "SET" /\ Script[i].key = Snapshot[i] /\ Script[i].req = FromSnapshot
         /\ \A j \in 1 .. Len(log) : Script[Len(Snapshot) + j] = log[j]
<1> DEFINE front == [i \in DOMAIN Snapshot |->
                       [op |-> "SET", key |-> Snapshot[i], req |-> FromSnapshot]]
<1>1. /\ Len(Snapshot) \in Nat /\ DOMAIN Snapshot = 1 .. Len(Snapshot)
      /\ Len(log) \in Nat /\ DOMAIN log = 1 .. Len(log)
  BY SnapshotAssumption, LenProperties
<1>2. front \in Seq(ScriptRecord) /\ Len(front) = Len(Snapshot)
  <2>1. \A i \in 1 .. Len(Snapshot) : Snapshot[i] \in Key
    BY SnapshotAssumption, ElementOfSeq
  <2>2. front \in [1 .. Len(Snapshot) -> ScriptRecord]
    BY <1>1, <2>1 DEF ScriptRecord
  <2> QED
    BY <1>1, <2>2, SeqDef
<1>3. log \in Seq(ScriptRecord)
  <2>1. Command \subseteq ScriptRecord
    BY DEF Command, ScriptRecord
  <2> QED
    BY <2>1, SeqMonotonic
<1>4. Script = front \o log
  BY DEF Script
<1>5. \A i \in 1 .. Len(Snapshot) :
         front[i].op = "SET" /\ front[i].key = Snapshot[i] /\ front[i].req = FromSnapshot
  BY <1>1
<1> HIDE DEF front
<1>6. /\ Script \in Seq(ScriptRecord) /\ Len(Script) = Len(front) + Len(log)
      /\ \A i \in 1 .. Len(front) + Len(log) :
            Script[i] = IF i <= Len(front) THEN front[i] ELSE log[i - Len(front)]
  BY <1>2, <1>3, <1>4, ConcatProperties
<1>7. ASSUME NEW j \in 1 .. Len(log)
      PROVE  Script[Len(Snapshot) + j] = log[j]
  BY <1>1, <1>2, <1>6
<1> QED
  BY <1>1, <1>2, <1>5, <1>6, <1>7

-----------------------------------------------------------------------------
(* Types, and what the history knows.                                      *)

LEMMA AppliedTypes ==
  ASSUME NEW s \in Seq(Entry), NEW r \in ScriptRecord, NEW t \in Nat
  PROVE  /\ Applied(s, r, t) \in Seq(Entry)
         /\ UniqueKeys(s) => UniqueKeys(Applied(s, r, t))
<1>1. CASE r.op = "SET"
  <2> DEFINE e == [key |-> r.key, val |-> r.req, exp |-> ExpireTime(t, 0)]
  <2>1. e \in Entry
    BY DefaultTTLAssumption DEF Entry, ScriptRecord, ExpireTime
  <2>2. Applied(s, r, t) = Put(s, e)
    BY <1>1 DEF Applied
  <2> HIDE DEF e
  <2> QED
    BY <2>1, <2>2, PutEntries
<1>2. CASE r.op = "DEL"
  <2>1. Applied(s, r, t) = Without(s, r.key)
    BY <1>2 DEF Applied
  <2> QED
    BY <2>1, WithoutEntries
<1>3. CASE r.op \notin {"SET", "DEL"}
  BY <1>3 DEF Applied
<1> QED
  BY <1>1, <1>2, <1>3

NodeTypes ==
  /\ phase \in {"recovering", "serving"} /\ stream \in {"good", "bad"}
  /\ pos \in 1 .. Len(Snapshot) + Len(log) + 1
  /\ store \in Seq(Entry) /\ UniqueKeys(store)
  /\ answer \in [Client -> Request \cup {FromSnapshot, Nil}]
  /\ now \in Nat /\ kills \in Nat /\ faults \in Nat

(* The history holds what each request does, once; it has the requests in  *)
(* flight and those in the log, which are writes.  While the node recovers *)
(* nobody is served.                                                       *)
Matches(h, r) == h.req = r.req /\ h.op = r.op /\ h.key = r.key

Records ==
  /\ IsFiniteSet(history)
  /\ \A h \in history : /\ [op |-> h.op, key |-> h.key, req |-> h.req] \in Command
                        /\ h.born \in Nat /\ h.born <= now
  /\ \A g, h \in history : g.req = h.req => g = h
  /\ \A c \in Client : pc[c] # "idle" => \E h \in history : Matches(h, cmd[c])
  /\ \A c \in Client : pc[c] = "log" => cmd[c].op \in {"SET", "DEL"}
  /\ \A i \in DOMAIN log : /\ log[i].op \in {"SET", "DEL"}
                           /\ \E h \in history : Matches(h, log[i])
  /\ \A c \in Client : pc[c] # "idle" => phase = "serving"

LEMMA InitTypes == Init => NodeTypes /\ Records
<1> SUFFICES ASSUME Init
             PROVE  NodeTypes /\ Records
  OBVIOUS
<1>1. log \in Seq(Command) /\ store \in Seq(Entry) /\ Len(store) = 0 /\ Len(log) = 0
  BY DEF Init
<1>2. NodeTypes
  <2>1. pos \in 1 .. Len(Snapshot) + Len(log) + 1
    BY <1>1, ScriptProperties DEF Init
  <2>2. UniqueKeys(store)
    BY <1>1 DEF UniqueKeys
  <2> QED
    BY <1>1, <2>1, <2>2 DEF Init, NodeTypes
<1>3. Records
  BY FS_EmptySet DEF Init, Records
<1> QED
  BY <1>2, <1>3

LEMMA LookupTypes ==
  ASSUME NEW s \in Seq(Entry), NEW k, NEW t
  PROVE  \/ /\ Lookup(s, k, t, Nil) = Nil
            /\ \A i \in 1 .. Len(s) : s[i].key = k => Expired(s[i], t)
         \/ /\ Lookup(s, k, t, Nil) # Nil
            /\ \E i \in 1 .. Len(s) : s[i].key = k /\ Lookup(s, k, t, Nil) = s[i].val
<1>1. DOMAIN s = 1 .. Len(s)
  BY LenProperties
<1>2. CASE Found(s, k, t) = {}
  BY <1>1, <1>2 DEF Lookup, Found
<1>3. CASE Found(s, k, t) # {}
  <2>1. PICK i \in Found(s, k, t) : Lookup(s, k, t, Nil) = s[i].val
    BY <1>3 DEF Lookup
  <2>2. i \in 1 .. Len(s) /\ s[i].key = k /\ s[i] \in Entry
    BY <1>1, ElementOfSeq DEF Found
  <2>3. s[i].val # Nil
    BY <2>2, NilAssumption, BoundsAssumption DEF Entry, Request, FromSnapshot
  <2> QED
    BY <2>1, <2>2, <2>3
<1> QED
  BY <1>2, <1>3

LEMMA TypesStep ==
  ASSUME IInv, NodeTypes, [Next]_vars
  PROVE  NodeTypes'
<1>1. log \in Seq(Command) /\ cmd \in [Client -> Command \cup {NoRequest}]
  BY DEF IInv, RequestTypes
<1>2. CASE Recover
  <2>1. pos \in 1 .. Len(Script) /\ Script[pos] \in ScriptRecord
    <3>1. Script \in Seq(ScriptRecord) /\ Len(Script) \in Nat
      BY <1>1, ScriptProperties, LenProperties
    <3>2. pos \in 1 .. Len(Script)
      BY <1>2, <3>1 DEF Recover, NodeTypes
    <3> QED
      BY <3>1, <3>2, ElementOfSeq
  <2>2. store' \in Seq(Entry) /\ UniqueKeys(store')
    BY <1>2, <2>1, AppliedTypes DEF Recover, NodeTypes
  <2>3. pos' \in 1 .. Len(Snapshot) + Len(log) + 1
    BY <1>1, <1>2, <2>1, ScriptProperties DEF Recover
  <2> QED
    BY <1>2, <2>2, <2>3 DEF Recover, NodeTypes, clients, disk
<1>3. CASE Serve \/ Tick
  BY <1>3 DEF Serve, Tick, NodeTypes, memory, clients, disk
<1>4. CASE Kill
  <2>1. <<>> \in Seq(Entry) /\ UniqueKeys(<<>>)
    BY DEF UniqueKeys
  <2>2. 1 \in 1 .. Len(Snapshot) + Len(log) + 1
    BY <1>1, ScriptProperties
  <2>3. /\ answer' \in [Client -> Request \cup {FromSnapshot, Nil}]
        /\ kills' \in Nat
    BY <1>4 DEF Kill, NodeTypes
  <2> QED
    BY <1>4, <2>1, <2>2, <2>3 DEF Kill, NodeTypes, disk
<1>5. CASE Cleanup
  <2>1. store' \in Seq(Entry) /\ UniqueKeys(store')
    BY <1>5, UnexpiredEntries DEF Cleanup, NodeTypes
  <2> QED
    BY <1>5, <2>1 DEF Cleanup, NodeTypes, clients, disk
<1>6. ASSUME NEW c \in Client, Begin(c) \/ Reply(c)
      PROVE  NodeTypes'
  BY <1>6 DEF Begin, Reply, NodeTypes, memory, disk
<1>7. ASSUME NEW c \in Client, Update(c)
      PROVE  NodeTypes'
  <2>1. cmd[c] \in ScriptRecord
    <3>1. cmd[c] \in Command
      BY <1>7 DEF Update, Step, IInv, InFlight
    <3> QED
      BY <3>1 DEF Command, ScriptRecord
  <2>2. store' \in Seq(Entry) /\ UniqueKeys(store')
    BY <1>7, <2>1, AppliedTypes DEF Update, NodeTypes
  <2> QED
    BY <1>7, <2>2 DEF Update, NodeTypes, disk
<1>8. ASSUME NEW c \in Client, Read(c)
      PROVE  NodeTypes'
  <2> DEFINE found == Lookup(store, cmd[c].key, now, Nil)
  <2>1. found \in Request \cup {FromSnapshot, Nil}
    <3>1. CASE found = Nil
      BY <3>1
    <3>2. CASE found # Nil
      <4>1. PICK i \in 1 .. Len(store) : found = store[i].val
        BY <3>2, LookupTypes DEF NodeTypes
      <4>2. store[i] \in Entry
        BY ElementOfSeq DEF NodeTypes
      <4> QED
        BY <4>1, <4>2 DEF Entry
    <3> QED
      BY <3>1, <3>2
  <2>2. answer' = [answer EXCEPT ![c] = found]
    BY <1>8 DEF Read
  <2> HIDE DEF found
  <2> QED
    BY <1>8, <2>1, <2>2 DEF Read, NodeTypes, memory, disk
<1>9. ASSUME NEW c \in Client, LogAppend(c)
      PROVE  NodeTypes'
  <2>1. Len(log') \in {Len(log), Len(log) + 1}
    <3>1. cmd[c] \in Command
      BY <1>9 DEF LogAppend, Step, IInv, InFlight
    <3> QED
      BY <1>1, <1>9, <3>1, AppendProperties DEF LogAppend, disk
  <2>2. pos' \in 1 .. Len(Snapshot) + Len(log') + 1
    BY <1>1, <1>9, <2>1, ScriptProperties DEF LogAppend, NodeTypes
  <2>3. faults' \in Nat /\ stream' \in {"good", "bad"}
    BY <1>9 DEF LogAppend, NodeTypes, disk
  <2> QED
    BY <1>9, <2>2, <2>3 DEF LogAppend, NodeTypes
<1>10. CASE UNCHANGED vars
  BY <1>10 DEF vars, NodeTypes, memory, clients, disk
<1> QED
  BY <1>2, <1>3, <1>4, <1>5, <1>6, <1>7, <1>8, <1>9, <1>10 DEF Next, Serving

LEMMA RecordsStep ==
  ASSUME IInv, NodeTypes, Records, [Next]_vars
  PROVE  Records'
<1>1. CASE Recover \/ Serve \/ Cleanup \/ Tick \/ UNCHANGED vars
  <2>1. UNCHANGED <<log, pc, cmd, history>>
    BY <1>1 DEF Recover, Serve, Cleanup, Tick, vars, disk, clients, ghosts
  <2>2. now \in Nat /\ now' \in Nat /\ now <= now'
    BY <1>1 DEF Recover, Serve, Cleanup, Tick, vars, NodeTypes
  <2>3. phase = "serving" => phase' = "serving"
    BY <1>1 DEF Recover, Serve, Cleanup, Tick, vars
  <2>4. \A h \in history : h.born \in Nat /\ h.born <= now'
    <3> SUFFICES ASSUME NEW h \in history
                 PROVE  h.born \in Nat /\ h.born <= now'
      OBVIOUS
    <3>1. h.born \in Nat /\ h.born <= now
      BY DEF Records
    <3> QED
      BY <2>2, <3>1
  <2> QED
    BY <2>1, <2>3, <2>4 DEF Records, Matches
<1>2. CASE Kill
  BY <1>2 DEF Kill, Records, Matches, disk, ghosts
<1>3. ASSUME NEW c \in Client, Begin(c)
      PROVE  Records'
  <2> DEFINE req == [client |-> c, n |-> issued'[c]]
  <2>1. PICK op \in {"SET", "GET", "DEL"}, k \in Key :
          /\ cmd' = [cmd EXCEPT ![c] = [op |-> op, key |-> k, req |-> req]]
          /\ history' = history \cup {[op |-> op, key |-> k, req |-> req,
                                       born |-> now, before |-> acked]}
    BY <1>3 DEF Begin
  <2>2. issued'[c] = issued[c] + 1 /\ issued[c] \in Nat /\ req \in Request
    BY <1>3, BoundsAssumption DEF Begin, IInv, RequestTypes, Request
  <2>3. \A h \in history : h.req # req
    BY <2>2 DEF IInv, AllMade, Made
  <2> HIDE DEF req
  <2> DEFINE new == [op |-> op, key |-> k, req |-> req, born |-> now, before |-> acked]
  <2>4. history' = history \cup {new} /\ new.req = req /\ new.op = op /\ new.key = k
    BY <2>1
  <2>5. IsFiniteSet(history')
    <3> HIDE DEF new
    <3> QED
      BY <2>4, FS_AddElement DEF Records
  <2>6. /\ pc' = [pc EXCEPT ![c] = "cache"] /\ phase = "serving"
        /\ UNCHANGED <<phase, log, now, acked>>
    BY <1>3 DEF Begin, disk
  <2>7. \A h \in history' : /\ [op |-> h.op, key |-> h.key, req |-> h.req] \in Command
                            /\ h.born \in Nat /\ h.born <= now
    <3>1. now \in Nat
      BY DEF NodeTypes
    <3> QED
      BY <2>1, <2>2, <3>1 DEF Records, Command
  <2>8. \A g, h \in history' : g.req = h.req => g = h
    <3> HIDE DEF new
    <3> QED
      BY <2>3, <2>4 DEF Records
  <2>9. ASSUME NEW d \in Client, pc'[d] # "idle"
        PROVE  \E h \in history' : Matches(h, cmd'[d])
    <3>1. CASE d = c
      <4>1. cmd'[d] = [op |-> op, key |-> k, req |-> req]
        BY <2>1, <3>1 DEF IInv, RequestTypes
      <4>2. new \in history' /\ new.req = req /\ new.op = op /\ new.key = k
        BY <2>4
      <4> HIDE DEF new
      <4> QED
        BY <4>1, <4>2 DEF Matches
    <3>2. CASE d # c
      <4>1. pc'[d] = pc[d] /\ cmd'[d] = cmd[d]
        BY <2>1, <2>6, <3>2 DEF IInv, RequestTypes
      <4> QED
        BY <2>4, <2>9, <4>1 DEF Records, Matches
    <3> QED
      BY <3>1, <3>2
  <2>10. ASSUME NEW d \in Client, pc'[d] = "log"
         PROVE  cmd'[d].op \in {"SET", "DEL"}
    <3>1. d # c /\ pc[d] = "log"
      BY <2>6, <2>10 DEF IInv, RequestTypes
    <3>2. cmd'[d] = cmd[d]
      BY <2>1, <3>1 DEF IInv, RequestTypes
    <3> QED
      BY <3>1, <3>2 DEF Records
  <2> HIDE DEF new
  <2>11. \A i \in DOMAIN log : /\ log[i].op \in {"SET", "DEL"}
                               /\ \E h \in history' : Matches(h, log[i])
    BY <2>4 DEF Records
  <2> QED
    BY <2>5, <2>6, <2>7, <2>8, <2>9, <2>10, <2>11 DEF Records, Matches
<1>4. ASSUME NEW c \in Client, Update(c) \/ Read(c)
      PROVE  Records'
  <2>1. UNCHANGED <<phase, log, cmd, now, history>>
    BY <1>4 DEF Update, Read, disk, ghosts
  <2>2. \A d \in Client : /\ pc'[d] # "idle" => pc[d] # "idle"
                          /\ pc'[d] = "log" => pc[d] = "log" \/ cmd[d].op \in {"SET", "DEL"}
    BY <1>4 DEF Update, Read, Step, IInv, RequestTypes
  <2>3. ASSUME NEW d \in Client, pc'[d] # "idle"
        PROVE  phase' = "serving" /\ \E h \in history' : Matches(h, cmd'[d])
    <3>1. phase = "serving" /\ \E h \in history : Matches(h, cmd[d])
      BY <2>2, <2>3 DEF Records, Matches
    <3> QED
      BY <2>1, <3>1 DEF Matches
  <2>4. ASSUME NEW d \in Client, pc'[d] = "log"
        PROVE  cmd'[d].op \in {"SET", "DEL"}
    <3>1. cmd[d].op \in {"SET", "DEL"}
      BY <2>2, <2>4 DEF Records
    <3> QED
      BY <2>1, <3>1
  <2>5. \A i \in DOMAIN log' : /\ log'[i].op \in {"SET", "DEL"}
                               /\ \E h \in history' : Matches(h, log'[i])
    BY <2>1 DEF Records
  <2>6. /\ IsFiniteSet(history')
        /\ \A h \in history' : /\ [op |-> h.op, key |-> h.key, req |-> h.req] \in Command
                               /\ h.born \in Nat /\ h.born <= now'
        /\ \A g, h \in history' : g.req = h.req => g = h
    BY <2>1 DEF Records
  <2> QED
    BY <2>3, <2>4, <2>5, <2>6 DEF Records, Matches
<1>5. ASSUME NEW c \in Client, LogAppend(c)
      PROVE  Records'
  <2>1. /\ UNCHANGED <<phase, cmd, now, history>> /\ pc[c] = "log"
        /\ log' = log \/ log' = Append(log, cmd[c])
    BY <1>5 DEF LogAppend, Step, disk, ghosts
  <2>2. \A d \in Client : /\ pc'[d] # "idle" => pc[d] # "idle"
                          /\ pc'[d] = "log" => pc[d] = "log"
    BY <1>5 DEF LogAppend, Step, IInv, RequestTypes
  <2>3. ASSUME NEW i \in DOMAIN log'
        PROVE  log'[i].op \in {"SET", "DEL"} /\ \E h \in history : Matches(h, log'[i])
    <3>1. log \in Seq(Command) /\ cmd[c] \in Command
      BY <2>1 DEF IInv, RequestTypes, InFlight
    <3>2. (i \in DOMAIN log /\ log'[i] = log[i]) \/ log'[i] = cmd[c]
      <4>1. CASE log' = log
        BY <2>3, <4>1
      <4>2. CASE log' = Append(log, cmd[c])
        BY <2>3, <3>1, <4>2, AppendProperties, LenProperties
      <4> QED
        BY <2>1, <4>1, <4>2
    <3> QED
      BY <2>1, <3>2 DEF Records
  <2>4. ASSUME NEW d \in Client, pc'[d] # "idle"
        PROVE  phase' = "serving" /\ \E h \in history' : Matches(h, cmd'[d])
    <3>1. phase = "serving" /\ \E h \in history : Matches(h, cmd[d])
      BY <2>2, <2>4 DEF Records, Matches
    <3> QED
      BY <2>1, <3>1 DEF Matches
  <2>5. ASSUME NEW d \in Client, pc'[d] = "log"
        PROVE  cmd'[d].op \in {"SET", "DEL"}
    <3>1. cmd[d].op \in {"SET", "DEL"}
      BY <2>2, <2>5 DEF Records
    <3> QED
      BY <2>1, <3>1
  <2>6. /\ IsFiniteSet(history')
        /\ \A h \in history' : /\ [op |-> h.op, key |-> h.key, req |-> h.req] \in Command
                               /\ h.born \in Nat /\ h.born <= now'
        /\ \A g, h \in history' : g.req = h.req => g = h
    BY <2>1 DEF Records
  <2> QED
    BY <2>1, <2>3, <2>4, <2>5, <2>6 DEF Records, Matches
<1>6. ASSUME NEW c \in Client, Reply(c)
      PROVE  Records'
  <2>1. UNCHANGED <<phase, log, now, history>>
    BY <1>6 DEF Reply, disk
  <2>2. \A d \in Client : pc'[d] # "idle" => pc'[d] = pc[d] /\ cmd'[d] = cmd[d]
    BY <1>6 DEF Reply, Step, IInv, RequestTypes
  <2> QED
    BY <2>1, <2>2 DEF Records, Matches
<1> QED
  BY <1>1, <1>2, <1>3, <1>4, <1>5, <1>6 DEF Next, Serving

(* The variables have their types and the cache one entry per key,         *)
(* whatever the disk refuses.                                              *)
THEOREM TypeCorrect == Spec => []TypeOK
<1>1. IInv /\ NodeTypes /\ Records => TypeOK
  <2> SUFFICES ASSUME IInv, NodeTypes, Records
               PROVE  TypeOK
    OBVIOUS
  <2>1. pos \in Nat \ {0}
    <3>1. log \in Seq(Command)
      BY DEF IInv, RequestTypes
    <3> QED
      BY <3>1, ScriptProperties DEF NodeTypes
  <2>2. acked \subseteq Request
    BY DEF IInv, AllMade, Made
  <2>3. \A i, j \in DOMAIN store : store[i].key = store[j].key => i = j
    BY DEF NodeTypes, UniqueKeys
  <2> QED
    BY <2>1, <2>2, <2>3 DEF TypeOK, IInv, RequestTypes, NodeTypes, Records
<1> QED
  BY <1>1, InitTypes, TypesStep, RecordsStep, Invariant, PTL DEF Spec

-----------------------------------------------------------------------------
(* What one write leaves in the cache, for a write h of the history.       *)

(* No value of h's key in s is one that h replaced. *)
FreshFor(s, h) ==
  \A i \in 1 .. Len(s) :
    s[i].key = h.key => s[i].val \notin h.before \cup {FromSnapshot}

(* The key of h is in s, with the life h gave it or more, and only keys of *)
(* T are before it.                                                        *)
HeldAmong(s, h, T) ==
  \E i \in 1 .. Len(s) : /\ s[i].key = h.key
                         /\ s[i].exp >= h.born + DefaultTTL
                         /\ Ahead(s, i) \subseteq T

LEMMA AppliedIsFresh ==
  ASSUME NEW s \in Seq(Entry), NEW r \in ScriptRecord, NEW t \in Nat, NEW h,
         r.op \in {"SET", "DEL"},
         FreshFor(s, h) \/ r.key = h.key,
         r.req \notin h.before \cup {FromSnapshot}
  PROVE  FreshFor(Applied(s, r, t), h)
<1> DEFINE q == Applied(s, r, t)
<1>1. CASE r.op = "SET"
  <2> DEFINE e == [key |-> r.key, val |-> r.req, exp |-> ExpireTime(t, 0)]
  <2>1. e \in Entry /\ e.key = r.key /\ e.val = r.req
    BY DefaultTTLAssumption DEF Entry, ScriptRecord, ExpireTime
  <2>2. q = Put(s, e)
    BY <1>1 DEF Applied
  <2> HIDE DEF e
  <2>3. OnlyFrom(s, e, q)
    BY <2>1, <2>2, PutEntries
  <2>4. FreshFor(q, h)
    BY <2>1, <2>3 DEF FreshFor, OnlyFrom
  <2> QED
    BY <2>4 DEF q
<1>2. CASE r.op = "DEL"
  <2>1. q = Without(s, r.key)
    BY <1>2 DEF Applied
  <2>2. \A n \in 1 .. Len(q) : \E i \in 1 .. Len(s) : q[n] = s[i] /\ s[i].key # r.key
    BY <2>1, WithoutEntries
  <2>3. FreshFor(q, h)
    BY <2>2 DEF FreshFor
  <2> QED
    BY <2>3 DEF q
<1> QED
  BY <1>1, <1>2

LEMMA AppliedHolds ==
  ASSUME NEW s \in Seq(Entry), UniqueKeys(s), NEW r \in ScriptRecord, NEW t \in Nat,
         r.op \in {"SET", "DEL"},
         NEW h, h.born \in Nat, h.born <= t, NEW T, IsFiniteSet(T),
         HeldAmong(s, h, T) \/ (r.op = "SET" /\ r.key = h.key),
         r.op = "SET" /\ r.key # h.key => r.key \in T,
         r.op = "DEL" => r.key # h.key
  PROVE  HeldAmong(Applied(s, r, t), h, T) \/ Cardinality(T) >= Capacity
<1> DEFINE q == Applied(s, r, t)
<1>1. CASE r.op = "SET"
  <2> DEFINE e == [key |-> r.key, val |-> r.req, exp |-> ExpireTime(t, 0)]
  <2>1. e \in Entry /\ e.key = r.key /\ e.exp = t + DefaultTTL
    BY DefaultTTLAssumption DEF Entry, ScriptRecord, ExpireTime
  <2>2. q = Put(s, e)
    BY <1>1 DEF Applied
  <2> HIDE DEF e
  <2>3. /\ Capacity = 0 \/ (1 \in 1 .. Len(q) /\ q[1] = e)
        /\ \A i \in 1 .. Len(s) :
              s[i].key # e.key /\ e.key \in T /\ Ahead(s, i) \subseteq T
              => \/ \E n \in 1 .. Len(q) : q[n] = s[i] /\ Ahead(q, n) \subseteq T
                 \/ Capacity <= Cardinality(T)
    <3>1. ASSUME NEW i \in 1 .. Len(s),
                 s[i].key # e.key, e.key \in T, Ahead(s, i) \subseteq T
          PROVE  \/ \E n \in 1 .. Len(q) : q[n] = s[i] /\ Ahead(q, n) \subseteq T
                 \/ Capacity <= Cardinality(T)
      <4>1. Pushed(s, e, q)
        BY <2>1, <2>2, PutEntries
      <4> QED
        BY <3>1, <4>1 DEF Pushed
    <3>2. Capacity = 0 \/ (1 \in 1 .. Len(q) /\ q[1] = e)
      BY <2>1, <2>2, PutEntries
    <3> QED
      BY <3>1, <3>2
  <2>4. Cardinality(T) \in Nat /\ Capacity \in Nat
    BY FS_CardinalityType, CapacityAssumption
  <2>5. CASE r.key = h.key
    <3>1. CASE Capacity = 0
      BY <2>4, <3>1
    <3>2. CASE Capacity # 0
      <4>1. 1 \in 1 .. Len(q) /\ q[1].key = h.key
        BY <2>1, <2>3, <2>5, <3>2
      <4>2. q[1].exp >= h.born + DefaultTTL
        BY <2>1, <2>3, <3>2, DefaultTTLAssumption
      <4>3. Ahead(q, 1) \subseteq T
        BY DEF Ahead
      <4>4. HeldAmong(q, h, T)
        BY <4>1, <4>2, <4>3 DEF HeldAmong
      <4> QED
        BY <4>4 DEF q
    <3> QED
      BY <3>1, <3>2
  <2>6. CASE r.key # h.key
    <3>1. PICK i \in 1 .. Len(s) : /\ s[i].key = h.key
                                   /\ s[i].exp >= h.born + DefaultTTL
                                   /\ Ahead(s, i) \subseteq T
      BY <2>6 DEF HeldAmong
    <3>2. \/ \E n \in 1 .. Len(q) : q[n] = s[i] /\ Ahead(q, n) \subseteq T
          \/ Capacity <= Cardinality(T)
      BY <1>1, <2>1, <2>3, <2>6, <3>1
    <3>3. HeldAmong(q, h, T) \/ Capacity <= Cardinality(T)
      BY <3>1, <3>2 DEF HeldAmong
    <3> QED
      BY <2>4, <3>3 DEF q
  <2> QED
    BY <2>5, <2>6
<1>2. CASE r.op = "DEL"
  <2>1. q = Without(s, r.key)
    BY <1>2 DEF Applied
  <2>2. PICK i \in 1 .. Len(s) : /\ s[i].key = h.key
                                 /\ s[i].exp >= h.born + DefaultTTL
                                 /\ Ahead(s, i) \subseteq T
    BY <1>2 DEF HeldAmong
  <2>3. \E n \in 1 .. Len(q) : q[n] = s[i] /\ Ahead(q, n) \subseteq Ahead(s, i)
    <3>1. s[i].key # r.key
      BY <1>2, <2>2
    <3>2. Stays(s, i, Without(s, r.key))
      BY <3>1, OtherKeysStay
    <3>3. Stays(s, i, q)
      BY <2>1, <3>2
    <3> QED
      BY <3>3 DEF Stays
  <2>4. HeldAmong(q, h, T)
    BY <2>2, <2>3 DEF HeldAmong
  <2> QED
    BY <2>4 DEF q
<1> QED
  BY <1>1, <1>2

-----------------------------------------------------------------------------
(* The cache and the history.                                              *)

LEMMA FunctionImage ==
  ASSUME NEW S, IsFiniteSet(S), NEW f
  PROVE  IsFiniteSet({f[x] : x \in S})
<1> DEFINE T == {f[x] : x \in S}
           g == [x \in S |-> f[x]]
<1>1. g \in Surjection(S, T)
  BY DEF Surjection
<1> HIDE DEF g, T
<1>2. IsFiniteSet(T)
  BY <1>1, FS_Surjection
<1> QED
  BY <1>2 DEF T

LEMMA LoadsProperties ==
  /\ IsFiniteSet(Loads)
  /\ \A h \in Loads : /\ h.op = "SET" /\ h.req = FromSnapshot
                      /\ h.born = 0 /\ h.before = {}
  /\ \A g, h \in Loads : g.key = h.key => g = h
  /\ FromSnapshot \notin Request
<1> DEFINE load(i) == [op |-> "SET", key |-> Snapshot[i], req |-> FromSnapshot,
                       born |-> 0, before |-> {}]
<1>1. IsFiniteSet(Loads)
  <2>1. IsFiniteSet(DOMAIN Snapshot)
    BY SnapshotAssumption, LenProperties, FS_Interval
  <2> DEFINE f == [i \in DOMAIN Snapshot |-> load(i)]
  <2>2. Loads = {f[i] : i \in DOMAIN Snapshot}
    BY DEF Loads
  <2> HIDE DEF f
  <2> QED
    BY <2>1, <2>2, FunctionImage
<1>2. FromSnapshot \notin Request
  BY BoundsAssumption DEF FromSnapshot, Request
<1> QED
  BY <1>1, <1>2 DEF Loads

(* A write of h has been done to the cache: its record has been replayed,  *)
(* or in this process it was loaded, answered or done by its client.       *)
Seen(h) ==
  IF phase = "recovering"
  THEN \E i \in 1 .. pos - 1 : Script[i].key = h.key /\ Script[i].req = h.req
  ELSE \/ h \in Loads
       \/ h.req \in acked
       \/ \E c \in Client : pc[c] \in {"log", "reply"} /\ cmd[c].req = h.req

(* Nothing that a write replaced comes back, and nothing that was set goes *)
(* without a reason.                                                       *)
StoreOK ==
  /\ \A h \in Writes : Seen(h) => FreshFor(store, h)
  /\ \A h \in Loads \cup Writes :
       Seen(h) /\ h.op = "SET" => HeldAmong(store, h, Rivals(h)) \/ MayBeGone(h)

LEMMA RivalsFinite ==
  ASSUME NEW H, IsFiniteSet(H), NEW T \in SUBSET {d.key : d \in H \cup Loads}
  PROVE  IsFiniteSet(T)
<1> DEFINE f == [d \in H \cup Loads |-> d.key]
<1>1. IsFiniteSet(H \cup Loads)
  BY LoadsProperties, FS_Union
<1>2. {d.key : d \in H \cup Loads} = {f[d] : d \in H \cup Loads}
  OBVIOUS
<1> HIDE DEF f
<1>3. IsFiniteSet({d.key : d \in H \cup Loads})
  BY <1>1, <1>2, FunctionImage
<1> QED
  BY <1>3, FS_Subset

(* A reason for h to be gone stays one.                                    *)
LEMMA GoneForGood ==
  ASSUME IsFiniteSet(history'), history \subseteq history',
         now \in Nat, now' \in Nat, now <= now',
         NEW h, h.born \in Nat
  PROVE  Rivals(h) \subseteq Rivals(h)' /\ (MayBeGone(h) => MayBeGone(h)')
<1>1. Since(h) \subseteq Since(h)'
  BY DEF Since, Writes, Loads
<1>2. Rivals(h) \subseteq Rivals(h)'
  BY <1>1 DEF Rivals
<1>3. IsFiniteSet(Rivals(h)') /\ IsFiniteSet(Rivals(h))
  <2>1. /\ Rivals(h) \in SUBSET {d.key : d \in history' \cup Loads}
        /\ Rivals(h)' \in SUBSET {d.key : d \in history' \cup Loads}
    BY DEF Rivals, Since, Writes, Loads
  <2> QED
    BY <2>1, RivalsFinite
<1>4. Cardinality(Rivals(h)) <= Cardinality(Rivals(h)')
  BY <1>2, <1>3, FS_Subset
<1>5. Cardinality(Rivals(h)) \in Nat /\ Cardinality(Rivals(h)') \in Nat
  BY <1>3, FS_CardinalityType
<1> QED
  BY <1>1, <1>2, <1>4, <1>5, DefaultTTLAssumption, CapacityAssumption DEF MayBeGone

LEMMA WriteProperties ==
  ASSUME IInv, Records, NEW h \in Writes
  PROVE  /\ h \in history /\ h.op \in {"SET", "DEL"} /\ h.req \in Request
         /\ h.key \in Key /\ h.born \in Nat /\ h.born <= now
         /\ h.before \subseteq acked /\ h \notin Loads
<1>1. /\ h \in history /\ h.op \in {"SET", "DEL"}
      /\ [op |-> h.op, key |-> h.key, req |-> h.req] \in Command
      /\ h.born \in Nat /\ h.born <= now /\ h.before \subseteq acked
  BY DEF Writes, Records, IInv, AllMade
<1>2. h.req \in Request /\ h.key \in Key
  BY <1>1 DEF Command
<1> QED
  BY <1>1, <1>2, LoadsProperties

(* A write done to the cache keeps what StoreOK says: it is itself among   *)
(* the last, for no write it has followed had it in its past.              *)
LEMMA StoreApplied ==
  ASSUME IInv, NodeTypes, Records, StoreOK,
         UNCHANGED <<history, now>>,
         NEW r \in ScriptRecord, r.op \in {"SET", "DEL"},
         store' = Applied(store, r, now),
         NEW d \in Loads \cup Writes, Matches(d, r),
         \A h \in Loads \cup Writes :
            Seen(h)' => (Seen(h) \/ h = d) /\ d \in Since(h)
  PROVE  StoreOK'
<1>1. /\ Writes' = Writes
      /\ \A h : Rivals(h)' = Rivals(h) /\ (MayBeGone(h)' <=> MayBeGone(h))
  BY DEF Writes, Rivals, MayBeGone, Since, Loads
<1>2. /\ store \in Seq(Entry) /\ UniqueKeys(store) /\ now \in Nat
      /\ d.req = r.req /\ d.op = r.op /\ d.key = r.key
  BY DEF NodeTypes, Matches
<1>3. ASSUME NEW h \in Writes, Seen(h)'
      PROVE  FreshFor(store', h)
  <2>1. h \notin Loads /\ d \in Writes /\ d.req \notin h.before /\ d.req \in Request
    <3>1. h \notin Loads /\ d \in Since(h)
      BY <1>3, WriteProperties
    <3>2. d \in Writes /\ d.req \notin h.before
      BY <3>1 DEF Since
    <3> QED
      BY <3>1, <3>2, WriteProperties
  <2>2. r.req \notin h.before \cup {FromSnapshot}
    BY <1>2, <2>1, LoadsProperties
  <2>3. FreshFor(store, h) \/ r.key = h.key
    BY <1>2, <1>3 DEF StoreOK
  <2> QED
    BY <1>2, <2>2, <2>3, AppliedIsFresh
<1>4. ASSUME NEW h \in Loads \cup Writes, Seen(h)', h.op = "SET", ~MayBeGone(h)
      PROVE  HeldAmong(store', h, Rivals(h))
  <2>1. d \in Since(h) /\ (Seen(h) \/ h = d)
    BY <1>4
  <2>2. r.op = "SET" /\ r.key # h.key => r.key \in Rivals(h)
    BY <1>2, <2>1 DEF Rivals
  <2>3. r.op = "DEL" => r.key # h.key
    BY <1>2, <1>4, <2>1 DEF MayBeGone
  <2>4. HeldAmong(store, h, Rivals(h)) \/ (r.op = "SET" /\ r.key = h.key)
    BY <1>2, <1>4, <2>1 DEF StoreOK
  <2>5. h.born \in Nat /\ h.born <= now
    BY <1>2, LoadsProperties, WriteProperties
  <2>6. IsFiniteSet(Rivals(h))
    <3>1. Rivals(h) \in SUBSET {g.key : g \in history \cup Loads}
      BY DEF Rivals, Since, Writes
    <3> QED
      BY <3>1, RivalsFinite DEF Records
  <2> DEFINE T == Rivals(h)
  <2> HIDE DEF T
  <2>7. /\ r.op = "SET" /\ r.key # h.key => r.key \in T
        /\ HeldAmong(store, h, T) \/ (r.op = "SET" /\ r.key = h.key)
        /\ IsFiniteSet(T)
    BY <2>2, <2>4, <2>6 DEF T
  <2>8. HeldAmong(Applied(store, r, now), h, T) \/ Cardinality(T) >= Capacity
    BY <1>2, <2>3, <2>5, <2>7, AppliedHolds
  <2>9. ~(Cardinality(T) >= Capacity)
    BY <1>4 DEF MayBeGone, T
  <2> QED
    BY <2>8, <2>9 DEF T
<1> QED
  BY <1>1, <1>3, <1>4 DEF StoreOK

(* The next record of the snapshot or of the log.  In the log no record    *)
(* after that of a write is of one in its past.                            *)
LEMMA RecoverStore ==
  ASSUME IInv, NodeTypes, Records, StoreOK, Recover
  PROVE  StoreOK'
<1> DEFINE r == Script[pos]
<1>1. /\ phase = "recovering" /\ pos \in 1 .. Len(Script) /\ pos' = pos + 1
      /\ store' = Applied(store, r, now)
      /\ UNCHANGED <<phase, log, pc, cmd, acked, history, now>>
      /\ Script' = Script
  BY ScriptProperties
  DEF Recover, NodeTypes, disk, clients, ghosts, Script, IInv, RequestTypes
<1>2. /\ Len(Snapshot) \in Nat /\ Len(log) \in Nat
      /\ DOMAIN Snapshot = 1 .. Len(Snapshot) /\ DOMAIN log = 1 .. Len(log)
      /\ Script \in Seq(ScriptRecord) /\ Len(Script) = Len(Snapshot) + Len(log)
      /\ \A i \in 1 .. Len(Snapshot) : /\ Script[i].op = "SET" /\ Script[i].key = Snapshot[i]
                                       /\ Script[i].req = FromSnapshot
      /\ \A j \in 1 .. Len(log) : Script[Len(Snapshot) + j] = log[j]
  BY ScriptProperties DEF IInv, RequestTypes
<1>2a. pos \in Nat /\ \A i \in 1 .. pos : i \in Nat
  BY <1>1, <1>2
<1>3. r \in ScriptRecord
  BY <1>1, <1>2, ElementOfSeq
<1> HIDE DEF r
<1>4. ASSUME NEW h, Seen(h)'
      PROVE  \E i \in 1 .. pos : Script[i].key = h.key /\ Script[i].req = h.req
  BY <1>1, <1>2, <1>4 DEF Seen
<1>5. ASSUME NEW h, Seen(h)', ~(h.key = r.key /\ h.req = r.req)
      PROVE  Seen(h)
  <2>1. PICK i \in 1 .. pos : Script[i].key = h.key /\ Script[i].req = h.req
    BY <1>4, <1>5
  <2>2. i # pos
    BY <1>5, <2>1 DEF r
  <2>3. i \in 1 .. pos - 1
    BY <1>1, <1>2, <2>2
  <2> QED
    BY <1>1, <2>1, <2>3 DEF Seen
<1>6. CASE pos <= Len(Snapshot)
  <2>0. \A i \in 1 .. pos : i \in 1 .. Len(Snapshot)
    BY <1>2, <1>2a, <1>6
  <2>1. /\ r.op = "SET" /\ r.key = Snapshot[pos] /\ r.req = FromSnapshot
        /\ pos \in DOMAIN Snapshot
    <3>1. pos \in 1 .. Len(Snapshot)
      BY <1>1, <1>2, <1>2a, <1>6
    <3> QED
      BY <1>2, <3>1 DEF r
  <2>2. PICK d \in Loads : Matches(d, r)
    <3> DEFINE load == [op |-> "SET", key |-> Snapshot[pos], req |-> FromSnapshot,
                        born |-> 0, before |-> {}]
    <3>1. load \in Loads
      BY <2>1 DEF Loads
    <3>2. Matches(load, r)
      BY <2>1 DEF Matches
    <3> HIDE DEF load
    <3> QED
      BY <3>1, <3>2
  <2>3. ASSUME NEW h \in Loads \cup Writes, Seen(h)'
        PROVE  (Seen(h) \/ h = d) /\ d \in Since(h)
    <3>1. PICK i \in 1 .. pos : Script[i].key = h.key /\ Script[i].req = h.req
      BY <1>4, <2>3
    <3>2. h.req = FromSnapshot
      BY <1>2, <2>0, <3>1
    <3>3. h \in Loads
      BY <3>2, WriteProperties, LoadsProperties
    <3>4. d \in Since(h)
      BY <3>3 DEF Since
    <3>5. h.key = r.key /\ h.req = r.req => h = d
      BY <2>2, <3>3, LoadsProperties DEF Matches
    <3> QED
      BY <1>5, <2>3, <3>4, <3>5
  <2>4. r.op \in {"SET", "DEL"}
    BY <2>1
  <2> QED
    BY <1>1, <1>3, <2>2, <2>3, <2>4, StoreApplied
<1>7. CASE ~(pos <= Len(Snapshot))
  <2>1. PICK j \in 1 .. Len(log) : pos = Len(Snapshot) + j
    <3> DEFINE k == pos - Len(Snapshot)
    <3>1. k \in 1 .. Len(log) /\ pos = Len(Snapshot) + k
      BY <1>1, <1>2, <1>2a, <1>7
    <3> HIDE DEF k
    <3> QED
      BY <3>1
  <2>2. r = log[j]
    BY <1>2, <2>1 DEF r
  <2>3. PICK d \in history : Matches(d, r)
    BY <1>2, <2>2 DEF Records
  <2>4. r.op \in {"SET", "DEL"} /\ d \in Writes
    BY <1>2, <2>2, <2>3 DEF Records, Writes, Matches
  <2>5. ASSUME NEW h \in Loads \cup Writes, Seen(h)'
        PROVE  (Seen(h) \/ h = d) /\ d \in Since(h)
    <3>1. h.key = r.key /\ h.req = r.req => h = d
      <4>1. d.req = r.req /\ d.req # FromSnapshot
        BY <2>3, <2>4, WriteProperties, LoadsProperties DEF Matches
      <4>2. SUFFICES ASSUME h.req = r.req
                     PROVE  h = d
        OBVIOUS
      <4>3. h \in history
        BY <4>1, <4>2, WriteProperties, LoadsProperties
      <4> QED
        BY <4>1, <4>2, <4>3 DEF Records
    <3>2. CASE h \in Loads
      <4>1. d \in Since(h)
        BY <2>4, <3>2, LoadsProperties DEF Since
      <4> QED
        BY <1>5, <2>5, <3>1, <4>1
    <3>3. CASE h \in Writes
      <4>1. PICK i \in 1 .. pos : Script[i].key = h.key /\ Script[i].req = h.req
        BY <1>4, <2>5
      <4>2. h.req # FromSnapshot
        BY <3>3, WriteProperties, LoadsProperties
      <4>3. ~(i <= Len(Snapshot))
        <5>1. i \in 1 .. Len(Snapshot) => Script[i].req = FromSnapshot
          BY <1>2
        <5> QED
          BY <1>2, <1>2a, <4>1, <4>2, <5>1
      <4>4. PICK m \in 1 .. j : i = Len(Snapshot) + m
        <5> DEFINE k == i - Len(Snapshot)
        <5>1. k \in 1 .. j /\ i = Len(Snapshot) + k
          BY <1>2, <1>2a, <2>1, <4>3
        <5> HIDE DEF k
        <5> QED
          BY <5>1
      <4>5. m \in DOMAIN log /\ j \in DOMAIN log /\ log[m].req = h.req
        BY <1>2, <2>1, <4>1, <4>4
      <4>6. d.req \notin h.before
        <5>1. SUFFICES ASSUME log[j].req \in h.before
                       PROVE  FALSE
          BY <2>2, <2>3 DEF Matches
        <5>2. j < m
          BY <3>3, <4>5, <5>1 DEF IInv, LogKeepsRealTimeOrder
        <5> QED
          BY <1>2, <4>4, <5>2
      <4>7. d \in Since(h)
        BY <2>4, <4>6 DEF Since
      <4> QED
        BY <1>5, <2>5, <3>1, <4>7
    <3> QED
      BY <2>5, <3>2, <3>3
  <2> QED
    BY <1>1, <1>3, <2>3, <2>4, <2>5, StoreApplied
<1> QED
  BY <1>6, <1>7

(* A write in flight is not acknowledged, so that it is in nobody's past.  *)
LEMMA UpdateStore ==
  ASSUME IInv, NodeTypes, Records, StoreOK, NEW c \in Client, Update(c)
  PROVE  StoreOK'
<1>1. /\ pc[c] = "cache" /\ pc' = [pc EXCEPT ![c] = "log"]
      /\ cmd[c].op \in {"SET", "DEL"} /\ store' = Applied(store, cmd[c], now)
      /\ UNCHANGED <<phase, cmd, acked, history, now>>
  BY DEF Update, Step, ghosts
<1>2. phase = "serving" /\ cmd[c] \in Command /\ cmd[c].req \notin acked
  BY <1>1 DEF Records, IInv, InFlight
<1>3. cmd[c] \in ScriptRecord
  BY <1>2 DEF Command, ScriptRecord
<1>4. PICK d \in history : Matches(d, cmd[c])
  BY <1>1 DEF Records
<1>5. d \in Writes /\ d.req = cmd[c].req
  BY <1>1, <1>4 DEF Writes, Matches
<1>6. ASSUME NEW h \in Loads \cup Writes, Seen(h)'
      PROVE  (Seen(h) \/ h = d) /\ d \in Since(h)
  <2>1. d \in Since(h)
    BY <1>2, <1>5, LoadsProperties, WriteProperties DEF Since
  <2>2. CASE h \in Loads
    BY <1>2, <2>1, <2>2 DEF Seen
  <2>3. CASE h \in Writes /\ h.req \in acked
    BY <1>2, <2>1, <2>3 DEF Seen
  <2>4. CASE h \in Writes /\ h \notin Loads /\ h.req \notin acked
    <3>1. PICK e \in Client : pc'[e] \in {"log", "reply"} /\ cmd[e].req = h.req
      BY <1>1, <1>2, <1>6, <2>4 DEF Seen
    <3>2. CASE e = c
      BY <1>5, <2>1, <2>4, <3>1, <3>2, WriteProperties DEF Records
    <3>3. CASE e # c
      BY <1>1, <1>2, <2>1, <3>1, <3>3 DEF Seen
    <3> QED
      BY <3>2, <3>3
  <2> QED
    BY <2>2, <2>3, <2>4
<1> QED
  BY <1>1, <1>3, <1>4, <1>5, <1>6, StoreApplied

(* Steps that leave the cache alone, and tell of no write done before.     *)
LEMMA StoreKept ==
  ASSUME IInv, NodeTypes, Records, StoreOK,
         UNCHANGED <<store, history, now>>,
         \A h \in Loads \cup Writes : Seen(h)' => Seen(h)
  PROVE  StoreOK'
<1>1. /\ Writes' = Writes
      /\ \A h : Rivals(h)' = Rivals(h) /\ (MayBeGone(h)' <=> MayBeGone(h))
  BY DEF Writes, Rivals, MayBeGone, Since, Loads
<1> QED
  BY <1>1 DEF StoreOK

(* When the node begins to serve, it has seen all it has acknowledged.     *)
LEMMA ServeStore ==
  ASSUME IInv, NodeTypes, Records, Durable, StoreOK, Serve
  PROVE  StoreOK'
<1>1. /\ phase = "recovering" /\ phase' = "serving" /\ pos > Len(Script)
      /\ UNCHANGED <<store, log, pc, cmd, acked, history, now>>
  BY DEF Serve, memory, disk, clients, ghosts
<1>2. /\ Len(Snapshot) \in Nat /\ Len(log) \in Nat
      /\ DOMAIN Snapshot = 1 .. Len(Snapshot) /\ DOMAIN log = 1 .. Len(log)
      /\ Len(Script) = Len(Snapshot) + Len(log)
      /\ \A i \in 1 .. Len(Snapshot) : /\ Script[i].op = "SET" /\ Script[i].key = Snapshot[i]
                                       /\ Script[i].req = FromSnapshot
      /\ \A j \in 1 .. Len(log) : Script[Len(Snapshot) + j] = log[j]
  BY ScriptProperties DEF IInv, RequestTypes
<1>3. pos \in Nat /\ 1 .. Len(Script) \subseteq 1 .. pos - 1
  BY <1>1, <1>2 DEF NodeTypes
<1>4. ASSUME NEW h \in Loads \cup Writes, Seen(h)'
      PROVE  \E i \in 1 .. Len(Script) : Script[i].key = h.key /\ Script[i].req = h.req
  <2>1. CASE h \in Loads
    <3>1. PICK i \in DOMAIN Snapshot : h.key = Snapshot[i] /\ h.req = FromSnapshot
      BY <2>1 DEF Loads
    <3>2. i \in 1 .. Len(Snapshot) /\ i \in 1 .. Len(Script)
      BY <1>2, <3>1
    <3> QED
      BY <1>2, <3>1, <3>2
  <2>2. CASE h \in Writes
    <3>1. h \notin Loads /\ \A c \in Client : pc'[c] = "idle"
      BY <1>1, <2>2, WriteProperties DEF Records
    <3>2. h.req \in acked
      BY <1>1, <1>4, <3>1 DEF Seen
    <3>3. PICK j \in DOMAIN log : log[j].req = h.req
      BY <2>2, <3>2 DEF Durable, AckedIsLogged, Logged
    <3>4. PICK g \in history : Matches(g, log[j])
      BY <3>3 DEF Records
    <3>5. g = h
      BY <2>2, <3>3, <3>4 DEF Records, Writes, Matches
    <3> DEFINE i == Len(Snapshot) + j
    <3>6. i \in 1 .. Len(Script) /\ Script[i] = log[j]
      BY <1>2, <3>3
    <3> HIDE DEF i
    <3> QED
      BY <3>3, <3>4, <3>5, <3>6 DEF Matches
  <2> QED
    BY <2>1, <2>2
<1>5. \A h \in Loads \cup Writes : Seen(h)' => Seen(h)
  BY <1>1, <1>3, <1>4 DEF Seen
<1> QED
  BY <1>1, <1>5, StoreKept

(* A new request is not done, and what it may do excuses more.             *)
LEMMA BeginStore ==
  ASSUME IInv, NodeTypes, Records, Records', StoreOK, NEW c \in Client, Begin(c)
  PROVE  StoreOK'
<1> DEFINE req == [client |-> c, n |-> issued'[c]]
<1>1. PICK op \in {"SET", "GET", "DEL"}, k \in Key :
        /\ cmd' = [cmd EXCEPT ![c] = [op |-> op, key |-> k, req |-> req]]
        /\ history' = history \cup {[op |-> op, key |-> k, req |-> req,
                                     born |-> now, before |-> acked]}
  BY DEF Begin
<1>2. /\ pc' = [pc EXCEPT ![c] = "cache"] /\ phase = "serving"
      /\ UNCHANGED <<phase, store, now, acked>>
  BY DEF Begin, memory
<1>3. issued'[c] = issued[c] + 1 /\ issued[c] \in Nat /\ req \in Request
  BY BoundsAssumption DEF Begin, IInv, RequestTypes, Request
<1>4. req \notin acked
  BY <1>3 DEF IInv, AllMade, Made
<1>5. history \subseteq history' /\ \A h \in history' : h \in history \/ h.req = req
  BY <1>1
<1> HIDE DEF req
<1>6. \A e \in Client : pc'[e] \in {"log", "reply"} =>
        pc[e] \in {"log", "reply"} /\ cmd'[e] = cmd[e]
  BY <1>1, <1>2 DEF IInv, RequestTypes
<1>7. ASSUME NEW h \in Loads \cup Writes', Seen(h)'
      PROVE  h \in Loads \cup Writes /\ Seen(h)
  <2>1. CASE h \in Loads
    BY <1>2, <2>1 DEF Seen
  <2>2. CASE h \notin Loads /\ h.req \in acked
    BY <1>2, <1>4, <1>5, <2>2 DEF Seen, Writes
  <2>3. CASE h \notin Loads /\ h.req \notin acked
    <3>1. PICK e \in Client : pc'[e] \in {"log", "reply"} /\ cmd'[e].req = h.req
      BY <1>2, <1>7, <2>3 DEF Seen
    <3>2. pc[e] \in {"log", "reply"} /\ cmd[e].req = h.req
      BY <1>6, <3>1
    <3>3. \E g \in history : g.req = h.req
      BY <3>2 DEF Records, Matches
    <3>4. h \in history' /\ h \in Writes'
      BY <2>3 DEF Writes
    <3>5. h \in history
      BY <1>5, <3>3, <3>4 DEF Records
    <3> QED
      BY <1>2, <3>2, <3>4, <3>5 DEF Seen, Writes
  <2> QED
    BY <2>1, <2>2, <2>3
<1>8. ASSUME NEW h \in Loads \cup Writes
      PROVE  Rivals(h) \subseteq Rivals(h)' /\ (MayBeGone(h) => MayBeGone(h)')
  <2>1. h.born \in Nat /\ now \in Nat
    BY LoadsProperties, WriteProperties DEF NodeTypes
  <2>2. IsFiniteSet(history')
    BY DEF Records
  <2> QED
    BY <1>2, <1>5, <2>1, <2>2, GoneForGood
<1>9. ASSUME NEW h \in Writes', Seen(h)'
      PROVE  FreshFor(store', h)
  <2>1. h \in Writes /\ Seen(h)
    <3>1. h \notin Loads
      <4>1. h.req \in Request
        BY DEF Writes, Records, Command
      <4> QED
        BY <4>1, LoadsProperties
    <3> QED
      BY <1>7, <1>9, <3>1
  <2> QED
    BY <1>2, <2>1 DEF StoreOK
<1>10. ASSUME NEW h \in Loads \cup Writes', Seen(h)', h.op = "SET"
       PROVE  HeldAmong(store', h, Rivals(h)') \/ MayBeGone(h)'
  <2>1. h \in Loads \cup Writes /\ Seen(h)
    BY <1>7, <1>10
  <2>2. HeldAmong(store, h, Rivals(h)) \/ MayBeGone(h)
    BY <1>10, <2>1 DEF StoreOK
  <2>3. HeldAmong(store, h, Rivals(h)) => HeldAmong(store, h, Rivals(h)')
    BY <1>8, <2>1 DEF HeldAmong
  <2> QED
    BY <1>2, <1>8, <2>1, <2>2, <2>3
<1> QED
  BY <1>9, <1>10 DEF StoreOK

(* What the cleanup drops has outlived its TTL.                            *)
LEMMA CleanupStore ==
  ASSUME IInv, NodeTypes, Records, StoreOK, Cleanup
  PROVE  StoreOK'
<1>1. /\ store' = Unexpired(store, now) /\ store \in Seq(Entry) /\ now \in Nat
      /\ UNCHANGED <<phase, pos, log, pc, cmd, acked, history, now>>
  BY DEF Cleanup, NodeTypes, disk, clients, ghosts
<1>2. /\ Writes' = Writes
      /\ \A h : Rivals(h)' = Rivals(h) /\ (MayBeGone(h)' <=> MayBeGone(h))
      /\ \A h : Seen(h)' <=> Seen(h)
  BY <1>1 DEF Writes, Rivals, MayBeGone, Since, Loads, Seen, Script
<1>3. /\ \A n \in 1 .. Len(store') : \E i \in 1 .. Len(store) : store'[n] = store[i]
      /\ \A i \in 1 .. Len(store) : ~Expired(store[i], now) =>
            \E n \in 1 .. Len(store') :
               store'[n] = store[i] /\ Ahead(store', n) \subseteq Ahead(store, i)
  <2>1. \A n \in 1 .. Len(store') : \E i \in 1 .. Len(store) :
           store'[n] = store[i] /\ ~Expired(store[i], now)
    BY <1>1, UnexpiredEntries
  <2>2. \A i \in 1 .. Len(store) : ~Expired(store[i], now) =>
            \E n \in 1 .. Len(store') :
               store'[n] = store[i] /\ Ahead(store', n) \subseteq Ahead(store, i)
    BY <1>1, UnexpiredEntries
  <2> QED
    BY <2>1, <2>2
<1>4. ASSUME NEW h, FreshFor(store, h)
      PROVE  FreshFor(store', h)
  BY <1>3, <1>4 DEF FreshFor
<1>5. ASSUME NEW h \in Loads \cup Writes, HeldAmong(store, h, Rivals(h))
      PROVE  HeldAmong(store', h, Rivals(h)) \/ MayBeGone(h)
  <2>1. PICK i \in 1 .. Len(store) : /\ store[i].key = h.key
                                     /\ store[i].exp >= h.born + DefaultTTL
                                     /\ Ahead(store, i) \subseteq Rivals(h)
    BY <1>5 DEF HeldAmong
  <2>2. CASE Expired(store[i], now)
    <3>1. store[i].exp \in Nat /\ h.born \in Nat
      <4>1. store[i] \in Entry
        BY <1>1, ElementOfSeq
      <4> QED
        BY <4>1, LoadsProperties, WriteProperties DEF Entry
    <3> QED
      BY <1>1, <2>1, <2>2, <3>1, DefaultTTLAssumption DEF Expired, MayBeGone
  <2>3. CASE ~Expired(store[i], now)
    <3>1. PICK n \in 1 .. Len(store') :
             store'[n] = store[i] /\ Ahead(store', n) \subseteq Ahead(store, i)
      BY <1>3, <2>3
    <3> QED
      BY <2>1, <3>1 DEF HeldAmong
  <2> QED
    BY <2>2, <2>3
<1> QED
  BY <1>2, <1>4, <1>5 DEF StoreOK

LEMMA TickStore ==
  ASSUME IInv, NodeTypes, Records, StoreOK, Tick
  PROVE  StoreOK'
<1>1. /\ now \in Nat /\ now' = now + 1
      /\ UNCHANGED <<phase, pos, store, log, pc, cmd, acked, history>>
  BY DEF Tick, NodeTypes, memory, disk, clients, ghosts
<1>2. /\ Writes' = Writes
      /\ \A h : Rivals(h)' = Rivals(h)
      /\ \A h : Seen(h)' <=> Seen(h)
  BY <1>1 DEF Writes, Rivals, Since, Loads, Seen, Script
<1>3. ASSUME NEW h \in Loads \cup Writes, MayBeGone(h)
      PROVE  MayBeGone(h)'
  <2>1. h.born \in Nat
    BY LoadsProperties, WriteProperties
  <2>2. IsFiniteSet(history')
    BY <1>1 DEF Records
  <2> QED
    BY <1>1, <1>3, <2>1, <2>2, GoneForGood
<1> QED
  BY <1>1, <1>2, <1>3 DEF StoreOK

LEMMA StoreStep ==
  ASSUME MaxFaults = 0, IInv, NodeTypes, Records, Records', Durable, StoreOK, [Next]_vars
  PROVE  StoreOK'
<1>1. CASE Kill
  <2>1. phase' = "recovering" /\ pos' = 1
    BY <1>1 DEF Kill
  <2>2. \A h : ~Seen(h)'
    BY <2>1 DEF Seen
  <2> QED
    BY <2>2 DEF StoreOK
<1>2. ASSUME NEW c \in Client, Read(c) \/ LogAppend(c)
      PROVE  StoreOK'
  <2>1. /\ pc[c] # "idle" /\ UNCHANGED <<phase, store, cmd, acked, history, now>>
        /\ \/ cmd[c].op = "GET"
           \/ pc[c] = "log"
        /\ \E to \in {"log", "reply"} : pc' = [pc EXCEPT ![c] = to]
    BY <1>2 DEF Read, LogAppend, Step, memory, ghosts
  <2>2. phase = "serving"
    BY <2>1 DEF Records
  <2>3. ASSUME NEW h \in Loads \cup Writes, Seen(h)'
        PROVE  Seen(h)
    <3>1. CASE h \in Loads \/ h.req \in acked
      BY <2>2, <3>1 DEF Seen
    <3>2. CASE h \in Writes /\ h \notin Loads /\ h.req \notin acked
      <4>1. PICK e \in Client : pc'[e] \in {"log", "reply"} /\ cmd[e].req = h.req
        BY <2>1, <2>2, <2>3, <3>2 DEF Seen
      <4>2. pc[e] \in {"log", "reply"}
        <5>1. CASE e = c
          <6>1. h.op = cmd[c].op
            BY <2>1, <3>2, <4>1, <5>1 DEF IInv, Remembered, Writes
          <6> QED
            BY <2>1, <3>2, <5>1, <6>1 DEF Writes
        <5>2. CASE e # c
          BY <2>1, <4>1, <5>2 DEF IInv, RequestTypes
        <5> QED
          BY <5>1, <5>2
      <4> QED
        BY <2>2, <4>1, <4>2 DEF Seen
    <3> QED
      BY <3>1, <3>2
  <2> QED
    BY <2>1, <2>3, StoreKept
<1>3. ASSUME NEW c \in Client, Reply(c)
      PROVE  StoreOK'
  <2>1. /\ pc[c] = "reply" /\ pc' = [pc EXCEPT ![c] = "idle"]
        /\ cmd' = [cmd EXCEPT ![c] = NoRequest]
        /\ acked' = acked \cup {cmd[c].req}
        /\ UNCHANGED <<phase, store, history, now>>
    BY <1>3 DEF Reply, Step, memory
  <2>2. phase = "serving"
    BY <2>1 DEF Records
  <2>3. \A e \in Client : pc'[e] \in {"log", "reply"} => pc'[e] = pc[e] /\ cmd'[e] = cmd[e]
    BY <2>1 DEF IInv, RequestTypes
  <2>4. \A h \in Loads \cup Writes : Seen(h)' => Seen(h)
    BY <2>1, <2>2, <2>3 DEF Seen
  <2> QED
    BY <2>1, <2>4, StoreKept
<1>4. CASE UNCHANGED vars
  <2>1. UNCHANGED <<phase, pos, store, log, pc, cmd, acked, history, now>>
    BY <1>4 DEF vars, memory, disk, clients, ghosts
  <2>2. \A h \in Loads \cup Writes : Seen(h)' => Seen(h)
    BY <2>1 DEF Seen, Script
  <2> QED
    BY <2>1, <2>2, StoreKept
<1> QED
  BY <1>1, <1>2, <1>3, <1>4, RecoverStore, ServeStore, BeginStore, UpdateStore,
     CleanupStore, TickStore
  DEF Next, Serving

-----------------------------------------------------------------------------
(* The answers.                                                            *)

(* The history only grows, by requests nobody has in their past.           *)
LEMMA HistoryGrows ==
  ASSUME IInv, NodeTypes, [Next]_vars
  PROVE  /\ history \subseteq history'
         /\ \A h \in history' : h \in history \/ h.req \notin acked
         /\ now \in Nat /\ now' \in Nat /\ now <= now'
<1>1. ASSUME NEW c \in Client, Begin(c)
      PROVE  /\ history \subseteq history' /\ now' = now
             /\ \A h \in history' : h \in history \/ h.req \notin acked
  <2>1. PICK op \in {"SET", "GET", "DEL"}, k \in Key :
          history' = history \cup {[op |-> op, key |-> k,
                                   req |-> [client |-> c, n |-> issued'[c]],
                                   born |-> now, before |-> acked]}
    BY <1>1 DEF Begin
  <2>2. issued'[c] = issued[c] + 1 /\ issued[c] \in Nat
    BY <1>1, BoundsAssumption DEF Begin, IInv, RequestTypes
  <2>3. [client |-> c, n |-> issued'[c]] \notin acked
    BY <2>2 DEF IInv, AllMade, Made
  <2> QED
    BY <1>1, <2>1, <2>3 DEF Begin
<1>2. ASSUME NEW c \in Client, Update(c) \/ Read(c) \/ LogAppend(c) \/ Reply(c)
      PROVE  UNCHANGED <<history, now>>
  BY <1>2 DEF Update, Read, LogAppend, Reply, ghosts
<1>3. CASE Recover \/ Serve \/ Kill \/ Cleanup \/ Tick \/ UNCHANGED vars
  BY <1>3 DEF Recover, Serve, Kill, Cleanup, Tick, vars, ghosts, NodeTypes
<1>4. now \in Nat
  BY DEF NodeTypes
<1> QED
  BY <1>1, <1>2, <1>3, <1>4 DEF Next, Serving

(* Only its own reading gives a client an answer.                          *)
LEMMA AnswerComes ==
  ASSUME IInv, NodeTypes, Records, [Next]_vars,
         NEW c \in Client, Answering(c)', ~Read(c)
  PROVE  Answering(c) /\ cmd'[c] = cmd[c] /\ answer'[c] = answer[c]
<1>1. CASE Recover \/ Serve \/ Cleanup \/ Tick \/ UNCHANGED vars
  BY <1>1 DEF Recover, Serve, Cleanup, Tick, vars, clients, Answering
<1>2. CASE Kill
  BY <1>2 DEF Kill, Answering
<1>3. ASSUME NEW d \in Client, Serving(d)
      PROVE  Answering(c) /\ cmd'[c] = cmd[c] /\ answer'[c] = answer[c]
  <2>1. /\ \A e \in Client : e # d => /\ pc'[e] = pc[e] /\ cmd'[e] = cmd[e]
                                      /\ answer'[e] = answer[e]
        /\ Read(d) \/ ~(pc'[d] = "reply" /\ cmd'[d].op = "GET")
    <3>1. CASE Begin(d)
      BY <3>1 DEF Begin, IInv, RequestTypes
    <3>2. CASE Update(d)
      BY <3>2 DEF Update, Step, IInv, RequestTypes
    <3>3. CASE LogAppend(d)
      BY <3>3 DEF LogAppend, Step, IInv, RequestTypes, Records
    <3>4. CASE Reply(d)
      BY <3>4 DEF Reply, Step, IInv, RequestTypes, NodeTypes
    <3>5. CASE Read(d)
      BY <3>5 DEF Read, Step, IInv, RequestTypes, NodeTypes
    <3> QED
      BY <1>3, <3>1, <3>2, <3>3, <3>4, <3>5 DEF Serving
  <2> QED
    BY <2>1 DEF Answering
<1> QED
  BY <1>1, <1>2, <1>3 DEF Next

(* The past of a request in flight is the one entry of the history for it, *)
(* and stays the same.                                                     *)
LEMMA TheOneEntry ==
  ASSUME NEW H, NEW req, \E h \in H : h.req = req
  PROVE  /\ (CHOOSE h \in H : h.req = req) \in H
         /\ (CHOOSE h \in H : h.req = req).req = req
OBVIOUS

LEMMA PastStays ==
  ASSUME Records, Records', history \subseteq history', NEW c \in Client,
         pc[c] # "idle", cmd'[c] = cmd[c]
  PROVE  Past(c)' = Past(c) /\ Past(c) \in history
<1>1. PICK h \in history : h.req = cmd[c].req
  BY DEF Records, Matches
<1>2. Past(c) \in history /\ Past(c).req = cmd[c].req
  BY <1>1, TheOneEntry DEF Past
<1>3. Past(c)' \in history' /\ Past(c)'.req = cmd[c].req
  <2>1. Past(c)' = CHOOSE g \in history' : g.req = cmd[c].req
    BY DEF Past
  <2>2. \E g \in history' : g.req = cmd[c].req
    BY <1>1
  <2> QED
    BY <2>1, <2>2, TheOneEntry
<1> QED
  BY <1>2, <1>3 DEF Records

Answers == ReadsNotStale /\ MissesAreJustified

(* An answer given stays right.                                            *)
LEMMA AnswerStays ==
  ASSUME IInv, NodeTypes, Records, Records', Answers, [Next]_vars,
         NEW c \in Client, Answering(c), Answering(c)',
         cmd'[c] = cmd[c], answer'[c] = answer[c]
  PROVE  /\ answer'[c] # Nil =>
              ~\E h \in Writes' : /\ h.key = cmd'[c].key
                                  /\ h.req \in Past(c)'.before
                                  /\ answer'[c] \in h.before \cup {FromSnapshot}
         /\ answer'[c] = Nil =>
              \A h \in Loads \cup {g \in Writes' : g.req \in Past(c)'.before} :
                 h.op = "SET" /\ h.key = cmd'[c].key => MayBeGone(h)'
<1>1. /\ history \subseteq history'
      /\ \A h \in history' : h \in history \/ h.req \notin acked
      /\ now \in Nat /\ now' \in Nat /\ now <= now'
  BY HistoryGrows
<1>2. Past(c)' = Past(c) /\ Past(c) \in history
  BY <1>1, PastStays DEF Answering
<1>3. Past(c).before \subseteq acked
  BY <1>2 DEF IInv, AllMade
<1>4. \A h \in Writes' : h.req \in Past(c).before => h \in Writes
  BY <1>1, <1>3 DEF Writes
<1>5. ASSUME answer[c] # Nil, NEW h \in Writes', h.key = cmd[c].key,
             h.req \in Past(c).before
      PROVE  answer[c] \notin h.before \cup {FromSnapshot}
  BY <1>4, <1>5 DEF Answers, ReadsNotStale
<1>6. ASSUME answer[c] = Nil, NEW h \in Loads \cup {g \in Writes' : g.req \in Past(c).before},
             h.op = "SET", h.key = cmd[c].key
      PROVE  MayBeGone(h)'
  <2>1. h \in Loads \cup {g \in Writes : g.req \in Past(c).before}
    BY <1>4
  <2>2. MayBeGone(h)
    BY <1>6, <2>1 DEF Answers, MissesAreJustified
  <2>3. h.born \in Nat
    BY <2>1, LoadsProperties, WriteProperties
  <2>4. IsFiniteSet(history')
    BY DEF Records
  <2> QED
    BY <1>1, <2>2, <2>3, <2>4, GoneForGood
<1> QED
  BY <1>2, <1>5, <1>6

(* A GET finds what StoreOK says of the writes acknowledged before it.     *)
LEMMA AnswerRead ==
  ASSUME IInv, NodeTypes, Records, Records', StoreOK, NEW c \in Client, Read(c)
  PROVE  /\ answer'[c] # Nil =>
              ~\E h \in Writes' : /\ h.key = cmd'[c].key
                                  /\ h.req \in Past(c)'.before
                                  /\ answer'[c] \in h.before \cup {FromSnapshot}
         /\ answer'[c] = Nil =>
              \A h \in Loads \cup {g \in Writes' : g.req \in Past(c)'.before} :
                 h.op = "SET" /\ h.key = cmd'[c].key => MayBeGone(h)'
<1> DEFINE k == cmd[c].key
<1>1. /\ pc[c] = "cache" /\ answer'[c] = Lookup(store, k, now, Nil)
      /\ UNCHANGED <<phase, store, cmd, acked, history, now>>
  BY DEF Read, Step, memory, ghosts, NodeTypes
<1>2. /\ phase = "serving" /\ store \in Seq(Entry) /\ now \in Nat
  BY <1>1 DEF Records, NodeTypes
<1>3. Past(c)' = Past(c) /\ Past(c) \in history
  <2>1. history \subseteq history' /\ cmd'[c] = cmd[c] /\ pc[c] # "idle"
    BY <1>1
  <2> QED
    BY <2>1, PastStays
<1>4. Past(c).before \subseteq acked
  BY <1>3 DEF IInv, AllMade
<1>5. /\ Writes' = Writes
      /\ \A h : MayBeGone(h)' <=> MayBeGone(h)
  BY <1>1 DEF Writes, Rivals, MayBeGone, Since, Loads
<1>6. \A h \in Loads \cup {g \in Writes : g.req \in Past(c).before} : Seen(h)
  BY <1>2, <1>4 DEF Seen
<1> HIDE DEF k
<1>7. \/ /\ answer'[c] = Nil
         /\ \A i \in 1 .. Len(store) : store[i].key = k => Expired(store[i], now)
      \/ /\ answer'[c] # Nil
         /\ \E i \in 1 .. Len(store) : store[i].key = k /\ answer'[c] = store[i].val
  BY <1>1, <1>2, LookupTypes
<1>8. ASSUME answer'[c] # Nil, NEW h \in Writes, h.key = k, h.req \in Past(c).before
      PROVE  answer'[c] \notin h.before \cup {FromSnapshot}
  <2>1. FreshFor(store, h)
    BY <1>6, <1>8 DEF StoreOK
  <2> QED
    BY <1>7, <1>8, <2>1 DEF FreshFor
<1>9. ASSUME answer'[c] = Nil,
             NEW h \in Loads \cup {g \in Writes : g.req \in Past(c).before},
             h.op = "SET", h.key = k
      PROVE  MayBeGone(h)
  <2>1. CASE HeldAmong(store, h, Rivals(h))
    <3>1. PICK i \in 1 .. Len(store) : /\ store[i].key = h.key
                                       /\ store[i].exp >= h.born + DefaultTTL
      BY <2>1 DEF HeldAmong
    <3>2. store[i].exp < now
      BY <1>7, <1>9, <3>1 DEF Expired
    <3>3. store[i].exp \in Nat /\ h.born \in Nat
      <4>1. store[i] \in Entry
        BY <1>2, ElementOfSeq
      <4> QED
        BY <4>1, LoadsProperties, WriteProperties DEF Entry
    <3> QED
      BY <1>2, <3>1, <3>2, <3>3, DefaultTTLAssumption DEF MayBeGone
  <2> QED
    BY <1>6, <1>9, <2>1 DEF StoreOK
<1> QED
  BY <1>1, <1>3, <1>5, <1>8, <1>9 DEF k

LEMMA AnswersStep ==
  ASSUME IInv, NodeTypes, Records, Records', StoreOK, Answers, [Next]_vars
  PROVE  Answers'
<1>1. ASSUME NEW c \in Client, Answering(c)'
      PROVE  /\ answer'[c] # Nil =>
                  ~\E h \in Writes' : /\ h.key = cmd'[c].key
                                      /\ h.req \in Past(c)'.before
                                      /\ answer'[c] \in h.before \cup {FromSnapshot}
             /\ answer'[c] = Nil =>
                  \A h \in Loads \cup {g \in Writes' : g.req \in Past(c)'.before} :
                     h.op = "SET" /\ h.key = cmd'[c].key => MayBeGone(h)'
  <2>1. CASE Read(c)
    BY <2>1, AnswerRead
  <2>2. CASE ~Read(c)
    <3>1. Answering(c) /\ cmd'[c] = cmd[c] /\ answer'[c] = answer[c]
      BY <1>1, <2>2, AnswerComes
    <3> QED
      BY <1>1, <3>1, AnswerStays
  <2> QED
    BY <2>1, <2>2
<1>2. Loads' = Loads
  BY DEF Loads
<1> QED
  BY <1>1, <1>2 DEF Answers, ReadsNotStale, MissesAreJustified

(* As long as the disk takes every line: the invariant of the cache, from  *)
(* which the answers of the GETs follow.                                   *)
LEMMA StoreInvariant ==
  MaxFaults = 0 /\ Spec => [](Durable /\ NodeTypes /\ Records /\ StoreOK /\ Answers)
<1> SUFFICES ASSUME MaxFaults = 0
             PROVE  Spec => [](Durable /\ NodeTypes /\ Records /\ StoreOK /\ Answers)
  OBVIOUS
<1>1. Init => Durable /\ StoreOK /\ Answers
  <2>1. Init => StoreOK
    BY DEF Init, StoreOK, Seen
  <2>2. Init => Answers
    BY DEF Init, Answers, ReadsNotStale, MissesAreJustified, Answering
  <2>3. Init => Durable
    BY DEF Init, Durable, AckedIsLogged, Writes
  <2> QED
    BY <2>1, <2>2, <2>3
<1>2. IInv /\ Durable /\ NodeTypes /\ Records /\ StoreOK /\ Answers /\ [Next]_vars =>
        (Durable /\ NodeTypes /\ Records /\ StoreOK /\ Answers)'
  BY DurableStep, TypesStep, RecordsStep, StoreStep, AnswersStep
<1> QED
  BY <1>1, <1>2, InitTypes, Invariant, PTL DEF Spec

(* A GET never returns a value replaced by a write acknowledged before it  *)
(* began, through kills and restarts: replay does the writes in the order  *)
(* of the log, and leaves a later one in the place of an earlier one.      *)
THEOREM ReadsNeverStale == MaxFaults = 0 /\ Spec => []ReadsNotStale
<1>1. Answers => ReadsNotStale
  BY DEF Answers
<1> QED
  BY <1>1, StoreInvariant, PTL

(* A GET misses only a key that is gone by its age, by a DEL or by as many *)
(* keys set after it as the cache holds; no restart loses one.             *)
THEOREM MissesJustified == MaxFaults = 0 /\ Spec => []MissesAreJustified
<1>1. Answers => MissesAreJustified
  BY DEF Answers
<1> QED
  BY <1>1, StoreInvariant, PTL

-----------------------------------------------------------------------------
(* What a replay makes of a script.                                        *)

(* k takes the cache through the records of q. *)
Replays(k, q, t) ==
  /\ k \in [0 .. Len(q) -> Seq(Entry)]
  /\ k[0] = <<>>
  /\ \A n \in 1 .. Len(q) : k[n] = Applied(k[n - 1], q[n], t)

LEMMA ReplayedRecursion ==
  ASSUME NEW q \in Seq(ScriptRecord), NEW t \in Nat
  PROVE  \E k : Replays(k, q, t) /\ Replayed(q, t) = k[Len(q)]
<1> DEFINE Def(k) == [n \in 0 .. Len(q) |->
                        IF n = 0 THEN <<>> ELSE Applied(k[n - 1], q[n], t)]
           after == CHOOSE k : k = Def(k)
           F == [n \in 1 .. Len(q) |-> [s \in Seq(Entry) |-> Applied(s, q[n], t)]]
<1>1. Len(q) \in Nat /\ \A n \in 1 .. Len(q) : q[n] \in ScriptRecord
  BY ElementOfSeq, LenProperties
<1>2. F \in [1 .. Len(q) -> [Seq(Entry) -> Seq(Entry)]]
  BY <1>1, AppliedTypes
<1>3. PICK k : Iterates(k, Len(q), Seq(Entry), <<>>, F)
  <2> HIDE DEF F
  <2>1. <<>> \in Seq(Entry)
    OBVIOUS
  <2> QED
    BY <1>1, <1>2, <2>1, Recursion
<1>4. Replays(k, q, t)
  <2>1. k \in [0 .. Len(q) -> Seq(Entry)] /\ k[0] = <<>>
    BY <1>3 DEF Iterates
  <2>2. ASSUME NEW n \in 1 .. Len(q)
        PROVE  k[n] = Applied(k[n - 1], q[n], t)
    <3>1. k[n - 1] \in Seq(Entry)
      BY <1>1, <2>1
    <3> QED
      BY <1>3, <3>1 DEF Iterates
  <2> QED
    BY <2>1, <2>2 DEF Replays
<1>5. k = Def(k)
  <2>1. k = [n \in 0 .. Len(q) |-> k[n]]
    BY <1>4 DEF Replays
  <2>2. \A n \in 0 .. Len(q) : k[n] = IF n = 0 THEN <<>> ELSE Applied(k[n - 1], q[n], t)
    BY <1>1, <1>4 DEF Replays
  <2> QED
    BY <2>1, <2>2
<1>6. after = Def(after)
  <2> HIDE DEF Def
  <2> QED
    BY <1>5
<1>7. \A n \in 0 .. Len(q) :
         after[n] = IF n = 0 THEN <<>> ELSE Applied(after[n - 1], q[n], t)
  <2> HIDE DEF after
  <2>1. \A n \in 0 .. Len(q) : after[n] = Def(after)[n]
    <3> HIDE DEF Def
    <3> QED
      BY <1>6
  <2> QED
    BY <1>1, <2>1
<1>8. after[Len(q)] = k[Len(q)]
  <2> DEFINE T == {n \in 0 .. Len(q) : after[n] = k[n]}
  <2> HIDE DEF after
  <2>1. 0 \in T /\ \A n \in 1 .. Len(q) : n - 1 \in T => n \in T
    BY <1>1, <1>4, <1>7 DEF Replays
  <2>2. 0 .. Len(q) \subseteq T
    <3> HIDE DEF T
    <3> QED
      BY <1>1, <2>1, Climb
  <2> QED
    BY <1>1, <2>2
<1>9. Replayed(q, t) = after[Len(q)]
  BY DEF Replayed, after, Def
<1> HIDE DEF after
<1> QED
  BY <1>4, <1>8, <1>9

LEMMA ReplayedTypes ==
  ASSUME NEW q \in Seq(ScriptRecord), NEW t \in Nat
  PROVE  Replayed(q, t) \in Seq(Entry)
<1>1. PICK k : Replays(k, q, t) /\ Replayed(q, t) = k[Len(q)]
  BY ReplayedRecursion
<1>2. Len(q) \in Nat
  BY LenProperties
<1> QED
  BY <1>1, <1>2 DEF Replays

LEMMA ReplayedEmpty ==
  ASSUME NEW t \in Nat
  PROVE  Replayed(<<>>, t) = <<>>
<1>1. <<>> \in Seq(ScriptRecord) /\ Len(<<>>) = 0
  OBVIOUS
<1>2. PICK k : Replays(k, <<>>, t) /\ Replayed(<<>>, t) = k[Len(<<>>)]
  BY <1>1, ReplayedRecursion
<1> QED
  BY <1>1, <1>2 DEF Replays

LEMMA ReplayedAppend ==
  ASSUME NEW q \in Seq(ScriptRecord), NEW x \in ScriptRecord, NEW t \in Nat
  PROVE  Replayed(Append(q, x), t) = Applied(Replayed(q, t), x, t)
<1> DEFINE r == Append(q, x)
<1>1. /\ Len(q) \in Nat /\ r \in Seq(ScriptRecord) /\ Len(r) = Len(q) + 1
      /\ \A i \in 1 .. Len(q) : r[i] = q[i]
      /\ r[Len(q) + 1] = x
  BY AppendProperties, LenProperties
<1> HIDE DEF r
<1>2. PICK k : Replays(k, q, t) /\ Replayed(q, t) = k[Len(q)]
  BY ReplayedRecursion
<1>3. PICK m : Replays(m, r, t) /\ Replayed(r, t) = m[Len(r)]
  BY <1>1, ReplayedRecursion
<1>4. m[Len(q)] = k[Len(q)]
  <2> DEFINE T == {n \in 0 .. Len(q) : m[n] = k[n]}
  <2>1. 0 \in T
    BY <1>1, <1>2, <1>3 DEF Replays
  <2>2. ASSUME NEW n \in 1 .. Len(q), n - 1 \in T
        PROVE  n \in T
    <3>1. n \in 1 .. Len(r)
      BY <1>1
    <3> QED
      BY <1>1, <1>2, <1>3, <2>2, <3>1 DEF Replays
  <2>3. 0 .. Len(q) \subseteq T
    <3>1. Len(q) \in Nat
      BY <1>1
    <3> HIDE DEF T
    <3> QED
      BY <2>1, <2>2, <3>1, Climb
  <2> QED
    BY <1>1, <2>3
<1>5. m[Len(r)] = Applied(m[Len(q)], x, t)
  <2>1. Len(r) \in 1 .. Len(r) /\ Len(r) - 1 = Len(q) /\ r[Len(r)] = x
    BY <1>1
  <2> QED
    BY <1>3, <2>1 DEF Replays
<1>6. Replayed(r, t) = Applied(Replayed(q, t), x, t)
  BY <1>2, <1>3, <1>4, <1>5
<1> QED
  BY <1>6 DEF r

LEMMA SameApplied ==
  ASSUME NEW s \in Seq(Entry), NEW r \in Seq(Entry), Same(s, r),
         NEW x \in ScriptRecord, NEW t \in Nat, NEW u \in Nat
  PROVE  Same(Applied(s, x, t), Applied(r, x, u))
<1>1. CASE x.op = "SET"
  <2> DEFINE e(v) == [key |-> x.key, val |-> x.req, exp |-> ExpireTime(v, 0)]
  <2>1. /\ e(t) \in Entry /\ e(u) \in Entry
        /\ e(t).key = e(u).key /\ e(t).val = e(u).val
    BY DefaultTTLAssumption DEF Entry, ScriptRecord, ExpireTime
  <2>2. Applied(s, x, t) = Put(s, e(t)) /\ Applied(r, x, u) = Put(r, e(u))
    BY <1>1 DEF Applied
  <2> HIDE DEF e
  <2> QED
    BY <2>1, <2>2, SamePut
<1>2. CASE x.op = "DEL"
  BY <1>2, SameWithout DEF Applied
<1>3. CASE x.op \notin {"SET", "DEL"}
  BY <1>3 DEF Applied
<1> QED
  BY <1>1, <1>2, <1>3

(* The instant of the replay shows in the expiry instants only.            *)
LEMMA SameReplayed ==
  ASSUME NEW q \in Seq(ScriptRecord), NEW t \in Nat, NEW u \in Nat
  PROVE  Same(Replayed(q, t), Replayed(q, u))
<1>1. Len(q) \in Nat /\ \A n \in 1 .. Len(q) : q[n] \in ScriptRecord
  BY ElementOfSeq, LenProperties
<1>2. PICK k : Replays(k, q, t) /\ Replayed(q, t) = k[Len(q)]
  BY ReplayedRecursion
<1>3. PICK m : Replays(m, q, u) /\ Replayed(q, u) = m[Len(q)]
  BY ReplayedRecursion
<1> DEFINE T == {n \in 0 .. Len(q) : Same(k[n], m[n])}
<1>4. 0 \in T
  BY <1>1, <1>2, <1>3 DEF Replays, Same
<1>5. ASSUME NEW n \in 1 .. Len(q), n - 1 \in T
      PROVE  n \in T
  <2>1. /\ k[n - 1] \in Seq(Entry) /\ m[n - 1] \in Seq(Entry) /\ Same(k[n - 1], m[n - 1])
        /\ k[n] = Applied(k[n - 1], q[n], t) /\ m[n] = Applied(m[n - 1], q[n], u)
    BY <1>1, <1>2, <1>3, <1>5 DEF Replays
  <2>2. Same(k[n], m[n])
    BY <1>1, <2>1, SameApplied
  <2> QED
    BY <2>2
<1>6. Len(q) \in T
  <2>1. Len(q) \in Nat
    BY <1>1
  <2> HIDE DEF T
  <2>2. 0 .. Len(q) \subseteq T
    BY <1>4, <1>5, <2>1, Climb
  <2> QED
    BY <2>1, <2>2
<1> QED
  BY <1>2, <1>3, <1>6

LEMMA SameContents ==
  ASSUME NEW s \in Seq(Entry), NEW r \in Seq(Entry)
  PROVE  Contents(s) = Contents(r) <=> Same(s, r)
<1>1. /\ DOMAIN s = 1 .. Len(s) /\ Len(s) \in Nat
      /\ DOMAIN r = 1 .. Len(r) /\ Len(r) \in Nat
  BY LenProperties
<1>2. ASSUME Same(s, r)
      PROVE  Contents(s) = Contents(r)
  BY <1>1, <1>2 DEF Same, Contents
<1>3. ASSUME Contents(s) = Contents(r)
      PROVE  Same(s, r)
  <2>1. /\ DOMAIN Contents(s) = 1 .. Len(s) /\ DOMAIN Contents(r) = 1 .. Len(r)
        /\ \A i \in 1 .. Len(s) : /\ Contents(s)[i].key = s[i].key
                                  /\ Contents(s)[i].val = s[i].val
        /\ \A i \in 1 .. Len(r) : /\ Contents(r)[i].key = r[i].key
                                  /\ Contents(r)[i].val = r[i].val
    BY <1>1 DEF Contents
  <2>2. 1 .. Len(s) = 1 .. Len(r)
    BY <1>3, <2>1
  <2>3. Len(s) = Len(r)
    <3>1. ASSUME NEW a \in Nat, NEW b \in Nat, a < b
          PROVE  1 .. a # 1 .. b
      <4>1. b \in 1 .. b /\ b \notin 1 .. a
        BY <3>1
      <4> QED
        BY <4>1
    <3>2. Len(s) \in Nat /\ Len(r) \in Nat
      BY <1>1
    <3>3. ~(Len(s) < Len(r)) /\ ~(Len(r) < Len(s))
      BY <2>2, <3>1, <3>2
    <3> QED
      BY <3>2, <3>3
  <2> QED
    BY <1>3, <2>1, <2>3 DEF Same
<1> QED
  BY <1>2, <1>3

-----------------------------------------------------------------------------
(* Recovery gives the cache back.                                          *)

LEMMA SameTransitive ==
  ASSUME NEW s, NEW r, NEW q, Same(s, r), Same(r, q)
  PROVE  Same(s, q)
BY DEF Same

(* Every entry of s lives to the end of the default TTL, from 0 on. *)
Aged(s) == \A i \in 1 .. Len(s) : s[i].exp >= DefaultTTL

InOrder == \A g, h \in Writes : g = h \/ g.req \in h.before \/ h.req \in g.before

(* What the cache holds is what a replay would make, of the records so far *)
(* or, in a node that serves, of the log; a client that is between the two *)
(* halves of a write has its record yet to come.                           *)
ReplayOK ==
  /\ Aged(store)
  /\ phase = "recovering" => Same(store, Replayed(SubSeq(Script, 1, pos - 1), now))
  /\ phase = "serving" /\ InOrder /\ now <= DefaultTTL =>
       /\ (\A c \in Client : pc[c] # "log") => Same(store, Recovered)
       /\ \A c \in Client :
            pc[c] = "log" => Same(store, Applied(Recovered, cmd[c], now))

LEMMA AppliedAged ==
  ASSUME NEW s \in Seq(Entry), NEW r \in ScriptRecord, NEW t \in Nat, Aged(s)
  PROVE  Aged(Applied(s, r, t))
<1> DEFINE q == Applied(s, r, t)
<1>1. CASE r.op = "SET"
  <2> DEFINE e == [key |-> r.key, val |-> r.req, exp |-> ExpireTime(t, 0)]
  <2>1. e \in Entry /\ e.exp >= DefaultTTL
    BY DefaultTTLAssumption DEF Entry, ScriptRecord, ExpireTime
  <2>2. q = Put(s, e)
    BY <1>1 DEF Applied
  <2> HIDE DEF e
  <2>3. OnlyFrom(s, e, q)
    BY <2>1, <2>2, PutEntries
  <2> QED
    BY <2>1, <2>3 DEF OnlyFrom, Aged
<1>2. CASE r.op = "DEL"
  <2>1. q = Without(s, r.key)
    BY <1>2 DEF Applied
  <2>2. \A n \in 1 .. Len(q) : \E i \in 1 .. Len(s) : q[n] = s[i] /\ s[i].key # r.key
    BY <2>1, WithoutEntries
  <2> QED
    BY <2>2 DEF Aged
<1>3. CASE r.op \notin {"SET", "DEL"}
  BY <1>3 DEF Applied
<1> QED
  BY <1>1, <1>2, <1>3

(* Of two writes in flight neither is acknowledged before the other.       *)
LEMMA OneAtATime ==
  ASSUME IInv, Records, InOrder, NEW c \in Client, NEW d \in Client,
         pc[c] # "idle", cmd[c].op \in {"SET", "DEL"},
         pc[d] # "idle", cmd[d].op \in {"SET", "DEL"}
  PROVE  c = d
<1>1. /\ cmd[c].req = [client |-> c, n |-> issued[c]] /\ cmd[c].req \notin acked
      /\ cmd[d].req = [client |-> d, n |-> issued[d]] /\ cmd[d].req \notin acked
  BY DEF IInv, InFlight
<1>2. PICK g \in history : Matches(g, cmd[c])
  BY DEF Records
<1>3. PICK h \in history : Matches(h, cmd[d])
  BY DEF Records
<1>4. g \in Writes /\ h \in Writes /\ g.req = cmd[c].req /\ h.req = cmd[d].req
  BY <1>2, <1>3 DEF Writes, Matches
<1>5. g.req \notin h.before /\ h.req \notin g.before
  BY <1>1, <1>4, WriteProperties
<1>6. cmd[c].req = cmd[d].req
  BY <1>4, <1>5 DEF InOrder
<1> QED
  BY <1>1, <1>6

LEMMA ScriptAppend ==
  ASSUME log \in Seq(Command), NEW x \in Command, log' = Append(log, x)
  PROVE  Script' = Append(Script, x)
<1> DEFINE front == [i \in DOMAIN Snapshot |->
                       [op |-> "SET", key |-> Snapshot[i], req |-> FromSnapshot]]
<1>1. front \in Seq(ScriptRecord)
  <2>1. DOMAIN Snapshot = 1 .. Len(Snapshot) /\ Len(Snapshot) \in Nat
        /\ \A i \in 1 .. Len(Snapshot) : Snapshot[i] \in Key
    BY SnapshotAssumption, LenProperties, ElementOfSeq
  <2>2. front \in [1 .. Len(Snapshot) -> ScriptRecord]
    BY <2>1 DEF ScriptRecord
  <2> QED
    BY <2>1, <2>2, SeqDef
<1>2. log \in Seq(ScriptRecord) /\ x \in ScriptRecord
  <2>1. Command \subseteq ScriptRecord
    BY DEF Command, ScriptRecord
  <2> QED
    BY <2>1, SeqMonotonic
<1>3. Script = front \o log /\ Script' = front \o Append(log, x)
  BY DEF Script
<1> HIDE DEF front
<1>4. Append(log, x) = log \o <<x>> /\ <<x>> \in Seq(ScriptRecord)
  BY <1>2, AppendIsConcat
<1>5. (front \o log) \o <<x>> = front \o (log \o <<x>>)
  BY <1>1, <1>2, <1>4, ConcatAssociative
<1>6. front \o log \in Seq(ScriptRecord)
  BY <1>1, <1>2, ConcatProperties
<1>7. Append(front \o log, x) = (front \o log) \o <<x>>
  BY <1>2, <1>6, AppendIsConcat
<1> QED
  BY <1>3, <1>4, <1>5, <1>7

(* Steps that change neither the cache nor the log.                        *)
LEMMA ReplayKept ==
  ASSUME ReplayOK, history \subseteq history',
         UNCHANGED <<phase, pos, store, log, now>>,
         \A c \in Client : /\ pc'[c] = "log" <=> pc[c] = "log"
                           /\ pc[c] = "log" => cmd'[c] = cmd[c]
  PROVE  ReplayOK'
<1>1. Script' = Script /\ Recovered' = Recovered
  BY DEF Script, Recovered
<1>2. InOrder' => InOrder
  BY DEF InOrder, Writes
<1> QED
  BY <1>1, <1>2 DEF ReplayOK

LEMMA RecoverReplay ==
  ASSUME IInv, NodeTypes, ReplayOK, Recover
  PROVE  ReplayOK'
<1> DEFINE before == SubSeq(Script, 1, pos - 1)
           r == Script[pos]
<1>1. /\ phase = "recovering" /\ pos \in 1 .. Len(Script) /\ pos' = pos + 1
      /\ store' = Applied(store, r, now) /\ phase' = phase /\ now' = now
      /\ store \in Seq(Entry) /\ now \in Nat
  BY ScriptProperties DEF Recover, NodeTypes, IInv, RequestTypes
<1>2. Script' = Script
  BY DEF Recover, disk, Script
<1>3. Script \in Seq(ScriptRecord) /\ Len(Script) \in Nat /\ r \in ScriptRecord
  BY <1>1, ScriptProperties, ElementOfSeq, LenProperties DEF IInv, RequestTypes
<1>4. before \in Seq(ScriptRecord)
  <2>1. \A i \in 1 .. pos - 1 : Script[i] \in ScriptRecord
    BY <1>1, <1>3, ElementOfSeq
  <2> QED
    BY <1>1, <1>3, <2>1, SubSeqProperties
<1>5. SubSeq(Script, 1, pos) = Append(before, r)
  <2>1. SubSeq(Script, 1, pos) = before \o <<r>>
    <3>1. 1 \in 1 .. Len(Script) /\ pos \in 1 .. Len(Script)
      BY <1>1, <1>3
    <3> QED
      BY <1>3, <3>1, SubSeqRecursiveSecond
  <2> QED
    BY <1>3, <1>4, <2>1, AppendIsConcat
<1> HIDE DEF before, r
<1>6. Same(store, Replayed(before, now))
  BY <1>1 DEF ReplayOK, before
<1>7. Same(store', Applied(Replayed(before, now), r, now))
  BY <1>1, <1>3, <1>4, <1>6, ReplayedTypes, SameApplied
<1>8. Applied(Replayed(before, now), r, now) = Replayed(Append(before, r), now)
  BY <1>1, <1>3, <1>4, ReplayedAppend
<1>9. SubSeq(Script', 1, pos' - 1) = Append(before, r)
  <2>1. pos' - 1 = pos
    BY <1>1, <1>3
  <2> QED
    BY <1>2, <1>5, <2>1
<1>10. Aged(store')
  BY <1>1, <1>3, AppliedAged DEF ReplayOK
<1> QED
  BY <1>1, <1>7, <1>8, <1>9, <1>10 DEF ReplayOK

LEMMA ServeReplay ==
  ASSUME IInv, NodeTypes, Records, ReplayOK, Serve
  PROVE  ReplayOK'
<1>1. /\ phase = "recovering" /\ phase' = "serving" /\ pos > Len(Script)
      /\ UNCHANGED <<store, log, pc, now>>
  BY DEF Serve, memory, disk, clients
<1>2. /\ Script \in Seq(ScriptRecord) /\ Len(Script) \in Nat
      /\ pos \in 1 .. Len(Script) + 1
  BY ScriptProperties, LenProperties DEF IInv, RequestTypes, NodeTypes
<1>3. SubSeq(Script, 1, pos - 1) = Script
  <2>1. pos - 1 = Len(Script)
    BY <1>1, <1>2
  <2> QED
    BY <1>2, <2>1, SubSeqFull
<1>4. Same(store, Recovered)
  BY <1>1, <1>3 DEF ReplayOK, Recovered
<1>5. Recovered' = Recovered
  BY <1>1 DEF Recovered, Script
<1>6. \A c \in Client : pc'[c] # "log"
  BY <1>1 DEF Records
<1> QED
  BY <1>1, <1>4, <1>5, <1>6 DEF ReplayOK

LEMMA KillReplay ==
  ASSUME IInv, NodeTypes, Kill
  PROVE  ReplayOK'
<1>1. phase' = "recovering" /\ pos' = 1 /\ store' = <<>> /\ now' = now /\ now \in Nat
  BY DEF Kill, NodeTypes
<1>2. SubSeq(Script', 1, pos' - 1) = <<>>
  BY <1>1, SubSeqEmpty
<1>3. Same(<<>>, <<>>) /\ Aged(<<>>)
  BY DEF Same, Aged
<1> QED
  BY <1>1, <1>2, <1>3, ReplayedEmpty DEF ReplayOK

(* The clock moves the expiry instants of a replay, and nothing else.      *)
LEMMA TickReplay ==
  ASSUME IInv, NodeTypes, Records, ReplayOK, Tick
  PROVE  ReplayOK'
<1>1. /\ now \in Nat /\ now' = now + 1 /\ now' \in Nat
      /\ UNCHANGED <<phase, pos, store, log, pc, cmd, history>>
  BY DEF Tick, NodeTypes, memory, disk, clients, ghosts
<1>2. /\ Script' = Script /\ Script \in Seq(ScriptRecord) /\ Len(Script) \in Nat
      /\ pos \in 1 .. Len(Script) + 1
  BY <1>1, ScriptProperties, LenProperties DEF IInv, RequestTypes, NodeTypes, Script
<1>3. Recovered = Replayed(Script, now) /\ Recovered' = Replayed(Script, now')
  BY <1>2 DEF Recovered
<1>4. /\ Recovered \in Seq(Entry) /\ Recovered' \in Seq(Entry)
      /\ Same(Recovered, Recovered')
  BY <1>1, <1>2, <1>3, ReplayedTypes, SameReplayed
<1>5. ASSUME phase = "recovering"
      PROVE  Same(store, Replayed(SubSeq(Script, 1, pos - 1), now'))
  <2> DEFINE before == SubSeq(Script, 1, pos - 1)
  <2>1. before \in Seq(ScriptRecord)
    <3>1. \A i \in 1 .. pos - 1 : Script[i] \in ScriptRecord
      BY <1>2, ElementOfSeq
    <3> QED
      BY <1>2, <3>1, SubSeqProperties
  <2>2. Same(store, Replayed(before, now))
    BY <1>5 DEF ReplayOK
  <2> HIDE DEF before
  <2>3. Same(Replayed(before, now), Replayed(before, now'))
    BY <1>1, <2>1, SameReplayed
  <2>4. Same(store, Replayed(before, now'))
    BY <2>2, <2>3, SameTransitive
  <2> QED
    BY <2>4 DEF before
<1>6. ASSUME phase = "serving", InOrder, now' <= DefaultTTL
      PROVE  /\ (\A c \in Client : pc[c] # "log") => Same(store, Recovered')
             /\ \A c \in Client :
                  pc[c] = "log" => Same(store, Applied(Recovered', cmd[c], now'))
  <2>1. now <= DefaultTTL
    BY <1>1, <1>6, DefaultTTLAssumption
  <2>2. ASSUME \A c \in Client : pc[c] # "log"
        PROVE  Same(store, Recovered')
    <3>1. Same(store, Recovered)
      BY <1>6, <2>1, <2>2 DEF ReplayOK
    <3> QED
      BY <1>4, <3>1, SameTransitive
  <2>3. ASSUME NEW c \in Client, pc[c] = "log"
        PROVE  Same(store, Applied(Recovered', cmd[c], now'))
    <3>1. Same(store, Applied(Recovered, cmd[c], now))
      BY <1>6, <2>1, <2>3 DEF ReplayOK
    <3>2. cmd[c] \in ScriptRecord
      BY <2>3 DEF IInv, InFlight, Command, ScriptRecord
    <3>3. Same(Applied(Recovered, cmd[c], now), Applied(Recovered', cmd[c], now'))
      BY <1>1, <1>4, <3>2, SameApplied
    <3> QED
      BY <3>1, <3>3, SameTransitive
  <2> QED
    BY <2>2, <2>3
<1>7. InOrder' <=> InOrder
  BY <1>1 DEF InOrder, Writes
<1> QED
  BY <1>1, <1>2, <1>5, <1>6, <1>7 DEF ReplayOK

(* Before the default TTL is over the cleanup finds nothing to drop.       *)
LEMMA CleanupReplay ==
  ASSUME IInv, NodeTypes, ReplayOK, Cleanup
  PROVE  ReplayOK'
<1>1. /\ phase = "serving" /\ store' = Unexpired(store, now)
      /\ store \in Seq(Entry) /\ now \in Nat
      /\ UNCHANGED <<phase, log, pc, cmd, history, now>>
  BY DEF Cleanup, NodeTypes, disk, clients, ghosts
<1>2. Aged(store')
  <2>1. \A n \in 1 .. Len(store') : \E i \in 1 .. Len(store) :
           store'[n] = store[i] /\ ~Expired(store[i], now)
    BY <1>1, UnexpiredEntries
  <2> QED
    BY <2>1 DEF ReplayOK, Aged
<1>3. Recovered' = Recovered /\ (InOrder' <=> InOrder)
  BY <1>1 DEF Recovered, Script, InOrder, Writes
<1>4. ASSUME now <= DefaultTTL
      PROVE  store' = store
  <2>1. \A i \in 1 .. Len(store) : ~Expired(store[i], now)
    <3> SUFFICES ASSUME NEW i \in 1 .. Len(store)
                 PROVE  ~(store[i].exp < now)
      BY DEF Expired
    <3>1. store[i].exp \in Nat /\ store[i].exp >= DefaultTTL
      <4>1. store[i] \in Entry
        BY <1>1, ElementOfSeq
      <4> QED
        BY <4>1 DEF ReplayOK, Aged, Entry
    <3> QED
      BY <1>1, <1>4, <3>1, DefaultTTLAssumption
  <2> QED
    BY <1>1, <2>1, NothingExpired
<1> QED
  BY <1>1, <1>2, <1>3, <1>4 DEF ReplayOK

LEMMA UpdateReplay ==
  ASSUME IInv, NodeTypes, Records, ReplayOK, NEW c \in Client, Update(c)
  PROVE  ReplayOK'
<1>1. /\ pc[c] = "cache" /\ pc' = [pc EXCEPT ![c] = "log"]
      /\ cmd[c].op \in {"SET", "DEL"} /\ store' = Applied(store, cmd[c], now)
      /\ UNCHANGED <<phase, log, cmd, history, now>>
      /\ store \in Seq(Entry) /\ now \in Nat
  BY DEF Update, Step, disk, ghosts, NodeTypes
<1>2. phase = "serving" /\ cmd[c] \in ScriptRecord
  BY <1>1 DEF Records, IInv, InFlight, Command, ScriptRecord
<1>3. Recovered' = Recovered /\ Recovered \in Seq(Entry) /\ (InOrder' <=> InOrder)
  <2>1. Script \in Seq(ScriptRecord)
    BY ScriptProperties DEF IInv, RequestTypes
  <2> QED
    BY <1>1, <2>1, ReplayedTypes DEF Recovered, Script, InOrder, Writes
<1>4. Aged(store')
  BY <1>1, <1>2, AppliedAged DEF ReplayOK
<1>5. pc'[c] = "log" /\ \A d \in Client : d # c => pc'[d] = pc[d]
  BY <1>1 DEF IInv, RequestTypes
<1>6. ASSUME InOrder, now <= DefaultTTL
      PROVE  /\ Same(store', Applied(Recovered, cmd[c], now))
             /\ \A d \in Client : pc'[d] = "log" => d = c
  <2>1. \A d \in Client : pc[d] # "log"
    <3> SUFFICES ASSUME NEW d \in Client, pc[d] = "log"
                 PROVE  FALSE
      OBVIOUS
    <3>1. cmd[d].op \in {"SET", "DEL"}
      BY DEF Records
    <3>2. d = c
      BY <1>1, <1>6, <3>1, OneAtATime
    <3> QED
      BY <1>1, <3>2
  <2>2. Same(store, Recovered)
    BY <1>2, <1>6, <2>1 DEF ReplayOK
  <2>3. Same(store', Applied(Recovered, cmd[c], now))
    BY <1>1, <1>2, <1>3, <2>2, SameApplied
  <2> QED
    BY <1>5, <2>1, <2>3
<1> QED
  BY <1>1, <1>2, <1>3, <1>4, <1>5, <1>6 DEF ReplayOK

LEMMA LogReplay ==
  ASSUME IInv, NodeTypes, Records, Durable, MaxFaults = 0, ReplayOK,
         NEW c \in Client, LogAppend(c)
  PROVE  ReplayOK'
<1>1. /\ pc[c] = "log" /\ pc' = [pc EXCEPT ![c] = "reply"]
      /\ log' = Append(log, cmd[c])
      /\ UNCHANGED <<phase, store, cmd, history, now>> /\ now \in Nat
  BY DEF LogAppend, Step, ghosts, disk, Durable, NodeTypes
<1>2. phase = "serving" /\ cmd[c] \in Command /\ cmd[c].op \in {"SET", "DEL"}
  BY <1>1 DEF Records, IInv, InFlight
<1>3. cmd[c] \in ScriptRecord
  BY <1>2 DEF Command, ScriptRecord
<1>4. Recovered' = Applied(Recovered, cmd[c], now)
  <2>1. log \in Seq(Command)
    BY DEF IInv, RequestTypes
  <2>2. Script' = Append(Script, cmd[c])
    BY <1>1, <1>2, <2>1, ScriptAppend
  <2>3. Script \in Seq(ScriptRecord)
    BY <2>1, ScriptProperties
  <2>4. Replayed(Append(Script, cmd[c]), now) = Applied(Replayed(Script, now), cmd[c], now)
    BY <1>1, <1>3, <2>3, ReplayedAppend
  <2> QED
    BY <1>1, <2>2, <2>4 DEF Recovered
<1>5. pc'[c] = "reply" /\ \A d \in Client : d # c => pc'[d] = pc[d]
  BY <1>1 DEF IInv, RequestTypes
<1>6. ASSUME InOrder, now <= DefaultTTL
      PROVE  /\ Same(store, Recovered')
             /\ \A d \in Client : pc'[d] # "log"
  <2>1. Same(store, Recovered')
    BY <1>1, <1>2, <1>4, <1>6 DEF ReplayOK
  <2>2. ASSUME NEW d \in Client, pc'[d] = "log"
        PROVE  FALSE
    <3>1. d # c /\ pc[d] = "log"
      BY <1>5, <2>2
    <3>2. cmd[d].op \in {"SET", "DEL"}
      BY <3>1 DEF Records
    <3>3. d = c
      BY <1>1, <1>2, <1>6, <3>1, <3>2, OneAtATime
    <3> QED
      BY <3>1, <3>3
  <2> QED
    BY <2>1, <2>2
<1>7. InOrder' <=> InOrder
  BY <1>1 DEF InOrder, Writes
<1> QED
  BY <1>1, <1>2, <1>6, <1>7 DEF ReplayOK

LEMMA ReplayStep ==
  ASSUME MaxFaults = 0, IInv, NodeTypes, Records, Durable, ReplayOK, [Next]_vars
  PROVE  ReplayOK'
<1>1. history \subseteq history'
  BY HistoryGrows
<1>2. ASSUME NEW c \in Client, Begin(c) \/ Read(c) \/ Reply(c)
      PROVE  ReplayOK'
  <2>1. UNCHANGED <<phase, pos, store, log, now>>
    BY <1>2 DEF Begin, Read, Reply, memory, disk
  <2>2. \A d \in Client : d # c => pc'[d] = pc[d] /\ cmd'[d] = cmd[d]
    BY <1>2 DEF Begin, Read, Reply, Step, IInv, RequestTypes
  <2>3. pc[c] # "log" /\ pc'[c] # "log"
    BY <1>2 DEF Begin, Read, Reply, Step, IInv, RequestTypes
  <2>4. \A d \in Client : /\ pc'[d] = "log" <=> pc[d] = "log"
                          /\ pc[d] = "log" => cmd'[d] = cmd[d]
    BY <2>2, <2>3
  <2> QED
    BY <1>1, <2>1, <2>4, ReplayKept
<1>3. CASE UNCHANGED vars
  <2>1. UNCHANGED <<phase, pos, store, log, now, pc, cmd>>
    BY <1>3 DEF vars, memory, disk, clients
  <2> QED
    BY <1>1, <2>1, ReplayKept
<1> QED
  BY <1>2, <1>3, RecoverReplay, ServeReplay, KillReplay, TickReplay, CleanupReplay,
     UpdateReplay, LogReplay
  DEF Next, Serving

LEMMA ReplayInvariant == MaxFaults = 0 /\ Spec => [](IInv /\ NodeTypes /\ ReplayOK)
<1> SUFFICES ASSUME MaxFaults = 0
             PROVE  Spec => [](IInv /\ NodeTypes /\ ReplayOK)
  OBVIOUS
<1>1. Init => ReplayOK
  <2> SUFFICES ASSUME Init
               PROVE  ReplayOK
    OBVIOUS
  <2>1. phase = "recovering" /\ pos = 1 /\ store = <<>> /\ now = 0
    BY DEF Init
  <2>2. SubSeq(Script, 1, pos - 1) = <<>>
    BY <2>1, SubSeqEmpty
  <2>3. Same(<<>>, <<>>) /\ Aged(<<>>)
    BY DEF Same, Aged
  <2> QED
    BY <2>1, <2>2, <2>3, ReplayedEmpty DEF ReplayOK
<1>2. IInv /\ NodeTypes /\ Records /\ Durable /\ ReplayOK /\ [Next]_vars => ReplayOK'
  BY ReplayStep
<1> QED
  BY <1>1, <1>2, Invariant, StoreInvariant, PTL DEF Spec

(* A restart gives back exactly what the cache holds, down to the order of *)
(* eviction, as long as no entry can have expired and no two writes        *)
(* overlap: main replays the log through the same set and del that wrote   *)
(* it, and the order of its lines is the order of the writes.              *)
THEOREM RecoveryExact == MaxFaults = 0 /\ Spec => []RecoveryIsExactInOrder
<1>1. IInv /\ NodeTypes /\ ReplayOK => RecoveryIsExactInOrder
  <2> SUFFICES ASSUME IInv, NodeTypes, ReplayOK, InOrder, now <= DefaultTTL,
                      phase = "serving", \A c \in Client : pc[c] # "log"
               PROVE  Contents(store) = Contents(Recovered)
    BY DEF RecoveryIsExactInOrder, RecoveryIsExact, InOrder
  <2>1. Same(store, Recovered)
    BY DEF ReplayOK
  <2>2. Script \in Seq(ScriptRecord) /\ now \in Nat /\ store \in Seq(Entry)
    BY ScriptProperties DEF IInv, RequestTypes, NodeTypes
  <2>3. Recovered \in Seq(Entry)
    BY <2>2, ReplayedTypes DEF Recovered
  <2> QED
    BY <2>1, <2>2, <2>3, SameContents
<1> QED
  BY <1>1, ReplayInvariant, PTL
=============================================================================
