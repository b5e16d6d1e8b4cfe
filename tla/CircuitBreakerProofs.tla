------------------------ MODULE CircuitBreakerProofs ------------------------
(***************************************************************************)
(* Proofs about CircuitBreaker for every number of threads, every          *)
(* threshold and every timeout.  FullCountTrips is inductive as it stands, *)
(* next to the types; CoolingLastsTheTimeout needs the types only.         *)
(***************************************************************************)
EXTENDS CircuitBreaker, TLAPS

IInv == TypeOK /\ FullCountTrips

LEMMA InitInvariant == Init => IInv
<1> SUFFICES ASSUME Init
             PROVE  IInv
  OBVIOUS
<1>1. TypeOK
  BY ThresholdAssumption, TimeoutAssumption DEF Init, TypeOK, States, Locations
<1>2. FullCountTrips
  BY ThresholdAssumption DEF Init, FullCountTrips
<1> QED
  BY <1>1, <1>2 DEF IInv

(* Where a step leaves the threads.                                        *)
LEMMA GotoProperties ==
  ASSUME TypeOK, NEW t \in Thread, NEW from, NEW to \in Locations, Goto(t, from, to)
  PROVE  /\ pc' \in [Thread -> Locations]
         /\ pc[t] = from /\ pc'[t] = to
         /\ \A u \in Thread \ {t} : pc'[u] = pc[u]
BY DEF TypeOK, Goto

LEMMA UpToProperties ==
  ASSUME NEW bound \in Nat, NEW n \in 0 .. bound
  PROVE  /\ UpTo(n + 1, bound) \in 0 .. bound
         /\ n < bound => UpTo(n + 1, bound) = n + 1
         /\ n >= bound => UpTo(n + 1, bound) = bound
BY DEF UpTo

(* Each step of a thread keeps the types.                                  *)
LEMMA StepTypes ==
  ASSUME TypeOK, NEW t \in Thread, Step(t)
  PROVE  TypeOK'
<1>1. /\ Threshold \in Nat /\ Timeout \in Nat
      /\ UpTo(failures + 1, Threshold) \in 0 .. Threshold
  BY ThresholdAssumption, TimeoutAssumption, UpToProperties DEF TypeOK
<1>2. pc' \in [Thread -> Locations]
  BY DEF TypeOK, Step, Goto, Locations, LoadState, CheckTimeout, TransitionToHalfOpen,
         Process, JudgeSuccess, TransitionToClosed, ResetFailures, CountFailure,
         StampFailure, IfClosed, IfFull, IfHalfOpen, TransitionToOpen
<1>3. state' \in States
  BY DEF TypeOK, Step, States, LoadState, CheckTimeout, TransitionToHalfOpen,
         Process, JudgeSuccess, TransitionToClosed, ResetFailures, CountFailure,
         StampFailure, IfClosed, IfFull, IfHalfOpen, TransitionToOpen, shared
<1>4. failures' \in 0 .. Threshold
  BY <1>1
  DEF TypeOK, Step, LoadState, CheckTimeout, TransitionToHalfOpen,
      Process, JudgeSuccess, TransitionToClosed, ResetFailures, CountFailure,
      StampFailure, IfClosed, IfFull, IfHalfOpen, TransitionToOpen, shared
<1>5. elapsed' \in 0 .. Timeout
  BY <1>1
  DEF TypeOK, Step, LoadState, CheckTimeout, TransitionToHalfOpen,
      Process, JudgeSuccess, TransitionToClosed, ResetFailures, CountFailure,
      StampFailure, IfClosed, IfFull, IfHalfOpen, TransitionToOpen, shared
<1> QED
  BY <1>2, <1>3, <1>4, <1>5 DEF TypeOK

(* The threads that may still open or reset a breaker with a full count.   *)
Pending(u) == pc[u] \in {"stamp", "if_closed", "if_full", "open", "reset"}

(* A step that neither closes the breaker nor counts nor opens nor resets  *)
(* keeps every thread that was pending where it stays pending.             *)
LEMMA StepTrips ==
  ASSUME IInv, NEW t \in Thread, Step(t)
  PROVE  FullCountTrips'
<1>1. TypeOK /\ Threshold \in Nat \ {0}
  BY ThresholdAssumption DEF IInv
<1>2. SUFFICES ASSUME state' = "CLOSED", failures' >= Threshold
               PROVE  \E u \in Thread : Pending(u)'
  BY DEF FullCountTrips, Pending
<1>3. CASE state # "CLOSED"
  <2>1. TransitionToClosed(t)
    BY <1>2, <1>3
    DEF Step, LoadState, CheckTimeout, TransitionToHalfOpen, Process, JudgeSuccess,
        ResetFailures, CountFailure, StampFailure, IfClosed, IfFull, IfHalfOpen,
        TransitionToOpen, shared
  <2>2. pc'[t] = "reset"
    BY <1>1, <2>1, GotoProperties DEF TransitionToClosed, Locations
  <2> QED
    BY <2>2 DEF Pending
<1>4. CASE state = "CLOSED" /\ CountFailure(t)
  <2>1. pc'[t] = "stamp"
    BY <1>1, <1>4, GotoProperties DEF CountFailure, Locations
  <2> QED
    BY <2>1 DEF Pending
<1>5. CASE state = "CLOSED" /\ ~CountFailure(t)
  <2>1. failures >= Threshold /\ ~ResetFailures(t) /\ ~TransitionToOpen(t)
    BY <1>1, <1>2, <1>5
    DEF Step, LoadState, CheckTimeout, TransitionToHalfOpen, Process, JudgeSuccess,
        TransitionToClosed, ResetFailures, StampFailure, IfClosed, IfFull, IfHalfOpen,
        TransitionToOpen, shared
  <2>2. PICK u \in Thread : Pending(u)
    BY <1>5, <2>1 DEF IInv, FullCountTrips, Pending
  <2>3. CASE u # t
    <3>1. pc'[u] = pc[u]
      BY <1>1, <2>3
      DEF TypeOK, Step, Goto, LoadState, CheckTimeout, TransitionToHalfOpen,
          Process, JudgeSuccess, TransitionToClosed, ResetFailures, CountFailure,
          StampFailure, IfClosed, IfFull, IfHalfOpen, TransitionToOpen
    <3> QED
      BY <2>2, <3>1 DEF Pending
  <2>4. CASE u = t
    <3>1. StampFailure(t) \/ IfClosed(t) \/ IfFull(t)
      BY <1>1, <1>5, <2>1, <2>2, <2>4
      DEF TypeOK, Step, Goto, Pending, LoadState, CheckTimeout, TransitionToHalfOpen,
          Process, JudgeSuccess, TransitionToClosed, ResetFailures, CountFailure,
          IfHalfOpen, TransitionToOpen
    <3>2. pc'[t] \in {"if_closed", "if_full", "open"}
      BY <1>1, <1>5, <2>1, <3>1 DEF TypeOK, Goto, StampFailure, IfClosed, IfFull
    <3> QED
      BY <3>2 DEF Pending
  <2> QED
    BY <2>3, <2>4
<1> QED
  BY <1>3, <1>4, <1>5

LEMMA NextInvariant == IInv /\ [Next]_vars => IInv'
<1> SUFFICES ASSUME IInv, [Next]_vars
             PROVE  IInv'
  OBVIOUS
<1>1. ASSUME NEW t \in Thread, Step(t)
      PROVE  IInv'
  BY <1>1, StepTypes, StepTrips DEF IInv
<1>2. CASE Tick
  <2>1. elapsed' \in 0 .. Timeout
    BY <1>2, TimeoutAssumption, UpToProperties DEF Tick, IInv, TypeOK
  <2> QED
    BY <1>2, <2>1 DEF Tick, IInv, TypeOK, FullCountTrips
<1>3. CASE UNCHANGED vars
  BY <1>3 DEF vars, shared, IInv, TypeOK, FullCountTrips
<1> QED
  BY <1>1, <1>2, <1>3 DEF Next

(* The variables of the breaker keep their types.                          *)
THEOREM TypeCorrect == Spec => []TypeOK
<1>1. IInv => TypeOK
  BY DEF IInv
<1> QED
  BY <1>1, InitInvariant, NextInvariant, PTL DEF Spec

(* However failures, successes and resets race, a count that has reached   *)
(* the threshold is never lost on a breaker left closed.                   *)
THEOREM FullCountAlwaysTrips == Spec => []FullCountTrips
<1>1. IInv => FullCountTrips
  BY DEF IInv
<1> QED
  BY <1>1, InitInvariant, NextInvariant, PTL DEF Spec

(* A step from a cooling breaker leaves it cooling, or ends the timeout.   *)
LEMMA CoolingStep ==
  ASSUME TypeOK, Cooling, [Next]_vars
  PROVE  Cooling' \/ elapsed' = Timeout
<1>1. CASE Tick
  <2>1. elapsed' < Timeout \/ elapsed' = Timeout
    BY <1>1, TimeoutAssumption, UpToProperties DEF Tick, TypeOK
  <2> QED
    BY <1>1, <2>1 DEF Tick, Cooling
<1>2. ASSUME NEW t \in Thread, Step(t)
      PROVE  Cooling'
  <2>1. LoadState(t) \/ CheckTimeout(t)
    BY <1>2
    DEF TypeOK, Step, Goto, Cooling, LoadState, CheckTimeout, TransitionToHalfOpen,
        Process, JudgeSuccess, TransitionToClosed, ResetFailures, CountFailure,
        StampFailure, IfClosed, IfFull, IfHalfOpen, TransitionToOpen
  <2>2. UNCHANGED shared
    BY <2>1 DEF LoadState, CheckTimeout
  <2>3. pc'[t] \in {"idle", "expiry"} /\ \A u \in Thread \ {t} : pc'[u] = pc[u]
    BY <2>1, TimeoutAssumption DEF TypeOK, Cooling, LoadState, CheckTimeout, Goto
  <2> QED
    BY <2>2, <2>3 DEF Cooling, shared
<1>3. CASE UNCHANGED vars
  BY <1>3 DEF vars, shared, Cooling
<1> QED
  BY <1>1, <1>2, <1>3 DEF Next

(* Once in-flight requests are over, an open breaker admits nobody until   *)
(* the timeout since the last failure has passed.                          *)
THEOREM CoolingHolds == Spec => CoolingLastsTheTimeout
<1>1. TypeOK /\ [Next]_vars => [Cooling => Cooling' \/ elapsed' = Timeout]_vars
  BY CoolingStep
<1> QED
  BY <1>1, TypeCorrect, PTL DEF Spec, CoolingLastsTheTimeout
=============================================================================
