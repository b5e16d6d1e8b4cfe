--------------------------- MODULE CircuitBreaker ---------------------------
(***************************************************************************)
(* src/patterns/CircuitBreaker.cpp, shared by the client threads of the    *)
(* server (src/network/TCPServer.cpp, handle_client_simulation).  There is *)
(* no lock: each step below is one load or one store of a shared variable, *)
(* and the threads interleave between any two of them.                     *)
(***************************************************************************)
EXTENDS Integers

CONSTANTS Thread,        \* the client threads
          Threshold,     \* failure_threshold_
          Timeout        \* timeout_ms_, in ticks of the clock

ASSUME ThresholdAssumption == Threshold \in Nat \ {0}
ASSUME TimeoutAssumption == Timeout \in Nat \ {0}

VARIABLES state,         \* state_
          failures,      \* failure_count_, counted up to the threshold
          elapsed,       \* time since last_failure_time_, up to the timeout
          pc             \* per thread: where it is

shared == <<state, failures, elapsed>>
vars == <<shared, pc>>

(* The code compares the two counters with these bounds only, so that what *)
(* lies beyond them is all one.                                            *)
UpTo(n, bound) == IF n < bound THEN n ELSE bound

Goto(t, from, to) == pc[t] = from /\ pc' = [pc EXCEPT ![t] = to]

-----------------------------------------------------------------------------
(* allow_request                                                           *)

LoadState(t) ==
  /\ \/ state = "OPEN" /\ Goto(t, "idle", "expiry")
     \/ state # "OPEN" /\ Goto(t, "idle", "request")
  /\ UNCHANGED shared

(* Mutant: the timeout is one tick too short. *)
CheckTimeoutTooShort(t) ==
  /\ \/ elapsed >= Timeout - 1 /\ Goto(t, "expiry", "half_open")
     \/ elapsed < Timeout - 1 /\ Goto(t, "expiry", "idle")
  /\ UNCHANGED shared

(* Mutant: a refused request counts as a failure and restarts the timeout. *)
CheckTimeoutAndRestart(t) ==
  /\ \/ elapsed >= Timeout /\ Goto(t, "expiry", "half_open") /\ UNCHANGED elapsed
     \/ elapsed < Timeout /\ Goto(t, "expiry", "idle") /\ elapsed' = 0
  /\ UNCHANGED <<state, failures>>

(* is_timeout_expired; a request that is refused ends here.                *)
CheckTimeout(t) ==
  /\ \/ elapsed >= Timeout /\ Goto(t, "expiry", "half_open")
     \/ elapsed < Timeout /\ Goto(t, "expiry", "idle")
  /\ UNCHANGED shared

TransitionToHalfOpen(t) ==
  /\ Goto(t, "half_open", "request")
  /\ state' = "HALF_OPEN"
  /\ UNCHANGED <<failures, elapsed>>

(* process_command, which succeeds or not.                                 *)
Process(t) ==
  /\ Goto(t, "request", "succeeded") \/ Goto(t, "request", "failed")
  /\ UNCHANGED shared

-----------------------------------------------------------------------------
(* record_success                                                          *)

(* Mutant: a success takes a failure back from the count. *)
JudgeSuccessTakingBack(t) ==
  /\ Goto(t, "succeeded", "idle")
  /\ failures' = failures - 1
  /\ UNCHANGED <<state, elapsed>>

(* Mutant: the success of a probe is not noticed. *)
JudgeSuccessNever(t) ==
  /\ Goto(t, "succeeded", "idle")
  /\ UNCHANGED shared

JudgeSuccess(t) ==
  /\ \/ state = "HALF_OPEN" /\ Goto(t, "succeeded", "close")
     \/ state # "HALF_OPEN" /\ Goto(t, "succeeded", "idle")
  /\ UNCHANGED shared

(* Mutant: the failure count is not reset. *)
TransitionToClosedWithoutReset(t) ==
  /\ Goto(t, "close", "idle")
  /\ state' = "CLOSED"
  /\ UNCHANGED <<failures, elapsed>>

(* transition_to_closed makes two stores, the state first.                 *)
TransitionToClosed(t) ==
  /\ Goto(t, "close", "reset")
  /\ state' = "CLOSED"
  /\ UNCHANGED <<failures, elapsed>>

ResetFailures(t) ==
  /\ Goto(t, "reset", "idle")
  /\ failures' = 0
  /\ UNCHANGED <<state, elapsed>>

-----------------------------------------------------------------------------
(* record_failure                                                          *)

CountFailure(t) ==
  /\ Goto(t, "failed", "stamp")
  /\ failures' = UpTo(failures + 1, Threshold)
  /\ UNCHANGED <<state, elapsed>>

StampFailure(t) ==
  /\ Goto(t, "stamp", "if_closed")
  /\ elapsed' = 0
  /\ UNCHANGED <<state, failures>>

(* The condition loads the state, the count, and the state again for the   *)
(* else branch.                                                            *)
IfClosed(t) ==
  /\ \/ state = "CLOSED" /\ Goto(t, "if_closed", "if_full")
     \/ state # "CLOSED" /\ Goto(t, "if_closed", "if_half_open")
  /\ UNCHANGED shared

IfFull(t) ==
  /\ \/ failures >= Threshold /\ Goto(t, "if_full", "open")
     \/ failures < Threshold /\ Goto(t, "if_full", "if_half_open")
  /\ UNCHANGED shared

IfHalfOpen(t) ==
  /\ \/ state = "HALF_OPEN" /\ Goto(t, "if_half_open", "open")
     \/ state # "HALF_OPEN" /\ Goto(t, "if_half_open", "idle")
  /\ UNCHANGED shared

TransitionToOpen(t) ==
  /\ Goto(t, "open", "idle")
  /\ state' = "OPEN"
  /\ UNCHANGED <<failures, elapsed>>

-----------------------------------------------------------------------------
Tick ==
  /\ elapsed' = UpTo(elapsed + 1, Timeout)
  /\ UNCHANGED <<state, failures, pc>>

Init ==
  /\ state = "CLOSED" /\ failures = 0 /\ elapsed = Timeout
  /\ pc = [t \in Thread |-> "idle"]

Step(t) ==
  \/ LoadState(t) \/ CheckTimeout(t) \/ TransitionToHalfOpen(t)
  \/ Process(t)
  \/ JudgeSuccess(t) \/ TransitionToClosed(t) \/ ResetFailures(t)
  \/ CountFailure(t) \/ StampFailure(t)
  \/ IfClosed(t) \/ IfFull(t) \/ IfHalfOpen(t) \/ TransitionToOpen(t)

Next == Tick \/ \E t \in Thread : Step(t)

Spec == Init /\ [][Next]_vars

(* The clock goes on, and a request once begun ends.  Nobody has to begin  *)
(* another one: each client of the server makes ten and leaves.            *)
FairSpec ==
  /\ Spec
  /\ WF_vars(Tick)
  /\ \A t \in Thread : WF_vars(pc[t] # "idle" /\ Step(t))

-----------------------------------------------------------------------------
(* Properties.                                                             *)

States == {"CLOSED", "OPEN", "HALF_OPEN"}

Locations == {"idle", "expiry", "half_open", "request", "succeeded", "close", "reset",
              "failed", "stamp", "if_closed", "if_full", "if_half_open", "open"}

(* Types of the variables: one of three states, and a count and an age     *)
(* that are never negative, whatever stores cross.  That they go no higher *)
(* than their bounds is UpTo's doing; the code counts on.                  *)
TypeOK ==
  /\ state \in States
  /\ failures \in 0 .. Threshold
  /\ elapsed \in 0 .. Timeout
  /\ pc \in [Thread -> Locations]

(* A full count is never forgotten: a breaker that is closed although its  *)
(* count has reached the threshold is about to be opened by a thread that  *)
(* counted, or to be reset by one that closed it.  Failures that race with *)
(* each other, and with a reset, cannot leave it closed for good.          *)
FullCountTrips ==
  state = "CLOSED" /\ failures >= Threshold =>
    \E t \in Thread : pc[t] \in {"stamp", "if_closed", "if_full", "open", "reset"}

(* An open breaker to which all threads are outside.                       *)
Cooling ==
  /\ state = "OPEN" /\ elapsed < Timeout
  /\ \A t \in Thread : pc[t] \in {"idle", "expiry"}

(* Once the requests in flight when it opened are over, an open breaker    *)
(* admits nobody before the timeout has passed since the last failure.     *)
CoolingLastsTheTimeout == [][Cooling => Cooling' \/ elapsed' = Timeout]_vars

(* An open breaker ends being open, unless the clients stop asking it: no  *)
(* late failure, and no request that is refused, puts the end of the       *)
(* timeout off for ever.                                                   *)
OpenEnds ==
  state = "OPEN" ~> state # "OPEN" \/ [](\A t \in Thread : pc[t] # "expiry")

(* A breaker does not stay half open for ever, even if nobody comes after  *)
(* the request that made it so: whoever stored HALF_OPEN is still to be    *)
(* judged, and the last one judged closes or opens it.                     *)
HalfOpenEnds == state = "HALF_OPEN" ~> state # "HALF_OPEN"

(* The breaker goes from closed to open, from open to half open, and from  *)
(* there back to either: "Closed -> Open -> Half-Open" in the Readme, and  *)
(* the messages of the transition functions.                               *)
Transitions ==
  {<<"CLOSED", "OPEN">>, <<"OPEN", "HALF_OPEN">>,
   <<"HALF_OPEN", "CLOSED">>, <<"HALF_OPEN", "OPEN">>}

FollowsTransitions == [][state' # state => <<state, state'>> \in Transitions]_vars
=============================================================================
