---------------------------- MODULE CircuitBreaker ----------------------------
(***************************************************************************)
(* The circuit breaker of src/shieldops/utils/resilience.py around calls   *)
(* to one external service.                                                *)
(*                                                                         *)
(* The breaker is plain state without a lock: a call is admitted, awaits   *)
(* the service, and records its outcome in whatever state the breaker is   *)
(* in by then.  OPEN becomes HALF_OPEN lazily, when the next call looks at *)
(* it.  A cancelled call records nothing, for CancelledError is not an     *)
(* Exception.  Time is abstracted to whether recovery_timeout has elapsed  *)
(* since the breaker opened.                                               *)
(***************************************************************************)
EXTENDS Naturals, FiniteSets

CONSTANTS
  Callers,           \* tasks that call the service, one call at a time each
  FailureThreshold,  \* failure_threshold
  HalfOpenMaxCalls,  \* half_open_max_calls
  MaxCancels         \* bound of the model: calls that are cancelled

ASSUME BreakerAssumption ==
  /\ FailureThreshold \in Nat \ {0}
  /\ HalfOpenMaxCalls \in Nat \ {0}
  /\ MaxCancels \in Nat

VARIABLES
  breaker,    \* _state
  recovered,  \* recovery_timeout seconds have passed since _opened_at
  failures,   \* _failure_count, up to FailureThreshold
  probes,     \* _half_open_calls
  pending,    \* the callers whose call awaits the service
  probing,    \* of these, the ones admitted since the breaker is HALF_OPEN
  cancels     \* calls cancelled so far

breakerVars == <<breaker, recovered, failures, probes, pending, probing, cancels>>

BreakerTypeOK ==
  /\ breaker \in {"closed", "open", "half_open"}
  /\ recovered \in BOOLEAN
  /\ failures \in 0 .. FailureThreshold
  /\ probes \in 0 .. HalfOpenMaxCalls
  /\ pending \in SUBSET Callers
  /\ probing \in SUBSET pending
  /\ cancels \in 0 .. MaxCancels

BreakerInit ==
  /\ breaker = "closed"
  /\ recovered = FALSE
  /\ failures = 0
  /\ probes = 0
  /\ pending = {}
  /\ probing = {}
  /\ cancels = 0

-----------------------------------------------------------------------------

(* The property state: what the next call finds. *)
State == IF breaker = "open" /\ recovered THEN "half_open" ELSE breaker

(* call() raises CircuitOpenError unless this holds. *)
Admits ==
  State = "closed" \/ (State = "half_open" /\ probes < HalfOpenMaxCalls)

(* Mutant: probes are let through without being counted. *)
AdmitUncounted(c) ==
  /\ c \notin pending
  /\ Admits
  /\ breaker' = State
  /\ pending' = pending \cup {c}
  /\ probing' = IF State = "half_open" THEN probing \cup {c} ELSE probing
  /\ UNCHANGED <<recovered, failures, probes, cancels>>

(* call() up to its await. *)
Admit(c) ==
  /\ c \notin pending
  /\ Admits
  /\ breaker' = State
  /\ pending' = pending \cup {c}
  /\ IF State = "half_open"
     THEN probes' = probes + 1 /\ probing' = probing \cup {c}
     ELSE UNCHANGED <<probes, probing>>
  /\ UNCHANGED <<recovered, failures, cancels>>

(* CircuitOpenError: nothing is recorded. *)
Refuse(c) ==
  /\ c \notin pending
  /\ ~Admits
  /\ UNCHANGED breakerVars

(* Mutant: a successful probe closes the breaker on its old count. *)
SucceedOldCount(c) ==
  /\ c \in pending
  /\ pending' = pending \ {c}
  /\ IF breaker = "half_open"
     THEN /\ breaker' = "closed" /\ probes' = 0 /\ probing' = {}
          /\ UNCHANGED failures
     ELSE /\ probing' = probing \ {c}
          /\ failures' = IF breaker = "closed" THEN 0 ELSE failures
          /\ UNCHANGED <<breaker, probes>>
  /\ UNCHANGED <<recovered, cancels>>

(* Mutant: a successful probe gives its slot back and closes nothing. *)
SucceedClosedOnly(c) ==
  /\ c \in pending
  /\ pending' = pending \ {c}
  /\ IF breaker = "half_open"
     THEN probes' = 0 /\ probing' = {} /\ UNCHANGED failures
     ELSE /\ probing' = probing \ {c}
          /\ failures' = IF breaker = "closed" THEN 0 ELSE failures
          /\ UNCHANGED probes
  /\ UNCHANGED <<breaker, recovered, cancels>>

(* _record_success(), whichever state the call was admitted in.            *)
Succeed(c) ==
  /\ c \in pending
  /\ pending' = pending \ {c}
  /\ IF breaker = "half_open"
     THEN breaker' = "closed" /\ failures' = 0 /\ probes' = 0 /\ probing' = {}
     ELSE /\ probing' = probing \ {c}
          /\ failures' = IF breaker = "closed" THEN 0 ELSE failures
          /\ UNCHANGED <<breaker, probes>>
  /\ UNCHANGED <<recovered, cancels>>

(* The count after one more failure.  The code counts on past the          *)
(* threshold, but compares the count in CLOSED only, where it is below.    *)
OneMoreFailure ==
  IF failures < FailureThreshold THEN failures + 1 ELSE failures

Trips == breaker = "half_open" \/ (breaker = "closed" /\ OneMoreFailure >= FailureThreshold)

(* Mutant: reopening keeps the slots of the probes occupied. *)
FailKeepsSlots(c) ==
  /\ c \in pending
  /\ pending' = pending \ {c}
  /\ failures' = OneMoreFailure
  /\ IF Trips
     THEN breaker' = "open" /\ recovered' = FALSE /\ probing' = {}
     ELSE probing' = probing \ {c} /\ UNCHANGED <<breaker, recovered>>
  /\ UNCHANGED <<probes, cancels>>

(* _record_failure(), whichever state the call was admitted in.            *)
Fail(c) ==
  /\ c \in pending
  /\ pending' = pending \ {c}
  /\ failures' = OneMoreFailure
  /\ IF Trips
     THEN breaker' = "open" /\ recovered' = FALSE /\ probing' = {}
     ELSE probing' = probing \ {c} /\ UNCHANGED <<breaker, recovered>>
  /\ probes' = IF breaker = "half_open" THEN 0 ELSE probes
  /\ UNCHANGED cancels

(* The calling task is cancelled while it awaits the service: neither      *)
(* record function runs.                                                   *)
Cancel(c) ==
  /\ c \in pending
  /\ cancels < MaxCancels
  /\ cancels' = cancels + 1
  /\ pending' = pending \ {c}
  /\ probing' = probing \ {c}
  /\ UNCHANGED <<breaker, recovered, failures, probes>>

(* recovery_timeout elapses; no code runs. *)
Recover ==
  /\ breaker = "open" /\ ~recovered
  /\ recovered' = TRUE
  /\ UNCHANGED <<breaker, failures, probes, pending, probing, cancels>>

(* reset(): for an operator; the policy engine does not call it.           *)
Reset ==
  /\ breaker' = "closed"
  /\ failures' = 0
  /\ probes' = 0
  /\ probing' = {}
  /\ UNCHANGED <<recovered, pending, cancels>>

-----------------------------------------------------------------------------

BreakerNext ==
  \/ \E c \in Callers :
       Admit(c) \/ Refuse(c) \/ Succeed(c) \/ Fail(c) \/ Cancel(c)
  \/ Recover
  \/ Reset

BreakerSpec == BreakerInit /\ [][BreakerNext]_breakerVars

-----------------------------------------------------------------------------

(* "Up to half_open_max_calls probe requests are allowed through", however *)
(* many calls admitted before are still on their way and whenever they     *)
(* record their outcome.                                                   *)
ProbeBound == Cardinality(probing) <= HalfOpenMaxCalls

(* A slot of the half-open breaker is taken by a call on its way, or was   *)
(* lost to a cancelled one: no outcome, however late, loses a slot.        *)
SlotsAccounted == probes <= Cardinality(probing) + cancels

(* Recovery is complete: a closed breaker is always at least one failure   *)
(* away from tripping, and has no probe slot in use.                       *)
ToleranceRestored ==
  breaker = "closed" => failures < FailureThreshold /\ probes = 0
=============================================================================
