----------------------------- MODULE PolicyEngine -----------------------------
(***************************************************************************)
(* PolicyEngine.evaluate() of src/shieldops/policy/opa/client.py: the gate *)
(* every agent's action passes.  It reads the rate counters in Redis, asks *)
(* OPA through the circuit breaker, counts what OPA allowed, and denies    *)
(* whenever something fails.  What OPA answers is the rule allow of        *)
(* playbooks/policies/shieldops.rego.                                      *)
(*                                                                         *)
(* The counters per hour, minute and team are read and incremented in the  *)
(* same two places and best-effort all; one stands for them.               *)
(***************************************************************************)
EXTENDS CircuitBreaker

CONSTANTS
  Inputs,     \* the inputs that agents submit
  HourLimit   \* max_actions_per_hour

ASSUME PolicyAssumption ==
  /\ HourLimit \in Nat
  /\ \A i \in Inputs :
       DOMAIN i = {"action", "environment", "risk_level", "approved"}

VARIABLES
  stage,    \* where evaluate() is suspended
  input,    \* what it was asked
  seen,     \* actions_this_hour as it was read
  verdict,  \* PolicyDecision.allowed, once returned
  used      \* the counter in Redis, up to one above the limit

policyVars == <<stage, input, seen, verdict, used>>
engineVars == <<breakerVars, policyVars>>

Stages == {"idle", "reading", "posting", "counting", "returned"}

PolicyTypeOK ==
  /\ BreakerTypeOK
  /\ stage \in [Callers -> Stages]
  /\ input \in [Callers -> Inputs]
  /\ seen \in [Callers -> 0 .. HourLimit + 1]
  /\ verdict \in [Callers -> {"none", "allowed", "denied"}]
  /\ used \in 0 .. HourLimit + 1
  /\ pending = {c \in Callers : stage[c] = "posting"}

PolicyInit ==
  /\ BreakerInit
  /\ stage = [c \in Callers |-> "idle"]
  /\ input \in [Callers -> Inputs]
  /\ seen = [c \in Callers |-> 0]
  /\ verdict = [c \in Callers |-> "none"]
  /\ used = 0

-----------------------------------------------------------------------------

ReadOnlyActions ==
  {"query_logs", "query_metrics", "query_traces", "get_health",
   "list_resources", "get_events", "check_compliance"}

ProductionSafeActions ==
  {"restart_pod", "restart_service", "reboot_instance", "scale_horizontal",
   "force_new_deployment", "update_desired_count", "trigger_renewal"}

ForbiddenActions ==
  {"delete_database", "drop_table", "delete_namespace", "modify_iam_root",
   "disable_logging", "disable_monitoring", "stop_instance"}

(* The rules allow of shieldops.rego.  The rules deny are not among their  *)
(* premises.                                                               *)
Allow(i) ==
  \/ i.action \in ReadOnlyActions
  \/ i.environment \in {"development", "staging"} /\ i.risk_level \in {"low", "medium"}
  \/ /\ i.environment = "production"
     /\ \/ i.risk_level \in {"low", "medium"} /\ i.action \in ProductionSafeActions
        \/ i.risk_level \in {"high", "critical"} /\ i.approved

(* The rules deny on forbidden actions and on the hourly rate. *)
Deny(i, count) == i.action \in ForbiddenActions \/ count > HourLimit

-----------------------------------------------------------------------------

Conclude(c, v) ==
  /\ stage' = [stage EXCEPT ![c] = "returned"]
  /\ verdict' = [verdict EXCEPT ![c] = v]

(* evaluate() up to its first await. *)
Evaluate(c, i) ==
  /\ stage[c] \in {"idle", "returned"}
  /\ stage' = [stage EXCEPT ![c] = "reading"]
  /\ input' = [input EXCEPT ![c] = i]
  /\ verdict' = [verdict EXCEPT ![c] = "none"]
  /\ UNCHANGED <<breakerVars, seen, used>>

(* The last counter is read, as 0 if Redis fails, and without another      *)
(* await the breaker admits or refuses the call.                           *)
Enriched(c) ==
  /\ stage[c] = "reading"
  /\ \E n \in {0, used} : seen' = [seen EXCEPT ![c] = n]
  /\ \/ Admit(c) /\ stage' = [stage EXCEPT ![c] = "posting"] /\ UNCHANGED verdict
     \/ Refuse(c) /\ Conclude(c, "denied")
  /\ UNCHANGED <<input, used>>

(* A response arrived: a success for the breaker, whatever its status code *)
(* is.  The second disjunct is raise_for_status() or an unreadable body.   *)
Answered(c) ==
  /\ stage[c] = "posting"
  /\ Succeed(c)
  /\ \/ Allow(input[c]) /\ stage' = [stage EXCEPT ![c] = "counting"] /\ UNCHANGED verdict
     \/ Conclude(c, "denied")
  /\ UNCHANGED <<input, seen, used>>

(* Mutant: an unreachable OPA does not hold the action up. *)
UnansweredOpen(c) ==
  /\ stage[c] = "posting"
  /\ Fail(c)
  /\ Conclude(c, "allowed")
  /\ UNCHANGED <<input, seen, used>>

(* The connection failed or timed out. *)
Unanswered(c) ==
  /\ stage[c] = "posting"
  /\ Fail(c)
  /\ Conclude(c, "denied")
  /\ UNCHANGED <<input, seen, used>>

CountedOnce == IF used <= HourLimit THEN used + 1 ELSE used

(* The increments are done, or failed and were logged. *)
Counted(c) ==
  /\ stage[c] = "counting"
  /\ used' \in {used, CountedOnce}
  /\ Conclude(c, "allowed")
  /\ UNCHANGED <<breakerVars, input, seen>>

(* The agent's task is cancelled while it awaits OPA, as by the timeout of *)
(* orchestration/parallel_executor.py.                                     *)
Cancelled(c) ==
  /\ stage[c] = "posting"
  /\ Cancel(c)
  /\ stage' = [stage EXCEPT ![c] = "idle"]
  /\ UNCHANGED <<input, seen, verdict, used>>

(* The same while it awaits Redis, before or after an increment. *)
Abandoned(c) ==
  /\ stage[c] \in {"reading", "counting"}
  /\ stage' = [stage EXCEPT ![c] = "idle"]
  /\ used' \in IF stage[c] = "counting" THEN {used, CountedOnce} ELSE {used}
  /\ UNCHANGED <<breakerVars, input, seen, verdict>>

(* The counter of the next hour is another key. *)
NextHour ==
  /\ used' = 0
  /\ UNCHANGED <<breakerVars, stage, input, seen, verdict>>

RecoveryElapses == Recover /\ UNCHANGED policyVars

-----------------------------------------------------------------------------

Evaluation(c) == Enriched(c) \/ Answered(c) \/ Unanswered(c) \/ Counted(c)

EngineNext ==
  \/ \E c \in Callers :
       \/ \E i \in Inputs : Evaluate(c, i)
       \/ Evaluation(c)
       \/ Cancelled(c) \/ Abandoned(c)
  \/ NextHour
  \/ RecoveryElapses

(* The HTTP client gives up after 5 seconds and Redis answers or fails, so *)
(* a suspended evaluate() always goes on; and time passes.                 *)
EngineSpec ==
  /\ PolicyInit /\ [][EngineNext]_engineVars
  /\ \A c \in Callers : WF_engineVars(Evaluation(c))
  /\ WF_engineVars(RecoveryElapses)

-----------------------------------------------------------------------------

(* docs/architecture/policy-engine.md, fail-closed design: an action is    *)
(* allowed only if OPA's rule allows this very input, whatever fails, is   *)
(* refused or is cancelled on the way and whoever else asks meanwhile.     *)
FailClosed ==
  \A c \in Callers : verdict[c] = "allowed" => Allow(input[c])

Disturbed == \E c \in Callers : Unanswered(c) \/ Abandoned(c)

Asking == \E c \in Callers, i \in Inputs : Evaluate(c, i)

(* Once every call is answered and agents go on asking, the breaker closes *)
(* and stays closed, unless a call was cancelled while it awaited OPA.     *)
RecoversWhenUp ==
  (/\ [](cancels = 0)
   /\ <>[][~Disturbed]_engineVars
   /\ []<><<Asking>>_engineVars) => <>[](breaker = "closed")

(* playbooks/policies/shieldops.rego: "Actions that are NEVER allowed      *)
(* (hard deny)".  The engine asks for the rule allow alone.                *)
HardDenyHolds ==
  \A c \in Callers : verdict[c] = "allowed" => ~Deny(input[c], seen[c])
=============================================================================
