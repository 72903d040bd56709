-------------------------- MODULE RemediationPipeline --------------------------
(***************************************************************************)
(* PipelineOrchestrator of src/shieldops/pipeline/orchestrator.py: an      *)
(* alert's run recommends actions (pipeline/recommender.py), executes the  *)
(* ones that are approved by their confidence, and leaves the rest to      *)
(* approve_recommendations().  Operators' own actions                      *)
(* (api/routes/remediation_actions.py) write to the same cluster.          *)
(*                                                                         *)
(* A task is the coroutine of a run or of one approval; it executes its    *)
(* recommendations one after the other.  run_pipeline() does not suspend   *)
(* before its first call of the gate, so the statuses up to there are seen *)
(* by nobody.                                                              *)
(***************************************************************************)
EXTENDS K8sExecutor, FiniteSets

CONSTANTS
  Alerts,        \* each starts one run
  Approvals,     \* calls of approve_recommendations()
  RunOf,         \* the run of each approval
  IndexLists,    \* the indices each approval may name, none of them twice
  Orders,        \* calls of POST /remediation/actions
  OrderRequests, \* what these may ask for
  Hypotheses,    \* of each alert's investigation, by falling confidence
  Service,       \* the service each alert names
  Protected,     \* alerts from a namespace in PROTECTED_NAMESPACES
  MaxCalls       \* bound: how many of the approvals and orders are made

Tasks == Alerts \cup Approvals

ASSUME PipelineAssumption ==
  /\ Alerts \cap Approvals = {}
  /\ RunOf \in [Approvals -> Alerts]
  /\ \A p \in Approvals : \A is \in IndexLists[p] :
       is \in Seq(Nat \ {0}) /\ is # <<>> /\ IsInjective(is)
  /\ \A a \in Alerts : Hypotheses[a] \in Seq([title : STRING, confident : BOOLEAN])
  /\ \A a \in Alerts : Tasks \X DOMAIN Hypotheses[a] \subseteq Executions
  /\ Orders = Revocable /\ Orders \subseteq Executions
  /\ Orders \cap (Tasks \X Nat) = {}
  /\ OrderRequests \subseteq Requests
  /\ {Service[a] : a \in Alerts} \cup {"coredns"} \subseteq Targets
  /\ MaxCalls \in Nat

VARIABLES
  recs,        \* PipelineRun.remediation_actions
  runStatus,   \* PipelineRun.status; "none" before the run is in _runs
  at,          \* where a task is suspended
  todo,        \* the recommendations a task has before it
  anyFailed,   \* any_failed of each task
  override,    \* whether the action map still has its target_override
  explicit,    \* history: approvals that named indices
  overlapped   \* history: runs of which two tasks were under way at once

pipelineVars == <<recs, runStatus, at, todo, anyFailed, override, explicit, overlapped>>
vars == <<executorVars, pipelineVars>>

Recommendations ==
  [action : K8sActionType, target : Targets, auto : BOOLEAN, executed : BOOLEAN]

PipelineTypeOK ==
  /\ recs \in [Alerts -> Seq(Recommendations)]
  /\ \A a \in Alerts : DOMAIN recs[a] \subseteq DOMAIN Hypotheses[a]
  /\ runStatus \in [Alerts -> {"none", "remediating", "completed", "failed"}]
  /\ at \in [Tasks -> {"idle", "gate", "execute", "ended", "raised"}]
  /\ todo \in [Tasks -> Seq(Nat \ {0})]
  /\ anyFailed \in [Tasks -> BOOLEAN]
  /\ override \in BOOLEAN
  /\ explicit \in SUBSET Approvals
  /\ overlapped \in SUBSET Alerts

AlertOf(t) == IF t \in Alerts THEN t ELSE RunOf[t]

TasksOf(a) == {t \in Tasks : AlertOf(t) = a}

Busy(t) == at[t] \in {"gate", "execute"}

Current(t) == <<t, Head(todo[t])>>

PipelineInit ==
  /\ ExecutorInit
  /\ recs = [a \in Alerts |-> <<>>]
  /\ runStatus = [a \in Alerts |-> "none"]
  /\ at = [t \in Tasks |-> "idle"]
  /\ todo = [t \in Tasks |-> <<>>]
  /\ anyFailed = [t \in Tasks |-> FALSE]
  /\ override = TRUE
  /\ explicit = {}
  /\ overlapped = {}

-----------------------------------------------------------------------------

(* The positions of a list that a loop does not skip, in their order. *)
InOrder(positions) ==
  CHOOSE s \in [1 .. Cardinality(positions) -> positions] :
    \A i, j \in DOMAIN s : i < j => s[i] < s[j]

(* _HYPOTHESIS_ACTION_MAP.  A hypothesis with another title, or that is    *)
(* manual only, yields no recommendation.                                  *)
ActionFor ==
  [deployment_regression |-> "rollback_deployment",
   memory_leak |-> "update_resource_limits",
   oom |-> "update_resource_limits",
   crashloopbackoff |-> "restart_deployment",
   cpu_resource_exhaustion |-> "scale_deployment",
   node_issue |-> "cordon_node",
   dns_resolution_issue |-> "restart_deployment"]

Mapped(a) ==
  LET order == InOrder({i \in DOMAIN Hypotheses[a] :
                          Hypotheses[a][i].title \in DOMAIN ActionFor})
  IN  [i \in DOMAIN order |-> Hypotheses[a][order[i]]]

IsDns(h) == h.title = "dns_resolution_issue"

(* recommend().  The target_override is popped from the map by the first    *)
(* hypothesis that uses it, for the life of the process.                    *)
Recommend(a) ==
  [i \in DOMAIN Mapped(a) |->
     LET h == Mapped(a)[i]
     IN  [action |-> ActionFor[h.title],
          target |-> IF /\ IsDns(h) /\ override
                        /\ \A j \in 1 .. i - 1 : ~IsDns(Mapped(a)[j])
                     THEN "coredns" ELSE Service[a],
          auto |-> h.confident,
          executed |-> FALSE]]

Final(failed) == IF failed THEN "failed" ELSE "completed"

(* Mutant: the loop of run_pipeline() does not skip. *)
ForTheRunAll(rs) == InOrder(DOMAIN rs)

(* What run_pipeline() executes ... *)
ForTheRun(rs) == InOrder({i \in DOMAIN rs : rs[i].auto})

(* Mutant: an approval executes what an earlier one has executed. *)
PendingMarkless(rs) == InOrder({i \in DOMAIN rs : ~rs[i].auto})

(* ... and what an approval without indices does. *)
Pending(rs) == InOrder({i \in DOMAIN rs : ~rs[i].auto /\ ~rs[i].executed})

(* A task begins with its first recommendation, or has none and is over.    *)
Begin(t, chosen) ==
  LET a == AlertOf(t)
  IN  /\ todo' = [todo EXCEPT ![t] = chosen]
      /\ at' = [at EXCEPT ![t] = IF chosen = <<>> THEN "ended" ELSE "gate"]
      /\ runStatus' = [runStatus EXCEPT ![a] =
                         IF chosen = <<>> THEN "completed" ELSE "remediating"]
      /\ overlapped' = IF \E o \in TasksOf(a) : Busy(o)
                       THEN overlapped \cup {a} ELSE overlapped

(* run_pipeline() up to its first await. *)
RunPipeline(a) ==
  /\ at[a] = "idle"
  /\ recs' = [recs EXCEPT ![a] = Recommend(a)]
  /\ override' = (override /\ \A i \in DOMAIN Mapped(a) : ~IsDns(Mapped(a)[i]))
  /\ Begin(a, ForTheRun(Recommend(a)))
  /\ UNCHANGED <<executorVars, anyFailed, explicit>>

Called == {p \in Approvals : at[p] # "idle"} \cup {o \in Orders : step[o] # "new"}

(* approve_recommendations() without indices, or with an empty list.  The  *)
(* status of the run is not looked at.                                     *)
ApprovePending(p) ==
  /\ Cardinality(Called) < MaxCalls
  /\ at[p] = "idle" /\ runStatus[RunOf[p]] # "none"
  /\ Begin(p, Pending(recs[RunOf[p]]))
  /\ UNCHANGED <<executorVars, recs, anyFailed, override, explicit>>

(* With indices, of whatever recommendations; one that is out of range      *)
(* raises after the status was set.                                        *)
ApproveIndices(p, is) ==
  LET a == RunOf[p]
  IN  /\ Cardinality(Called) < MaxCalls
      /\ at[p] = "idle" /\ runStatus[a] # "none"
      /\ IF ToSet(is) \subseteq DOMAIN recs[a]
         THEN /\ Begin(p, is)
              /\ explicit' = explicit \cup {p}
         ELSE /\ at' = [at EXCEPT ![p] = "raised"]
              /\ runStatus' = [runStatus EXCEPT ![a] = "remediating"]
              /\ UNCHANGED <<todo, overlapped, explicit>>
      /\ UNCHANGED <<executorVars, recs, anyFailed, override>>

-----------------------------------------------------------------------------
(* _execute_recommendation() and the loop around it.                       *)

RequestOf(t) ==
  LET r == recs[AlertOf(t)][Head(todo[t])]
  IN  [action |-> r.action, target |-> r.target,
       breaksRule |-> AlertOf(t) \in Protected]

(* The recommendation has its result; the next one, or the final status.    *)
Proceed(t, failed) ==
  LET a == AlertOf(t)
      worse == anyFailed[t] \/ failed
  IN  /\ recs' = [recs EXCEPT ![a][Head(todo[t])].executed = TRUE]
      /\ anyFailed' = [anyFailed EXCEPT ![t] = worse /\ Len(todo[t]) > 1]
      /\ todo' = [todo EXCEPT ![t] = Tail(@)]
      /\ IF Len(todo[t]) = 1
         THEN /\ at' = [at EXCEPT ![t] = "ended"]
              /\ runStatus' = [runStatus EXCEPT ![a] = Final(worse)]
         ELSE at' = [at EXCEPT ![t] = "gate"] /\ UNCHANGED runStatus
      /\ UNCHANGED <<override, explicit, overlapped>>

(* Mutant: the handler of run_pipeline() is missing. *)
GiveUpUnhandled(t) ==
  /\ at' = [at EXCEPT ![t] = "raised"]
  /\ UNCHANGED <<recs, runStatus, todo, anyFailed, override, explicit, overlapped>>

(* An exception ends the run as failed; that of an approval is its caller's.*)
GiveUp(t) ==
  /\ IF t \in Alerts
     THEN /\ at' = [at EXCEPT ![t] = "ended"]
          /\ runStatus' = [runStatus EXCEPT ![t] = "failed"]
     ELSE at' = [at EXCEPT ![t] = "raised"] /\ UNCHANGED runStatus
  /\ UNCHANGED <<recs, todo, anyFailed, override, explicit, overlapped>>

(* The orchestrator's own gate answers; if it allows, execute() begins.     *)
GateAnswers(t) ==
  /\ at[t] = "gate"
  /\ \E v \in Verdicts(RequestOf(t)) :
       IF v = "denied"
       THEN Proceed(t, FALSE) /\ UNCHANGED executorVars
       ELSE /\ Execute(Current(t), RequestOf(t))
            /\ IF step'[Current(t)] = "raised"
               THEN GiveUp(t)
               ELSE /\ at' = [at EXCEPT ![t] = "execute"]
                    /\ UNCHANGED <<recs, runStatus, todo, anyFailed, override,
                                   explicit, overlapped>>

(* A step of execute(); when it returns or raises, the task goes on at once.*)
ExecuteStep(t) ==
  /\ at[t] = "execute"
  /\ Executing(Current(t))
  /\ CASE step'[Current(t)] = "done"   -> Proceed(t, status'[Current(t)] = "failed")
       [] step'[Current(t)] = "raised" -> GiveUp(t)
       [] OTHER                        -> UNCHANGED pipelineVars

TaskStep(t) == GateAnswers(t) \/ ExecuteStep(t)

-----------------------------------------------------------------------------
(* The endpoints of remediation_actions.py, with an executor of their own.  *)

ExecuteAction(o) ==
  /\ Cardinality(Called) < MaxCalls
  /\ \E req \in OrderRequests : Execute(o, req)
  /\ UNCHANGED pipelineVars

OrderStep(o) == Executing(o) /\ UNCHANGED pipelineVars

RollbackEndpoint(o) == RollbackAction(o) /\ UNCHANGED pipelineVars

PipelineNext ==
  \/ \E a \in Alerts : RunPipeline(a)
  \/ \E p \in Approvals :
       ApprovePending(p) \/ \E is \in IndexLists[p] : ApproveIndices(p, is)
  \/ \E t \in Tasks : TaskStep(t)
  \/ \E o \in Orders : ExecuteAction(o) \/ OrderStep(o) \/ RollbackEndpoint(o)

(* The event loop resumes a coroutine whose call is over, every call has a *)
(* timeout, and verify_health() has a deadline.  Nobody has to ask.        *)
PipelineSpec ==
  /\ PipelineInit /\ [][PipelineNext]_vars
  /\ \A t \in Tasks : WF_vars(TaskStep(t))
  /\ \A o \in Orders : WF_vars(OrderStep(o))

-----------------------------------------------------------------------------

(* orchestrator.py:53, "For auto-approved recommendations": what a run      *)
(* writes by itself was approved by its confidence, and nothing is written  *)
(* that a built-in rule of the gate denies, whatever OPA and approvers do.  *)
WritesAuthorised ==
  \A e \in written :
    /\ ~request[e].breaksRule
    /\ \A a \in Alerts : \A i \in DOMAIN recs[a] : e = <<a, i>> => recs[a][i].auto

(* executed of RemediationRecommendation: no two tasks of a run write the   *)
(* same recommendation, unless tasks of the run overlap, an approval names  *)
(* it, or the exception of an earlier write kept it unmarked.               *)
ExecutedOnce ==
  \A a \in Alerts \ overlapped : \A t, u \in TasksOf(a) : \A i \in DOMAIN recs[a] :
    t # u /\ {<<t, i>>, <<u, i>>} \subseteq written =>
      {t, u} \cap explicit # {} \/ "raised" \in {step[<<t, i>>], step[<<u, i>>]}

Settled(a) == runStatus[a] \in {"completed", "failed"}

Stuck(a) == \E p \in Approvals : RunOf[p] = a /\ at[p] = "raised"

(* PipelineRun.status against the work: a run says that it is remediating   *)
(* while a task of it is at work, and says that it is over when none is,    *)
(* unless tasks overlapped or an approval ended in an exception.            *)
StatusMatchesWork ==
  \A a \in Alerts :
    LET busy == \E t \in TasksOf(a) : Busy(t)
    IN  /\ runStatus[a] = "remediating" => busy \/ Stuck(a)
        /\ Settled(a) /\ busy => a \in overlapped

(* A run that was started comes to its end, however often health checks     *)
(* fail, restores are refused and approvals arrive.                         *)
RunSettles ==
  \A a \in Alerts : runStatus[a] = "remediating" ~> Settled(a) \/ Stuck(a)
=============================================================================
