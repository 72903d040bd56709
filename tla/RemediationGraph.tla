--------------------------- MODULE RemediationGraph ---------------------------
(***************************************************************************)
(* The remediation agent: the LangGraph workflow of                        *)
(* src/shieldops/agents/remediation/graph.py, its nodes (nodes.py), the    *)
(* toolkit they call (tools.py) and the Kubernetes connector behind it     *)
(* (connectors/kubernetes/connector.py), composed with the approval        *)
(* workflow of module ApprovalWorkflow.                                    *)
(*                                                                         *)
(* Several remediations run as tasks of one event loop, on shared          *)
(* resources.  Every node is one action: the awaits inside a node other    *)
(* than the one call it is named for only read or log.  The node           *)
(* request_approval is the exception: it is suspended in the workflow.     *)
(* What the policy engine, the LLM and the Kubernetes API answer is chosen *)
(* freely among the outcomes the code tells apart.  The policy engine, the *)
(* workflow and the connector router are configured, as in api/app.py.     *)
(***************************************************************************)
EXTENDS RiskAssessment, Sequences

CONSTANTS
  Remediations,  \* calls of the compiled graph, one request id each
  Actions,       \* the RemediationActions they are called with
  Resources,     \* target resources
  Initial,       \* the state of a resource that no remediation has written
  People, NumTargets, MaxAnswers  \* see ApprovalWorkflow

ASSUME GraphAssumption ==
  /\ Actions \subseteq [type : STRING, env : Environments, target : Resources]
  /\ Initial \notin Remediations
  /\ NumTargets \in Nat /\ MaxAnswers \in Nat

VARIABLES
  pc,        \* the next node of each remediation, or "idle" or "end"
  state,     \* RemediationState, the state LangGraph hands to the nodes
  world,     \* the cluster: which remediation wrote a resource last
  written,   \* history: remediations whose write has reached the cluster
  phase, level, status, required, approvals, denials  \* ApprovalWorkflow

Approval == INSTANCE ApprovalWorkflow WITH Requests <- Remediations

workflowVars == <<phase, level, status, required, approvals, denials>>
graphVars == <<pc, state, world, written>>
vars == <<pc, state, world, written,
          phase, level, status, required, approvals, denials>>

Nodes == {"evaluate_policy", "resolve_playbook", "assess_risk",
          "request_approval", "create_snapshot", "execute_action",
          "validate_health", "perform_rollback"}

NoRisk == 0

(* "none" is Python's None.  A snapshot "could_not_capture" is one whose   *)
(* state holds only an error; `before' is what a captured one holds.       *)
RemediationState ==
  [action     : Actions,
   policy     : {"none", "allowed", "denied"},
   playbook   : BOOLEAN,
   risk       : {NoRisk} \cup RiskLevels,
   approval   : {"none"} \cup Approval!Statuses,
   snapshot   : {"none", "could_not_capture", "captured"},
   before     : Remediations \cup {Initial},
   execution  : {"none", "success", "failed"},
   health     : {"none", "healthy", "unhealthy", "unreachable"},
   validation : {"none", "passed", "failed"},
   rollback   : {"none", "success", "failed"},
   step       : Nodes \cup {"init", "rolled_back"}]

InitialState(a) ==
  [action |-> a, policy |-> "none", playbook |-> FALSE, risk |-> NoRisk,
   approval |-> "none", snapshot |-> "none", before |-> Initial,
   execution |-> "none", health |-> "none", validation |-> "none",
   rollback |-> "none", step |-> "init"]

TypeOK ==
  /\ pc \in [Remediations -> Nodes \cup {"idle", "end"}]
  /\ state \in [Remediations -> RemediationState]
  /\ world \in [Resources -> Remediations \cup {Initial}]
  /\ written \in SUBSET Remediations
  /\ Approval!TypeOK

Init ==
  /\ pc = [r \in Remediations |-> "idle"]
  /\ state \in [Remediations -> {InitialState(a) : a \in Actions}]
  /\ world = [res \in Resources |-> Initial]
  /\ written = {}
  /\ Approval!Init

-----------------------------------------------------------------------------

Target(r) == state[r].action.target

GoTo(r, node) == pc' = [pc EXCEPT ![r] = node]

(* ainvoke(): the graph is entered. *)
Invoke(r) ==
  /\ pc[r] = "idle"
  /\ GoTo(r, "evaluate_policy")
  /\ UNCHANGED <<state, world, written, workflowVars>>

(* The policy engine allows or denies, and denies when it fails. *)
EvaluatePolicy(r) ==
  /\ pc[r] = "evaluate_policy"
  /\ \E verdict \in {"allowed", "denied"} :
       /\ state' = [state EXCEPT ![r].policy = verdict,
                                 ![r].step = "evaluate_policy"]
       /\ GoTo(r, IF verdict = "allowed" THEN "resolve_playbook" ELSE "end")
  /\ UNCHANGED <<world, written, workflowVars>>

(* Only whether the matched playbook defines checks matters further on. *)
ResolvePlaybook(r) ==
  /\ pc[r] = "resolve_playbook"
  /\ \E hasChecks \in BOOLEAN :
       state' = [state EXCEPT ![r].playbook = hasChecks,
                              ![r].step = "resolve_playbook"]
  /\ GoTo(r, "assess_risk")
  /\ UNCHANGED <<world, written, workflowVars>>

AssessRisk(r) ==
  /\ pc[r] = "assess_risk"
  /\ \E risk \in AssessedRisks(state[r].action.type, state[r].action.env) :
       /\ state' = [state EXCEPT ![r].risk = risk, ![r].step = "assess_risk"]
       /\ GoTo(r, IF RequiresApproval(risk) THEN "request_approval"
                                            ELSE "create_snapshot")
  /\ UNCHANGED <<world, written, workflowVars>>

(* Mutant: one approval whatever the risk. *)
SubmitRequestForOne(r) ==
  /\ pc[r] = "request_approval"
  /\ Approval!RequestApproval(r, 1)
  /\ UNCHANGED graphVars

(* The node request_approval, up to the call of the workflow ... *)
SubmitRequest(r) ==
  /\ pc[r] = "request_approval"
  /\ Approval!RequestApproval(r, RequiredApprovals(state[r].risk))
  /\ UNCHANGED graphVars

(* ... the steps of the suspended call, and answers from other tasks ...   *)
WorkflowStep(r) ==
  /\ Approval!Coroutine(r)
  /\ UNCHANGED graphVars

Answer(r) ==
  /\ Approval!Answer(r)
  /\ UNCHANGED graphVars

(* ... and what the node makes of the returned status. *)
ApprovalReturned(r) ==
  /\ pc[r] = "request_approval"
  /\ phase[r] = "returned"
  /\ state' = [state EXCEPT ![r].approval = status[r],
                            ![r].step = "request_approval"]
  /\ GoTo(r, IF status[r] = "approved" THEN "create_snapshot" ELSE "end")
  /\ UNCHANGED <<world, written, workflowVars>>

(* The resource is read: the snapshot may hold its state, or an error      *)
(* (ApiException); any other exception leaves the remediation without one  *)
(* and the workflow proceeds.                                              *)
CreateSnapshot(r) ==
  /\ pc[r] = "create_snapshot"
  /\ \E outcome \in {"captured", "could_not_capture", "none"} :
       state' = [state EXCEPT
                   ![r].snapshot = outcome,
                   ![r].before = IF outcome = "captured"
                                 THEN world[Target(r)] ELSE Initial,
                   ![r].step = "create_snapshot"]
  /\ GoTo(r, "execute_action")
  /\ UNCHANGED <<world, written, workflowVars>>

(* Action types of KubernetesConnector.execute_action(); it answers FAILED *)
(* to every other.                                                         *)
SupportedTypes == {"restart_pod", "scale_horizontal", "rollback_deployment"}

(* The call succeeded, or was refused, or its connection was lost, before  *)
(* or after the API server acted: the last two are both reported FAILED.   *)
ExecuteThen(r, onFailure) ==
  /\ pc[r] = "execute_action"
  /\ \E result \in {"success", "failed"}, reached \in BOOLEAN :
       /\ state[r].action.type \notin SupportedTypes
            => result = "failed" /\ ~reached
       /\ result = "success" => reached
       /\ state' = [state EXCEPT ![r].execution = result,
                                 ![r].step = "execute_action"]
       /\ world' = IF reached THEN [world EXCEPT ![Target(r)] = r] ELSE world
       /\ written' = IF reached THEN written \cup {r} ELSE written
       /\ GoTo(r, IF result = "success" THEN "validate_health" ELSE onFailure)
  /\ UNCHANGED workflowVars

(* Mutant: a failed call is sent again. *)
ExecuteActionRetried(r) == ExecuteThen(r, "execute_action")

(* Mutant: no edge from a failed execution to the rollback. *)
ExecuteActionNoRollback(r) == ExecuteThen(r, "end")

ExecuteAction(r) == ExecuteThen(r, "perform_rollback")

(* Checks exist if the health could be read or the playbook has some (its  *)
(* checks are placeholders that always pass).  With checks, the verdict is *)
(* the LLM's, or theirs when the LLM fails; without, there is none.        *)
ValidateHealth(r) ==
  /\ pc[r] = "validate_health"
  /\ \E health \in {"healthy", "unhealthy", "unreachable"},
        llm \in {"passed", "failed", "unavailable"} :
       LET checked == health # "unreachable" \/ state[r].playbook
           allPass == IF health = "unhealthy" THEN "failed" ELSE "passed"
           verdict == CASE ~checked -> "none"
                        [] checked /\ llm = "unavailable" -> allPass
                        [] OTHER -> llm
       IN  /\ state' = [state EXCEPT ![r].health = health,
                                     ![r].validation = verdict,
                                     ![r].step = "validate_health"]
           /\ GoTo(r, IF verdict = "failed" THEN "perform_rollback" ELSE "end")
  /\ UNCHANGED <<world, written, workflowVars>>

(* KubernetesConnector.rollback() finds the snapshot in its dictionary and *)
(* reports success; it calls no API.  The step is "rolled_back" in either  *)
(* case.                                                                   *)
PerformRollback(r) ==
  /\ pc[r] = "perform_rollback"
  /\ state' = [state EXCEPT
                 ![r].rollback = IF state[r].snapshot # "none"
                                 THEN "success" ELSE "none",
                 ![r].step = "rolled_back"]
  /\ GoTo(r, "end")
  /\ UNCHANGED <<world, written, workflowVars>>

-----------------------------------------------------------------------------

Node(r) ==
  \/ EvaluatePolicy(r) \/ ResolvePlaybook(r) \/ AssessRisk(r)
  \/ SubmitRequest(r) \/ ApprovalReturned(r)
  \/ CreateSnapshot(r) \/ ExecuteAction(r)
  \/ ValidateHealth(r) \/ PerformRollback(r)

Next ==
  \E r \in Remediations :
    Invoke(r) \/ Node(r) \/ WorkflowStep(r) \/ Answer(r)

(* LangGraph runs the next node of a running graph, and the event loop     *)
(* resumes the workflow: every call a node awaits has a timeout of its own.*)
Fairness ==
  \A r \in Remediations : WF_vars(Node(r)) /\ WF_vars(WorkflowStep(r))

Spec == Init /\ [][Next]_vars /\ Fairness

-----------------------------------------------------------------------------

(* Nothing is written to the infrastructure that the gates of the graph    *)
(* did not let through: the policy engine allowed the action and, if its   *)
(* assessed risk is high or critical, the workflow answered "approved" on  *)
(* at least as many approvals as that risk requires.                       *)
NoUnauthorisedWrite ==
  \A r \in written :
    /\ state[r].policy = "allowed"
    /\ state[r].risk \in RiskLevels
    /\ RequiresApproval(state[r].risk) =>
         /\ status[r] = "approved"
         /\ Len(approvals[r]) >= RequiredApprovals(state[r].risk)

(* The fallback for a failed LLM has a list of destructive actions of its  *)
(* own and may assess less than the baseline, but never so much less that  *)
(* an action whose baseline asks for approval is executed without one.     *)
BaselineGated ==
  \A r \in written :
    RequiresApproval(ClassifyRisk(state[r].action.type, state[r].action.env))
      => status[r] = "approved" /\ Len(approvals[r]) >= 1

(* A remediation writes at most once: whatever fails around it, a write    *)
(* that reached the cluster is never sent again.                           *)
WritesAtMostOnce ==
  [][\A res \in Resources :
       world'[res] # world[res] => world'[res] \notin written]_vars

(* A failed execution or a failed validation always leads to the rollback  *)
(* node, and it is attempted when there is a snapshot.                     *)
FailureRolledBack ==
  \A r \in Remediations :
    (state[r].execution = "failed" \/ state[r].validation = "failed")
      ~> /\ state[r].step = "rolled_back"
         /\ state[r].snapshot # "none" => state[r].rollback = "success"

-----------------------------------------------------------------------------

(* The refinement of SafeRemediation.  A low or medium risk needs no       *)
(* assent; a rollback without a snapshot still counts as rolled back, as   *)
(* the code's current_step has it.                                         *)
Stage(r) ==
  CASE pc[r] = "idle" -> "idle"
    [] pc[r] \in {"evaluate_policy", "resolve_playbook", "assess_risk"} -> "requested"
    [] pc[r] = "request_approval" -> "assessed"
    [] pc[r] \in {"create_snapshot", "execute_action"} -> "cleared"
    [] pc[r] \in {"validate_health", "perform_rollback"} -> "attempted"
    [] pc[r] = "end" /\ state[r].step \in {"evaluate_policy", "request_approval"} -> "refused"
    [] pc[r] = "end" /\ state[r].step = "rolled_back" -> "rolled_back"
    [] OTHER -> "accepted"

Need(r) ==
  IF RequiresApproval(state[r].risk) THEN RequiredApprovals(state[r].risk) ELSE 0

Safe == INSTANCE SafeRemediation WITH
          stage   <- [r \in Remediations |-> Stage(r)],
          need    <- [r \in Remediations |-> Need(r)],
          assents <- [r \in Remediations |-> Len(approvals[r])],
          effects <- written

(* The agent implements what is promised of it. *)
ImplementsSafeRemediation == Safe!Spec
=============================================================================
