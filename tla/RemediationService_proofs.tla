----------------------- MODULE RemediationService_proofs -----------------------
(***************************************************************************)
(* Safety of modules RemediationGraph and RemediationService, for any       *)
(* number of remediations, resources, people and restarts.                 *)
(*                                                                         *)
(* First the graph by itself.  The facts about the approval workflow are    *)
(* those of ApprovalWorkflow_proofs: every step of the graph is a step of   *)
(* the workflow, or leaves its variables unchanged.  Then the endpoints and *)
(* the runner, which take the steps of the graph, but for the manual        *)
(* rollback, which no gate looks at; so the invariant of the graph is one   *)
(* of the service.                                                         *)
(***************************************************************************)
EXTENDS RemediationService, TLAPS

Workflow == INSTANCE ApprovalWorkflow_proofs WITH Requests <- Remediations

-----------------------------------------------------------------------------

BeforeApproval == {"idle", "evaluate_policy", "resolve_playbook", "assess_risk"}

AfterGates == {"create_snapshot", "execute_action", "validate_health",
               "perform_rollback"}

AfterWrite == {"validate_health", "perform_rollback", "end"}

(* The gates of the graph let r through. *)
Cleared(r) ==
  /\ state[r].policy = "allowed"
  /\ state[r].risk \in RiskLevels
  /\ RequiresApproval(state[r].risk) => status[r] = "approved"

(* Where a remediation is tells what its gates have seen, and its request  *)
(* asks for the approvals its risk requires.                               *)
GatesPassed(r) ==
  /\ pc[r] \in {"resolve_playbook", "assess_risk", "request_approval"}
       => state[r].policy = "allowed"
  /\ pc[r] = "request_approval" => state[r].risk \in RiskLevels
  /\ pc[r] \in AfterGates => Cleared(r)
  /\ pc[r] \in BeforeApproval => phase[r] = "new" /\ state[r].risk = NoRisk
  /\ phase[r] # "new" => required[r] = RequiredApprovals(state[r].risk)
  /\ r \in written => pc[r] \in AfterWrite /\ Cleared(r)

GraphInv ==
  /\ TypeOK
  /\ Approval!DecisionBacked
  /\ \A r \in Remediations : GatesPassed(r)

-----------------------------------------------------------------------------

(* The number of approvals a risk requires is one the workflow accepts.    *)
LEMMA RequiredType ==
  ASSUME NEW risk
  PROVE  RequiredApprovals(risk) \in 1 .. 2
BY DEF RequiredApprovals

(* What assess_risk() returns is a risk level.                             *)
LEMMA AssessedType ==
  ASSUME NEW a \in Actions, NEW risk \in AssessedRisks(a.type, a.env)
  PROVE  risk \in RiskLevels
<1>1. ClassifyRisk(a.type, a.env) \in RiskLevels
  BY DEF ClassifyRisk, RiskLevels, Low, Medium, High, Critical
<1>2. FallbackRisk(a.type, a.env) \in RiskLevels
  BY <1>1 DEF FallbackRisk, RiskLevels, Low, Medium, High, Critical
<1>3. \A llm \in RiskLevels : LLMRisk(a.type, a.env, llm) \in RiskLevels
  BY <1>1 DEF LLMRisk
<1> QED
  BY <1>2, <1>3 DEF AssessedRisks

(* The two instances of the workflow say the same.                         *)
LEMMA WorkflowAgrees ==
  /\ Workflow!WorkflowAssumption
  /\ Approval!TypeOK /\ Approval!DecisionBacked <=> Workflow!WorkflowInv
<1>1. Workflow!WorkflowAssumption
  BY GraphAssumption DEF Workflow!WorkflowAssumption
<1>2. Approval!TypeOK <=> Workflow!TypeOK
  BY DEF Approval!TypeOK, Approval!Phases, Approval!Statuses,
         Workflow!TypeOK, Workflow!Phases, Workflow!Statuses
<1>3. Approval!DecisionBacked <=> Workflow!DecisionBacked
  BY DEF Approval!DecisionBacked, Approval!Decided,
         Workflow!DecisionBacked, Workflow!Decided
<1> QED
  BY <1>1, <1>2, <1>3 DEF Workflow!WorkflowInv

(* A step of the suspended call, or an answer, is a step of the workflow.  *)
LEMMA CoroutineAgrees ==
  ASSUME NEW r
  PROVE  Approval!Coroutine(r) <=> Workflow!Coroutine(r)
<1>1. Approval!Decision(r) = Workflow!Decision(r)
  BY DEF Approval!Decision, Approval!IsApproved, Approval!IsDenied,
         Workflow!Decision, Workflow!IsApproved, Workflow!IsDenied
<1>2. Approval!Decide(r) <=> Workflow!Decide(r)
  BY <1>1 DEF Approval!Decide, Workflow!Decide
<1> QED
  BY <1>1, <1>2
     DEF Approval!Coroutine, Approval!Notified, Approval!Poll,
         Approval!WaitTimeout, Approval!Return,
         Workflow!Coroutine, Workflow!Notified, Workflow!Poll,
         Workflow!WaitTimeout, Workflow!Return

LEMMA AnswerAgrees ==
  ASSUME NEW r
  PROVE  Approval!Answer(r) <=> Workflow!Answer(r)
BY DEF Approval!Answer, Approval!Approve, Approval!Deny, Approval!Registered,
       Workflow!Answer, Workflow!Approve, Workflow!Deny, Workflow!Registered

LEMMA WorkflowSteps ==
  ASSUME [Next]_vars
  PROVE  [Workflow!Next]_(Workflow!vars)
<1> USE DEF Workflow!vars
<1>1. ASSUME NEW r \in Remediations, SubmitRequest(r)
      PROVE  Workflow!Next
  <2>1. Workflow!RequestApproval(r, RequiredApprovals(state[r].risk))
    BY <1>1 DEF SubmitRequest, Approval!RequestApproval, Workflow!RequestApproval
  <2> QED BY <2>1, RequiredType DEF Workflow!Next
<1>2. ASSUME NEW r \in Remediations, WorkflowStep(r)
      PROVE  Workflow!Next
  BY <1>2, CoroutineAgrees DEF WorkflowStep, Workflow!Next
<1>3. ASSUME NEW r \in Remediations, Answer(r)
      PROVE  Workflow!Next
  BY <1>3, AnswerAgrees DEF Answer, Workflow!Next
<1>4. CASE UNCHANGED workflowVars
  BY <1>4 DEF workflowVars
<1>5. CASE UNCHANGED vars
  BY <1>5 DEF vars
<1> QED
  BY <1>1, <1>2, <1>3, <1>4, <1>5
     DEF Next, Node, Invoke, EvaluatePolicy, ResolvePlaybook, AssessRisk,
         ApprovalReturned, CreateSnapshot, ExecuteAction, ExecuteThen,
         ValidateHealth, PerformRollback

(* So the invariant of the workflow is kept, decisions are final and the   *)
(* quorum of a submitted request is fixed, in every step of the graph.     *)
LEMMA WorkflowKept ==
  ASSUME TypeOK, Approval!DecisionBacked, [Next]_vars
  PROVE  /\ Approval!TypeOK' /\ Approval!DecisionBacked'
         /\ \A q \in Remediations :
              /\ status[q] # "pending" => status'[q] = status[q]
              /\ phase[q] # "new" =>
                   phase'[q] # "new" /\ required'[q] = required[q]
<1>1. Workflow!WorkflowInv /\ Workflow!WorkflowAssumption
  BY WorkflowAgrees DEF TypeOK
<1>2. [Workflow!Next]_(Workflow!vars)
  BY WorkflowSteps
<1>3. Workflow!WorkflowInv'
  BY <1>1, <1>2, Workflow!StepInv
<1>4. Approval!TypeOK' /\ Approval!DecisionBacked'
  <2>1. Approval!TypeOK' <=> Workflow!TypeOK'
    BY DEF Approval!TypeOK, Approval!Phases, Approval!Statuses,
           Workflow!TypeOK, Workflow!Phases, Workflow!Statuses
  <2>2. Approval!DecisionBacked' <=> Workflow!DecisionBacked'
    BY DEF Approval!DecisionBacked, Approval!Decided,
           Workflow!DecisionBacked, Workflow!Decided
  <2> QED BY <1>3, <2>1, <2>2 DEF Workflow!WorkflowInv
<1>5. \A q \in Remediations : status[q] # "pending" => status'[q] = status[q]
  BY <1>1, <1>2, Workflow!StepFinal
<1>6. \A q \in Remediations :
        phase[q] # "new" => phase'[q] # "new" /\ required'[q] = required[q]
  BY <1>1, <1>2, Workflow!StepQuorum DEF Workflow!Registered
<1> QED BY <1>4, <1>5, <1>6

-----------------------------------------------------------------------------

LEMMA InitInv == Init => GraphInv
<1> SUFFICES ASSUME Init PROVE GraphInv
  OBVIOUS
<1>1. TypeOK
  <2>1. \A a \in Actions : InitialState(a) \in RemediationState
    BY DEF InitialState, RemediationState, Nodes
  <2>2. state \in [Remediations -> RemediationState]
    BY <2>1 DEF Init
  <2>3. Approval!TypeOK
    BY GraphAssumption
       DEF Init, Approval!Init, Approval!TypeOK, Approval!Phases, Approval!Statuses
  <2> QED BY <2>2, <2>3 DEF Init, TypeOK
<1>2. Approval!DecisionBacked
  BY DEF Init, Approval!Init, Approval!DecisionBacked, Approval!Decided
<1>3. ASSUME NEW r \in Remediations
      PROVE  GatesPassed(r)
  <2>1. /\ pc[r] = "idle" /\ phase[r] = "new" /\ r \notin written
        /\ state[r].risk = NoRisk
    BY DEF Init, Approval!Init, InitialState
  <2> QED BY <2>1 DEF GatesPassed, AfterGates
<1> QED BY <1>1, <1>2, <1>3 DEF GraphInv

(* A remediation that a step of another one does not touch keeps what it   *)
(* has passed: the workflow neither withdraws an approval nor changes the  *)
(* quorum, and it submits no request of its own.                           *)
LEMMA GatesKept ==
  ASSUME GraphInv, [Next]_vars, NEW q \in Remediations,
         pc'[q] = pc[q], state'[q].policy = state[q].policy,
         state'[q].risk = state[q].risk,
         q \in written' => q \in written,
         phase[q] = "new" => phase'[q] = "new"
  PROVE  GatesPassed(q)'
<1>1. GatesPassed(q)
  BY DEF GraphInv
<1>2. /\ status[q] # "pending" => status'[q] = status[q]
      /\ phase[q] # "new" => required'[q] = required[q]
  BY WorkflowKept DEF GraphInv
<1>3. Cleared(q) => Cleared(q)'
  BY <1>2 DEF Cleared
<1> QED
  BY <1>1, <1>2, <1>3 DEF GatesPassed

(* A node returns an update of single fields: each keeps the schema.       *)
LEMMA UpdateType ==
  ASSUME NEW f \in [Remediations -> RemediationState], NEW r \in Remediations
  PROVE  /\ \A v \in {"none", "allowed", "denied"} :
              [f EXCEPT ![r].policy = v] \in [Remediations -> RemediationState]
         /\ \A v \in BOOLEAN :
              [f EXCEPT ![r].playbook = v] \in [Remediations -> RemediationState]
         /\ \A v \in RiskLevels :
              [f EXCEPT ![r].risk = v] \in [Remediations -> RemediationState]
         /\ \A v \in Approval!Statuses :
              [f EXCEPT ![r].approval = v] \in [Remediations -> RemediationState]
         /\ \A v \in {"none", "could_not_capture", "captured"} :
              [f EXCEPT ![r].snapshot = v] \in [Remediations -> RemediationState]
         /\ \A v \in Remediations \cup {Initial} :
              [f EXCEPT ![r].before = v] \in [Remediations -> RemediationState]
         /\ \A v \in {"success", "failed"} :
              [f EXCEPT ![r].execution = v] \in [Remediations -> RemediationState]
         /\ \A v \in {"healthy", "unhealthy", "unreachable"} :
              [f EXCEPT ![r].health = v] \in [Remediations -> RemediationState]
         /\ \A v \in {"none", "passed", "failed"} :
              [f EXCEPT ![r].validation = v] \in [Remediations -> RemediationState]
         /\ \A v \in {"none", "success"} :
              [f EXCEPT ![r].rollback = v] \in [Remediations -> RemediationState]
         /\ \A v \in Nodes \cup {"rolled_back"} :
              [f EXCEPT ![r].step = v] \in [Remediations -> RemediationState]
<1>1. \A v \in {"none", "allowed", "denied"} :
       [f EXCEPT ![r].policy = v] \in [Remediations -> RemediationState]
  BY SMTT(30) DEF RemediationState
<1>2. \A v \in BOOLEAN :
       [f EXCEPT ![r].playbook = v] \in [Remediations -> RemediationState]
  BY SMTT(30) DEF RemediationState
<1>3. \A v \in RiskLevels :
       [f EXCEPT ![r].risk = v] \in [Remediations -> RemediationState]
  BY SMTT(30) DEF RemediationState
<1>4. \A v \in Approval!Statuses :
       [f EXCEPT ![r].approval = v] \in [Remediations -> RemediationState]
  BY SMTT(30) DEF RemediationState
<1>5. \A v \in {"none", "could_not_capture", "captured"} :
       [f EXCEPT ![r].snapshot = v] \in [Remediations -> RemediationState]
  BY SMTT(30) DEF RemediationState
<1>6. \A v \in Remediations \cup {Initial} :
       [f EXCEPT ![r].before = v] \in [Remediations -> RemediationState]
  BY SMTT(30) DEF RemediationState
<1>7. \A v \in {"success", "failed"} :
       [f EXCEPT ![r].execution = v] \in [Remediations -> RemediationState]
  BY SMTT(30) DEF RemediationState
<1>8. \A v \in {"healthy", "unhealthy", "unreachable"} :
       [f EXCEPT ![r].health = v] \in [Remediations -> RemediationState]
  BY SMTT(30) DEF RemediationState
<1>9. \A v \in {"none", "passed", "failed"} :
       [f EXCEPT ![r].validation = v] \in [Remediations -> RemediationState]
  BY SMTT(30) DEF RemediationState
<1>10. \A v \in {"none", "success"} :
       [f EXCEPT ![r].rollback = v] \in [Remediations -> RemediationState]
  BY SMTT(30) DEF RemediationState
<1>11. \A v \in Nodes \cup {"rolled_back"} :
       [f EXCEPT ![r].step = v] \in [Remediations -> RemediationState]
  BY SMTT(30) DEF RemediationState
<1> QED BY <1>1, <1>2, <1>3, <1>4, <1>5, <1>6, <1>7,
           <1>8, <1>9, <1>10, <1>11

(* Types: what a node returns is a state of LangGraph's schema.            *)
LEMMA TypeStep ==
  ASSUME GraphInv, [Next]_vars
  PROVE  TypeOK'
<1>1. Approval!TypeOK'
  BY WorkflowKept DEF GraphInv
<1>2. ASSUME NEW r \in Remediations, Node(r) \/ Invoke(r)
      PROVE  /\ pc' \in [Remediations -> Nodes \cup {"idle", "end"}]
             /\ world' \in [Resources -> Remediations \cup {Initial}]
             /\ written' \in SUBSET Remediations
  <2>1. Target(r) \in Resources
    BY GraphAssumption DEF GraphInv, TypeOK, RemediationState, Target
  <2>2. CASE ExecuteAction(r)
    BY <2>1, <2>2 DEF GraphInv, TypeOK, GoTo, Nodes, ExecuteAction, ExecuteThen
  <2>3. CASE Node(r) /\ ~ExecuteAction(r)
    <3>1. UNCHANGED <<world, written>>
      BY <2>3
         DEF Node, EvaluatePolicy, ResolvePlaybook, AssessRisk, SubmitRequest,
             graphVars, ApprovalReturned, CreateSnapshot, ValidateHealth,
             PerformRollback
    <3>2. \E node \in Nodes \cup {"end"} : pc' \in {pc, [pc EXCEPT ![r] = node]}
      BY <2>3
         DEF Node, EvaluatePolicy, ResolvePlaybook, AssessRisk, SubmitRequest,
             graphVars, ApprovalReturned, CreateSnapshot, ValidateHealth,
             PerformRollback, GoTo, Nodes
    <3> QED BY <3>1, <3>2 DEF GraphInv, TypeOK
  <2>4. CASE Invoke(r)
    BY <2>4 DEF GraphInv, TypeOK, GoTo, Nodes, Invoke
  <2> QED BY <1>2, <2>2, <2>3, <2>4
<1>3. ASSUME NEW r \in Remediations, Node(r) \/ Invoke(r)
      PROVE  state' \in [Remediations -> RemediationState]
  <2>0. /\ state \in [Remediations -> RemediationState]
        /\ state[r].action \in Actions
        /\ status[r] \in Approval!Statuses
        /\ world[Target(r)] \in Remediations \cup {Initial}
        /\ \A node \in Nodes : node \in Nodes \cup {"rolled_back"}
    BY GraphAssumption
       DEF GraphInv, TypeOK, Approval!TypeOK, RemediationState, Target
  <2>1. CASE UNCHANGED state
    BY <2>0, <2>1
  <2>2. CASE EvaluatePolicy(r)
    <3>1. PICK v \in {"allowed", "denied"} :
            state' = [state EXCEPT ![r].policy = v, ![r].step = "evaluate_policy"]
      BY <2>2 DEF EvaluatePolicy
    <3>2. [state EXCEPT ![r].policy = v] \in [Remediations -> RemediationState]
      BY <2>0, UpdateType
    <3> QED BY <3>1, <3>2, UpdateType DEF Nodes
  <2>3. CASE ResolvePlaybook(r)
    <3>1. PICK v \in BOOLEAN :
            state' = [state EXCEPT ![r].playbook = v, ![r].step = "resolve_playbook"]
      BY <2>3 DEF ResolvePlaybook
    <3>2. [state EXCEPT ![r].playbook = v] \in [Remediations -> RemediationState]
      BY <2>0, UpdateType
    <3> QED BY <3>1, <3>2, UpdateType DEF Nodes
  <2>4. CASE AssessRisk(r)
    <3>1. PICK v \in AssessedRisks(state[r].action.type, state[r].action.env) :
            state' = [state EXCEPT ![r].risk = v, ![r].step = "assess_risk"]
      BY <2>4 DEF AssessRisk
    <3>2. v \in RiskLevels
      BY <2>0, AssessedType
    <3>3. [state EXCEPT ![r].risk = v] \in [Remediations -> RemediationState]
      BY <2>0, <3>2, UpdateType
    <3> QED BY <3>1, <3>3, UpdateType DEF Nodes
  <2>5. CASE ApprovalReturned(r)
    <3>1. state' = [state EXCEPT ![r].approval = status[r],
                                 ![r].step = "request_approval"]
      BY <2>5 DEF ApprovalReturned
    <3>2. [state EXCEPT ![r].approval = status[r]] \in [Remediations -> RemediationState]
      BY <2>0, UpdateType
    <3> QED BY <3>1, <3>2, UpdateType DEF Nodes
  <2>6. CASE CreateSnapshot(r)
    <3>1. PICK v \in {"captured", "could_not_capture", "none"} :
            state' = [state EXCEPT
                        ![r].snapshot = v,
                        ![r].before = IF v = "captured"
                                      THEN world[Target(r)] ELSE Initial,
                        ![r].step = "create_snapshot"]
      BY <2>6 DEF CreateSnapshot
    <3> DEFINE b == IF v = "captured" THEN world[Target(r)] ELSE Initial
               f == [state EXCEPT ![r].snapshot = v]
               g == [f EXCEPT ![r].before = b]
    <3>2. b \in Remediations \cup {Initial}
      BY <2>0
    <3>3. f \in [Remediations -> RemediationState]
      BY <2>0, UpdateType
    <3>4. g \in [Remediations -> RemediationState]
      <4> HIDE DEF b, f
      <4> QED BY <3>2, <3>3, UpdateType
    <3>5. [g EXCEPT ![r].step = "create_snapshot"] \in [Remediations -> RemediationState]
      <4> HIDE DEF g
      <4> QED BY <3>4, UpdateType DEF Nodes
    <3> QED BY <3>1, <3>5
  <2>7. CASE ExecuteAction(r)
    <3>1. PICK v \in {"success", "failed"} :
            state' = [state EXCEPT ![r].execution = v, ![r].step = "execute_action"]
      BY <2>7 DEF ExecuteAction, ExecuteThen
    <3>2. [state EXCEPT ![r].execution = v] \in [Remediations -> RemediationState]
      BY <2>0, UpdateType
    <3> QED BY <3>1, <3>2, UpdateType DEF Nodes
  <2>8. CASE ValidateHealth(r)
    <3>1. PICK h \in {"healthy", "unhealthy", "unreachable"},
               v \in {"none", "passed", "failed"} :
            state' = [state EXCEPT ![r].health = h, ![r].validation = v,
                                   ![r].step = "validate_health"]
      BY <2>8 DEF ValidateHealth
    <3> DEFINE f == [state EXCEPT ![r].health = h]
               g == [f EXCEPT ![r].validation = v]
    <3>2. f \in [Remediations -> RemediationState]
      BY <2>0, UpdateType
    <3>3. g \in [Remediations -> RemediationState]
      <4> HIDE DEF f
      <4> QED BY <3>2, UpdateType
    <3>4. [g EXCEPT ![r].step = "validate_health"] \in [Remediations -> RemediationState]
      <4> HIDE DEF g
      <4> QED BY <3>3, UpdateType DEF Nodes
    <3> QED BY <3>1, <3>4
  <2>9. CASE PerformRollback(r)
    <3>1. PICK v \in {"none", "success"} :
            state' = [state EXCEPT ![r].rollback = v, ![r].step = "rolled_back"]
      BY <2>9 DEF PerformRollback
    <3>2. [state EXCEPT ![r].rollback = v] \in [Remediations -> RemediationState]
      BY <2>0, UpdateType
    <3> QED BY <3>1, <3>2, UpdateType
  <2> QED
    BY <1>3, <2>1, <2>2, <2>3, <2>4, <2>5, <2>6, <2>7, <2>8, <2>9
       DEF Node, Invoke, SubmitRequest, graphVars
<1>4. CASE UNCHANGED graphVars
  BY <1>1, <1>4 DEF GraphInv, TypeOK, graphVars
<1>5. UNCHANGED vars => UNCHANGED graphVars
  BY DEF vars, graphVars
<1> QED
  BY <1>1, <1>2, <1>3, <1>4, <1>5 DEF TypeOK, Next, WorkflowStep, Answer

(* A step of a node keeps what every remediation has passed.               *)
LEMMA NodeGates ==
  ASSUME GraphInv, [Next]_vars, NEW r \in Remediations, Node(r) \/ Invoke(r),
         NEW q \in Remediations
  PROVE  GatesPassed(q)'
<1> USE DEF GoTo
<1>1. /\ pc \in [Remediations -> Nodes \cup {"idle", "end"}]
      /\ state \in [Remediations -> RemediationState]
      /\ phase \in [Remediations -> Approval!Phases]
      /\ GatesPassed(r)
  BY DEF GraphInv, TypeOK, Approval!TypeOK
<1>2. CASE q # r
  <2>1. pc'[q] = pc[q] /\ state'[q] = state[q]
    BY <1>1, <1>2
       DEF Node, Invoke, EvaluatePolicy, ResolvePlaybook, AssessRisk,
           SubmitRequest, graphVars, ApprovalReturned, CreateSnapshot,
           ExecuteAction, ExecuteThen, ValidateHealth, PerformRollback
  <2>2. q \in written' => q \in written
    BY <1>2
       DEF Node, Invoke, EvaluatePolicy, ResolvePlaybook, AssessRisk,
           SubmitRequest, graphVars, ApprovalReturned, CreateSnapshot,
           ExecuteAction, ExecuteThen, ValidateHealth, PerformRollback
  <2>3. phase'[q] = phase[q]
    BY <1>1, <1>2
       DEF Node, Invoke, EvaluatePolicy, ResolvePlaybook, AssessRisk,
           SubmitRequest, Approval!RequestApproval, ApprovalReturned,
           CreateSnapshot, ExecuteAction, ExecuteThen, ValidateHealth,
           PerformRollback, workflowVars
  <2> QED BY <2>1, <2>2, <2>3, GatesKept
<1>3. CASE q = r /\ Invoke(r)
  BY <1>1, <1>3 DEF Invoke, workflowVars, GatesPassed, Cleared,
                    BeforeApproval, AfterGates, AfterWrite, Nodes
<1>4. CASE q = r /\ EvaluatePolicy(r)
  <2>1. PICK v \in {"allowed", "denied"} :
          /\ state'[r].policy = v /\ state'[r].risk = state[r].risk
          /\ pc'[r] = IF v = "allowed" THEN "resolve_playbook" ELSE "end"
    BY <1>1, <1>4 DEF EvaluatePolicy, RemediationState
  <2> QED
    BY <1>1, <1>4, <2>1 DEF EvaluatePolicy, workflowVars, GatesPassed,
                            BeforeApproval, AfterGates, AfterWrite, Cleared
<1>5. CASE q = r /\ ResolvePlaybook(r)
  <2>1. /\ state'[r].policy = state[r].policy /\ state'[r].risk = state[r].risk
        /\ pc'[r] = "assess_risk"
    BY <1>1, <1>5 DEF ResolvePlaybook, RemediationState
  <2> QED
    BY <1>1, <1>5, <2>1 DEF ResolvePlaybook, workflowVars, GatesPassed,
                            BeforeApproval, AfterGates, AfterWrite, Cleared
<1>6. CASE q = r /\ AssessRisk(r)
  <2>1. PICK v \in AssessedRisks(state[r].action.type, state[r].action.env) :
          /\ state' = [state EXCEPT ![r].risk = v, ![r].step = "assess_risk"]
          /\ pc' = [pc EXCEPT ![r] = IF RequiresApproval(v) THEN "request_approval"
                                                          ELSE "create_snapshot"]
    BY <1>6 DEF AssessRisk
  <2>2. v \in RiskLevels
    <3>1. state[r].action \in Actions
      BY <1>1 DEF RemediationState
    <3> QED BY <3>1, AssessedType
  <2>3. /\ state'[r].policy = state[r].policy /\ state'[r].risk = v
        /\ pc'[r] = IF RequiresApproval(v) THEN "request_approval"
                                           ELSE "create_snapshot"
    BY <1>1, <2>1 DEF RemediationState
  <2> QED
    BY <1>1, <1>6, <2>2, <2>3 DEF AssessRisk, workflowVars, GatesPassed,
                            BeforeApproval, AfterGates, AfterWrite, Cleared
<1>7. CASE q = r /\ SubmitRequest(r)
  <2>1. /\ required'[r] = RequiredApprovals(state[r].risk)
        /\ UNCHANGED <<pc, state, written, status>>
    BY <1>7 DEF SubmitRequest, Approval!RequestApproval, graphVars,
                GraphInv, TypeOK, Approval!TypeOK
  <2> QED
    BY <1>1, <1>7, <2>1 DEF SubmitRequest, GatesPassed, BeforeApproval,
                            AfterGates, AfterWrite, Cleared
<1>8. CASE q = r /\ ApprovalReturned(r)
  <2>1. /\ state'[r].policy = state[r].policy /\ state'[r].risk = state[r].risk
        /\ pc'[r] = IF status[r] = "approved" THEN "create_snapshot" ELSE "end"
    BY <1>1, <1>8 DEF ApprovalReturned, RemediationState
  <2> QED
    BY <1>1, <1>8, <2>1 DEF ApprovalReturned, workflowVars, GatesPassed,
                            BeforeApproval, AfterGates, AfterWrite, Cleared
<1>9. CASE q = r /\ CreateSnapshot(r)
  <2>1. /\ state'[r].policy = state[r].policy /\ state'[r].risk = state[r].risk
        /\ pc'[r] = "execute_action"
    BY <1>1, <1>9 DEF CreateSnapshot, RemediationState
  <2> QED
    BY <1>1, <1>9, <2>1 DEF CreateSnapshot, workflowVars, GatesPassed,
                            BeforeApproval, AfterGates, AfterWrite, Cleared
<1>10. CASE q = r /\ ExecuteAction(r)
  <2>1. /\ state'[r].policy = state[r].policy /\ state'[r].risk = state[r].risk
        /\ pc'[r] \in {"validate_health", "perform_rollback"}
    BY <1>1, <1>10 DEF ExecuteAction, ExecuteThen, RemediationState
  <2> QED
    BY <1>1, <1>10, <2>1 DEF ExecuteAction, ExecuteThen, workflowVars,
                             GatesPassed, BeforeApproval, AfterGates,
                             AfterWrite, Cleared
<1>11. CASE q = r /\ ValidateHealth(r)
  <2>1. /\ state'[r].policy = state[r].policy /\ state'[r].risk = state[r].risk
        /\ pc'[r] \in {"perform_rollback", "end"}
    BY <1>1, <1>11 DEF ValidateHealth, RemediationState
  <2> QED
    BY <1>1, <1>11, <2>1 DEF ValidateHealth, workflowVars, GatesPassed,
                             BeforeApproval, AfterGates, AfterWrite, Cleared
<1>12. CASE q = r /\ PerformRollback(r)
  <2>1. /\ state'[r].policy = state[r].policy /\ state'[r].risk = state[r].risk
        /\ pc'[r] = "end"
    BY <1>1, <1>12 DEF PerformRollback, RemediationState
  <2> QED
    BY <1>1, <1>12, <2>1 DEF PerformRollback, workflowVars, GatesPassed,
                             BeforeApproval, AfterGates, AfterWrite, Cleared
<1> QED
  BY <1>2, <1>3, <1>4, <1>5, <1>6, <1>7, <1>8, <1>9, <1>10, <1>11, <1>12
     DEF Node

LEMMA StepInv == GraphInv /\ [Next]_vars => GraphInv'
<1> SUFFICES ASSUME GraphInv, [Next]_vars PROVE GraphInv'
  OBVIOUS
<1>1. TypeOK'
  BY TypeStep
<1>2. Approval!DecisionBacked'
  BY WorkflowKept DEF GraphInv
<1>3. ASSUME NEW q \in Remediations
      PROVE  GatesPassed(q)'
  <2>1. ASSUME NEW r \in Remediations, Node(r) \/ Invoke(r)
        PROVE  GatesPassed(q)'
    BY <2>1, NodeGates
  <2>2. CASE UNCHANGED graphVars /\ (phase[q] = "new" => phase'[q] = "new")
    BY <2>2, GatesKept DEF graphVars
  <2>3. ASSUME NEW r \in Remediations, WorkflowStep(r) \/ Answer(r)
        PROVE  UNCHANGED graphVars /\ (phase[q] = "new" => phase'[q] = "new")
    BY <2>3
       DEF GraphInv, TypeOK, Approval!TypeOK, WorkflowStep, Answer,
           Approval!Coroutine, Approval!Notified, Approval!Poll, Approval!Decide,
           Approval!WaitTimeout, Approval!Return,
           Approval!Answer, Approval!Approve, Approval!Deny
  <2>4. UNCHANGED vars => UNCHANGED graphVars /\ phase' = phase
    BY DEF vars, graphVars
  <2> QED BY <2>1, <2>2, <2>3, <2>4 DEF Next
<1> QED BY <1>1, <1>2, <1>3 DEF GraphInv

THEOREM InvTheorem == Spec => []GraphInv
BY InitInv, StepInv, PTL DEF Spec

(* Type correctness of the graph and its workflow.                         *)
THEOREM TypeTheorem == Spec => []TypeOK
<1>1. GraphInv => TypeOK
  BY DEF GraphInv
<1> QED BY <1>1, InvTheorem, PTL

(* Whoever is in the set written has passed the gates.                     *)
LEMMA GatesSuffice == GraphInv => NoUnauthorisedWrite
<1> SUFFICES ASSUME GraphInv, NEW r \in written
             PROVE  /\ state[r].policy = "allowed"
                    /\ state[r].risk \in RiskLevels
                    /\ RequiresApproval(state[r].risk) =>
                         /\ status[r] = "approved"
                         /\ Len(approvals[r]) >= RequiredApprovals(state[r].risk)
  BY DEF NoUnauthorisedWrite
<1>1. r \in Remediations /\ GatesPassed(r)
  BY DEF GraphInv, TypeOK
<1>2. Cleared(r)
  BY <1>1 DEF GatesPassed
<1>3. status[r] = "approved" =>
        Len(approvals[r]) >= required[r] /\ phase[r] # "new"
  BY <1>1 DEF GraphInv, Approval!DecisionBacked, Approval!Decided
<1> QED BY <1>1, <1>2, <1>3 DEF GatesPassed, Cleared

(* Nothing is written that the gates did not let through, for any number   *)
(* of concurrent remediations and whatever the policy engine, the LLM, the *)
(* approvers and the Kubernetes API answer.                                *)
THEOREM AuthorisationTheorem == Spec => []NoUnauthorisedWrite
BY GatesSuffice, InvTheorem, PTL

(* What a step does to the state of one remediation: the action is that of *)
(* the call, and the risk, once assessed, is one of those of the action.   *)
LEMMA StateMoves ==
  ASSUME TypeOK, [Next]_vars, NEW q \in Remediations
  PROVE  /\ state'[q].action = state[q].action
         /\ \/ state'[q].risk = state[q].risk
            \/ state'[q].risk \in AssessedRisks(state[q].action.type, state[q].action.env)
<1>1. state \in [Remediations -> RemediationState]
  BY DEF TypeOK
<1>2. ASSUME NEW r \in Remediations, AssessRisk(r)
      PROVE  /\ state'[q].action = state[q].action
             /\ \/ state'[q].risk = state[q].risk
                \/ state'[q].risk \in AssessedRisks(state[q].action.type, state[q].action.env)
  <2> PICK risk \in AssessedRisks(state[r].action.type, state[r].action.env) :
        state' = [state EXCEPT ![r].risk = risk, ![r].step = "assess_risk"]
    BY <1>2 DEF AssessRisk
  <2> QED BY <1>1 DEF RemediationState
<1>3. ASSUME NEW r \in Remediations,
             \/ EvaluatePolicy(r) \/ ResolvePlaybook(r) \/ ApprovalReturned(r)
             \/ CreateSnapshot(r) \/ ExecuteAction(r) \/ PerformRollback(r)
      PROVE  state'[q].action = state[q].action /\ state'[q].risk = state[q].risk
  <2>1. CASE EvaluatePolicy(r)
    <3>1. \E x : state' = [state EXCEPT ![r].policy = x, ![r].step = "evaluate_policy"]
      BY <2>1 DEF EvaluatePolicy
    <3> QED BY <1>1, <3>1 DEF RemediationState
  <2>5. CASE ResolvePlaybook(r)
    <3>1. \E x : state' = [state EXCEPT ![r].playbook = x, ![r].step = "resolve_playbook"]
      BY <2>5 DEF ResolvePlaybook
    <3> QED BY <1>1, <3>1 DEF RemediationState
  <2>6. CASE ApprovalReturned(r)
    <3>1. \E x : state' = [state EXCEPT ![r].approval = x, ![r].step = "request_approval"]
      BY <2>6 DEF ApprovalReturned
    <3> QED BY <1>1, <3>1 DEF RemediationState
  <2>2. CASE CreateSnapshot(r)
    <3>1. \E s, b : state' = [state EXCEPT ![r].snapshot = s, ![r].before = b,
                                           ![r].step = "create_snapshot"]
      BY <2>2 DEF CreateSnapshot
    <3> QED BY <1>1, <3>1 DEF RemediationState
  <2>3. CASE ExecuteAction(r)
    <3>1. \E x : state' = [state EXCEPT ![r].execution = x, ![r].step = "execute_action"]
      BY <2>3 DEF ExecuteAction, ExecuteThen
    <3> QED BY <1>1, <3>1 DEF RemediationState
  <2>4. CASE PerformRollback(r)
    <3>1. \E x : state' = [state EXCEPT ![r].rollback = x, ![r].step = "rolled_back"]
      BY <2>4 DEF PerformRollback
    <3> QED BY <1>1, <3>1 DEF RemediationState
  <2> QED BY <1>3, <2>1, <2>2, <2>3, <2>4, <2>5, <2>6
<1>4. ASSUME NEW r \in Remediations, ValidateHealth(r)
      PROVE  state'[q].action = state[q].action /\ state'[q].risk = state[q].risk
  <2>1. \E h, v : state' = [state EXCEPT ![r].health = h, ![r].validation = v,
                                         ![r].step = "validate_health"]
    BY <1>4 DEF ValidateHealth
  <2> QED BY <1>1, <2>1 DEF RemediationState
<1>5. ASSUME NEW r \in Remediations,
             Invoke(r) \/ SubmitRequest(r) \/ WorkflowStep(r) \/ Answer(r)
      PROVE  UNCHANGED state
  BY <1>5 DEF Invoke, SubmitRequest, WorkflowStep, Answer, graphVars
<1> QED BY <1>2, <1>3, <1>4, <1>5 DEF Next, Node, vars

(* An assessed risk is one that assess_risk() may return for its action.   *)
RiskAssessed ==
  \A r \in Remediations :
    \/ state[r].risk = NoRisk
    \/ state[r].risk \in AssessedRisks(state[r].action.type, state[r].action.env)

LEMMA RiskTheorem == Spec => []RiskAssessed
<1>1. Init => RiskAssessed
  BY DEF Init, InitialState, RiskAssessed
<1>2. TypeOK /\ RiskAssessed /\ [Next]_vars => RiskAssessed'
  BY StateMoves DEF RiskAssessed
<1> QED BY <1>1, <1>2, TypeTheorem, PTL DEF Spec

(* The fallback assesses less than the baseline at times, but what the     *)
(* baseline would have gated is gated.                                     *)
LEMMA AssessedGated ==
  ASSUME NEW type, NEW env, NEW risk \in AssessedRisks(type, env),
         RequiresApproval(ClassifyRisk(type, env))
  PROVE  RequiresApproval(risk)
<1> USE DEF RequiresApproval, RiskLevels, Low, Medium, High, Critical
<1>1. ClassifyRisk(type, env) = Critical \/ env = "production"
  BY DEF ClassifyRisk
<1>2. CASE risk = FallbackRisk(type, env)
  BY <1>1, <1>2 DEF FallbackRisk
<1>3. ASSUME NEW llm \in RiskLevels, risk = LLMRisk(type, env, llm)
      PROVE  RequiresApproval(risk)
  BY <1>3 DEF LLMRisk
<1> QED BY <1>2, <1>3 DEF AssessedRisks

(* What has passed the gates on such a risk has been approved.             *)
LEMMA BaselineSuffices == GraphInv /\ RiskAssessed => BaselineGated
<1> SUFFICES ASSUME GraphInv, RiskAssessed, NEW r \in written,
                    RequiresApproval(ClassifyRisk(state[r].action.type,
                                                  state[r].action.env))
             PROVE  status[r] = "approved" /\ Len(approvals[r]) >= 1
  BY DEF BaselineGated
<1>1. r \in Remediations /\ state[r].risk \in RiskLevels
  BY GatesSuffice DEF GraphInv, TypeOK, NoUnauthorisedWrite
<1>2. state[r].risk \in AssessedRisks(state[r].action.type, state[r].action.env)
  BY <1>1 DEF RiskAssessed, RiskLevels, NoRisk, Low, Critical
<1>3. RequiresApproval(state[r].risk)
  BY <1>2, AssessedGated
<1>4. status[r] = "approved" /\ Len(approvals[r]) >= RequiredApprovals(state[r].risk)
  BY <1>3, GatesSuffice DEF NoUnauthorisedWrite
<1>5. Len(approvals[r]) \in Nat
  BY <1>1 DEF GraphInv, TypeOK, Approval!TypeOK
<1> QED BY <1>4, <1>5, RequiredType

(* No action whose baseline asks for approval is executed without one,     *)
(* whatever the LLM says and also when it fails.                           *)
THEOREM BaselineTheorem == Spec => []BaselineGated
BY BaselineSuffices, InvTheorem, RiskTheorem, PTL

(* A write is of a remediation that has not written before.               *)
LEMMA WriteIsFirst ==
  ASSUME GraphInv, [Next]_vars, NEW res \in Resources, world'[res] # world[res]
  PROVE  world'[res] \notin written
<1>1. PICK r \in Remediations : ExecuteAction(r)
  BY DEF Next, Node, Invoke, EvaluatePolicy, ResolvePlaybook, AssessRisk,
         SubmitRequest, graphVars, ApprovalReturned, CreateSnapshot,
         ValidateHealth, PerformRollback, WorkflowStep, Answer, vars
<1>2. r \notin written
  BY <1>1 DEF GraphInv, GatesPassed, AfterWrite, ExecuteAction, ExecuteThen
<1>3. world'[res] = r
  BY <1>1 DEF GraphInv, TypeOK, ExecuteAction, ExecuteThen
<1> QED BY <1>2, <1>3

(* No remediation writes twice: the node that writes is not entered again. *)
THEOREM WriteOnceTheorem == Spec => WritesAtMostOnce
<1>1. GraphInv /\ [Next]_vars
        => [\A res \in Resources :
              world'[res] # world[res] => world'[res] \notin written]_vars
  BY WriteIsFirst
<1> QED BY <1>1, InvTheorem, PTL DEF Spec, WritesAtMostOnce

-----------------------------------------------------------------------------

LEMMA InitRefines == Init => Safe!Init
<1> SUFFICES ASSUME Init PROVE Safe!Init
  OBVIOUS
<1>1. ASSUME NEW r \in Remediations
      PROVE  Stage(r) = "idle" /\ Need(r) = 0 /\ Len(approvals[r]) = 0
  BY DEF Init, InitialState, Approval!Init, Stage, Need, RequiresApproval,
         NoRisk, High, Critical
<1> QED
  BY <1>1 DEF Safe!Init, Init

(* If only r is seen to move, and only its stage and its need, the mapped  *)
(* functions differ at r alone.                                            *)
LEMMA MovesAlone ==
  ASSUME NEW r \in Remediations, UNCHANGED approvals,
         \A q \in Remediations \ {r} : pc'[q] = pc[q] /\ state'[q] = state[q]
  PROVE  /\ [q \in Remediations |-> Stage(q)]'
              = [[q \in Remediations |-> Stage(q)] EXCEPT ![r] = Stage(r)']
         /\ [q \in Remediations |-> Need(q)]'
              = [[q \in Remediations |-> Need(q)] EXCEPT ![r] = Need(r)']
         /\ [q \in Remediations |-> Len(approvals[q])]'
              = [q \in Remediations |-> Len(approvals[q])]
<1>1. \A q \in Remediations \ {r} : Stage(q)' = Stage(q) /\ Need(q)' = Need(q)
  BY DEF Stage, Need
<1> QED BY <1>1

(* Every node is a step of the abstract remediation, or none.              *)
LEMMA NodeRefines ==
  ASSUME GraphInv, NEW r \in Remediations, Node(r) \/ Invoke(r)
  PROVE  [Safe!Next]_(Safe!vars)
<1> USE DEF GoTo
<1>0. /\ pc \in [Remediations -> Nodes \cup {"idle", "end"}]
      /\ state \in [Remediations -> RemediationState]
      /\ GatesPassed(r)
  BY DEF GraphInv, TypeOK
<1>1. UNCHANGED approvals
  BY DEF Node, Invoke, EvaluatePolicy, ResolvePlaybook, AssessRisk,
         SubmitRequest, Approval!RequestApproval, ApprovalReturned,
         CreateSnapshot, ExecuteAction, ExecuteThen, ValidateHealth,
         PerformRollback, workflowVars
<1>2. \A q \in Remediations \ {r} : pc'[q] = pc[q] /\ state'[q] = state[q]
  BY <1>0
     DEF Node, Invoke, EvaluatePolicy, ResolvePlaybook, AssessRisk,
         SubmitRequest, graphVars, ApprovalReturned, CreateSnapshot,
         ExecuteAction, ExecuteThen, ValidateHealth, PerformRollback
<1> DEFINE stage == [q \in Remediations |-> Stage(q)]
           need == [q \in Remediations |-> Need(q)]
           assents == [q \in Remediations |-> Len(approvals[q])]
<1>3. /\ stage' = [stage EXCEPT ![r] = Stage(r)']
      /\ need' = [need EXCEPT ![r] = Need(r)']
      /\ assents' = assents
      /\ stage[r] = Stage(r) /\ need[r] = Need(r)
      /\ assents[r] = Len(approvals[r])
  BY <1>1, <1>2, MovesAlone
<1>4. /\ stage \in [Remediations -> {Stage(q) : q \in Remediations}]
      /\ need \in [Remediations -> {Need(q) : q \in Remediations}]
  OBVIOUS
<1> HIDE DEF stage, need, assents
<1>5. ASSUME Stage(r)' = Stage(r), Need(r)' = Need(r), UNCHANGED written
      PROVE  UNCHANGED Safe!vars
  <2>1. stage' = stage /\ need' = need
    BY <1>3, <1>4, <1>5
  <2> QED BY <1>3, <1>5, <2>1 DEF Safe!vars, stage, need, assents
<1>6. ASSUME Need(r)' = Need(r)
      PROVE  need' = need
  BY <1>3, <1>4, <1>6
<1>7. CASE Invoke(r)
  <2>1. Stage(r) = "idle" /\ Stage(r)' = "requested"
    BY <1>0, <1>7 DEF Invoke, Stage
  <2>2. Need(r)' = Need(r) /\ UNCHANGED written
    BY <1>7 DEF Invoke, Need
  <2>3. Safe!Start(r)
    BY <1>3, <1>6, <2>1, <2>2 DEF Safe!Start, Safe!Move, stage, need, assents
  <2> QED BY <2>3 DEF Safe!Next
<1>8. CASE EvaluatePolicy(r)
  <2>1. PICK v \in {"allowed", "denied"} :
          /\ state' = [state EXCEPT ![r].policy = v, ![r].step = "evaluate_policy"]
          /\ pc' = [pc EXCEPT ![r] = IF v = "allowed" THEN "resolve_playbook"
                                                     ELSE "end"]
    BY <1>8 DEF EvaluatePolicy
  <2>2. /\ state'[r].risk = state[r].risk /\ state'[r].step = "evaluate_policy"
        /\ pc[r] = "evaluate_policy" /\ UNCHANGED written
        /\ pc'[r] = IF v = "allowed" THEN "resolve_playbook" ELSE "end"
    BY <1>0, <1>8, <2>1 DEF EvaluatePolicy, RemediationState
  <2>3. Need(r)' = Need(r) /\ Stage(r) = "requested"
    BY <2>2 DEF Need, Stage
  <2>4. CASE v = "allowed"
    <3>1. Stage(r)' = "requested"
      BY <2>2, <2>4 DEF Stage
    <3> QED BY <1>5, <2>2, <2>3, <3>1
  <2>5. CASE v = "denied"
    <3>1. Stage(r)' = "refused"
      BY <2>2, <2>5 DEF Stage
    <3>2. Safe!Refuse(r)
      BY <1>3, <1>6, <2>2, <2>3, <3>1
         DEF Safe!Refuse, Safe!Move, stage, need, assents
    <3> QED BY <3>2 DEF Safe!Next, Safe!Progress
  <2> QED BY <2>4, <2>5
<1>9. CASE ResolvePlaybook(r)
  <2>1. /\ state'[r].risk = state[r].risk /\ UNCHANGED written
        /\ pc[r] = "resolve_playbook" /\ pc'[r] = "assess_risk"
    BY <1>0, <1>9 DEF ResolvePlaybook, RemediationState
  <2> QED BY <1>5, <2>1 DEF Need, Stage
<1>10. CASE AssessRisk(r)
  <2>1. PICK v :
          /\ state' = [state EXCEPT ![r].risk = v, ![r].step = "assess_risk"]
          /\ pc' = [pc EXCEPT ![r] = IF RequiresApproval(v) THEN "request_approval"
                                                           ELSE "create_snapshot"]
    BY <1>10 DEF AssessRisk
  <2>2. /\ state'[r].risk = v /\ UNCHANGED written /\ pc[r] = "assess_risk"
        /\ pc'[r] = IF RequiresApproval(v) THEN "request_approval"
                                           ELSE "create_snapshot"
    BY <1>0, <1>10, <2>1 DEF AssessRisk, RemediationState
  <2>3. Need(r)' = IF RequiresApproval(v) THEN RequiredApprovals(v) ELSE 0
    BY <2>2 DEF Need
  <2>4. /\ Stage(r) = "requested"
        /\ Stage(r)' = IF RequiresApproval(v) THEN "assessed" ELSE "cleared"
    BY <2>2 DEF Stage
  <2>5. /\ Need(r)' \in 0 .. 2
        /\ Stage(r)' = IF Need(r)' = 0 THEN "cleared" ELSE "assessed"
    BY <2>3, <2>4, RequiredType
  <2>6. Safe!Assess(r)
    BY <1>3, <2>2, <2>4, <2>5 DEF Safe!Assess, Safe!Move, stage, need, assents
  <2> QED BY <2>6 DEF Safe!Next, Safe!Progress
<1>11. CASE SubmitRequest(r)
  BY <1>5, <1>11 DEF SubmitRequest, graphVars, Stage, Need
<1>12. CASE ApprovalReturned(r)
  <2>1. /\ state'[r].risk = state[r].risk /\ state'[r].step = "request_approval"
        /\ UNCHANGED written /\ pc[r] = "request_approval"
        /\ pc'[r] = IF status[r] = "approved" THEN "create_snapshot" ELSE "end"
    BY <1>0, <1>12 DEF ApprovalReturned, RemediationState
  <2>2. Need(r)' = Need(r) /\ Stage(r) = "assessed"
    BY <2>1 DEF Need, Stage
  <2>3. CASE status[r] = "approved"
    <3>1. Stage(r)' = "cleared"
      BY <2>1, <2>3 DEF Stage
    <3>2. Len(approvals[r]) >= Need(r)
      <4>1. Len(approvals[r]) >= RequiredApprovals(state[r].risk)
        BY <1>0, <1>12, <2>3
           DEF GatesPassed, ApprovalReturned, GraphInv, Approval!DecisionBacked
      <4>2. Len(approvals[r]) \in Nat
        BY DEF GraphInv, TypeOK, Approval!TypeOK
      <4> QED BY <4>1, <4>2 DEF Need
    <3>3. Safe!Clear(r)
      BY <1>3, <1>6, <2>1, <2>2, <3>1, <3>2
         DEF Safe!Clear, Safe!Move, stage, need, assents
    <3> QED BY <3>3 DEF Safe!Next, Safe!Progress
  <2>4. CASE status[r] # "approved"
    <3>1. Stage(r)' = "refused"
      BY <2>1, <2>4 DEF Stage
    <3>2. Safe!Refuse(r)
      BY <1>3, <1>6, <2>1, <2>2, <3>1
         DEF Safe!Refuse, Safe!Move, stage, need, assents
    <3> QED BY <3>2 DEF Safe!Next, Safe!Progress
  <2> QED BY <2>3, <2>4
<1>13. CASE CreateSnapshot(r)
  <2>1. /\ state'[r].risk = state[r].risk /\ UNCHANGED written
        /\ pc[r] = "create_snapshot" /\ pc'[r] = "execute_action"
    BY <1>0, <1>13 DEF CreateSnapshot, RemediationState
  <2> QED BY <1>5, <2>1 DEF Need, Stage
<1>14. CASE ExecuteAction(r)
  <2>1. /\ state'[r].risk = state[r].risk
        /\ written' \in {written, written \cup {r}}
        /\ pc[r] = "execute_action"
        /\ pc'[r] \in {"validate_health", "perform_rollback"}
    BY <1>0, <1>14 DEF ExecuteAction, ExecuteThen, RemediationState
  <2>2. Need(r)' = Need(r) /\ Stage(r) = "cleared" /\ Stage(r)' = "attempted"
    BY <2>1 DEF Need, Stage
  <2>3. Safe!Attempt(r)
    BY <1>3, <1>6, <2>1, <2>2 DEF Safe!Attempt, Safe!Move, stage, need, assents
  <2> QED BY <2>3 DEF Safe!Next, Safe!Progress
<1>15. CASE ValidateHealth(r)
  <2>1. /\ state'[r].risk = state[r].risk /\ state'[r].step = "validate_health"
        /\ UNCHANGED written /\ pc[r] = "validate_health"
        /\ pc'[r] \in {"perform_rollback", "end"}
    BY <1>0, <1>15 DEF ValidateHealth, RemediationState
  <2>2. Need(r)' = Need(r) /\ Stage(r) = "attempted"
    BY <2>1 DEF Need, Stage
  <2>3. CASE pc'[r] = "perform_rollback"
    <3>1. Stage(r)' = "attempted"
      BY <2>3 DEF Stage
    <3> QED BY <1>5, <2>1, <2>2, <3>1
  <2>4. CASE pc'[r] = "end"
    <3>1. Stage(r)' = "accepted"
      BY <2>1, <2>4 DEF Stage
    <3>2. Safe!Close(r)
      BY <1>3, <1>6, <2>1, <2>2, <3>1
         DEF Safe!Close, Safe!Move, stage, need, assents
    <3> QED BY <3>2 DEF Safe!Next, Safe!Progress
  <2> QED BY <2>1, <2>3, <2>4
<1>16. CASE PerformRollback(r)
  <2>1. /\ state'[r].risk = state[r].risk /\ state'[r].step = "rolled_back"
        /\ UNCHANGED written /\ pc[r] = "perform_rollback" /\ pc'[r] = "end"
    BY <1>0, <1>16 DEF PerformRollback, RemediationState
  <2>2. /\ Need(r)' = Need(r)
        /\ Stage(r) = "attempted" /\ Stage(r)' = "rolled_back"
    BY <2>1 DEF Need, Stage
  <2>3. Safe!Close(r)
    BY <1>3, <1>6, <2>1, <2>2 DEF Safe!Close, Safe!Move, stage, need, assents
  <2> QED BY <2>3 DEF Safe!Next, Safe!Progress
<1> QED
  BY <1>7, <1>8, <1>9, <1>10, <1>11, <1>12, <1>13, <1>14, <1>15, <1>16 DEF Node

(* The workflow's own steps are not seen; an approval is an assent.        *)
LEMMA WorkflowRefines ==
  ASSUME GraphInv, NEW r \in Remediations, WorkflowStep(r) \/ Answer(r)
  PROVE  [Safe!Next]_(Safe!vars)
<1>1. /\ UNCHANGED graphVars
      /\ \A q \in Remediations : Stage(q)' = Stage(q) /\ Need(q)' = Need(q)
  BY DEF WorkflowStep, Answer, graphVars, Stage, Need
<1>2. CASE UNCHANGED approvals
  BY <1>1, <1>2 DEF Safe!vars, graphVars
<1>3. ASSUME NEW p \in People, Approval!Approve(r, p)
      PROVE  Safe!Assent(r)
  <2>1. /\ approvals \in [Remediations -> Seq(People)]
        /\ approvals' = [approvals EXCEPT ![r] = Append(@, p)]
    BY <1>3 DEF Approval!Approve, GraphInv, TypeOK, Approval!TypeOK
  <2>2. \A q \in Remediations :
          Len(approvals'[q]) = IF q = r THEN Len(approvals[q]) + 1 ELSE Len(approvals[q])
    <3>1. \A q \in Remediations : approvals[q] \in Seq(People)
      BY <2>1
    <3>2. Len(Append(approvals[r], p)) = Len(approvals[r]) + 1
      BY <3>1
    <3> QED BY <2>1, <3>2
  <2> QED BY <1>1, <2>2 DEF Safe!Assent, graphVars
<1> QED
  BY <1>2, <1>3
     DEF WorkflowStep, Answer, Approval!Answer, Approval!Deny, Approval!Coroutine,
         Approval!Notified, Approval!Poll, Approval!WaitTimeout, Approval!Return,
         Safe!Next

(* The agent implements SafeRemediation: every step of the graph, of the   *)
(* suspended workflow and of the approvers maps to a step of the abstract  *)
(* remediation or to none.                                                 *)
THEOREM RefinementTheorem == Spec => Safe!Safety
<1>1. GraphInv /\ [Next]_vars => [Safe!Next]_(Safe!vars)
  <2> SUFFICES ASSUME GraphInv, [Next]_vars PROVE [Safe!Next]_(Safe!vars)
    OBVIOUS
  <2>1. CASE Next
    BY <2>1, NodeRefines, WorkflowRefines DEF Next
  <2>2. CASE UNCHANGED vars
    BY <2>2 DEF vars, Safe!vars, Stage, Need
  <2> QED BY <2>1, <2>2
<1> QED
  BY <1>1, InitRefines, InvTheorem, PTL DEF Spec, Safe!Safety

-----------------------------------------------------------------------------

(* What became of a call, and what that says about its entries. *)
CallOK(r) ==
  /\ pc[r] # "idle" =>
       call[r] # "new" /\ BlastRadiusAllows(state[r].action.env, count[r])
  /\ call[r] \in {"persisting", "auditing"} => stored[r] \in {"final", "failed"}
  /\ audit[r] # "none" => call[r] = "returned"
  /\ audit[r] = "success" => state[r].execution # "failed"
  /\ call[r] \in {"new", "running"} => stored[r] = "none"
  /\ stored[r] = "final" => pc[r] = "end"

CallTypeOK ==
  /\ call \in [Remediations -> {"new", "running", "persisting", "auditing",
                                "returned", "lost"}]
  /\ count \in [Remediations -> Counts \cup {0}]
  /\ stored \in [Remediations -> {"none", "blast_radius_exceeded", "final", "failed"}]
  /\ audit \in [Remediations -> {"none", "success", "failed"}]

ServiceInv ==
  /\ GraphInv
  /\ CallTypeOK
  /\ \A r \in Remediations : CallOK(r)

-----------------------------------------------------------------------------

(* But for the manual rollback, the service takes the steps of the graph.  *)
LEMMA ServiceGraph ==
  ASSUME ServiceNext
  PROVE  [Next]_vars \/ \E r \in Remediations : RestRollback(r)
BY DEF ServiceNext, Remediate, Advance, GraphStep, Store, RunFails, Persist,
       WriteAudit, RestAnswer, Restart, Next, vars

(* POST /rollback changes two fields that no gate reads. *)
LEMMA RollbackKeepsGraph ==
  ASSUME GraphInv, NEW r \in Remediations, RestRollback(r)
  PROVE  /\ GraphInv'
         /\ \A q \in Remediations :
              /\ state'[q].action = state[q].action
              /\ state'[q].execution = state[q].execution
<1>1. /\ state' = [state EXCEPT ![r].rollback = "success", ![r].step = "rolled_back"]
      /\ UNCHANGED <<pc, world, written, workflowVars>>
  BY DEF RestRollback
<1>2. state \in [Remediations -> RemediationState]
  BY DEF GraphInv, TypeOK
<1>3. state' \in [Remediations -> RemediationState]
  BY <1>1, <1>2, UpdateType
<1>4. ASSUME NEW q \in Remediations
      PROVE  /\ state'[q].policy = state[q].policy /\ state'[q].risk = state[q].risk
             /\ state'[q].action = state[q].action
             /\ state'[q].execution = state[q].execution
  BY <1>1, <1>2 DEF RemediationState
<1>5. TypeOK'
  BY <1>1, <1>3 DEF workflowVars, GraphInv, TypeOK, Approval!TypeOK
<1>6. Approval!DecisionBacked'
  BY <1>1 DEF workflowVars, GraphInv, Approval!DecisionBacked, Approval!Decided
<1>7. ASSUME NEW q \in Remediations PROVE GatesPassed(q)'
  BY <1>1, <1>4 DEF workflowVars, GraphInv, GatesPassed, Cleared
<1> QED BY <1>4, <1>5, <1>6, <1>7 DEF GraphInv

(* A node moves its own remediation alone, and none that was not invoked.  *)
LEMMA NodeMoves ==
  ASSUME TypeOK, NEW r \in Remediations, Node(r) \/ WorkflowStep(r)
  PROVE  /\ \A q \in Remediations \ {r} : pc'[q] = pc[q] /\ state'[q] = state[q]
         /\ \A q \in Remediations : pc[q] \in {"idle", "end"} => pc'[q] = pc[q]
<1>1. CASE SubmitRequest(r) \/ WorkflowStep(r)
  BY <1>1 DEF SubmitRequest, WorkflowStep, graphVars
<1>2. CASE \/ EvaluatePolicy(r) \/ ResolvePlaybook(r) \/ AssessRisk(r)
           \/ ApprovalReturned(r) \/ CreateSnapshot(r) \/ ExecuteAction(r)
           \/ ValidateHealth(r) \/ PerformRollback(r)
  <2>1. /\ pc[r] \notin {"idle", "end"}
        /\ \E p, s : pc' = [pc EXCEPT ![r] = p] /\ state' = [state EXCEPT ![r] = s]
    BY <1>2 DEF EvaluatePolicy, ResolvePlaybook, AssessRisk, ApprovalReturned,
       CreateSnapshot, ExecuteAction, ExecuteThen, ValidateHealth, PerformRollback, GoTo
  <2> QED BY <2>1 DEF TypeOK
<1> QED BY <1>1, <1>2 DEF Node

-----------------------------------------------------------------------------

LEMMA InitServiceInv == ServiceInit => ServiceInv
<1> SUFFICES ASSUME ServiceInit PROVE ServiceInv
  OBVIOUS
<1>1. GraphInv
  BY InitInv DEF ServiceInit
<1>2. CallTypeOK /\ \A r \in Remediations : CallOK(r)
  BY DEF ServiceInit, Init, CallTypeOK, CallOK
<1> QED BY <1>1, <1>2 DEF ServiceInv

(* The steps of the runner that leave the graph alone, and the restart.    *)
LEMMA RunnerStep ==
  ASSUME ServiceInv, UNCHANGED vars,
         \/ \E r \in Remediations : Store(r) \/ RunFails(r) \/ Persist(r) \/ WriteAudit(r)
         \/ \E r \in Remediations, n \in Counts : Remediate(r, n)
         \/ Restart
  PROVE  ServiceInv'
<1>t. CallTypeOK /\ \A r \in Remediations : CallOK(r)
  BY DEF ServiceInv
<1>1. GraphInv'
  BY StepInv DEF ServiceInv
<1>2. pc' = pc /\ state' = state
  BY DEF vars
<1>3. ASSUME NEW r \in Remediations, Store(r) \/ RunFails(r) \/ Persist(r)
      PROVE  CallTypeOK' /\ \A q \in Remediations : CallOK(q)'
  <2>1. /\ call[r] \in {"running", "persisting"}
        /\ \E c \in {"persisting", "auditing"}, s \in {"final", "failed"} :
             /\ call' = [call EXCEPT ![r] = c] /\ stored' = [stored EXCEPT ![r] = s]
             /\ s = "final" => pc[r] = "end"
        /\ UNCHANGED <<count, audit>>
    <3>1. CASE Store(r) \/ RunFails(r)
      BY <3>1 DEF Store, RunFails
    <3>2. CASE Persist(r)
      <4>1. /\ stored[r] \in {"final", "failed"} /\ stored = [stored EXCEPT ![r] = stored[r]]
            /\ stored[r] = "final" => pc[r] = "end"
        BY <1>t, <3>2 DEF Persist, CallOK, CallTypeOK
      <4> QED BY <3>2, <4>1 DEF Persist
    <3> QED BY <1>3, <3>1, <3>2
  <2> QED BY <1>t, <1>2, <2>1 DEF CallTypeOK, CallOK
<1>4. ASSUME NEW r \in Remediations, WriteAudit(r)
      PROVE  CallTypeOK' /\ \A q \in Remediations : CallOK(q)'
  <2> PICK outcome \in {"none", AuditOutcome(r)} : audit' = [audit EXCEPT ![r] = outcome]
    BY <1>4 DEF WriteAudit
  <2>1. /\ call[r] = "auditing" /\ call' = [call EXCEPT ![r] = "returned"]
        /\ UNCHANGED <<count, stored>>
    BY <1>4 DEF WriteAudit
  <2>2. stored[r] \in {"final", "failed"}
    BY <1>t, <2>1 DEF CallOK
  <2>3. state[r].execution \in {"none", "success", "failed"}
    BY DEF ServiceInv, GraphInv, TypeOK, RemediationState
  <2>4. /\ AuditOutcome(r) \in {"success", "failed"}
        /\ AuditOutcome(r) = "success" => state[r].execution # "failed"
    BY <2>2, <2>3 DEF AuditOutcome
  <2>5. CallTypeOK'
    BY <1>t, <2>1, <2>4 DEF CallTypeOK
  <2>6. ASSUME NEW q \in Remediations PROVE CallOK(q)'
    BY <1>t, <1>2, <2>1, <2>4 DEF CallTypeOK, CallOK
  <2> QED BY <2>5, <2>6
<1>5. ASSUME NEW r \in Remediations, NEW n \in Counts, Remediate(r, n)
      PROVE  CallTypeOK' /\ \A q \in Remediations : CallOK(q)'
  <2>1. /\ call[r] = "new" /\ pc[r] = "idle"
        /\ count' = [count EXCEPT ![r] = n]
        /\ \E c \in {"running", "returned"}, s \in {stored[r], "blast_radius_exceeded"} :
             /\ call' = [call EXCEPT ![r] = c] /\ stored' = [stored EXCEPT ![r] = s]
             /\ c = "running" => s = stored[r]
        /\ UNCHANGED audit
    <3>1. pc[r] = "idle"
      BY <1>t, <1>5 DEF Remediate, CallOK
    <3>2. stored = [stored EXCEPT ![r] = stored[r]]
      BY <1>t DEF CallTypeOK
    <3> QED BY <1>5, <3>1, <3>2 DEF Remediate
  <2>2. audit[r] = "none"
    BY <1>t, <2>1 DEF CallOK
  <2> QED BY <1>t, <1>2, <2>1, <2>2 DEF CallTypeOK, CallOK
<1>6. ASSUME Restart PROVE CallTypeOK' /\ \A q \in Remediations : CallOK(q)'
  <2>1. /\ \A q \in Remediations :
             /\ stored'[q] = "none"
             /\ call'[q] = IF call[q] \in {"new", "returned"} THEN call[q] ELSE "lost"
        /\ UNCHANGED <<count, audit>>
    BY <1>6 DEF Restart
  <2>2. CallTypeOK'
    BY <1>t, <1>6 DEF Restart, CallTypeOK
  <2>3. ASSUME NEW q \in Remediations PROVE CallOK(q)'
    BY <1>t, <1>2, <2>1 DEF CallOK
  <2> QED BY <2>2, <2>3
<1> QED BY <1>1, <1>3, <1>4, <1>5, <1>6 DEF ServiceInv

LEMMA ServiceStep ==
  ASSUME ServiceInv, ServiceNext
  PROVE  ServiceInv'
<1>t. TypeOK /\ CallTypeOK /\ \A r \in Remediations : CallOK(r)
  BY DEF ServiceInv, GraphInv
<1>1. ASSUME NEW r \in Remediations, RestRollback(r) PROVE ServiceInv'
  <2>1. pc' = pc /\ UNCHANGED serviceVars
    BY <1>1 DEF RestRollback
  <2> QED
    BY <1>1, <1>t, <2>1, RollbackKeepsGraph
       DEF serviceVars, ServiceInv, CallTypeOK, CallOK
<1>2. ASSUME NEW r \in Remediations, GraphStep(r) PROVE ServiceInv'
  <2>1. [Next]_vars /\ call[r] = "running" /\ UNCHANGED serviceVars
    BY <1>2 DEF GraphStep, Next
  <2>2. Node(r) \/ WorkflowStep(r)
    BY <1>2 DEF GraphStep
  <2>3. GraphInv'
    BY <2>1, StepInv DEF ServiceInv
  <2>4. ASSUME NEW q \in Remediations PROVE CallOK(q)'
    <3>1. state'[q].action = state[q].action
      BY <1>t, <2>1, StateMoves
    <3>2. pc[q] \in {"idle", "end"} => pc'[q] = pc[q]
      BY <1>t, <2>2, NodeMoves
    <3>3. q = r \/ state'[q] = state[q]
      BY <1>t, <2>2, NodeMoves
    <3> QED BY <1>t, <2>1, <3>1, <3>2, <3>3 DEF serviceVars, CallOK
  <2> QED BY <1>t, <2>1, <2>3, <2>4 DEF serviceVars, ServiceInv, CallTypeOK
<1>3. ASSUME NEW r \in Remediations, RestAnswer(r) PROVE ServiceInv'
  <2>1. [Next]_vars /\ UNCHANGED graphVars /\ UNCHANGED serviceVars
    BY <1>3 DEF RestAnswer, Answer, Next
  <2>2. GraphInv'
    BY <2>1, StepInv DEF ServiceInv
  <2> QED BY <1>t, <2>1, <2>2 DEF graphVars, serviceVars, ServiceInv, CallTypeOK, CallOK
<1>4. ASSUME NEW r \in Remediations, NEW n \in Counts, Remediate(r, n), ~UNCHANGED vars
      PROVE  ServiceInv'
  <2>1. /\ call[r] = "new" /\ Invoke(r)
        /\ BlastRadiusAllows(state[r].action.env, n)
        /\ count' = [count EXCEPT ![r] = n]
        /\ call' = [call EXCEPT ![r] = "running"]
        /\ UNCHANGED <<stored, audit>>
    BY <1>4 DEF Remediate
  <2>2. [Next]_vars /\ pc' = [pc EXCEPT ![r] = "evaluate_policy"] /\ state' = state
    BY <2>1 DEF Next, Invoke, GoTo
  <2>3. GraphInv'
    BY <2>2, StepInv DEF ServiceInv
  <2>4. CallTypeOK'
    BY <1>t, <2>1 DEF CallTypeOK
  <2>5. ASSUME NEW q \in Remediations PROVE CallOK(q)'
    BY <1>t, <2>1, <2>2 DEF TypeOK, CallTypeOK, CallOK
  <2> QED BY <2>3, <2>4, <2>5 DEF ServiceInv
<1>5. CASE \/ \E r \in Remediations : Store(r) \/ RunFails(r) \/ Persist(r) \/ WriteAudit(r)
           \/ Restart
  <2>1. UNCHANGED vars
    BY <1>5 DEF Store, RunFails, Persist, WriteAudit, Restart
  <2> QED BY <1>5, <2>1, RunnerStep
<1>6. ASSUME NEW r \in Remediations, NEW n \in Counts, Remediate(r, n), UNCHANGED vars
      PROVE  ServiceInv'
  BY <1>6, RunnerStep
<1> QED BY <1>1, <1>2, <1>3, <1>4, <1>5, <1>6 DEF ServiceNext, Advance

LEMMA ServiceInvTheorem == ServiceSpec => []ServiceInv
<1>1. ServiceInv /\ [ServiceNext]_allVars => ServiceInv'
  <2> SUFFICES ASSUME ServiceInv, [ServiceNext]_allVars PROVE ServiceInv'
    OBVIOUS
  <2>1. CASE UNCHANGED allVars
    <3>1. UNCHANGED vars /\ UNCHANGED <<call, count, stored, audit>>
      BY <2>1 DEF allVars
    <3>2. GraphInv'
      BY <3>1, StepInv DEF ServiceInv
    <3> QED BY <3>1, <3>2 DEF vars, ServiceInv, CallTypeOK, CallOK
  <2> QED BY <2>1, ServiceStep
<1> QED BY <1>1, InitServiceInv, PTL DEF ServiceSpec

(* Every variable of the runner and of the graph keeps its type.           *)
THEOREM ServiceTypeTheorem == ServiceSpec => []ServiceTypeOK
<1>1. ServiceInv => ServiceTypeOK
  BY DEF ServiceInv, CallTypeOK, GraphInv, ServiceTypeOK
<1> QED BY <1>1, ServiceInvTheorem, PTL

(* Whatever endpoints are called and whenever the process restarts, every  *)
(* write has passed the gates and the blast radius.                        *)
THEOREM ServiceAuthorisationTheorem == ServiceSpec => []ServiceNoUnauthorisedWrite
<1>1. ServiceInv => ServiceNoUnauthorisedWrite
  <2> SUFFICES ASSUME ServiceInv PROVE ServiceNoUnauthorisedWrite
    OBVIOUS
  <2>1. NoUnauthorisedWrite
    BY GatesSuffice DEF ServiceInv
  <2>2. ASSUME NEW r \in written PROVE BlastRadiusAllows(state[r].action.env, count[r])
    <3>1. r \in Remediations /\ pc[r] # "idle"
      BY DEF ServiceInv, GraphInv, TypeOK, GatesPassed, AfterWrite
    <3> QED BY <3>1 DEF ServiceInv, CallOK
  <2> QED BY <2>1, <2>2 DEF ServiceNoUnauthorisedWrite
<1> QED BY <1>1, ServiceInvTheorem, PTL

(* No entry of _write_audit() calls a failed execution a success.          *)
THEOREM AuditTheorem == ServiceSpec => []AuditHidesNoFailure
<1>1. ServiceInv => AuditHidesNoFailure
  BY DEF ServiceInv, CallOK, AuditHidesNoFailure
<1> QED BY <1>1, ServiceInvTheorem, PTL

-----------------------------------------------------------------------------
(* A snapshot is the last thing before the write, so a remediation that is  *)
(* over and has one was not refused.                                       *)
SnapshotPlaced(r) ==
  state[r].snapshot # "none" =>
    /\ pc[r] \in {"execute_action"} \cup AfterWrite
    /\ pc[r] = "end" => state[r].step \in {"validate_health", "rolled_back"}

LEMMA SnapshotKept ==
  ASSUME TypeOK, \A q \in Remediations : SnapshotPlaced(q), [Next]_vars,
         NEW q \in Remediations
  PROVE  SnapshotPlaced(q)'
<1>1. state \in [Remediations -> RemediationState] /\ SnapshotPlaced(q)
      /\ pc \in [Remediations -> Nodes \cup {"idle", "end"}]
  BY DEF TypeOK
<1>2. ASSUME NEW r \in Remediations, r # q, Node(r) \/ WorkflowStep(r)
      PROVE  SnapshotPlaced(q)'
  BY <1>1, <1>2, NodeMoves DEF SnapshotPlaced
<1>3. CASE EvaluatePolicy(q) \/ ResolvePlaybook(q) \/ AssessRisk(q) \/ ApprovalReturned(q)
  <2>1. state[q].snapshot = "none"
    BY <1>1, <1>3 DEF SnapshotPlaced, AfterWrite, EvaluatePolicy, ResolvePlaybook, AssessRisk,
                      ApprovalReturned
  <2>2. state'[q].snapshot = state[q].snapshot
    <3>1. CASE EvaluatePolicy(q)
      <4>1. \E x : state' = [state EXCEPT ![q].policy = x, ![q].step = "evaluate_policy"]
        BY <3>1 DEF EvaluatePolicy
      <4> QED BY <1>1, <4>1 DEF RemediationState
    <3>2. CASE ResolvePlaybook(q)
      <4>1. \E x : state' = [state EXCEPT ![q].playbook = x, ![q].step = "resolve_playbook"]
        BY <3>2 DEF ResolvePlaybook
      <4> QED BY <1>1, <4>1 DEF RemediationState
    <3>3. CASE AssessRisk(q)
      <4>1. \E x : state' = [state EXCEPT ![q].risk = x, ![q].step = "assess_risk"]
        BY <3>3 DEF AssessRisk
      <4> QED BY <1>1, <4>1 DEF RemediationState
    <3>4. CASE ApprovalReturned(q)
      <4>1. \E x : state' = [state EXCEPT ![q].approval = x, ![q].step = "request_approval"]
        BY <3>4 DEF ApprovalReturned
      <4> QED BY <1>1, <4>1 DEF RemediationState
    <3> QED BY <1>3, <3>1, <3>2, <3>3, <3>4
  <2> QED BY <2>1, <2>2 DEF SnapshotPlaced
<1>4. CASE CreateSnapshot(q)
  <2>1. pc'[q] = "execute_action"
    BY <1>1, <1>4 DEF CreateSnapshot, GoTo
  <2> QED BY <2>1 DEF SnapshotPlaced
<1>5. CASE ExecuteAction(q)
  <2>1. pc'[q] \in {"validate_health", "perform_rollback"}
    BY <1>1, <1>5 DEF ExecuteAction, ExecuteThen, GoTo
  <2> QED BY <2>1 DEF SnapshotPlaced, AfterWrite
<1>6. CASE ValidateHealth(q)
  <2>1. pc'[q] \in {"perform_rollback", "end"} /\ state'[q].step = "validate_health"
    BY <1>1, <1>6 DEF ValidateHealth, GoTo, RemediationState
  <2> QED BY <2>1 DEF SnapshotPlaced, AfterWrite
<1>7. CASE PerformRollback(q)
  <2>1. pc'[q] = "end" /\ state'[q].step = "rolled_back"
    BY <1>1, <1>7 DEF PerformRollback, GoTo, RemediationState
  <2> QED BY <2>1 DEF SnapshotPlaced, AfterWrite
<1>8. ASSUME NEW r \in Remediations, Invoke(r)
      PROVE  SnapshotPlaced(q)'
  BY <1>1, <1>8 DEF Invoke, GoTo, SnapshotPlaced, AfterWrite
<1>9. CASE \/ \E r \in Remediations : SubmitRequest(r) \/ WorkflowStep(r) \/ Answer(r)
           \/ UNCHANGED vars
  BY <1>1, <1>9 DEF SubmitRequest, WorkflowStep, Answer, graphVars, vars, SnapshotPlaced
<1> QED BY <1>2, <1>3, <1>4, <1>5, <1>6, <1>7, <1>8, <1>9 DEF Next, Node

RunState == RiskAssessed /\ \A r \in Remediations : SnapshotPlaced(r)

RunInv == ServiceInv /\ RunState

LEMMA RunStateStep ==
  ASSUME ServiceInv, RunState, [ServiceNext]_allVars
  PROVE  RunState'
<1>1. TypeOK /\ RiskAssessed /\ \A r \in Remediations : SnapshotPlaced(r)
  BY DEF RunState, ServiceInv, GraphInv
<1>2. CASE [Next]_vars
  BY <1>1, <1>2, StateMoves, SnapshotKept DEF RiskAssessed, RunState
<1>3. ASSUME NEW r \in Remediations, RestRollback(r)
      PROVE  RunState'
  <2>1. /\ state \in [Remediations -> RemediationState]
        /\ state' = [state EXCEPT ![r].rollback = "success", ![r].step = "rolled_back"]
        /\ pc' = pc
    BY <1>1, <1>3 DEF TypeOK, RestRollback
  <2>2. ASSUME NEW q \in Remediations
        PROVE  /\ state'[q].risk = state[q].risk /\ state'[q].action = state[q].action
               /\ state'[q].snapshot = state[q].snapshot
               /\ state'[q].step \in {state[q].step, "rolled_back"}
    BY <2>1 DEF RemediationState
  <2> QED BY <1>1, <2>1, <2>2 DEF RiskAssessed, SnapshotPlaced, RunState
<1>4. UNCHANGED allVars => UNCHANGED vars
  BY DEF allVars, vars
<1> QED BY <1>2, <1>3, <1>4, ServiceGraph

LEMMA RunInvTheorem == ServiceSpec => []RunInv
<1>1. ServiceInit => RunState
  BY DEF ServiceInit, Init, InitialState, RiskAssessed, SnapshotPlaced, RunState
<1>2. ServiceInv /\ RunState /\ [ServiceNext]_allVars => RunState'
  BY RunStateStep
<1> QED BY <1>1, <1>2, ServiceInvTheorem, PTL DEF ServiceSpec, RunInv

(* The baseline's approvals are asked for in the service as in the graph.  *)
THEOREM ServiceBaselineTheorem == ServiceSpec => []BaselineGated
<1>1. RunInv => BaselineGated
  BY BaselineSuffices DEF RunInv, RunState, ServiceInv
<1> QED BY <1>1, RunInvTheorem, PTL

(* No restart and no call of an endpoint makes a remediation write again.  *)
THEOREM ServiceWriteOnceTheorem == ServiceSpec => WritesAtMostOnce
<1>1. ASSUME ServiceInv, [ServiceNext]_allVars, NEW res \in Resources,
             world'[res] # world[res]
      PROVE  world'[res] \notin written
  <2>1. GraphInv
    BY <1>1 DEF ServiceInv
  <2>2. [Next]_vars
    BY <1>1, ServiceGraph DEF RestRollback, allVars, vars
  <2> QED BY <1>1, <2>1, <2>2, WriteIsFirst
<1>2. ServiceInv /\ [ServiceNext]_allVars
        => [\A res \in Resources :
              world'[res] # world[res] => world'[res] \notin written]_vars
  BY <1>1
<1> QED BY <1>2, ServiceInvTheorem, PTL DEF ServiceSpec, WritesAtMostOnce

(* While remediate() runs, the endpoints do not find its remediation, so    *)
(* only its graph's nodes change its state, each with its own step.        *)
THEOREM RollbackTheorem == ServiceSpec => RollbackNeverConcurrent
<1>1. ASSUME ServiceInv, [ServiceNext]_allVars, NEW r \in Remediations,
             call[r] = "running", state'[r] # state[r]
      PROVE  pc'[r] # pc[r]
  <2>1. TypeOK /\ CallOK(r)
    BY <1>1 DEF ServiceInv, GraphInv
  <2>2. ~ \E q \in Remediations : RestRollback(q)
    <3>1. SUFFICES ASSUME NEW q \in Remediations, RestRollback(q) PROVE FALSE
      OBVIOUS
    <3>2. q = r
      BY <1>1, <2>1, <3>1 DEF RestRollback, TypeOK
    <3> QED BY <1>1, <2>1, <3>1, <3>2 DEF RestRollback, CallOK
  <2>3. [Next]_vars
    BY <1>1, <2>2, ServiceGraph DEF allVars, vars
  <2>4. PICK q \in Remediations : Node(q)
    BY <1>1, <2>3 DEF Next, Invoke, WorkflowStep, Answer, graphVars, vars
  <2>5. q = r
    BY <1>1, <2>1, <2>4, NodeMoves
  <2> QED
    BY <1>1, <2>1, <2>4, <2>5
       DEF TypeOK, Node, EvaluatePolicy, ResolvePlaybook, AssessRisk, SubmitRequest,
           graphVars, ApprovalReturned, CreateSnapshot, ExecuteAction, ExecuteThen,
           ValidateHealth, PerformRollback, GoTo
<1>2. ServiceInv /\ [ServiceNext]_allVars
        => [\A r \in Remediations :
              (call[r] = "running" /\ state'[r] # state[r]) => pc'[r] # pc[r]]_allVars
  BY <1>1
<1> QED BY <1>2, ServiceInvTheorem, PTL DEF ServiceSpec, RollbackNeverConcurrent

(* The service implements what is promised of a remediation, but that one   *)
(* that is over can be rolled back through the API.                        *)
LEMMA RestRollbackRefines ==
  ASSUME RunInv, NEW r \in Remediations, RestRollback(r)
  PROVE  Safe!Revoke(r)
<1>1. /\ state \in [Remediations -> RemediationState] /\ CallOK(r) /\ SnapshotPlaced(r)
      /\ state' = [state EXCEPT ![r].rollback = "success", ![r].step = "rolled_back"]
      /\ UNCHANGED <<pc, approvals, written>>
      /\ stored[r] = "final" /\ state[r].snapshot # "none"
  BY DEF RunInv, RunState, ServiceInv, GraphInv, TypeOK, RestRollback, workflowVars
<1>2. pc[r] = "end" /\ state[r].step \in {"validate_health", "rolled_back"}
  BY <1>1 DEF CallOK, SnapshotPlaced
<1>3. state'[r].step = "rolled_back" /\ state'[r].risk = state[r].risk
  BY <1>1 DEF RemediationState
<1>4. /\ Stage(r) \in {"accepted", "rolled_back"} /\ Stage(r)' = "rolled_back"
      /\ Need(r)' = Need(r)
  BY <1>1, <1>2, <1>3 DEF Stage, Need
<1>5. \A q \in Remediations \ {r} : pc'[q] = pc[q] /\ state'[q] = state[q]
  BY <1>1
<1>6. /\ [q \in Remediations |-> Stage(q)]'
           = [[q \in Remediations |-> Stage(q)] EXCEPT ![r] = Stage(r)']
      /\ [q \in Remediations |-> Need(q)]'
           = [[q \in Remediations |-> Need(q)] EXCEPT ![r] = Need(r)']
      /\ [q \in Remediations |-> Len(approvals[q])]'
           = [q \in Remediations |-> Len(approvals[q])]
  BY <1>1, <1>5, MovesAlone
<1> DEFINE stage == [q \in Remediations |-> Stage(q)]
           need == [q \in Remediations |-> Need(q)]
           assents == [q \in Remediations |-> Len(approvals[q])]
<1>7. stage' = [stage EXCEPT ![r] = "rolled_back"] /\ stage[r] \in {"accepted", "rolled_back"}
  BY <1>4, <1>6
<1>8. need' = need /\ assents' = assents
  BY <1>4, <1>6
<1> QED BY <1>1, <1>7, <1>8 DEF Safe!Revoke, Safe!Move, stage, need, assents

THEOREM ServiceRefinementTheorem == ServiceSpec => Safe!RevocableSafety
<1>1. ServiceInit => Safe!Init
  BY InitRefines DEF ServiceInit
<1>2. RunInv /\ [ServiceNext]_allVars
        => [Safe!Next \/ \E r \in Remediations : Safe!Revoke(r)]_(Safe!vars)
  <2> SUFFICES ASSUME RunInv, [ServiceNext]_allVars
               PROVE  [Safe!Next \/ \E r \in Remediations : Safe!Revoke(r)]_(Safe!vars)
    OBVIOUS
  <2>1. GraphInv
    BY DEF RunInv, ServiceInv
  <2>2. CASE Next
    BY <2>1, <2>2, NodeRefines, WorkflowRefines DEF Next
  <2>3. CASE UNCHANGED vars
    BY <2>3 DEF vars, Safe!vars, Stage, Need
  <2>4. ASSUME NEW r \in Remediations, RestRollback(r)
        PROVE  Safe!Revoke(r)
    BY <2>4, RestRollbackRefines
  <2>5. UNCHANGED allVars => UNCHANGED vars
    BY DEF allVars, vars
  <2> QED BY <2>2, <2>3, <2>4, <2>5, ServiceGraph
<1> QED BY <1>1, <1>2, RunInvTheorem, PTL DEF ServiceSpec, Safe!RevocableSafety
=============================================================================
