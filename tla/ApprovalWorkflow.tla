--------------------------- MODULE ApprovalWorkflow ---------------------------
(***************************************************************************)
(* The human-in-the-loop approval workflow of                              *)
(* src/shieldops/policy/approval/workflow.py.                              *)
(*                                                                         *)
(* An agent submits a request and is suspended in request_approval().  The *)
(* coroutine polls the answers once per second under a timeout; when the   *)
(* timeout fires it walks the escalation chain, polling again under a      *)
(* longer timeout for every target, and gives up as "escalated".  approve()*)
(* and deny() are called by other tasks of the same event loop at any      *)
(* moment, also while a notification is being sent, and also after the     *)
(* request has been decided: a request never leaves _pending.              *)
(*                                                                         *)
(* Time is abstracted: a poll and the timeout of the current wait may each *)
(* come at any moment of that wait.  An answer that arrives after the last *)
(* poll and before the timeout is therefore a reachable case.              *)
(***************************************************************************)
EXTENDS Naturals, Sequences

CONSTANTS
  Requests,    \* the approval requests that may be submitted
  People,      \* the names that callers of approve() and deny() pass
  NumTargets,  \* length of escalation_targets; 0 in api/app.py
  MaxAnswers   \* bound of the model: answers of one kind recorded per request

ASSUME WorkflowAssumption == NumTargets \in Nat /\ MaxAnswers \in Nat

VARIABLES
  phase,      \* where request_approval() is suspended
  level,      \* escalation targets already notified
  status,     \* ApprovalRequest.status
  required,   \* ApprovalRequest.required_approvals
  approvals,  \* ApprovalRequest.approvals: a list, in order of arrival
  denials     \* ApprovalRequest.denials

vars == <<phase, level, status, required, approvals, denials>>

(* "new" is before the call; "notifying" awaits send_request() or          *)
(* send_escalation(); "polling" sleeps in _wait_for_decision(); "resolving"*)
(* awaits send_resolution(); "returned" is after the call.                 *)
Phases == {"new", "notifying", "polling", "resolving", "returned"}

Statuses == {"pending", "approved", "denied", "escalated"}

TypeOK ==
  /\ phase \in [Requests -> Phases]
  /\ level \in [Requests -> 0 .. NumTargets]
  /\ status \in [Requests -> Statuses]
  /\ required \in [Requests -> 1 .. 2]
  /\ approvals \in [Requests -> Seq(People)]
  /\ denials \in [Requests -> Seq(People)]

Init ==
  /\ phase = [r \in Requests |-> "new"]
  /\ level = [r \in Requests |-> 0]
  /\ status = [r \in Requests |-> "pending"]
  /\ required = [r \in Requests |-> 1]
  /\ approvals = [r \in Requests |-> <<>>]
  /\ denials = [r \in Requests |-> <<>>]

-----------------------------------------------------------------------------

(* request_id in self._pending: added on submission, never removed. *)
Registered(r) == phase[r] # "new"

(* Mutant: one approval short of the quorum. *)
IsApprovedOneShort(r) == Len(approvals[r]) + 1 >= required[r]

IsApproved(r) == Len(approvals[r]) >= required[r]

IsDenied(r) == Len(denials[r]) > 0

(* One turn of the polling loop: a quorum is looked for first, so it wins  *)
(* over a denial that arrived within the same second.                      *)
Decision(r) ==
  CASE IsApproved(r) -> "approved"
    [] ~IsApproved(r) /\ IsDenied(r) -> "denied"
    [] OTHER -> "pending"

(* The loop found a decision: the status is set and the wait returns it.   *)
Decide(r) ==
  /\ Decision(r) # "pending"
  /\ status' = [status EXCEPT ![r] = Decision(r)]
  /\ phase' = [phase EXCEPT ![r] = "resolving"]

(* request_approval() up to its first await. *)
RequestApproval(r, n) ==
  /\ phase[r] = "new"
  /\ phase' = [phase EXCEPT ![r] = "notifying"]
  /\ required' = [required EXCEPT ![r] = n]
  /\ UNCHANGED <<level, status, approvals, denials>>

(* Mutant: the loop sleeps before its first look. *)
NotifiedSleepsFirst(r) ==
  /\ phase[r] = "notifying"
  /\ phase' = [phase EXCEPT ![r] = "polling"]
  /\ UNCHANGED <<status, level, required, approvals, denials>>

(* The notification is out; the wait begins with a poll. *)
Notified(r) ==
  /\ phase[r] = "notifying"
  /\ \/ Decide(r)
     \/ /\ Decision(r) = "pending"
        /\ phase' = [phase EXCEPT ![r] = "polling"]
        /\ UNCHANGED status
  /\ UNCHANGED <<level, required, approvals, denials>>

(* Mutant: the timeout does not cancel the loop. *)
PollNotCancelled(r) ==
  /\ phase[r] \in {"polling", "resolving"}
  /\ Decide(r)
  /\ UNCHANGED <<level, required, approvals, denials>>

(* A later turn of the loop, one second on. *)
Poll(r) ==
  /\ phase[r] = "polling"
  /\ Decide(r)
  /\ UNCHANGED <<level, required, approvals, denials>>

(* Mutant: an exhausted chain is started over. *)
WaitTimeoutStartsOver(r) ==
  /\ phase[r] = "polling"
  /\ level' = [level EXCEPT ![r] = IF @ < NumTargets THEN @ + 1 ELSE 0]
  /\ phase' = [phase EXCEPT ![r] = "notifying"]
  /\ UNCHANGED <<status, required, approvals, denials>>

(* asyncio.wait_for() cancels the sleeping loop; answers are not looked at. *)
WaitTimeout(r) ==
  /\ phase[r] = "polling"
  /\ \/ /\ level[r] < NumTargets
        /\ level' = [level EXCEPT ![r] = @ + 1]
        /\ phase' = [phase EXCEPT ![r] = "notifying"]
        /\ UNCHANGED status
     \/ /\ level[r] = NumTargets
        /\ status' = [status EXCEPT ![r] = "escalated"]
        /\ phase' = [phase EXCEPT ![r] = "resolving"]
        /\ UNCHANGED level
  /\ UNCHANGED <<required, approvals, denials>>

(* send_resolution() is done and request_approval() returns the status. *)
Return(r) ==
  /\ phase[r] = "resolving"
  /\ phase' = [phase EXCEPT ![r] = "returned"]
  /\ UNCHANGED <<level, status, required, approvals, denials>>

Approve(r, p) ==
  /\ Registered(r)
  /\ Len(approvals[r]) < MaxAnswers
  /\ approvals' = [approvals EXCEPT ![r] = Append(@, p)]
  /\ UNCHANGED <<phase, level, status, required, denials>>

Deny(r, p) ==
  /\ Registered(r)
  /\ Len(denials[r]) < MaxAnswers
  /\ denials' = [denials EXCEPT ![r] = Append(@, p)]
  /\ UNCHANGED <<phase, level, status, required, approvals>>

-----------------------------------------------------------------------------

(* The steps of the suspended coroutine of r. *)
Coroutine(r) == Notified(r) \/ Poll(r) \/ WaitTimeout(r) \/ Return(r)

Answer(r) == \E p \in People : Approve(r, p) \/ Deny(r, p)

Next ==
  \E r \in Requests :
    \/ \E n \in 1 .. 2 : RequestApproval(r, n)
    \/ Coroutine(r)
    \/ Answer(r)

(* The event loop resumes a coroutine whose sleep, timer or HTTP call is   *)
(* over, so its next step cannot be postponed for ever; nobody has to      *)
(* answer.                                                                 *)
Fairness == \A r \in Requests : WF_vars(Coroutine(r))

Spec == Init /\ [][Next]_vars /\ Fairness

-----------------------------------------------------------------------------

Waiting(r) == phase[r] \in {"notifying", "polling"}

Decided(r) == phase[r] \in {"resolving", "returned"}

(* What the agent is told is backed by the answers on record: approved     *)
(* means the required number of approvals, denied means a denial, and      *)
(* escalated means that every escalation target was tried.  The answers go *)
(* on changing after the decision.                                         *)
DecisionBacked ==
  \A r \in Requests :
    /\ status[r] = "approved" => Len(approvals[r]) >= required[r]
    /\ status[r] = "denied" => Len(denials[r]) > 0
    /\ status[r] = "escalated" => level[r] = NumTargets
    /\ Decided(r) <=> status[r] # "pending"

(* A decision is final: late answers, late timeouts and late polls never   *)
(* change a status the agent may already have acted on.                    *)
DecisionFinal ==
  [][\A r \in Requests : status[r] # "pending" => status'[r] = status[r]]_vars

(* A complete answer given while an escalation target is still to come is  *)
(* never lost, however polls and timeouts fall: the next wait sees it.     *)
(* (With no target left, as in api/app.py, it can be: the last timeout     *)
(* discards an answer younger than the last poll.)                         *)
AnswerHonoured ==
  \A r \in Requests :
    (Waiting(r) /\ level[r] < NumTargets /\ Decision(r) # "pending")
      ~> status[r] \in {"approved", "denied"}

(* request_approval() always returns: the agent is never suspended for     *)
(* ever, whoever fails to answer.                                          *)
AgentResumes == \A r \in Requests : Waiting(r) ~> phase[r] = "returned"
=============================================================================
