------------------------ MODULE ApprovalWorkflow_proofs ------------------------
(***************************************************************************)
(* Proofs about ApprovalWorkflow, for any set of requests and people, any  *)
(* length of the escalation chain and any bound on the answers.            *)
(*                                                                         *)
(* TypeOK /\ DecisionBacked is inductive: a request that is decided is not *)
(* in a phase in which its status, its level or its quorum could change,   *)
(* and the lists of answers only grow.                                     *)
(***************************************************************************)
EXTENDS ApprovalWorkflow, TLAPS

WorkflowInv == TypeOK /\ DecisionBacked

(* A fresh workflow satisfies the invariant. *)
LEMMA InitInv == Init => WorkflowInv
<1> SUFFICES ASSUME Init PROVE WorkflowInv
  OBVIOUS
<1>1. TypeOK
  BY WorkflowAssumption DEF Init, TypeOK, Phases, Statuses
<1>2. DecisionBacked
  BY DEF Init, DecisionBacked, Decided
<1> QED
  BY <1>1, <1>2 DEF WorkflowInv

(* What a decision can be, and what backs it. *)
LEMMA DecisionLemma ==
  ASSUME NEW r \in Requests, WorkflowInv
  PROVE  /\ Decision(r) \in {"approved", "denied", "pending"}
         /\ Decision(r) = "approved" => Len(approvals[r]) >= required[r]
         /\ Decision(r) = "denied" => Len(denials[r]) > 0
BY DEF Decision, IsApproved, IsDenied

(* Every step of the coroutine, every submission and every answer keeps    *)
(* the invariant.                                                          *)
LEMMA StepInv == WorkflowInv /\ [Next]_vars => WorkflowInv'
<1> SUFFICES ASSUME WorkflowInv, [Next]_vars PROVE WorkflowInv'
  OBVIOUS
<1> USE WorkflowAssumption DEF WorkflowInv
<1>1. CASE UNCHANGED vars
  BY <1>1 DEF vars, TypeOK, DecisionBacked, Decided
<1>2. ASSUME NEW r \in Requests, NEW n \in 1 .. 2, RequestApproval(r, n)
      PROVE  WorkflowInv'
  <2>1. TypeOK'
    BY <1>2 DEF RequestApproval, TypeOK, Phases
  <2>2. DecisionBacked'
    BY <1>2 DEF RequestApproval, TypeOK, Phases, DecisionBacked, Decided
  <2> QED BY <2>1, <2>2
<1>3. ASSUME NEW r \in Requests, Notified(r) \/ Poll(r)
      PROVE  WorkflowInv'
  <2>1. CASE /\ phase[r] \in {"notifying", "polling"}
             /\ Decide(r)
             /\ UNCHANGED <<level, required, approvals, denials>>
    <3>1. TypeOK'
      BY <2>1, DecisionLemma DEF Decide, TypeOK, Phases, Statuses
    <3>2. DecisionBacked'
      BY <2>1, DecisionLemma DEF Decide, TypeOK, DecisionBacked, Decided
    <3> QED BY <3>1, <3>2
  <2>2. CASE /\ phase[r] = "notifying"
             /\ phase' = [phase EXCEPT ![r] = "polling"]
             /\ UNCHANGED <<status, level, required, approvals, denials>>
    <3>1. TypeOK'
      BY <2>2 DEF TypeOK, Phases
    <3>2. DecisionBacked'
      BY <2>2 DEF TypeOK, Phases, DecisionBacked, Decided
    <3> QED BY <3>1, <3>2
  <2> QED BY <1>3, <2>1, <2>2 DEF Notified, Poll
<1>4. ASSUME NEW r \in Requests, WaitTimeout(r)
      PROVE  WorkflowInv'
  <2>1. CASE /\ level[r] < NumTargets
             /\ level' = [level EXCEPT ![r] = @ + 1]
             /\ phase' = [phase EXCEPT ![r] = "notifying"]
             /\ UNCHANGED status
    <3>1. level[r] + 1 \in 0 .. NumTargets
      BY <2>1 DEF TypeOK
    <3>2. TypeOK'
      BY <1>4, <2>1, <3>1 DEF WaitTimeout, TypeOK, Phases
    <3>3. DecisionBacked'
      BY <1>4, <2>1 DEF WaitTimeout, TypeOK, Phases, DecisionBacked, Decided
    <3> QED BY <3>2, <3>3
  <2>2. CASE /\ level[r] = NumTargets
             /\ status' = [status EXCEPT ![r] = "escalated"]
             /\ phase' = [phase EXCEPT ![r] = "resolving"]
             /\ UNCHANGED level
    <3>1. TypeOK'
      BY <1>4, <2>2 DEF WaitTimeout, TypeOK, Phases, Statuses
    <3>2. DecisionBacked'
      BY <1>4, <2>2 DEF WaitTimeout, TypeOK, Phases, DecisionBacked, Decided
    <3> QED BY <3>1, <3>2
  <2> QED BY <1>4, <2>1, <2>2 DEF WaitTimeout
<1>5. ASSUME NEW r \in Requests, Return(r)
      PROVE  WorkflowInv'
  <2>1. TypeOK'
    BY <1>5 DEF Return, TypeOK, Phases
  <2>2. DecisionBacked'
    BY <1>5 DEF Return, TypeOK, Phases, DecisionBacked, Decided
  <2> QED BY <2>1, <2>2
<1>6. ASSUME NEW r \in Requests, NEW p \in People, Approve(r, p) \/ Deny(r, p)
      PROVE  WorkflowInv'
  <2>1. /\ approvals[r] \in Seq(People) /\ denials[r] \in Seq(People)
        /\ Append(approvals[r], p) \in Seq(People)
        /\ Append(denials[r], p) \in Seq(People)
    BY DEF TypeOK
  <2>2. TypeOK'
    BY <1>6, <2>1 DEF Approve, Deny, TypeOK
  <2>3. ASSUME NEW q \in Requests
        PROVE  /\ Len(approvals'[q]) >= Len(approvals[q])
               /\ Len(denials'[q]) >= Len(denials[q])
    <3>1. /\ approvals[q] \in Seq(People) /\ denials[q] \in Seq(People)
          /\ Len(approvals[q]) \in Nat /\ Len(denials[q]) \in Nat
      BY DEF TypeOK
    <3>2. /\ approvals'[q] \in {approvals[q], Append(approvals[q], p)}
          /\ denials'[q] \in {denials[q], Append(denials[q], p)}
      BY <1>6 DEF Approve, Deny, TypeOK
    <3>3. /\ Len(Append(approvals[q], p)) = Len(approvals[q]) + 1
          /\ Len(Append(denials[q], p)) = Len(denials[q]) + 1
      BY <3>1
    <3> QED BY <3>1, <3>2, <3>3
  <2>4. UNCHANGED <<phase, level, status, required>>
    BY <1>6 DEF Approve, Deny
  <2>5. ASSUME NEW q \in Requests
        PROVE  /\ required[q] \in Nat
               /\ Len(approvals[q]) \in Nat /\ Len(approvals'[q]) \in Nat
               /\ Len(denials[q]) \in Nat /\ Len(denials'[q]) \in Nat
    <3>1. /\ approvals[q] \in Seq(People) /\ approvals'[q] \in Seq(People)
          /\ denials[q] \in Seq(People) /\ denials'[q] \in Seq(People)
          /\ required[q] \in 1 .. 2
      BY <2>2 DEF TypeOK
    <3> QED BY <3>1
  <2>6. DecisionBacked'
    BY <2>3, <2>4, <2>5 DEF DecisionBacked, Decided
  <2> QED BY <2>2, <2>6
<1> QED
  BY <1>1, <1>2, <1>3, <1>4, <1>5, <1>6 DEF Next, Coroutine, Answer

(* The invariant holds in every reachable state. *)
THEOREM InvTheorem == Spec => []WorkflowInv
BY InitInv, StepInv, PTL DEF Spec

(* Type correctness of the workflow. *)
THEOREM TypeTheorem == Spec => []TypeOK
<1>1. WorkflowInv => TypeOK
  BY DEF WorkflowInv
<1> QED BY <1>1, InvTheorem, PTL

(* What the agent is told is backed by the answers on record, however many *)
(* requests, people and escalation targets there are.                      *)
THEOREM DecisionBackedTheorem == Spec => []DecisionBacked
<1>1. WorkflowInv => DecisionBacked
  BY DEF WorkflowInv
<1> QED BY <1>1, InvTheorem, PTL

(* No step changes the status of a request that was decided. *)
LEMMA StepFinal ==
  ASSUME WorkflowInv, [Next]_vars, NEW q \in Requests, status[q] # "pending"
  PROVE  status'[q] = status[q]
<1>1. phase[q] \in {"resolving", "returned"}
  BY DEF WorkflowInv, DecisionBacked, Decided
<1>2. ASSUME NEW r \in Requests, Notified(r) \/ Poll(r) \/ WaitTimeout(r)
      PROVE  status'[q] = status[q]
  <2>1. r # q
    BY <1>1, <1>2 DEF Notified, Poll, WaitTimeout
  <2> QED
    BY <1>2, <2>1 DEF Notified, Poll, WaitTimeout, Decide, WorkflowInv, TypeOK
<1>3. CASE UNCHANGED status
  BY <1>3
<1>4. CASE UNCHANGED vars
  BY <1>4 DEF vars
<1> QED
  BY <1>2, <1>3, <1>4
     DEF Next, Coroutine, Answer, RequestApproval, Return, Approve, Deny

(* A request that was submitted stays so, and its quorum is fixed.          *)
LEMMA StepQuorum ==
  ASSUME WorkflowInv, [Next]_vars, NEW q \in Requests, Registered(q)
  PROVE  /\ Registered(q)'
         /\ required'[q] = required[q]
<1> USE DEF Registered
<1>1. ASSUME NEW r \in Requests, NEW n \in 1 .. 2, RequestApproval(r, n)
      PROVE  phase'[q] # "new" /\ required'[q] = required[q]
  BY <1>1 DEF RequestApproval, WorkflowInv, TypeOK
<1>2. ASSUME NEW r \in Requests, Coroutine(r)
      PROVE  phase'[q] # "new" /\ required'[q] = required[q]
  BY <1>2
     DEF Coroutine, Notified, Poll, Decide, WaitTimeout, Return, WorkflowInv, TypeOK
<1>3. CASE UNCHANGED <<phase, required>>
  BY <1>3
<1> QED
  BY <1>1, <1>2, <1>3 DEF Next, Answer, Approve, Deny, vars

(* A decision is final, however late a poll, a timeout or an answer comes. *)
THEOREM DecisionFinalTheorem == Spec => DecisionFinal
<1>1. WorkflowInv /\ [Next]_vars
        => [\A r \in Requests : status[r] # "pending" => status'[r] = status[r]]_vars
  BY StepFinal
<1> QED BY <1>1, InvTheorem, PTL DEF Spec, DecisionFinal
=============================================================================
