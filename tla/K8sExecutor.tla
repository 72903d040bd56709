------------------------------ MODULE K8sExecutor ------------------------------
(***************************************************************************)
(* K8sRemediationExecutor.execute() and rollback_action() of               *)
(* src/shieldops/remediation/k8s_actions.py, with the PolicyGate it asks   *)
(* and the RollbackManager that snapshots, verifies and restores.          *)
(*                                                                         *)
(* One execution is one coroutine.  A resource is the set of executions    *)
(* whose effect it carries: a write adds one, a restored snapshot puts the *)
(* set back that was read before.                                          *)
(***************************************************************************)
EXTENDS Naturals, Sequences, SequencesExt

CONSTANTS
  Executions,  \* the calls of execute()
  Revocable,   \* the ones whose results rollback_action() can be asked for
  Targets      \* the resources of the cluster

VARIABLES
  cluster,   \* the effects each resource carries
  step,      \* what an execution awaits
  request,   \* K8sRemediationRequest, once it was made
  snapshot,  \* what create_snapshot() returned, for as long as it is of use
  status,    \* RemediationResult.status of the results in _results
  written,   \* history: executions whose write reached the API server
  disturbed  \* history: resources on which executions overlapped, an operator's
             \* rollback changed another execution's effect, or a restore did
             \* nothing

executorVars == <<cluster, step, request, snapshot, status, written, disturbed>>

NoRequest == [action |-> "none"]
NoSnapshot == [kind |-> "none"]

(* A snapshot that could be taken holds the resource's state, or the error  *)
(* of the API.                                                             *)
SnapshotError == [kind |-> "error"]

K8sActionType ==
  {"restart_pod", "restart_deployment", "rollback_deployment", "scale_deployment",
   "scale_hpa", "cordon_node", "drain_node", "update_config_map",
   "update_resource_limits", "delete_evicted_pods"}

Requests == [action : K8sActionType, target : Targets, breaksRule : BOOLEAN]

ExecutorTypeOK ==
  /\ cluster \in [Targets -> SUBSET Executions]
  /\ step \in [Executions -> {"new", "gate", "snapshot", "answer", "dispatch",
                              "verify", "rollback", "done", "raised"}]
  /\ request \in [Executions -> Requests \cup {NoRequest}]
  /\ snapshot \in [Executions -> {NoSnapshot, SnapshotError}
                     \cup [kind : {"state"}, state : SUBSET Executions]]
  /\ status \in [Executions -> {"none", "denied", "success", "failed", "rolled_back"}]
  /\ written \in SUBSET Executions
  /\ disturbed \in SUBSET Targets

ExecutorInit ==
  /\ cluster = [r \in Targets |-> {}]
  /\ step = [e \in Executions |-> "new"]
  /\ request = [e \in Executions |-> NoRequest]
  /\ snapshot = [e \in Executions |-> NoSnapshot]
  /\ status = [e \in Executions |-> "none"]
  /\ written = {}
  /\ disturbed = {}

-----------------------------------------------------------------------------

(* Whose health is verified after the write. *)
VerifiedActions ==
  {"restart_deployment", "rollback_deployment", "scale_deployment",
   "update_resource_limits"}

(* Snapshots of pods are taken, and never applied. *)
PodActions == {"restart_pod", "delete_evicted_pods"}

(* Mutant: every rule of the gate is an advice. *)
VerdictsAdvisory(req) == {"allowed", "denied"}

(* evaluate_action(): the built-in rules deny; OPA adds its denials or is   *)
(* out of reach, which denies nothing.  The approval it asks for is looked *)
(* at by no caller.                                                        *)
Verdicts(req) == IF req.breaksRule THEN {"denied"} ELSE {"allowed", "denied"}

GoTo(e, s) == step' = [step EXCEPT ![e] = s]

Continue(e, s) == GoTo(e, s) /\ UNCHANGED <<status, snapshot>>

Forget(e) ==
  snapshot' = IF e \in Revocable THEN snapshot ELSE [snapshot EXCEPT ![e] = NoSnapshot]

(* A result is stored and returned. *)
Finish(e, how) ==
  /\ GoTo(e, "done") /\ Forget(e)
  /\ status' = [status EXCEPT ![e] = how]

(* An exception leaves execute(), and no result is stored. *)
Raise(e) ==
  /\ GoTo(e, "raised") /\ UNCHANGED status
  /\ snapshot' = [snapshot EXCEPT ![e] = NoSnapshot]

(* From the read of its snapshot to its end an execution must be alone. *)
Exposed(e) == step[e] \in {"answer", "dispatch", "verify", "rollback"}

Target(e) == request[e].target

Others(e) == {o \in Executions \ {e} : Exposed(o) /\ Target(o) = Target(e)}

DisturbIf(condition, r) ==
  disturbed' = IF condition THEN disturbed \cup {r} ELSE disturbed

-----------------------------------------------------------------------------

(* execute() up to the gate.  The second disjunct is a cluster             *)
(* configuration that cannot be loaded.                                    *)
Execute(e, req) ==
  /\ step[e] = "new"
  /\ request' = [request EXCEPT ![e] = req]
  /\ GoTo(e, "gate") \/ GoTo(e, "raised")
  /\ UNCHANGED <<cluster, snapshot, status, written, disturbed>>

Gated(e) ==
  /\ step[e] = "gate"
  /\ \E v \in Verdicts(request[e]) :
       IF v = "allowed" THEN Continue(e, "snapshot") ELSE Finish(e, "denied")
  /\ UNCHANGED <<cluster, request, written, disturbed>>

(* create_snapshot(): the API server reads the resource.  Others may write  *)
(* to it before its answer arrives.                                        *)
SnapshotRead(e) ==
  /\ step[e] = "snapshot"
  /\ snapshot' = [snapshot EXCEPT ![e] = [kind |-> "state", state |-> cluster[Target(e)]]]
  /\ GoTo(e, "answer")
  /\ DisturbIf(Others(e) # {}, Target(e))
  /\ UNCHANGED <<cluster, request, status, written>>

(* The answer is the state that was read, an error of the API, which is     *)
(* stored in its place, or an exception, which is logged.                  *)
SnapshotTaken(e) ==
  /\ step[e] = "answer"
  /\ \E s \in {snapshot[e], SnapshotError, NoSnapshot} :
       snapshot' = [snapshot EXCEPT ![e] = s]
  /\ GoTo(e, "dispatch")
  /\ UNCHANGED <<cluster, request, status, written, disturbed>>

Reaches(e) ==
  /\ cluster' = [cluster EXCEPT ![Target(e)] = @ \cup {e}]
  /\ written' = written \cup {e}

(* The write took effect, or its call failed after or before it did.       *)
Dispatched(e) ==
  /\ step[e] = "dispatch"
  /\ \/ /\ Reaches(e)
        /\ IF request[e].action \in VerifiedActions
           THEN Continue(e, "verify")
           ELSE Finish(e, "success")
     \/ Reaches(e) /\ Finish(e, "failed")
     \/ UNCHANGED <<cluster, written>> /\ Finish(e, "failed")
  /\ UNCHANGED <<request, disturbed>>

(* Mutant: an unhealthy deployment without a snapshot counts as restored.  *)
VerifiedUnrestored(e) ==
  /\ step[e] = "verify"
  /\ \/ Finish(e, "success")
     \/ IF snapshot[e] = NoSnapshot THEN Finish(e, "rolled_back")
                                    ELSE Continue(e, "rollback")
     \/ Raise(e)
  /\ UNCHANGED <<cluster, request, written, disturbed>>

(* verify_health() found the deployment healthy, or did not until its      *)
(* deadline; errors other than the API's own leave execute().              *)
Verified(e) ==
  /\ step[e] = "verify"
  /\ \/ Finish(e, "success")
     \/ IF snapshot[e] = NoSnapshot THEN Finish(e, "failed")
                                    ELSE Continue(e, "rollback")
     \/ Raise(e)
  /\ UNCHANGED <<cluster, request, written, disturbed>>

(* What an applied snapshot makes of the resource. *)
Restore(e) ==
  /\ snapshot[e].kind = "state" /\ request[e].action \notin PodActions
  /\ cluster' = [cluster EXCEPT ![Target(e)] = snapshot[e].state]

(* rollback_to_snapshot() returns without having restored anything: the API *)
(* refused, the snapshot holds an error or is a pod's, or the patch has no  *)
(* field to undo the write with.  The caller cannot tell, as it does not    *)
(* look at the answer.                                                     *)
NotRestored(e) == UNCHANGED cluster /\ DisturbIf(TRUE, Target(e))

(* Mutant: what could not be restored is verified and tried again.          *)
RolledBackUntilHealthy(e) ==
  /\ step[e] = "rollback"
  /\ \/ Restore(e) /\ UNCHANGED disturbed /\ Finish(e, "rolled_back")
     \/ UNCHANGED <<cluster, disturbed>> /\ Continue(e, "verify")
  /\ UNCHANGED <<request, written>>

(* The automatic rollback returned, or raised after or before it was done.  *)
RolledBack(e) ==
  /\ step[e] = "rollback"
  /\ \/ Restore(e) /\ UNCHANGED disturbed /\ Finish(e, "rolled_back")
     \/ NotRestored(e) /\ Finish(e, "rolled_back")
     \/ Restore(e) /\ UNCHANGED disturbed /\ Finish(e, "failed")
     \/ UNCHANGED <<cluster, disturbed>> /\ Finish(e, "failed")
  /\ UNCHANGED <<request, written>>

(* A restore changes more than its own execution's effect: what others      *)
(* wrote since the snapshot is undone, what was undone since is back.       *)
Reverts(e) == cluster[Target(e)] \ {e} # snapshot[e].state

(* rollback_action(): of any result with a snapshot, at any time, through   *)
(* no gate.  If the call raises, the result stays as it was.                *)
RollbackAction(e) ==
  /\ e \in Revocable /\ status[e] # "none" /\ snapshot[e] # NoSnapshot
  /\ \/ /\ Restore(e) /\ DisturbIf(Others(e) # {} \/ Reverts(e), Target(e))
        /\ status' = [status EXCEPT ![e] = "rolled_back"]
     \/ NotRestored(e) /\ status' = [status EXCEPT ![e] = "rolled_back"]
     \/ Restore(e) /\ DisturbIf(TRUE, Target(e)) /\ UNCHANGED status
  /\ UNCHANGED <<step, request, snapshot, written>>

Executing(e) ==
  \/ Gated(e) \/ SnapshotRead(e) \/ SnapshotTaken(e)
  \/ Dispatched(e) \/ Verified(e) \/ RolledBack(e)

-----------------------------------------------------------------------------

(* The audit log of RemediationResult against the cluster: on a resource    *)
(* that nothing disturbed, what was reported as a success is in effect, and *)
(* nothing is that was reported as denied or rolled back.                   *)
ReportsAgree ==
  \A r \in Targets \ disturbed, e \in Executions :
    request[e] # NoRequest /\ Target(e) = r =>
      /\ status[e] = "success" => e \in cluster[r]
      /\ status[e] \in {"denied", "rolled_back"} => e \notin cluster[r]
=============================================================================
