-------------------------- MODULE RemediationService --------------------------
(***************************************************************************)
(* The remediation service around the graph: RemediationRunner             *)
(* (agents/remediation/runner.py) and the REST endpoints of                *)
(* api/routes/remediations.py, with what a restart of the API process      *)
(* leaves behind.                                                          *)
(*                                                                         *)
(* The runner's dictionary _remediations, the approval requests and the    *)
(* snapshots live in memory; the database rows and the cluster survive.    *)
(* Here approve() and deny() are called by nobody but the two endpoints,   *)
(* as in the application: they find the request through the dictionary.    *)
(***************************************************************************)
EXTENDS RemediationGraph

CONSTANT Counts  \* numbers of resources an action names

ASSUME ServiceAssumption == Counts \subseteq Nat \ {0}

VARIABLES
  call,       \* the call remediate(): where it is suspended
  count,      \* resources the action of the call names
  stored,     \* the runner's _remediations: which kind of entry, if any
  audit       \* outcome of the audit entry, if it was written

serviceVars == <<call, count, stored, audit>>
allVars == <<vars, call, count, stored, audit>>

ServiceTypeOK ==
  /\ TypeOK
  /\ call \in [Remediations -> {"new", "running", "persisting", "auditing",
                                "returned", "lost"}]
  /\ count \in [Remediations -> Counts \cup {0}]
  /\ stored \in [Remediations -> {"none", "blast_radius_exceeded", "final", "failed"}]
  /\ audit \in [Remediations -> {"none", "success", "failed"}]

ServiceInit ==
  /\ Init
  /\ call = [r \in Remediations |-> "new"]
  /\ count = [r \in Remediations |-> 0]
  /\ stored = [r \in Remediations |-> "none"]
  /\ audit = [r \in Remediations |-> "none"]

-----------------------------------------------------------------------------

(* Mutant: the additional resources are counted, the target is not. *)
RemediateUncounted(r, n) ==
  /\ call[r] = "new"
  /\ count' = [count EXCEPT ![r] = n]
  /\ \/ /\ BlastRadiusAllows(state[r].action.env, n - 1)
        /\ Invoke(r)
        /\ call' = [call EXCEPT ![r] = "running"]
        /\ UNCHANGED stored
     \/ /\ ~BlastRadiusAllows(state[r].action.env, n - 1)
        /\ stored' = [stored EXCEPT ![r] = "blast_radius_exceeded"]
        /\ call' = [call EXCEPT ![r] = "returned"]
        /\ UNCHANGED vars
  /\ UNCHANGED audit

(* remediate(): an action that names too many resources is answered and    *)
(* recorded in memory only; any other enters the graph.                    *)
Remediate(r, n) ==
  /\ call[r] = "new"
  /\ count' = [count EXCEPT ![r] = n]
  /\ \/ /\ BlastRadiusAllows(state[r].action.env, n)
        /\ Invoke(r)
        /\ call' = [call EXCEPT ![r] = "running"]
        /\ UNCHANGED stored
     \/ /\ ~BlastRadiusAllows(state[r].action.env, n)
        /\ stored' = [stored EXCEPT ![r] = "blast_radius_exceeded"]
        /\ call' = [call EXCEPT ![r] = "returned"]
        /\ UNCHANGED vars
  /\ UNCHANGED audit

GraphStep(r) ==
  /\ call[r] = "running"
  /\ Node(r) \/ WorkflowStep(r)
  /\ UNCHANGED serviceVars

(* The graph returned its final state, and only now the id of the          *)
(* remediation leads to anything.                                          *)
Store(r) ==
  /\ call[r] = "running"
  /\ pc[r] = "end"
  /\ stored' = [stored EXCEPT ![r] = "final"]
  /\ call' = [call EXCEPT ![r] = "persisting"]
  /\ UNCHANGED <<vars, count, audit>>

(* Mutant: the except branch returns the error state without storing it. *)
RunFailsUnrecorded(r) ==
  /\ call[r] = "running"
  /\ pc[r] \in Nodes \ {"request_approval"}
  /\ call' = [call EXCEPT ![r] = "persisting"]
  /\ UNCHANGED <<vars, count, stored, audit>>

(* The except branch of remediate(): a node or the graph raised.  The entry*)
(* made is a fresh state, without the snapshot and the request id.         *)
RunFails(r) ==
  /\ call[r] = "running"
  /\ pc[r] \in Nodes \ {"request_approval"}
  /\ stored' = [stored EXCEPT ![r] = "failed"]
  /\ call' = [call EXCEPT ![r] = "persisting"]
  /\ UNCHANGED <<vars, count, audit>>

(* _persist(): its errors are logged and swallowed.  The row it writes is   *)
(* read by GET alone, never by the endpoints below.                        *)
Persist(r) ==
  /\ call[r] = "persisting"
  /\ call' = [call EXCEPT ![r] = "auditing"]
  /\ UNCHANGED <<vars, count, stored, audit>>

(* Mutant: no error means success, whatever the execution result says. *)
AuditOutcomeByError(r) == IF stored[r] = "failed" THEN "failed" ELSE "success"

(* The outcome of an audit entry: the execution's status if there was one, *)
(* else failed for an error state and success for any other.               *)
AuditOutcome(r) ==
  CASE stored[r] = "final" /\ state[r].execution # "none" -> state[r].execution
    [] stored[r] = "failed" -> "failed"
    [] OTHER -> "success"

(* _write_audit(): best-effort too. *)
WriteAudit(r) ==
  /\ call[r] = "auditing"
  /\ \E outcome \in {"none", AuditOutcome(r)} :
       audit' = [audit EXCEPT ![r] = outcome]
  /\ call' = [call EXCEPT ![r] = "returned"]
  /\ UNCHANGED <<vars, count, stored>>

-----------------------------------------------------------------------------

(* get_remediation() for the endpoints: the dictionary, not the database.  *)
Found(r) == stored[r] # "none"

(* POST /remediations/{id}/approve and /deny: 404 unless found, 400 without*)
(* an approval_request_id.                                                 *)
HasRequestId(r) == stored[r] = "final" /\ state[r].approval # "none"

RestAnswer(r) ==
  /\ Found(r)
  /\ HasRequestId(r)
  /\ Answer(r)
  /\ UNCHANGED serviceVars

(* Mutant: any remediation with a snapshot, found or not. *)
RestRollbackUnfound(r) ==
  /\ state[r].snapshot # "none"
  /\ state' = [state EXCEPT ![r].rollback = "success", ![r].step = "rolled_back"]
  /\ UNCHANGED <<pc, world, written, workflowVars, serviceVars>>

(* POST /remediations/{id}/rollback: 404 unless found, 400 without a       *)
(* snapshot.  Nothing keeps it from being called again.                    *)
RestRollback(r) ==
  /\ Found(r)
  /\ stored[r] = "final" /\ state[r].snapshot # "none"
  /\ state' = [state EXCEPT ![r].rollback = "success", ![r].step = "rolled_back"]
  /\ UNCHANGED <<pc, world, written, workflowVars, serviceVars>>

(* The process dies and is started again: calls in flight are gone and the *)
(* memory is empty.  Nothing resumes a call.                               *)
Restart ==
  /\ \E r \in Remediations : Found(r) \/ call[r] \notin {"new", "returned", "lost"}
  /\ stored' = [r \in Remediations |-> "none"]
  /\ call' = [r \in Remediations |->
                IF call[r] \in {"new", "returned"} THEN call[r] ELSE "lost"]
  /\ UNCHANGED <<vars, count, audit>>

-----------------------------------------------------------------------------

Advance(r) ==
  GraphStep(r) \/ Store(r) \/ RunFails(r) \/ Persist(r) \/ WriteAudit(r)

ServiceNext ==
  \/ \E r \in Remediations :
       \/ \E n \in Counts : Remediate(r, n)
       \/ Advance(r)
       \/ RestAnswer(r)
       \/ RestRollback(r)
  \/ Restart

(* As long as the process lives, its event loop resumes every call.        *)
ServiceSpec ==
  ServiceInit /\ [][ServiceNext]_allVars
  /\ \A r \in Remediations : WF_allVars(Advance(r))

-----------------------------------------------------------------------------

(* The blast radius bounds every write, and the gates of the graph hold in *)
(* the service as they do in the graph, whatever the endpoints are asked   *)
(* to do in between and wherever a restart falls.                          *)
ServiceNoUnauthorisedWrite ==
  /\ NoUnauthorisedWrite
  /\ \A r \in written : BlastRadiusAllows(state[r].action.env, count[r])

(* While a remediation runs, its state is its graph's alone: no endpoint   *)
(* changes it between two nodes, so a manual rollback never races with     *)
(* the graph's own and is never overwritten by it.                         *)
RollbackNeverConcurrent ==
  [][\A r \in Remediations :
       (call[r] = "running" /\ state'[r] # state[r]) => pc'[r] # pc[r]]_allVars

(* What the cluster was told is on record: a write is followed by an entry *)
(* in the runner's dictionary unless the process dies first.               *)
WriteRecorded ==
  \A r \in Remediations :
    (r \in written /\ call[r] = "running") ~> (Found(r) \/ call[r] = "lost")

(* The audit trail never passes a failure off as a success: an entry with  *)
(* outcome success stands for an action whose execution did not fail.      *)
(* (It may stand for one that was never executed.)                         *)
AuditHidesNoFailure ==
  \A r \in Remediations :
    audit[r] = "success" => state[r].execution # "failed"

(* api/routes/remediations.py: "Approve a pending remediation action."     *)
(* A request that waits for people can be found by its remediation's id.   *)
PendingAddressable ==
  \A r \in Remediations :
    (call[r] = "running" /\ phase[r] = "polling") => HasRequestId(r)
=============================================================================
