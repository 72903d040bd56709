----------------------- MODULE RemediationPipeline_proofs -----------------------
(***************************************************************************)
(* Safety of module RemediationPipeline and of the executor beneath it, for *)
(* any number of alerts, approvals, orders and resources, and any lists of  *)
(* hypotheses and indices.                                                 *)
(*                                                                         *)
(* ExecutorInv follows an execution from its gate to its result, and each   *)
(* resource that nothing disturbed; PipelineInv adds where each task is in  *)
(* its recommendations, and which of them are marked as executed.           *)
(***************************************************************************)
EXTENDS RemediationPipeline, FiniteSetTheorems, SequenceTheorems,
        WellFoundedInduction, TLAPS

-----------------------------------------------------------------------------
(* The inductive invariant. *)

(* What its step says about an execution's request, result and effects. *)
ExecutionOK(e) ==
  /\ step[e] # "new" => request[e] \in Requests
  /\ status[e] # "none" => step[e] = "done"
  /\ step[e] \in {"new", "gate", "snapshot", "answer", "dispatch"} \/ status[e] = "denied"
       => e \notin written
  /\ step[e] \in {"snapshot", "answer", "dispatch", "verify", "rollback"} \/ e \in written
       => ~request[e].breaksRule
  /\ snapshot[e].kind = "state" => snapshot[e].state \subseteq written

(* From the read of its snapshot to its end an execution is alone on a       *)
(* resource that nothing disturbed, and its snapshot holds what the others   *)
(* have done.                                                              *)
AloneOn(r) ==
  \A e \in Executions : Exposed(e) /\ Target(e) = r =>
    /\ \A o \in Executions : Exposed(o) /\ Target(o) = r => o = e
    /\ snapshot[e].kind = "state" => snapshot[e].state = cluster[r] \ {e}
    /\ step[e] \in {"verify", "rollback"} => e \in cluster[r]

(* ReportsAgree, of one resource. *)
ReportsOf(r) ==
  \A e \in Executions : status[e] # "none" /\ Target(e) = r =>
    /\ status[e] = "success" => e \in cluster[r]
    /\ status[e] \in {"denied", "rolled_back"} => e \notin cluster[r]

ExecutorInv ==
  /\ ExecutorTypeOK
  /\ \A e \in Executions : ExecutionOK(e)
  /\ \A r \in Targets : cluster[r] \subseteq written
  /\ \A r \in Targets \ disturbed : AloneOn(r) /\ ReportsOf(r)

(* A write of a recommendation that did not end in an exception. *)
Clean(t, i) == <<t, i>> \in written /\ step[<<t, i>>] # "raised"

AtWork(t, i) == at[t] = "execute" /\ todo[t] # <<>> /\ Head(todo[t]) = i

Slots(t) == DOMAIN Hypotheses[AlertOf(t)]

(* Where a task is in its list ... *)
EntryOK(t, k) ==
  /\ todo[t][k] \in DOMAIN recs[AlertOf(t)]
  /\ t \in Alerts => recs[AlertOf(t)][todo[t][k]].auto
  /\ k > 1 \/ at[t] = "gate" => step[<<t, todo[t][k]>>] = "new"

(* ... and its executions. *)
SlotOK(t, i) ==
  /\ at[t] = "idle" => step[<<t, i>>] = "new"
  /\ step[<<t, i>>] # "new" => i \in DOMAIN recs[AlertOf(t)]
  /\ step[<<t, i>>] # "new" /\ t \in Alerts => recs[AlertOf(t)][i].auto
  /\ AtWork(t, i) <=> step[<<t, i>>] \notin {"new", "done", "raised"}

TaskOK(t) ==
  /\ at[t] = "idle" => todo[t] = <<>>
  /\ Busy(t) => todo[t] # <<>>
  /\ IsInjective(todo[t])
  /\ \A k \in DOMAIN todo[t] : EntryOK(t, k)
  /\ \A i \in Slots(t) : SlotOK(t, i)

(* Of a run without overlapping tasks one task is at work, ... *)
OneAtWork(a) == \A t, u \in TasksOf(a) : Busy(t) /\ Busy(u) => t = u

(* ... what was written is marked or at work, ... *)
WrittenMarked(a) ==
  \A t \in TasksOf(a) : \A i \in Slots(t) :
    Clean(t, i) => recs[a][i].executed \/ AtWork(t, i)

(* ... and is not in the list of a task that chose for itself. *)
WrittenNotListed(a) ==
  \A t, u \in TasksOf(a) : Busy(t) /\ t \notin explicit /\ u # t =>
    \A k \in DOMAIN todo[t] : ~Clean(u, todo[t][k])

AlertOK(a) ==
  /\ runStatus[a] = "none" <=> at[a] = "idle"
  /\ at[a] = "idle" => \A t \in TasksOf(a) : at[t] = "idle"
  /\ a \notin overlapped => OneAtWork(a) /\ WrittenMarked(a) /\ WrittenNotListed(a)

PipelineInv ==
  /\ ExecutorInv
  /\ PipelineTypeOK
  /\ \A t \in Tasks : TaskOK(t)
  /\ \A a \in Alerts : AlertOK(a)
  /\ ExecutedOnce
  /\ StatusMatchesWork

-----------------------------------------------------------------------------
(* The executor.                                                           *)

(* A step of an execution changes its own entries alone. *)
LEMMA ExecutionFootprint ==
  ASSUME ExecutorTypeOK, NEW e \in Executions, Executing(e) \/ RollbackAction(e)
  PROVE  /\ UNCHANGED request
         /\ \A o \in Executions \ {e} :
              /\ step'[o] = step[o] /\ status'[o] = status[o]
              /\ snapshot'[o] = snapshot[o]
              /\ o \in written' <=> o \in written
<1> USE DEF ExecutorTypeOK, GoTo, Continue, Finish, Raise, Forget
<1>1. CASE Gated(e)
  BY <1>1 DEF Gated
<1>2. CASE SnapshotRead(e) \/ SnapshotTaken(e)
  BY <1>2 DEF SnapshotRead, SnapshotTaken
<1>3. CASE Dispatched(e)
  BY <1>3 DEF Dispatched, Reaches
<1>4. CASE Verified(e)
  BY <1>4 DEF Verified
<1>5. CASE RolledBack(e)
  BY <1>5 DEF RolledBack, Restore
<1>6. CASE RollbackAction(e)
  BY <1>6 DEF RollbackAction
<1> QED BY <1>1, <1>2, <1>3, <1>4, <1>5, <1>6 DEF Executing

(* Effects and disturbances are on the resource of the execution.          *)
LEMMA ResourceFootprint ==
  ASSUME ExecutorTypeOK, NEW e \in Executions, request[e] \in Requests,
         Executing(e) \/ RollbackAction(e)
  PROVE  /\ cluster' \in [Targets -> SUBSET Executions]
         /\ \A r \in Targets \ {Target(e)} : cluster'[r] = cluster[r]
         /\ disturbed' \in {disturbed, disturbed \cup {Target(e)}}
         /\ \A r \in Targets : cluster'[r] \subseteq cluster[r] \cup {e}
              \/ /\ r = Target(e) /\ snapshot[e].kind = "state"
                 /\ cluster'[r] = snapshot[e].state
<1> USE DEF ExecutorTypeOK, DisturbIf, Restore, NotRestored
<1>1. Target(e) \in Targets
  BY DEF Target, Requests
<1>2. CASE Gated(e) \/ SnapshotRead(e) \/ SnapshotTaken(e) \/ Verified(e)
  BY <1>2 DEF Gated, SnapshotRead, SnapshotTaken, Verified
<1>3. CASE Dispatched(e)
  BY <1>1, <1>3 DEF Dispatched, Reaches
<1>4. snapshot[e].kind = "state" => snapshot[e].state \in SUBSET Executions
  BY DEF NoSnapshot, SnapshotError
<1>5. CASE RolledBack(e)
  BY <1>1, <1>4, <1>5 DEF RolledBack
<1>6. CASE RollbackAction(e)
  BY <1>1, <1>4, <1>6 DEF RollbackAction
<1> QED BY <1>2, <1>3, <1>5, <1>6 DEF Executing


(* Where a step leads, and what it reports. *)
LEMMA ExecutionMoves ==
  ASSUME ExecutorTypeOK, NEW e \in Executions, ExecutionOK(e), Executing(e),
         \A r \in Targets : cluster[r] \subseteq written
  PROVE  /\ step[e] \notin {"new", "done", "raised"}
         /\ status[e] = "none"
         /\ ExecutorTypeOK'
         /\ ExecutionOK(e)'
         /\ written \subseteq written'
         /\ \A r \in Targets : cluster'[r] \subseteq written'
<1> USE DEF ExecutorTypeOK, GoTo, Continue, Finish, Raise, Forget
<1>1. /\ step[e] \notin {"new", "done", "raised"} /\ status[e] = "none"
      /\ request[e] \in Requests
  BY DEF Executing, Gated, SnapshotRead, SnapshotTaken, Dispatched, Verified, RolledBack,
         ExecutionOK
<1>2. Target(e) \in Targets /\ request[e].breaksRule \in BOOLEAN
  BY <1>1 DEF Target, Requests
<1>3. /\ UNCHANGED request /\ request' \in [Executions -> Requests \cup {NoRequest}]
      /\ cluster' \in [Targets -> SUBSET Executions]
      /\ disturbed' \in SUBSET Targets
  BY <1>1, <1>2, ExecutionFootprint, ResourceFootprint
<1>4. ASSUME \/ e \in written'
             \/ UNCHANGED cluster
             \/ /\ snapshot[e].kind = "state"
                /\ \A r \in Targets : cluster'[r] \in {cluster[r], snapshot[e].state},
             written \subseteq written'
      PROVE  \A r \in Targets : cluster'[r] \subseteq written'
  BY <1>1, <1>4, ResourceFootprint DEF ExecutionOK
<1>5. CASE Gated(e)
  <2>1. /\ ~request[e].breaksRule \/ status'[e] = "denied"
        /\ \/ step'[e] = "snapshot" /\ status'[e] = "none"
           \/ step'[e] = "done" /\ status'[e] = "denied"
    BY <1>1, <1>2, <1>5 DEF Gated, Verdicts
  <2>2. ExecutorTypeOK'
    BY <1>3, <1>5 DEF Gated
  <2>3. ExecutionOK(e)'
    BY <1>1, <1>5, <2>1 DEF Gated, ExecutionOK, NoSnapshot
  <2> QED BY <1>1, <1>5, <2>2, <2>3 DEF Gated
<1>6. CASE SnapshotRead(e)
  <2>1. cluster[Target(e)] \in SUBSET Executions /\ cluster[Target(e)] \subseteq written
    BY <1>2
  <2>2. ExecutorTypeOK'
    BY <1>3, <1>6, <2>1 DEF SnapshotRead
  <2>3. ExecutionOK(e)'
    BY <1>1, <1>6, <2>1 DEF SnapshotRead, ExecutionOK
  <2> QED BY <1>1, <1>6, <2>2, <2>3 DEF SnapshotRead
<1>10. CASE SnapshotTaken(e)
  <2>1. ExecutorTypeOK'
    BY <1>3, <1>10 DEF SnapshotTaken
  <2>2. ExecutionOK(e)'
    BY <1>1, <1>10 DEF SnapshotTaken, ExecutionOK, NoSnapshot, SnapshotError
  <2> QED BY <1>1, <1>10, <2>1, <2>2 DEF SnapshotTaken
<1>7. CASE Dispatched(e)
  <2>1. /\ step'[e] \in {"verify", "done"} /\ status'[e] \in {"none", "success", "failed"}
        /\ status'[e] # "none" => step'[e] = "done"
        /\ written' \in {written, written \cup {e}}
    BY <1>1, <1>7 DEF Dispatched, Reaches
  <2>2. ExecutorTypeOK'
    BY <1>3, <1>7 DEF Dispatched, Reaches
  <2>3. ExecutionOK(e)'
    BY <1>1, <1>3, <1>7, <2>1 DEF Dispatched, Reaches, ExecutionOK, NoSnapshot
  <2>4. UNCHANGED cluster \/ e \in written'
    BY <1>7 DEF Dispatched, Reaches
  <2> QED BY <1>1, <1>4, <2>1, <2>2, <2>3, <2>4
<1>8. CASE Verified(e)
  <2>1. ExecutorTypeOK'
    BY <1>3, <1>8 DEF Verified
  <2>2. ExecutionOK(e)'
    BY <1>1, <1>8 DEF Verified, ExecutionOK, NoSnapshot
  <2> QED BY <1>1, <1>8, <2>1, <2>2 DEF Verified
<1>9. CASE RolledBack(e)
  <2>1. ExecutorTypeOK'
    BY <1>3, <1>9 DEF RolledBack
  <2>2. ExecutionOK(e)'
    BY <1>1, <1>9 DEF RolledBack, ExecutionOK, NoSnapshot
  <2>3. Restore(e) \/ UNCHANGED cluster
    BY <1>9 DEF RolledBack, NotRestored
  <2>4. CASE Restore(e)
    <3>1. \A r \in Targets : cluster'[r] \in {cluster[r], snapshot[e].state}
      BY <1>2, <2>4 DEF Restore
    <3> QED BY <1>1, <1>4, <1>9, <2>1, <2>2, <2>4, <3>1 DEF RolledBack, Restore
  <2> QED BY <1>1, <1>4, <1>9, <2>1, <2>2, <2>3, <2>4 DEF RolledBack
<1> QED BY <1>5, <1>6, <1>7, <1>8, <1>9, <1>10 DEF Executing

(* A resource that nothing has disturbed yet stays as its executions and    *)
(* their snapshots have it.                                                *)
LEMMA ResourceMoves ==
  ASSUME ExecutorInv, NEW e \in Executions, Executing(e),
         NEW r \in Targets \ disturbed'
  PROVE  AloneOn(r)' /\ ReportsOf(r)'
<1> USE DEF GoTo, Continue, Finish, Raise, Forget
<1>1. /\ ExecutorTypeOK /\ ExecutionOK(e) /\ ExecutorTypeOK'
      /\ step[e] \notin {"new", "done", "raised"} /\ status[e] = "none"
      /\ request[e] \in Requests
  BY ExecutionMoves DEF ExecutorInv, ExecutionOK
<1>2. /\ UNCHANGED request
      /\ \A o \in Executions \ {e} :
           step'[o] = step[o] /\ status'[o] = status[o] /\ snapshot'[o] = snapshot[o]
  BY <1>1, ExecutionFootprint
<1>3. \A o \in Executions : Target(o)' = Target(o)
  BY <1>2 DEF Target
<1>4. r \notin disturbed /\ AloneOn(r) /\ ReportsOf(r)
  BY <1>1, ResourceFootprint DEF ExecutorInv
<1>5. \A o \in Executions \ {e} : Exposed(o)' <=> Exposed(o)
  BY <1>2 DEF Exposed
<1>6. CASE r # Target(e)
  <2>1. cluster'[r] = cluster[r]
    BY <1>1, <1>6, ResourceFootprint
  <2>2. AloneOn(r)'
    BY <1>2, <1>3, <1>4, <1>5, <1>6, <2>1 DEF AloneOn
  <2>3. ReportsOf(r)'
    BY <1>2, <1>3, <1>4, <1>6, <2>1 DEF ReportsOf
  <2> QED BY <2>2, <2>3
<1>7. ASSUME r = Target(e), cluster'[r] \ {e} = cluster[r] \ {e},
             \/ Exposed(e) /\ snapshot'[e] \in {snapshot[e], NoSnapshot, SnapshotError}
             \/ ~Exposed(e)' /\ (Exposed(e) \/ UNCHANGED cluster)
             \/ /\ Others(e) = {}
                /\ snapshot'[e].kind = "state" => snapshot'[e].state = cluster[r] \ {e},
             step'[e] \in {"verify", "rollback"} \/ status'[e] = "success"
               => e \in cluster'[r],
             status'[e] \in {"denied", "rolled_back"} => e \notin cluster'[r]
      PROVE  AloneOn(r)' /\ ReportsOf(r)'
  <2>1. ASSUME NEW x \in Executions, Exposed(x)', Target(x) = r
        PROVE  /\ \A o \in Executions : Exposed(o)' /\ Target(o) = r => o = x
               /\ snapshot'[x].kind = "state" => snapshot'[x].state = cluster'[r] \ {x}
               /\ step'[x] \in {"verify", "rollback"} => x \in cluster'[r]
    <3>1. CASE x = e
      <4>1. \A o \in Executions : Exposed(o)' /\ Target(o) = r => o = x
        BY <1>4, <1>5, <1>7, <2>1, <3>1 DEF AloneOn, Others
      <4>2. snapshot'[x].kind = "state" => snapshot'[x].state = cluster'[r] \ {x}
        BY <1>4, <1>7, <2>1, <3>1 DEF AloneOn, NoSnapshot, SnapshotError
      <4> QED BY <1>7, <3>1, <4>1, <4>2
    <3>2. CASE x # e
      <4>1. Exposed(x) /\ ~Exposed(e) /\ ~Exposed(e)' /\ UNCHANGED cluster
        BY <1>4, <1>5, <1>7, <2>1, <3>2 DEF AloneOn, Others
      <4> QED BY <1>2, <1>4, <1>5, <2>1, <3>2, <4>1 DEF AloneOn
    <3> QED BY <3>1, <3>2
  <2>2. ReportsOf(r)'
    BY <1>2, <1>3, <1>4, <1>7 DEF ReportsOf
  <2> QED BY <1>3, <2>1, <2>2 DEF AloneOn
<1>8. CASE r = Target(e) /\ Gated(e)
  <2>1. e \notin cluster[r]
    BY <1>1, <1>8 DEF Gated, ExecutionOK, ExecutorInv
  <2>2. /\ ~Exposed(e)' /\ UNCHANGED cluster /\ status'[e] # "success"
        /\ step'[e] \notin {"verify", "rollback"}
    BY <1>1, <1>8 DEF Gated, Exposed, ExecutorTypeOK
  <2> QED BY <1>7, <1>8, <2>1, <2>2
<1>9. CASE r = Target(e) /\ SnapshotRead(e)
  <2>1. e \notin cluster[r]
    BY <1>1, <1>9 DEF SnapshotRead, ExecutionOK, ExecutorInv
  <2>2. /\ Others(e) = {} /\ UNCHANGED <<cluster, status>>
        /\ step'[e] = "answer"
    BY <1>1, <1>9 DEF SnapshotRead, DisturbIf, ExecutorTypeOK
  <2>3. snapshot'[e].state = cluster[r] \ {e}
    BY <1>1, <1>9, <2>1 DEF SnapshotRead, ExecutorTypeOK
  <2> QED BY <1>1, <1>7, <1>9, <2>1, <2>2, <2>3
<1>13. CASE r = Target(e) /\ SnapshotTaken(e)
  <2>1. /\ Exposed(e) /\ snapshot'[e] \in {snapshot[e], NoSnapshot, SnapshotError}
        /\ UNCHANGED <<cluster, status>> /\ step'[e] = "dispatch"
    BY <1>1, <1>13 DEF SnapshotTaken, Exposed, ExecutorTypeOK
  <2> QED BY <1>1, <1>7, <1>13, <2>1
<1>10. CASE r = Target(e) /\ Dispatched(e)
  <2>1. Exposed(e) /\ snapshot'[e] \in {snapshot[e], NoSnapshot}
    BY <1>1, <1>10 DEF Dispatched, Exposed, ExecutorTypeOK
  <2>2. /\ cluster'[r] \ {e} = cluster[r] \ {e}
        /\ step'[e] \in {"verify", "rollback"} \/ status'[e] = "success"
             => e \in cluster'[r]
        /\ status'[e] \notin {"denied", "rolled_back"}
    BY <1>1, <1>10 DEF Dispatched, Reaches, ExecutorTypeOK
  <2> QED BY <1>7, <1>10, <2>1, <2>2
<1>11. CASE r = Target(e) /\ Verified(e)
  <2>1. Exposed(e) /\ snapshot'[e] \in {snapshot[e], NoSnapshot} /\ UNCHANGED cluster
    BY <1>1, <1>11 DEF Verified, Exposed, ExecutorTypeOK
  <2>2. status'[e] \notin {"denied", "rolled_back"}
    BY <1>1, <1>11 DEF Verified, ExecutorTypeOK
  <2>3. e \in cluster[r]
    BY <1>4, <1>11, <2>1 DEF AloneOn, Verified
  <2> QED BY <1>7, <1>11, <2>1, <2>2, <2>3
<1>12. CASE r = Target(e) /\ RolledBack(e)
  <2>1. Exposed(e) /\ snapshot'[e] \in {snapshot[e], NoSnapshot}
    BY <1>1, <1>12 DEF RolledBack, Exposed, ExecutorTypeOK
  <2>2. /\ ~NotRestored(e) /\ status'[e] # "success"
        /\ step'[e] = "done"
    BY <1>1, <1>12 DEF RolledBack, NotRestored, DisturbIf, ExecutorTypeOK
  <2>3. Restore(e) => cluster'[r] = cluster[r] \ {e}
    BY <1>1, <1>4, <1>12, <2>1 DEF Restore, AloneOn, ExecutorTypeOK
  <2>4. CASE Restore(e)
    BY <1>7, <1>12, <2>1, <2>2, <2>3, <2>4
  <2>5. CASE UNCHANGED cluster /\ status'[e] = "failed"
    BY <1>7, <1>12, <2>1, <2>2, <2>5
  <2> QED BY <1>1, <1>12, <2>2, <2>4, <2>5 DEF RolledBack, ExecutorTypeOK
<1> QED BY <1>6, <1>8, <1>9, <1>10, <1>11, <1>12, <1>13 DEF Executing
(* The invariant through each of the executor's actions.                   *)
LEMMA ExecutorInitInv ==
  ASSUME ExecutorInit
  PROVE  ExecutorInv
<1> USE DEF ExecutorInit
<1>1. ExecutorTypeOK
  BY DEF ExecutorTypeOK
<1>2. \A e \in Executions : ExecutionOK(e)
  BY DEF ExecutionOK, NoSnapshot
<1>3. \A r \in Targets : cluster[r] \subseteq written /\ AloneOn(r) /\ ReportsOf(r)
  BY DEF AloneOn, ReportsOf, Exposed
<1> QED BY <1>1, <1>2, <1>3 DEF ExecutorInv

LEMMA ExecutingInv ==
  ASSUME ExecutorInv, NEW e \in Executions, Executing(e)
  PROVE  ExecutorInv'
<1>1. ExecutorTypeOK /\ ExecutionOK(e)
  BY DEF ExecutorInv
<1>2. /\ ExecutorTypeOK' /\ ExecutionOK(e)' /\ written \subseteq written'
      /\ \A r \in Targets : cluster'[r] \subseteq written'
  BY <1>1, ExecutionMoves DEF ExecutorInv
<1>3. \A o \in Executions \ {e} : ExecutionOK(o)'
  BY <1>1, <1>2, ExecutionFootprint DEF ExecutorInv, ExecutionOK
<1>4. \A r \in Targets \ disturbed' : AloneOn(r)' /\ ReportsOf(r)'
  BY ResourceMoves
<1> QED BY <1>2, <1>3, <1>4 DEF ExecutorInv

LEMMA ExecuteInv ==
  ASSUME ExecutorInv, NEW e \in Executions, NEW req \in Requests, Execute(e, req)
  PROVE  ExecutorInv'
<1> USE DEF Execute, GoTo
<1>1. ExecutorTypeOK /\ ExecutionOK(e) /\ step[e] = "new" /\ step'[e] \in {"gate", "raised"}
  BY DEF ExecutorInv, ExecutorTypeOK
<1>2. ExecutorTypeOK'
  BY <1>1 DEF ExecutorTypeOK
<1>3. /\ request'[e] = req
      /\ \A o \in Executions \ {e} : request'[o] = request[o] /\ step'[o] = step[o]
  BY <1>1 DEF ExecutorTypeOK
<1>4. status[e] = "none" /\ e \notin written
  BY <1>1 DEF ExecutionOK
<1>5. \A o \in Executions : ExecutionOK(o)'
  <2>1. ExecutionOK(e)'
    BY <1>1, <1>3, <1>4 DEF ExecutionOK
  <2>2. \A o \in Executions \ {e} : ExecutionOK(o)'
    BY <1>3 DEF ExecutorInv, ExecutionOK
  <2> QED BY <2>1, <2>2
<1>6. \A o \in Executions : Exposed(o)' \/ status[o] # "none" => o # e
  BY <1>1, <1>4 DEF Exposed
<1>7. ASSUME NEW r \in Targets \ disturbed
      PROVE  AloneOn(r)' /\ ReportsOf(r)'
  <2>1. AloneOn(r) /\ ReportsOf(r)
    BY DEF ExecutorInv
  <2>2. \A o \in Executions : Exposed(o)' => Exposed(o) /\ Target(o)' = Target(o)
    BY <1>3, <1>6 DEF Exposed, Target
  <2>3. AloneOn(r)'
    BY <1>3, <1>6, <2>1, <2>2 DEF AloneOn
  <2>4. ReportsOf(r)'
    BY <1>3, <1>6, <2>1 DEF ReportsOf, Target
  <2> QED BY <2>3, <2>4
<1> QED BY <1>2, <1>5, <1>7 DEF ExecutorInv

(* An operator's rollback restores a snapshot in which its own effect is not, *)
(* and disturbs the resource if that changes another's.                      *)
LEMMA RollbackActionInv ==
  ASSUME ExecutorInv, NEW e \in Executions, RollbackAction(e)
  PROVE  ExecutorInv'
<1>1. ExecutorTypeOK /\ ExecutionOK(e) /\ status[e] # "none"
  BY DEF ExecutorInv, RollbackAction
<1>2. step[e] = "done" /\ request[e] \in Requests /\ Target(e) \in Targets
  BY <1>1 DEF ExecutionOK, Target, Requests
<1>3. /\ cluster' \in [Targets -> SUBSET Executions] /\ disturbed' \in SUBSET Targets
      /\ \A r \in Targets \ {Target(e)} : cluster'[r] = cluster[r]
      /\ disturbed \subseteq disturbed'
  BY <1>1, <1>2, ResourceFootprint DEF ExecutorTypeOK
<1>4. /\ status' \in {status, [status EXCEPT ![e] = "rolled_back"]}
      /\ UNCHANGED <<step, request, snapshot, written>>
  BY DEF RollbackAction
<1>5. ExecutorTypeOK'
  BY <1>1, <1>3, <1>4 DEF ExecutorTypeOK
<1>6. \A o \in Executions : ExecutionOK(o)'
  BY <1>1, <1>2, <1>4 DEF ExecutorInv, ExecutionOK, ExecutorTypeOK
<1>7. Restore(e) \/ UNCHANGED cluster
  BY DEF RollbackAction, NotRestored
<1>8. \A r \in Targets : cluster'[r] \subseteq written'
  <2>1. \A r \in Targets : cluster[r] \subseteq written
    BY DEF ExecutorInv
  <2>2. Restore(e) => /\ snapshot[e].state \subseteq written
                      /\ \A r \in Targets : cluster'[r] \in {cluster[r], snapshot[e].state}
    BY <1>1, <1>2 DEF Restore, ExecutorTypeOK, ExecutionOK
  <2> QED BY <1>4, <1>7, <2>1, <2>2
<1>9. ASSUME NEW r \in Targets \ disturbed'
      PROVE  AloneOn(r)' /\ ReportsOf(r)'
  <2>1. AloneOn(r) /\ ReportsOf(r)
    BY <1>3 DEF ExecutorInv
  <2>2. \A o \in Executions : Exposed(o)' = Exposed(o) /\ Target(o)' = Target(o)
    BY <1>4 DEF Exposed, Target
  <2>3. CASE r # Target(e)
    BY <1>1, <1>3, <1>4, <2>1, <2>2, <2>3 DEF AloneOn, ReportsOf, ExecutorTypeOK
  <2>4. CASE r = Target(e)
    <3>1. /\ Others(e) = {} /\ cluster[r] \ {e} = snapshot[e].state
          /\ cluster'[r] = snapshot[e].state /\ status'[e] = "rolled_back"
      BY <1>1, <1>2, <2>4 DEF RollbackAction, NotRestored, Restore, DisturbIf, Reverts,
                                ExecutorTypeOK
    <3>2. \A o \in Executions : Target(o) = r => ~Exposed(o)
      BY <1>2, <2>4, <3>1 DEF Others, Exposed
    <3>3. AloneOn(r)'
      BY <2>2, <3>2 DEF AloneOn
    <3>4. ReportsOf(r)'
      BY <1>1, <1>4, <2>1, <2>2, <3>1 DEF ReportsOf, ExecutorTypeOK
    <3> QED BY <3>3, <3>4
  <2> QED BY <2>3, <2>4
<1> QED BY <1>5, <1>6, <1>8, <1>9 DEF ExecutorInv

LEMMA ExecutorStutter ==
  ASSUME ExecutorInv, UNCHANGED executorVars
  PROVE  ExecutorInv'
BY DEF executorVars, ExecutorInv, ExecutorTypeOK, ExecutionOK, AloneOn, ReportsOf,
       Exposed, Target
-----------------------------------------------------------------------------
(* The lists of positions.                                                 *)

LEMMA PositionsFinite ==
  ASSUME NEW n \in Nat, NEW S \in SUBSET (1 .. n)
  PROVE  IsFiniteSet(S) /\ Cardinality(S) \in 0 .. n
<1>1. IsFiniteSet(1 .. n) /\ Cardinality(1 .. n) = n
  BY FS_Interval
<1>2. IsFiniteSet(S) /\ Cardinality(S) <= n
  BY <1>1, FS_Subset
<1> QED BY <1>2, FS_CardinalityType

(* The positions below a bound can be put in their order: a smallest bound *)
(* with a set for which that fails would have a smaller one.                *)
Increasing(s) == \A i, j \in DOMAIN s : i < j => s[i] < s[j]

Ordered(n) ==
  \A S \in SUBSET (1 .. n) : \E s \in [1 .. Cardinality(S) -> S] : Increasing(s)

LEMMA PositionsOrdered == \A n \in Nat : Ordered(n)
<1> DEFINE Bad == {n \in Nat : ~Ordered(n)}
<1>1. SUFFICES ASSUME Bad # {} PROVE FALSE
  OBVIOUS
<1>2. PICK n \in Bad : \A m \in Bad : ~(<<m, n>> \in OpToRel(<, Nat))
  BY <1>1, NatLessThanWellFounded, WFMin
<1>3. \A m \in Nat : m < n => Ordered(m)
  BY <1>2 DEF OpToRel
<1>4. Ordered(n)
  <2>1. SUFFICES ASSUME NEW S \in SUBSET (1 .. n)
                 PROVE  \E s \in [1 .. Cardinality(S) -> S] : Increasing(s)
    BY DEF Ordered
  <2>2. IsFiniteSet(S) /\ Cardinality(S) \in Nat
    BY PositionsFinite
  <2>3. CASE n \in S
    <3>1. n - 1 \in Nat /\ n - 1 < n /\ S \ {n} \in SUBSET (1 .. n - 1)
      BY <2>3
    <3>2. Cardinality(S \ {n}) = Cardinality(S) - 1
      BY <2>2, <2>3, FS_RemoveElement
    <3>3. PICK s \in [1 .. Cardinality(S) - 1 -> S \ {n}] : Increasing(s)
      BY <1>3, <3>1, <3>2 DEF Ordered
    <3> DEFINE q == [i \in 1 .. Cardinality(S) |-> IF i = Cardinality(S) THEN n ELSE s[i]]
    <3>4. q \in [1 .. Cardinality(S) -> S]
      BY <2>2, <2>3, <3>3
    <3>5. ASSUME NEW i \in 1 .. Cardinality(S), NEW j \in 1 .. Cardinality(S), i < j
          PROVE  q[i] < q[j]
      <4>1. i \in 1 .. Cardinality(S) - 1 /\ q[i] = s[i] /\ s[i] \in S \ {n}
        BY <2>2, <3>3, <3>5
      <4>2. CASE j = Cardinality(S)
        <5>1. q[j] = n
          BY <4>2
        <5>2. q[i] \in 1 .. n - 1
          BY <3>1, <4>1
        <5> QED BY <5>1, <5>2
      <4>3. CASE j # Cardinality(S)
        <5>1. j \in 1 .. Cardinality(S) - 1 /\ q[j] = s[j]
          BY <2>2, <4>3
        <5> QED BY <3>3, <3>5, <4>1, <5>1 DEF Increasing
      <4> QED BY <4>2, <4>3
    <3> QED BY <3>4, <3>5 DEF Increasing
  <2>4. CASE n \notin S /\ n # 0
    <3>1. n - 1 \in Nat /\ n - 1 < n /\ S \in SUBSET (1 .. n - 1)
      BY <2>4
    <3> QED BY <1>3, <3>1 DEF Ordered
  <2>5. CASE n = 0
    <3>0. S = {}
      BY <2>5
    <3>1. Cardinality(S) = 0
      BY <3>0, FS_EmptySet
    <3>2. <<>> \in [1 .. Cardinality(S) -> S] /\ Increasing(<<>>)
      BY <3>0, <3>1 DEF Increasing
    <3> QED BY <3>2
  <2> QED BY <2>3, <2>4, <2>5
<1> QED BY <1>2, <1>4

(* InOrder lists every position it is given once, and nothing else.         *)
LEMMA InOrderLists ==
  ASSUME NEW n \in Nat, NEW S \in SUBSET (1 .. n)
  PROVE  /\ InOrder(S) \in Seq(Nat \ {0}) /\ IsInjective(InOrder(S))
         /\ Len(InOrder(S)) \in 0 .. n
         /\ DOMAIN InOrder(S) = 1 .. Len(InOrder(S))
         /\ \A k \in DOMAIN InOrder(S) : InOrder(S)[k] \in S
<1>1. Cardinality(S) \in 0 .. n
  BY PositionsFinite
<1>2. \E s \in [1 .. Cardinality(S) -> S] : Increasing(s)
  BY PositionsOrdered DEF Ordered
<1>3. InOrder(S) \in [1 .. Cardinality(S) -> S] /\ Increasing(InOrder(S))
  BY <1>2 DEF InOrder, Increasing
<1>4. InOrder(S) \in Seq(Nat \ {0}) /\ Len(InOrder(S)) = Cardinality(S)
  <2>1. S \subseteq Nat \ {0}
    OBVIOUS
  <2>2. InOrder(S) \in [1 .. Cardinality(S) -> Nat \ {0}]
    BY <1>3, <2>1
  <2>3. Cardinality(S) \in Nat
    BY <1>1
  <2> QED BY <2>2, <2>3
<1>5. IsInjective(InOrder(S))
  <2>1. ASSUME NEW i \in 1 .. Cardinality(S), NEW j \in 1 .. Cardinality(S), i < j
        PROVE  InOrder(S)[i] # InOrder(S)[j]
    <3>1. InOrder(S)[i] < InOrder(S)[j] /\ InOrder(S)[i] \in S /\ InOrder(S)[j] \in S
      BY <1>3, <2>1 DEF Increasing
    <3>2. \A x, y \in S : x < y => x # y
      OBVIOUS
    <3> QED BY <3>1, <3>2
  <2>2. \A i, j \in 1 .. Cardinality(S) : i < j \/ j < i \/ i = j
    BY <1>1
  <2>3. \A i, j \in 1 .. Cardinality(S) : InOrder(S)[i] = InOrder(S)[j] => i = j
    BY <2>1, <2>2
  <2> QED BY <1>3, <2>3 DEF IsInjective
<1> QED BY <1>1, <1>3, <1>4, <1>5
-----------------------------------------------------------------------------
(* What is recommended and what is chosen from it.                         *)

LEMMA ActionForType == \A title \in DOMAIN ActionFor : ActionFor[title] \in K8sActionType
BY DEF ActionFor, K8sActionType

LEMMA MappedType ==
  ASSUME NEW a \in Alerts
  PROVE  \E n \in Nat :
           /\ DOMAIN Mapped(a) = 1 .. n /\ 1 .. n \subseteq DOMAIN Hypotheses[a]
           /\ \A i \in 1 .. n : /\ Mapped(a)[i].title \in DOMAIN ActionFor
                                /\ Mapped(a)[i].confident \in BOOLEAN
<1> DEFINE P == {i \in DOMAIN Hypotheses[a] : Hypotheses[a][i].title \in DOMAIN ActionFor}
           n == Len(Hypotheses[a])
           order == InOrder(P)
<1>1. /\ Hypotheses[a] \in Seq([title : STRING, confident : BOOLEAN])
      /\ n \in Nat /\ DOMAIN Hypotheses[a] = 1 .. n
  BY PipelineAssumption DEF PipelineAssumption
<1>2. P \in SUBSET (1 .. n)
  BY <1>1
<1>3. /\ DOMAIN order = 1 .. Len(order) /\ Len(order) \in 0 .. n
      /\ \A k \in DOMAIN order : order[k] \in P
  BY <1>1, <1>2, InOrderLists
<1>4. Mapped(a) = [i \in DOMAIN order |-> Hypotheses[a][order[i]]]
  BY DEF Mapped
<1> HIDE DEF order
<1>5. \A i \in 1 .. Len(order) :
        /\ Mapped(a)[i] = Hypotheses[a][order[i]]
        /\ Hypotheses[a][order[i]].title \in DOMAIN ActionFor
        /\ Hypotheses[a][order[i]].confident \in BOOLEAN
  <2>1. SUFFICES ASSUME NEW i \in 1 .. Len(order)
                 PROVE  /\ Mapped(a)[i] = Hypotheses[a][order[i]]
                        /\ Hypotheses[a][order[i]].title \in DOMAIN ActionFor
                        /\ Hypotheses[a][order[i]].confident \in BOOLEAN
    OBVIOUS
  <2>2. i \in DOMAIN order /\ order[i] \in P
    BY <1>3
  <2>3. Mapped(a)[i] = Hypotheses[a][order[i]]
    BY <1>4, <2>2
  <2>4. Hypotheses[a][order[i]] \in [title : STRING, confident : BOOLEAN]
    BY <1>1, <2>2, ElementOfSeq
  <2> QED BY <2>2, <2>3, <2>4
<1>6. DOMAIN Mapped(a) = 1 .. Len(order)
  BY <1>3, <1>4
<1>7. Len(order) \in Nat /\ 1 .. Len(order) \subseteq DOMAIN Hypotheses[a]
  BY <1>1, <1>3
<1> QED BY <1>5, <1>6, <1>7

LEMMA RecommendType ==
  ASSUME NEW a \in Alerts, override \in BOOLEAN
  PROVE  /\ Recommend(a) \in Seq(Recommendations)
         /\ DOMAIN Recommend(a) \subseteq DOMAIN Hypotheses[a]
         /\ \A i \in DOMAIN Recommend(a) : Recommend(a)[i].executed = FALSE
<1>1. PICK n \in Nat :
        /\ DOMAIN Mapped(a) = 1 .. n /\ 1 .. n \subseteq DOMAIN Hypotheses[a]
        /\ \A i \in 1 .. n : /\ Mapped(a)[i].title \in DOMAIN ActionFor
                             /\ Mapped(a)[i].confident \in BOOLEAN
  BY MappedType
<1>2. Service[a] \in Targets /\ "coredns" \in Targets
  BY PipelineAssumption DEF PipelineAssumption
<1>3. \A i \in 1 .. n : ActionFor[Mapped(a)[i].title] \in K8sActionType
  BY <1>1, ActionForType
<1>4. /\ Recommend(a) \in [1 .. n -> Recommendations]
      /\ \A i \in 1 .. n : Recommend(a)[i].executed = FALSE
  BY <1>1, <1>2, <1>3 DEF Recommend, Recommendations
<1>5. Recommend(a) \in Seq(Recommendations) /\ DOMAIN Recommend(a) = 1 .. n
  BY <1>4
<1> QED BY <1>1, <1>4, <1>5

(* A run's own list and an approval's list of what is pending.             *)
LEMMA ChosenLists ==
  ASSUME NEW rs \in Seq(Recommendations)
  PROVE  /\ ForTheRun(rs) \in Seq(Nat \ {0}) /\ IsInjective(ForTheRun(rs))
         /\ \A k \in DOMAIN ForTheRun(rs) :
              ForTheRun(rs)[k] \in DOMAIN rs /\ rs[ForTheRun(rs)[k]].auto
         /\ Pending(rs) \in Seq(Nat \ {0}) /\ IsInjective(Pending(rs))
         /\ \A k \in DOMAIN Pending(rs) :
              /\ Pending(rs)[k] \in DOMAIN rs
              /\ ~rs[Pending(rs)[k]].auto /\ ~rs[Pending(rs)[k]].executed
<1>1. Len(rs) \in Nat /\ DOMAIN rs = 1 .. Len(rs)
  OBVIOUS
<1>2. {i \in DOMAIN rs : rs[i].auto} \in SUBSET (1 .. Len(rs))
  BY <1>1
<1>3. {i \in DOMAIN rs : ~rs[i].auto /\ ~rs[i].executed} \in SUBSET (1 .. Len(rs))
  BY <1>1
<1> QED BY <1>1, <1>2, <1>3, InOrderLists DEF ForTheRun, Pending
-----------------------------------------------------------------------------
(* Tasks and their executions.                                             *)

LEMMA SlotsOfTasks ==
  ASSUME NEW t \in Tasks
  PROVE  /\ AlertOf(t) \in Alerts /\ t \in TasksOf(AlertOf(t))
         /\ t \in Alerts => AlertOf(t) = t
         /\ t \notin Alerts <=> t \in Approvals
         /\ t \in Approvals => AlertOf(t) = RunOf[t]
         /\ \A i \in Slots(t) : i \in Nat /\ <<t, i>> \in Executions \ Orders
<1>1. AlertOf(t) \in Alerts
  BY PipelineAssumption DEF PipelineAssumption, AlertOf, Tasks
<1>2. \A i \in Slots(t) : i \in Nat
  BY <1>1, PipelineAssumption DEF PipelineAssumption, Slots
<1>3. \A i \in Slots(t) : <<t, i>> \in Executions
  BY <1>1, PipelineAssumption DEF PipelineAssumption, Slots
<1>4. \A i \in Slots(t) : <<t, i>> \notin Orders
  BY <1>2, PipelineAssumption DEF PipelineAssumption
<1>5. t \notin Alerts <=> t \in Approvals
  BY PipelineAssumption DEF PipelineAssumption, Tasks
<1> QED BY <1>1, <1>2, <1>3, <1>4, <1>5 DEF TasksOf, AlertOf

LEMMA CurrentOfTask ==
  ASSUME PipelineTypeOK, NEW t \in Tasks, TaskOK(t), Busy(t)
  PROVE  /\ todo[t] \in Seq(Nat \ {0}) /\ todo[t] # <<>>
         /\ Len(todo[t]) \in Nat \ {0}
         /\ Head(todo[t]) = todo[t][1] /\ 1 \in DOMAIN todo[t]
         /\ Head(todo[t]) \in DOMAIN recs[AlertOf(t)]
         /\ Head(todo[t]) \in Slots(t)
         /\ Current(t) = <<t, Head(todo[t])>> /\ Current(t) \in Executions
         /\ t \in Alerts => recs[t][Head(todo[t])].auto
         /\ at[t] = "gate" => step[Current(t)] = "new"
         /\ at[t] = "execute" => step[Current(t)] \notin {"new", "done", "raised"}
         /\ recs[AlertOf(t)][Head(todo[t])] \in Recommendations
<1>1. /\ todo[t] \in Seq(Nat \ {0}) /\ todo[t] # <<>> /\ AlertOf(t) \in Alerts
      /\ t \in Alerts => AlertOf(t) = t
  BY SlotsOfTasks DEF PipelineTypeOK, TaskOK
<1>2. /\ Len(todo[t]) \in Nat \ {0} /\ Head(todo[t]) = todo[t][1]
      /\ 1 \in DOMAIN todo[t]
  BY <1>1
<1>3. /\ Head(todo[t]) \in DOMAIN recs[AlertOf(t)]
      /\ t \in Alerts => recs[t][Head(todo[t])].auto
      /\ at[t] = "gate" => step[<<t, Head(todo[t])>>] = "new"
  BY <1>1, <1>2 DEF TaskOK, EntryOK
<1>4. /\ Head(todo[t]) \in Slots(t)
      /\ recs[AlertOf(t)][Head(todo[t])] \in Recommendations
  BY <1>1, <1>3 DEF PipelineTypeOK, Slots
<1>5. at[t] = "execute" => step[<<t, Head(todo[t])>>] \notin {"new", "done", "raised"}
  BY <1>1, <1>4 DEF TaskOK, SlotOK, AtWork
<1> QED BY <1>1, <1>2, <1>3, <1>4, <1>5, SlotsOfTasks DEF Current

(* An execution as its task sees it, before and after a step. *)
SameWork(t, i) ==
  step'[<<t, i>>] = step[<<t, i>>] /\ (<<t, i>> \in written' <=> <<t, i>> \in written)

(* What a task's step comes to. *)
Stays(t) ==
  /\ step'[Current(t)] \notin {"new", "done", "raised"}
  /\ at' = [at EXCEPT ![t] = "execute"]
  /\ UNCHANGED <<recs, runStatus, todo, anyFailed, override, explicit, overlapped>>

Proceeds(t) ==
  /\ step'[Current(t)] \in {"new", "done"}
  /\ \E failed \in BOOLEAN : Proceed(t, failed)

GivesUp(t) == step'[Current(t)] = "raised" /\ GiveUp(t)

Moves(t) ==
  /\ \A u \in Tasks : \A i \in Slots(u) : <<u, i>> # Current(t) => SameWork(u, i)
  /\ Stays(t) \/ Proceeds(t) \/ GivesUp(t)

LEMMA TaskStepMoves ==
  ASSUME PipelineInv, NEW t \in Tasks, TaskStep(t)
  PROVE  Busy(t) /\ Moves(t) /\ ExecutorInv'
<1>1. PipelineTypeOK /\ TaskOK(t) /\ ExecutorInv /\ ExecutorTypeOK
  BY DEF PipelineInv, ExecutorInv
<1>2. Busy(t)
  BY DEF TaskStep, GateAnswers, ExecuteStep, Busy
<1>3. Current(t) \in Executions /\ \A u \in Tasks : \A i \in Slots(u) : <<u, i>> \in Executions
  BY <1>1, <1>2, CurrentOfTask, SlotsOfTasks
<1>4. CASE GateAnswers(t)
  <2>1. step[Current(t)] = "new"
    BY <1>1, <1>2, <1>4, CurrentOfTask DEF GateAnswers
  <2>2. RequestOf(t) \in Requests
    BY <1>1, <1>2, CurrentOfTask DEF RequestOf, Requests, Recommendations
  <2>3. CASE Proceed(t, FALSE) /\ UNCHANGED executorVars
    <3>1. Proceeds(t) /\ \A u \in Tasks : \A i \in Slots(u) : SameWork(u, i)
      BY <2>1, <2>3 DEF Proceeds, SameWork, executorVars
    <3> QED BY <1>1, <1>2, <2>3, <3>1, ExecutorStutter DEF Moves
  <2>4. CASE /\ Execute(Current(t), RequestOf(t))
             /\ IF step'[Current(t)] = "raised"
                THEN GiveUp(t)
                ELSE /\ at' = [at EXCEPT ![t] = "execute"]
                     /\ UNCHANGED <<recs, runStatus, todo, anyFailed, override,
                                    explicit, overlapped>>
    <3>1. ExecutorInv'
      BY <1>1, <1>3, <2>2, <2>4, ExecuteInv
    <3>2. \A u \in Tasks : \A i \in Slots(u) : <<u, i>> # Current(t) => SameWork(u, i)
      BY <1>1, <1>3, <2>4 DEF Execute, GoTo, SameWork, ExecutorTypeOK
    <3>3. step'[Current(t)] \in {"gate", "raised"}
      BY <1>1, <1>3, <2>4 DEF Execute, GoTo, ExecutorTypeOK
    <3>4. Stays(t) \/ GivesUp(t)
      BY <2>4, <3>3 DEF Stays, GivesUp
    <3> QED BY <1>2, <3>1, <3>2, <3>4 DEF Moves
  <2> QED BY <1>4, <2>3, <2>4 DEF GateAnswers
<1>5. CASE ExecuteStep(t)
  <2>1. at[t] = "execute" /\ Executing(Current(t))
    BY <1>5 DEF ExecuteStep
  <2>2. ExecutorInv'
    BY <1>1, <1>3, <2>1, ExecutingInv
  <2>3. \A u \in Tasks : \A i \in Slots(u) : <<u, i>> # Current(t) => SameWork(u, i)
    BY <1>1, <1>3, <2>1, ExecutionFootprint DEF SameWork
  <2>4. CASE step'[Current(t)] = "done"
    <3>1. Proceed(t, status'[Current(t)] = "failed")
      BY <1>5, <2>4 DEF ExecuteStep
    <3> QED BY <1>2, <2>2, <2>3, <2>4, <3>1 DEF Moves, Proceeds
  <2>5. CASE step'[Current(t)] = "raised"
    BY <1>2, <1>5, <2>2, <2>3, <2>5 DEF Moves, GivesUp, ExecuteStep
  <2>6. CASE step'[Current(t)] \notin {"done", "raised"}
    <3>1. UNCHANGED pipelineVars
      BY <1>5, <2>6 DEF ExecuteStep
    <3>2. step'[Current(t)] # "new"
      BY <1>1, <1>3, <2>1 DEF Executing, Gated, SnapshotRead, SnapshotTaken, Dispatched, Reaches,
                              Verified, RolledBack, Continue, Finish, Raise, GoTo, ExecutorTypeOK
    <3>3. at' = [at EXCEPT ![t] = "execute"]
      BY <1>1, <2>1, <3>1 DEF pipelineVars, PipelineTypeOK
    <3>4. Stays(t)
      BY <2>6, <3>1, <3>2, <3>3 DEF Stays, pipelineVars
    <3> QED BY <1>2, <2>2, <2>3, <3>4 DEF Moves
  <2> QED BY <2>4, <2>5, <2>6
<1> QED BY <1>2, <1>4, <1>5 DEF TaskStep
(* What a task's step changes of the lists: its own loses its head or not,  *)
(* and a recommendation is marked or none is.                              *)
LEMMA MovesFacts ==
  ASSUME PipelineInv, NEW t \in Tasks, Busy(t), Moves(t)
  PROVE  /\ PipelineTypeOK'
         /\ at'[t] # "idle" /\ \A u \in Tasks \ {t} : at'[u] = at[u] /\ todo'[u] = todo[u]
         /\ \A a \in Alerts : /\ DOMAIN recs'[a] = DOMAIN recs[a]
                              /\ \A i \in DOMAIN recs[a] :
                                   /\ recs'[a][i].auto = recs[a][i].auto
                                   /\ recs[a][i].executed => recs'[a][i].executed
         /\ UNCHANGED <<override, explicit, overlapped>>
         /\ \A a \in Alerts \ {AlertOf(t)} : runStatus'[a] = runStatus[a]
         /\ runStatus'[AlertOf(t)] \in {runStatus[AlertOf(t)], "completed", "failed"}
<1> DEFINE a == AlertOf(t)
           i == Head(todo[t])
<1>1. PipelineTypeOK /\ TaskOK(t) /\ a \in Alerts /\ (t \in Alerts => a = t)
  BY SlotsOfTasks DEF PipelineInv
<1>2. /\ i \in DOMAIN recs[a] /\ recs[a] \in Seq(Recommendations)
      /\ recs[a][i] \in Recommendations
      /\ todo[t] \in Seq(Nat \ {0}) /\ todo[t] # <<>>
  BY <1>1, CurrentOfTask DEF PipelineTypeOK
<1>3. CASE Stays(t)
  BY <1>1, <1>3 DEF Stays, PipelineTypeOK
<1>4. CASE GivesUp(t)
  BY <1>1, <1>4 DEF GivesUp, GiveUp, PipelineTypeOK
<1>5. CASE Proceeds(t)
  <2>1. PICK failed \in BOOLEAN : Proceed(t, failed)
    BY <1>5 DEF Proceeds
  <2>2. /\ recs' = [recs EXCEPT ![a] = [recs[a] EXCEPT ![i].executed = TRUE]]
        /\ todo' = [todo EXCEPT ![t] = Tail(todo[t])]
        /\ at' = [at EXCEPT ![t] = "ended"] \/ at' = [at EXCEPT ![t] = "gate"]
        /\ UNCHANGED <<override, explicit, overlapped>>
        /\ \/ UNCHANGED runStatus
           \/ runStatus' = [runStatus EXCEPT ![a] = "completed"]
           \/ runStatus' = [runStatus EXCEPT ![a] = "failed"]
        /\ \E b \in BOOLEAN : anyFailed' = [anyFailed EXCEPT ![t] = b]
    BY <1>1, <2>1 DEF Proceed, Final, PipelineTypeOK
  <2>3. [recs[a][i] EXCEPT !.executed = TRUE] \in Recommendations
    BY <1>2 DEF Recommendations
  <2>4. [recs[a] EXCEPT ![i].executed = TRUE] \in Seq(Recommendations)
    BY <1>2, <2>3
  <2>5. \A b \in Alerts : /\ DOMAIN recs'[b] = DOMAIN recs[b]
                          /\ \A j \in DOMAIN recs[b] :
                               /\ recs'[b][j].auto = recs[b][j].auto
                               /\ recs[b][j].executed => recs'[b][j].executed
    BY <1>1, <1>2, <2>2 DEF PipelineTypeOK, Recommendations
  <2>6. Tail(todo[t]) \in Seq(Nat \ {0})
    BY <1>2
  <2>7. PipelineTypeOK'
    <3>1. recs' \in [Alerts -> Seq(Recommendations)]
      BY <1>1, <2>2, <2>4 DEF PipelineTypeOK
    <3>2. todo' \in [Tasks -> Seq(Nat \ {0})]
      BY <1>1, <2>2, <2>6 DEF PipelineTypeOK
    <3>3. /\ runStatus' \in [Alerts -> {"none", "remediating", "completed", "failed"}]
          /\ at' \in [Tasks -> {"idle", "gate", "execute", "ended", "raised"}]
          /\ anyFailed' \in [Tasks -> BOOLEAN]
      BY <1>1, <2>2 DEF PipelineTypeOK
    <3> QED BY <1>1, <2>2, <2>5, <3>1, <3>2, <3>3 DEF PipelineTypeOK
  <2> QED BY <1>1, <2>2, <2>5, <2>7 DEF PipelineTypeOK
<1> QED BY <1>3, <1>4, <1>5 DEF Moves

LEMMA MovesTasks ==
  ASSUME PipelineInv, NEW t \in Tasks, Busy(t), Moves(t)
  PROVE  \A u \in Tasks : TaskOK(u)'
<1> DEFINE a == AlertOf(t)
           i == Head(todo[t])
<1>1. PipelineTypeOK /\ \A u \in Tasks : TaskOK(u)
  BY DEF PipelineInv
<1>2. /\ \A u \in Tasks \ {t} : at'[u] = at[u] /\ todo'[u] = todo[u]
      /\ \A b \in Alerts : /\ DOMAIN recs'[b] = DOMAIN recs[b]
                           /\ \A j \in DOMAIN recs[b] : recs'[b][j].auto = recs[b][j].auto
      /\ at'[t] # "idle"
  BY MovesFacts
<1>3. \A u \in Tasks : \A j \in Slots(u) : <<u, j>> # <<t, i>> => SameWork(u, j)
  BY <1>1, CurrentOfTask DEF Moves
<1>4. \A u \in Tasks : /\ AlertOf(u) \in Alerts /\ DOMAIN recs[AlertOf(u)] \subseteq Slots(u)
                       /\ todo[u] \in Seq(Nat \ {0})
  BY <1>1, SlotsOfTasks DEF PipelineTypeOK, Slots
<1>5. ASSUME NEW u \in Tasks, u # t
      PROVE  TaskOK(u)'
  <2>1. \A j \in Slots(u) : step'[<<u, j>>] = step[<<u, j>>]
    BY <1>3, <1>5 DEF SameWork
  <2>2. at'[u] = at[u] /\ todo'[u] = todo[u]
    BY <1>2, <1>5
  <2>3. \A k \in DOMAIN todo[u] : EntryOK(u, k)'
    <3>1. SUFFICES ASSUME NEW k \in DOMAIN todo[u] PROVE EntryOK(u, k)'
      BY <2>2
    <3>2. EntryOK(u, k) /\ todo[u][k] \in Slots(u)
      BY <1>1, <1>4 DEF TaskOK, EntryOK
    <3> QED BY <1>2, <1>4, <2>1, <2>2, <3>2 DEF EntryOK
  <2>4. \A j \in Slots(u) : SlotOK(u, j)'
    BY <1>1, <1>2, <1>4, <2>1, <2>2 DEF TaskOK, SlotOK, AtWork
  <2> QED BY <1>1, <2>2, <2>3, <2>4 DEF TaskOK, Busy
<1>6. /\ todo[t] # <<>> /\ Len(todo[t]) \in Nat \ {0} /\ i = todo[t][1] /\ 1 \in DOMAIN todo[t]
      /\ i \in DOMAIN recs[a] /\ i \in Slots(t) /\ Current(t) = <<t, i>>
      /\ t \in Alerts => recs[a][i].auto
  BY <1>1, CurrentOfTask, SlotsOfTasks
<1>7. DOMAIN todo[t] = 1 .. Len(todo[t]) /\ IsInjective(todo[t])
  BY <1>1, <1>4 DEF TaskOK
<1>8. \A j \in Slots(t) : j # i => step'[<<t, j>>] = step[<<t, j>>] /\ ~AtWork(t, j)
  BY <1>3 DEF SameWork, AtWork
<1>9. ASSUME NEW k \in DOMAIN todo[t]
      PROVE  /\ todo[t][k] \in DOMAIN recs'[a] /\ (t \in Alerts => recs'[a][todo[t][k]].auto)
             /\ k > 1 => step'[<<t, todo[t][k]>>] = "new"
  <2>1. /\ todo[t][k] \in DOMAIN recs[a] /\ (t \in Alerts => recs[a][todo[t][k]].auto)
        /\ k > 1 => step[<<t, todo[t][k]>>] = "new"
    BY <1>1 DEF TaskOK, EntryOK
  <2>2. k > 1 => todo[t][k] # i
    BY <1>6, <1>7 DEF IsInjective
  <2> QED BY <1>2, <1>4, <1>8, <2>1, <2>2
<1>10. ASSUME NEW j \in Slots(t)
       PROVE  /\ step'[<<t, j>>] # "new" => j \in DOMAIN recs'[a]
              /\ step'[<<t, j>>] # "new" /\ t \in Alerts => recs'[a][j].auto
              /\ j # i => step'[<<t, j>>] \in {"new", "done", "raised"}
  <2>1. SlotOK(t, j)
    BY <1>1 DEF TaskOK
  <2> QED BY <1>2, <1>4, <1>6, <1>8, <2>1 DEF SlotOK
<1>11. ASSUME \A j \in Slots(t) :
                AtWork(t, j)' <=> step'[<<t, j>>] \notin {"new", "done", "raised"}
       PROVE  \A j \in Slots(t) : SlotOK(t, j)'
  BY <1>2, <1>10, <1>11 DEF SlotOK
<1>12. ASSUME todo'[t] = todo[t], at'[t] # "gate"
       PROVE  \A k \in DOMAIN todo'[t] : EntryOK(t, k)'
  BY <1>9, <1>12 DEF EntryOK
<1>13. CASE Stays(t)
  <2>1. at'[t] = "execute" /\ todo' = todo /\ step'[<<t, i>>] \notin {"new", "done", "raised"}
    BY <1>1, <1>6, <1>13 DEF Stays, PipelineTypeOK
  <2>2. \A j \in Slots(t) : AtWork(t, j)' <=> j = i
    BY <1>6, <2>1 DEF AtWork
  <2>3. \A j \in Slots(t) : SlotOK(t, j)'
    BY <1>10, <1>11, <2>1, <2>2
  <2>4. TaskOK(t)'
    BY <1>2, <1>6, <1>7, <1>12, <2>1, <2>3 DEF TaskOK, IsInjective
  <2> QED BY <1>5, <2>4
<1>14. CASE GivesUp(t)
  <2>1. at'[t] \in {"ended", "raised"} /\ todo' = todo /\ step'[<<t, i>>] = "raised"
    BY <1>1, <1>6, <1>14 DEF GivesUp, GiveUp, PipelineTypeOK
  <2>2. \A j \in Slots(t) : ~AtWork(t, j)' /\ step'[<<t, j>>] \in {"new", "done", "raised"}
    BY <1>10, <2>1 DEF AtWork
  <2>3. \A j \in Slots(t) : SlotOK(t, j)'
    BY <1>11, <2>2
  <2>4. TaskOK(t)'
    BY <1>2, <1>6, <1>7, <1>12, <2>1, <2>3 DEF TaskOK, IsInjective
  <2> QED BY <1>5, <2>4
<1>15. CASE Proceeds(t)
  <2>1. /\ todo'[t] = Tail(todo[t]) /\ step'[<<t, i>>] \in {"new", "done"}
        /\ at'[t] = IF Len(todo[t]) = 1 THEN "ended" ELSE "gate"
    BY <1>1, <1>6, <1>15 DEF Proceeds, Proceed, PipelineTypeOK
  <2>2. /\ todo'[t] \in Seq(Nat \ {0}) /\ Len(todo'[t]) = Len(todo[t]) - 1
        /\ \A k \in 1 .. Len(todo'[t]) : todo'[t][k] = todo[t][k + 1]
    BY <1>4, <1>6, <2>1, HeadTailProperties
  <2>3. DOMAIN todo'[t] = 1 .. Len(todo[t]) - 1
    BY <2>2
  <2>4. ASSUME NEW k \in DOMAIN todo'[t]
        PROVE  /\ k + 1 \in DOMAIN todo[t] /\ k + 1 > 1 /\ todo'[t][k] = todo[t][k + 1]
               /\ k \in Nat
    <3>1. k \in 1 .. Len(todo[t]) - 1 /\ k \in 1 .. Len(todo'[t])
      BY <2>2, <2>3
    <3>2. k + 1 \in 1 .. Len(todo[t]) /\ k + 1 > 1
      BY <1>6, <3>1
    <3> QED BY <1>7, <2>2, <3>1, <3>2
  <2>5. IsInjective(todo'[t])
    <3>1. SUFFICES ASSUME NEW k \in DOMAIN todo'[t], NEW l \in DOMAIN todo'[t],
                          todo'[t][k] = todo'[t][l]
                   PROVE  k = l
      BY DEF IsInjective
    <3>2. k + 1 = l + 1
      BY <1>7, <2>4, <3>1 DEF IsInjective
    <3> QED BY <2>4, <3>2
  <2>6. Busy(t)' => todo'[t] # <<>>
    <3>1. Len(todo[t]) # 1 => Len(todo'[t]) # 0
      BY <1>6, <2>2
    <3>2. Len(todo'[t]) # 0 => todo'[t] # <<>>
      OBVIOUS
    <3> QED BY <2>1, <3>1, <3>2 DEF Busy
  <2>7. \A j \in Slots(t) : ~AtWork(t, j)' /\ step'[<<t, j>>] \in {"new", "done", "raised"}
    BY <1>10, <2>1 DEF AtWork
  <2>8. \A j \in Slots(t) : SlotOK(t, j)'
    BY <1>11, <2>7
  <2>9. ASSUME NEW k \in DOMAIN todo'[t]
        PROVE  EntryOK(t, k)'
    BY <1>9, <2>4 DEF EntryOK
  <2>10. TaskOK(t)'
    BY <1>2, <2>5, <2>6, <2>8, <2>9 DEF TaskOK, IsInjective
  <2> QED BY <1>5, <2>10
<1> QED BY <1>5, <1>13, <1>14, <1>15 DEF Moves
LEMMA CleanIsRecommended ==
  ASSUME PipelineInv, NEW t \in Tasks, NEW i \in Slots(t), <<t, i>> \in written
  PROVE  step[<<t, i>>] # "new" /\ i \in DOMAIN recs[AlertOf(t)]
<1>1. ExecutionOK(<<t, i>>) /\ SlotOK(t, i)
  BY SlotsOfTasks DEF PipelineInv, ExecutorInv, TaskOK
<1> QED BY <1>1 DEF ExecutionOK, SlotOK

LEMMA MovesAlerts ==
  ASSUME PipelineInv, NEW t \in Tasks, Busy(t), Moves(t)
  PROVE  \A b \in Alerts : AlertOK(b)'
<1> DEFINE a == AlertOf(t)
           h == Head(todo[t])
<1>1. /\ PipelineTypeOK /\ \A u \in Tasks : TaskOK(u) /\ \A b \in Alerts : AlertOK(b)
      /\ a \in Alerts /\ t \in TasksOf(a)
  BY SlotsOfTasks DEF PipelineInv
<1>2. /\ at'[t] # "idle"
      /\ \A u \in Tasks \ {t} : at'[u] = at[u] /\ todo'[u] = todo[u]
      /\ \A b \in Alerts : \A j \in DOMAIN recs[b] :
                             recs[b][j].executed => recs'[b][j].executed
      /\ UNCHANGED <<explicit, overlapped>>
      /\ \A b \in Alerts \ {a} : runStatus'[b] = runStatus[b]
      /\ runStatus'[a] \in {runStatus[a], "completed", "failed"}
  BY MovesFacts
<1>3. \A u \in Tasks : \A j \in Slots(u) : <<u, j>> # <<t, h>> => SameWork(u, j)
  BY <1>1, CurrentOfTask DEF Moves
<1>4. \A u \in Tasks \ {t} : /\ Busy(u)' <=> Busy(u)
                             /\ \A j \in Slots(u) : /\ Clean(u, j)' <=> Clean(u, j)
                                                    /\ AtWork(u, j)' <=> AtWork(u, j)
  BY <1>2, <1>3 DEF Busy, Clean, AtWork, SameWork
<1>5. \A b \in Alerts : \A u \in TasksOf(b) :
        /\ u \in Tasks /\ AlertOf(u) = b
        /\ \A j \in Slots(u) : Clean(u, j) => j \in DOMAIN recs[b]
        /\ \A k \in DOMAIN todo[u] : \A v \in TasksOf(b) : todo[u][k] \in Slots(v)
  <2>1. SUFFICES ASSUME NEW b \in Alerts, NEW u \in TasksOf(b)
                 PROVE  /\ u \in Tasks /\ AlertOf(u) = b
                        /\ \A j \in Slots(u) : Clean(u, j) => j \in DOMAIN recs[b]
                        /\ \A k \in DOMAIN todo[u] : \A v \in TasksOf(b) :
                             todo[u][k] \in Slots(v)
    OBVIOUS
  <2>2. u \in Tasks /\ AlertOf(u) = b
    BY DEF TasksOf
  <2>3. \A k \in DOMAIN todo[u] : todo[u][k] \in DOMAIN Hypotheses[b]
    BY <1>1, <2>2 DEF TaskOK, EntryOK, PipelineTypeOK
  <2> QED BY <2>2, <2>3, CleanIsRecommended DEF Clean, TasksOf, Slots
<1>6. ASSUME NEW b \in Alerts, b # a
      PROVE  AlertOK(b)'
  <2>1. AlertOK(b) /\ b \in Tasks \ {t} /\ \A u \in TasksOf(b) : u \in Tasks \ {t}
    BY <1>1, <1>6, SlotsOfTasks DEF TasksOf, Tasks
  <2>2. b \notin overlapped => OneAtWork(b)'
    BY <1>4, <2>1 DEF AlertOK, OneAtWork
  <2>3. b \notin overlapped => WrittenMarked(b)'
    BY <1>2, <1>4, <1>5, <2>1 DEF AlertOK, WrittenMarked
  <2>4. b \notin overlapped => WrittenNotListed(b)'
    BY <1>2, <1>4, <1>5, <2>1 DEF AlertOK, WrittenNotListed
  <2> QED BY <1>2, <1>6, <2>1, <2>2, <2>3, <2>4 DEF AlertOK
<1>7. AlertOK(a)'
  <2>1. /\ AlertOK(a) /\ a \in Tasks /\ a \in TasksOf(a) /\ runStatus[a] # "none"
        /\ at[t] # "idle"
    BY <1>1, SlotsOfTasks DEF AlertOK, Busy, Tasks
  <2>2. at'[a] # "idle" /\ runStatus'[a] # "none"
    BY <1>2, <2>1 DEF AlertOK
  <2>3. SUFFICES ASSUME a \notin overlapped
                 PROVE  OneAtWork(a)' /\ WrittenMarked(a)' /\ WrittenNotListed(a)'
    BY <1>2, <2>2 DEF AlertOK
  <2>4. \A u \in TasksOf(a) : Busy(u) => u = t
    BY <1>1, <2>1, <2>3 DEF AlertOK, OneAtWork
  <2>5. \A u \in TasksOf(a) : Busy(u)' => u = t
    BY <1>1, <1>4, <1>5, <2>4
  <2>6. h \in DOMAIN recs[a] /\ Current(t) = <<t, h>> /\ todo[t] \in Seq(Nat \ {0}) /\ todo[t] # <<>>
    BY <1>1, CurrentOfTask
  <2>7. ASSUME NEW u \in TasksOf(a), NEW j \in Slots(u), Clean(u, j)'
        PROVE  recs'[a][j].executed \/ AtWork(u, j)'
    <3>1. CASE <<u, j>> # <<t, h>>
      <4>1. Clean(u, j) /\ ~AtWork(u, j)
        BY <1>1, <1>3, <1>5, <2>4, <2>7, <3>1 DEF Clean, SameWork, AtWork, Busy
      <4> QED BY <1>1, <1>2, <1>5, <2>1, <2>3, <4>1 DEF AlertOK, WrittenMarked
    <3>2. CASE <<u, j>> = <<t, h>>
      <4>1. CASE Stays(t)
        BY <1>1, <2>6, <3>2, <4>1 DEF Stays, AtWork, PipelineTypeOK
      <4>2. CASE Proceeds(t)
        <5>1. recs'[a][h].executed = TRUE
          BY <1>1, <2>6, <4>2 DEF Proceeds, Proceed, PipelineTypeOK, Recommendations
        <5> QED BY <3>2, <5>1
      <4>3. CASE GivesUp(t)
        BY <2>6, <2>7, <3>2, <4>3 DEF GivesUp, Clean
      <4> QED BY <4>1, <4>2, <4>3 DEF Moves
    <3> QED BY <3>1, <3>2
  <2>8. \A k \in DOMAIN todo'[t] : \E l \in DOMAIN todo[t] : todo'[t][k] = todo[t][l]
    <3>1. CASE todo' = todo
      BY <3>1
    <3>2. CASE todo'[t] = Tail(todo[t])
      BY <2>6, <3>2, HeadTailProperties
    <3> QED BY <1>1, <3>1, <3>2 DEF Moves, Stays, Proceeds, Proceed, GivesUp, GiveUp, PipelineTypeOK
  <2>9. ASSUME NEW u \in TasksOf(a), u # t, t \notin explicit, NEW k \in DOMAIN todo'[t],
               NEW x, x = todo'[t][k]
        PROVE  ~Clean(u, x)'
    <3>1. PICK l \in DOMAIN todo[t] : todo'[t][k] = todo[t][l]
      BY <2>8
    <3>2. ~Clean(u, todo[t][l]) /\ todo[t][l] \in Slots(u)
      BY <1>1, <1>5, <2>1, <2>3, <2>9 DEF AlertOK, WrittenNotListed
    <3> QED BY <1>1, <1>4, <1>5, <2>9, <3>1, <3>2
  <2>10. OneAtWork(a)'
    BY <2>5 DEF OneAtWork
  <2>11. WrittenMarked(a)'
    BY <2>7 DEF WrittenMarked
  <2>12. WrittenNotListed(a)'
    BY <1>2, <2>5, <2>9 DEF WrittenNotListed, Clean
  <2> QED BY <2>10, <2>11, <2>12
<1> QED BY <1>6, <1>7
LEMMA MovesExecutedOnce ==
  ASSUME PipelineInv, NEW t \in Tasks, Busy(t), Moves(t)
  PROVE  ExecutedOnce'
<1> DEFINE h == Head(todo[t])
<1>1. /\ PipelineTypeOK /\ TaskOK(t) /\ ExecutedOnce
      /\ \A b \in Alerts : AlertOK(b)
  BY DEF PipelineInv
<1>2. /\ \A b \in Alerts : DOMAIN recs'[b] = DOMAIN recs[b]
      /\ UNCHANGED <<explicit, overlapped>>
  BY MovesFacts
<1>3. /\ Current(t) = <<t, h>> /\ h = todo[t][1] /\ 1 \in DOMAIN todo[t]
      /\ h \in Slots(t) /\ <<t, h>> \in Executions
      /\ step[<<t, h>>] # "raised"
  BY <1>1, CurrentOfTask DEF Busy
<1>4. \A u \in Tasks : \A j \in Slots(u) : <<u, j>> # <<t, h>> => SameWork(u, j)
  BY <1>3 DEF Moves
<1>5. SUFFICES ASSUME NEW a \in Alerts, a \notin overlapped,
                      NEW x \in TasksOf(a), NEW u \in TasksOf(a), NEW i \in DOMAIN recs[a],
                      x # u, <<x, i>> \in written', <<u, i>> \in written'
               PROVE  \/ {x, u} \cap explicit # {}
                      \/ step'[<<x, i>>] = "raised" \/ step'[<<u, i>>] = "raised"
  BY <1>2 DEF ExecutedOnce
<1>6. /\ x \in Tasks /\ u \in Tasks /\ AlertOf(x) = a /\ AlertOf(u) = a
      /\ i \in Slots(x) /\ i \in Slots(u)
  BY <1>1 DEF TasksOf, Slots, PipelineTypeOK
<1>7. ASSUME NEW y \in TasksOf(a), y # t, t \in TasksOf(a), i = h, <<y, i>> \in written'
      PROVE  t \in explicit \/ step'[<<y, i>>] = "raised"
  <2>1. y \in Tasks /\ i \in Slots(y)
    BY <1>6, <1>7 DEF TasksOf, Slots
  <2>2. SameWork(y, i)
    BY <1>4, <1>7, <2>1
  <2>3. t \notin explicit => ~Clean(y, i)
    BY <1>1, <1>3, <1>5, <1>7 DEF AlertOK, WrittenNotListed
  <2> QED BY <1>7, <2>2, <2>3 DEF SameWork, Clean
<1>8. CASE <<x, i>> # <<t, h>> /\ <<u, i>> # <<t, h>>
  <2>1. SameWork(x, i) /\ SameWork(u, i)
    BY <1>4, <1>6, <1>8
  <2> QED BY <1>1, <1>5, <2>1 DEF SameWork, ExecutedOnce
<1>9. CASE x = t /\ i = h
  BY <1>5, <1>7, <1>9
<1>10. CASE u = t /\ i = h
  BY <1>5, <1>7, <1>10
<1> QED BY <1>8, <1>9, <1>10

LEMMA MovesStatus ==
  ASSUME PipelineInv, NEW t \in Tasks, Busy(t), Moves(t)
  PROVE  StatusMatchesWork'
<1> DEFINE a == AlertOf(t)
<1>1. /\ PipelineTypeOK /\ TaskOK(t) /\ StatusMatchesWork /\ a \in Alerts
      /\ t \in TasksOf(a) /\ AlertOK(a) /\ (t \in Alerts => a = t)
      /\ t \notin Alerts => t \in Approvals /\ RunOf[t] = a
  BY SlotsOfTasks DEF PipelineInv
<1>2. /\ \A u \in Tasks \ {t} : at'[u] = at[u]
      /\ UNCHANGED overlapped
      /\ \A b \in Alerts \ {a} : runStatus'[b] = runStatus[b]
  BY MovesFacts
<1>3. \A u \in Tasks \ {t} : Busy(u)' <=> Busy(u)
  BY <1>2 DEF Busy
<1>4. ASSUME NEW b \in Alerts, b # a
      PROVE  /\ runStatus'[b] = "remediating" => (\E u \in TasksOf(b) : Busy(u)') \/ Stuck(b)'
             /\ Settled(b)' /\ (\E u \in TasksOf(b) : Busy(u)') => b \in overlapped'
  <2>1. \A u \in TasksOf(b) : u \in Tasks \ {t}
    BY <1>4 DEF TasksOf
  <2>2. \A p \in Approvals : RunOf[p] = b => p \in Tasks \ {t}
    BY <1>1, <1>4, PipelineAssumption DEF PipelineAssumption, Tasks
  <2>3. /\ (\E u \in TasksOf(b) : Busy(u)') <=> (\E u \in TasksOf(b) : Busy(u))
        /\ Stuck(b)' <=> Stuck(b)
        /\ Settled(b)' <=> Settled(b)
    BY <1>2, <1>3, <1>4, <2>1, <2>2 DEF Stuck, Settled
  <2> QED BY <1>1, <1>2, <1>4, <2>3 DEF StatusMatchesWork
<1>5. /\ runStatus'[a] = "remediating" => (\E u \in TasksOf(a) : Busy(u)') \/ Stuck(a)'
      /\ Settled(a)' /\ (\E u \in TasksOf(a) : Busy(u)') => a \in overlapped'
  <2>1. \A u \in TasksOf(a) : u \in Tasks
    BY DEF TasksOf
  <2>2. a \notin overlapped => runStatus[a] \notin {"completed", "failed"}
    BY <1>1 DEF StatusMatchesWork, Settled
  <2>3. a \notin overlapped => \A u \in TasksOf(a) : u # t => ~Busy(u)'
    BY <1>1, <1>3, <2>1 DEF AlertOK, OneAtWork
  <2>4. CASE Stays(t) \/ (Proceeds(t) /\ Len(todo[t]) # 1)
    <3>1. Busy(t)' /\ UNCHANGED runStatus
      BY <1>1, <2>4 DEF Stays, Proceeds, Proceed, Busy, PipelineTypeOK
    <3> QED BY <1>1, <1>2, <2>2, <3>1 DEF Settled
  <2>5. CASE Proceeds(t) /\ Len(todo[t]) = 1
    <3>1. ~Busy(t)' /\ runStatus'[a] # "remediating"
      BY <1>1, <2>5 DEF Proceeds, Proceed, Final, Busy, PipelineTypeOK
    <3> QED BY <1>2, <2>3, <3>1
  <2>6. CASE GivesUp(t) /\ t \in Alerts
    <3>1. ~Busy(t)' /\ runStatus'[a] # "remediating"
      BY <1>1, <2>6 DEF GivesUp, GiveUp, Busy, PipelineTypeOK
    <3> QED BY <1>2, <2>3, <3>1
  <2>7. CASE GivesUp(t) /\ t \notin Alerts
    <3>1. at'[t] = "raised" /\ UNCHANGED runStatus
      BY <1>1, <2>7 DEF GivesUp, GiveUp, PipelineTypeOK
    <3>2. Stuck(a)'
      BY <1>1, <2>7, <3>1 DEF Stuck
    <3> QED BY <1>2, <2>2, <3>1, <3>2 DEF Settled
  <2> QED BY <2>4, <2>5, <2>6, <2>7 DEF Moves
<1>6. ASSUME NEW b \in Alerts
      PROVE  /\ runStatus'[b] = "remediating" => (\E u \in TasksOf(b) : Busy(u)') \/ Stuck(b)'
             /\ Settled(b)' /\ (\E u \in TasksOf(b) : Busy(u)') => b \in overlapped'
  BY <1>4, <1>5
<1> QED BY <1>6 DEF StatusMatchesWork
-----------------------------------------------------------------------------
(* The beginning of a task.                                                *)

(* What a list is chosen from, and how. *)
Chooses(t, chosen) ==
  LET a == AlertOf(t)
  IN  /\ chosen \in Seq(Nat \ {0}) /\ IsInjective(chosen)
      /\ \A k \in DOMAIN chosen :
           /\ chosen[k] \in DOMAIN recs'[a]
           /\ t \in Alerts => recs'[a][chosen[k]].auto
           /\ t \notin explicit' => ~recs'[a][chosen[k]].executed

Begins(t, chosen) ==
  /\ at[t] = "idle" /\ UNCHANGED executorVars /\ UNCHANGED anyFailed
  /\ \/ t \in Approvals /\ runStatus[AlertOf(t)] # "none" /\ UNCHANGED recs
     \/ t \in Alerts /\ \E rs \in Seq(Recommendations) :
          recs' = [recs EXCEPT ![t] = rs] /\ DOMAIN rs \subseteq DOMAIN Hypotheses[t]
  /\ override' \in BOOLEAN
  /\ explicit' \in SUBSET Approvals /\ explicit \subseteq explicit'
  /\ Chooses(t, chosen)
  /\ Begin(t, chosen)

(* What was begun with is unchanged: recommendations are made before        *)
(* anything is listed or executed.                                         *)
LEMMA BeginsFacts ==
  ASSUME PipelineInv, NEW t \in Tasks, NEW chosen, Begins(t, chosen)
  PROVE  /\ PipelineTypeOK'
         /\ at'[t] = (IF chosen = <<>> THEN "ended" ELSE "gate") /\ todo'[t] = chosen
         /\ runStatus'[AlertOf(t)] = IF chosen = <<>> THEN "completed" ELSE "remediating"
         /\ \A u \in Tasks \ {t} : at'[u] = at[u] /\ todo'[u] = todo[u]
         /\ \A b \in Alerts \ {AlertOf(t)} :
              runStatus'[b] = runStatus[b] /\ recs'[b] = recs[b]
         /\ \A u \in Tasks : \A j \in Slots(u) :
              step[<<u, j>>] # "new" => u # t /\ recs'[AlertOf(u)] = recs[AlertOf(u)]
         /\ \A u \in Tasks : todo[u] # <<>> => recs'[AlertOf(u)] = recs[AlertOf(u)]
         /\ overlapped' = IF \E o \in TasksOf(AlertOf(t)) : Busy(o)
                          THEN overlapped \cup {AlertOf(t)} ELSE overlapped
<1> DEFINE a == AlertOf(t)
<1>1. /\ PipelineTypeOK /\ \A u \in Tasks : TaskOK(u) /\ AlertOK(a) /\ a \in Alerts
      /\ t \in Alerts => a = t
  BY SlotsOfTasks DEF PipelineInv
<1>2. /\ todo' = [todo EXCEPT ![t] = chosen] /\ chosen \in Seq(Nat \ {0})
      /\ at' = [at EXCEPT ![t] = IF chosen = <<>> THEN "ended" ELSE "gate"]
      /\ runStatus' = [runStatus EXCEPT ![a] =
                         IF chosen = <<>> THEN "completed" ELSE "remediating"]
      /\ overlapped' = IF \E o \in TasksOf(a) : Busy(o) THEN overlapped \cup {a} ELSE overlapped
      /\ at[t] = "idle" /\ UNCHANGED anyFailed
      /\ override' \in BOOLEAN /\ explicit' \in SUBSET Approvals
  BY DEF Begins, Begin, Chooses
<1>3. /\ recs' \in [Alerts -> Seq(Recommendations)]
      /\ \A b \in Alerts : DOMAIN recs'[b] \subseteq DOMAIN Hypotheses[b]
      /\ \A b \in Alerts \ {a} : recs'[b] = recs[b]
  BY <1>1 DEF Begins, PipelineTypeOK
<1>4. PipelineTypeOK'
  BY <1>1, <1>2, <1>3 DEF PipelineTypeOK
<1>5. UNCHANGED recs \/ \A u \in TasksOf(a) : at[u] = "idle"
  BY <1>1, <1>2 DEF Begins, AlertOK
<1>6. \A u \in Tasks : at[u] = "idle" => /\ todo[u] = <<>>
                                         /\ \A j \in Slots(u) : step[<<u, j>>] = "new"
  BY <1>1 DEF TaskOK, SlotOK
<1>7. \A u \in Tasks : recs'[AlertOf(u)] = recs[AlertOf(u)] \/ at[u] = "idle"
  BY <1>3, <1>5, SlotsOfTasks DEF TasksOf
<1>8. /\ at'[t] = (IF chosen = <<>> THEN "ended" ELSE "gate") /\ todo'[t] = chosen
      /\ runStatus'[a] = IF chosen = <<>> THEN "completed" ELSE "remediating"
      /\ \A u \in Tasks \ {t} : at'[u] = at[u] /\ todo'[u] = todo[u]
      /\ \A b \in Alerts \ {a} : runStatus'[b] = runStatus[b]
  BY <1>1, <1>2 DEF PipelineTypeOK
<1> QED BY <1>2, <1>3, <1>4, <1>6, <1>7, <1>8

LEMMA BeginsTasks ==
  ASSUME PipelineInv, NEW t \in Tasks, NEW chosen, Begins(t, chosen)
  PROVE  \A u \in Tasks : TaskOK(u)'
<1>1. /\ \A u \in Tasks : TaskOK(u)
      /\ UNCHANGED step /\ at[t] = "idle" /\ Chooses(t, chosen)
  BY DEF PipelineInv, Begins, executorVars
<1>2. /\ at'[t] = (IF chosen = <<>> THEN "ended" ELSE "gate") /\ todo'[t] = chosen
      /\ \A u \in Tasks \ {t} : at'[u] = at[u] /\ todo'[u] = todo[u]
      /\ \A u \in Tasks : \A j \in Slots(u) :
           step[<<u, j>>] # "new" => u # t /\ recs'[AlertOf(u)] = recs[AlertOf(u)]
      /\ \A u \in Tasks : todo[u] # <<>> => recs'[AlertOf(u)] = recs[AlertOf(u)]
      /\ PipelineTypeOK /\ PipelineTypeOK'
  BY BeginsFacts DEF PipelineInv
<1>3. ASSUME NEW u \in Tasks, u # t
      PROVE  TaskOK(u)'
  <2>1. ASSUME NEW k \in DOMAIN todo[u]
        PROVE  EntryOK(u, k)'
    <3>1. todo[u] # <<>> /\ EntryOK(u, k)
      BY <1>1 DEF TaskOK
    <3> QED BY <1>1, <1>2, <1>3, <3>1 DEF EntryOK
  <2>2. ASSUME NEW j \in Slots(u)
        PROVE  SlotOK(u, j)'
    BY <1>1, <1>2, <1>3 DEF TaskOK, SlotOK, AtWork
  <2> QED BY <1>1, <1>2, <1>3, <2>1, <2>2 DEF TaskOK, Busy, IsInjective
<1>4. TaskOK(t)'
  <2>1. ASSUME NEW k \in DOMAIN chosen
        PROVE  EntryOK(t, k)'
    <3>1. chosen[k] \in DOMAIN recs'[AlertOf(t)] /\ chosen[k] \in Slots(t)
      BY <1>1, <1>2, SlotsOfTasks DEF Chooses, PipelineTypeOK, Slots
    <3> QED BY <1>1, <1>2, <3>1 DEF EntryOK, Chooses
  <2>2. ASSUME NEW j \in Slots(t)
        PROVE  SlotOK(t, j)'
    BY <1>1, <1>2 DEF SlotOK, AtWork
  <2> QED BY <1>1, <1>2, <2>1, <2>2 DEF TaskOK, Busy, IsInjective, Chooses
<1> QED BY <1>3, <1>4

LEMMA BeginsAlerts ==
  ASSUME PipelineInv, NEW t \in Tasks, NEW chosen, Begins(t, chosen)
  PROVE  \A b \in Alerts : AlertOK(b)'
<1> DEFINE a == AlertOf(t)
<1>1. /\ \A b \in Alerts : AlertOK(b)
      /\ UNCHANGED <<step, written>> /\ at[t] = "idle" /\ Chooses(t, chosen)
      /\ a \in Alerts /\ t \in TasksOf(a)
      /\ t = a \/ (t # a /\ runStatus[a] # "none")
      /\ explicit \subseteq explicit'
  BY SlotsOfTasks, PipelineAssumption DEF PipelineInv, Begins, executorVars, PipelineAssumption
<1>2. /\ at'[t] = (IF chosen = <<>> THEN "ended" ELSE "gate") /\ todo'[t] = chosen
      /\ runStatus'[a] = IF chosen = <<>> THEN "completed" ELSE "remediating"
      /\ \A u \in Tasks \ {t} : at'[u] = at[u] /\ todo'[u] = todo[u]
      /\ \A b \in Alerts \ {a} : runStatus'[b] = runStatus[b] /\ recs'[b] = recs[b]
      /\ \A u \in Tasks : \A j \in Slots(u) :
           step[<<u, j>>] # "new" => u # t /\ recs'[AlertOf(u)] = recs[AlertOf(u)]
      /\ overlapped' = IF \E o \in TasksOf(a) : Busy(o)
                       THEN overlapped \cup {a} ELSE overlapped
  BY BeginsFacts
<1>3. \A u \in Tasks \ {t} : /\ Busy(u)' <=> Busy(u)
                             /\ \A j : /\ Clean(u, j)' <=> Clean(u, j)
                                       /\ AtWork(u, j)' <=> AtWork(u, j)
  BY <1>1, <1>2 DEF Busy, Clean, AtWork
<1>4. ASSUME NEW b \in Alerts, b # a
      PROVE  AlertOK(b)'
  <2>1. AlertOK(b) /\ b \in Tasks \ {t} /\ \A u \in TasksOf(b) : u \in Tasks \ {t}
    BY <1>1, <1>4, SlotsOfTasks DEF TasksOf, Tasks
  <2>2. b \notin overlapped' => b \notin overlapped
    BY <1>2
  <2>3. b \notin overlapped => OneAtWork(b)'
    BY <1>3, <2>1 DEF AlertOK, OneAtWork
  <2>4. b \notin overlapped => WrittenMarked(b)'
    BY <1>2, <1>3, <1>4, <2>1 DEF AlertOK, WrittenMarked
  <2>5. b \notin overlapped => WrittenNotListed(b)'
    BY <1>1, <1>2, <1>3, <2>1 DEF AlertOK, WrittenNotListed, Clean
  <2> QED BY <1>2, <1>4, <2>1, <2>2, <2>3, <2>4, <2>5 DEF AlertOK
<1>5. AlertOK(a)'
  <2>1. at'[a] # "idle" /\ runStatus'[a] # "none"
    BY <1>1, <1>2 DEF AlertOK, Tasks
  <2>2. SUFFICES ASSUME a \notin overlapped'
                 PROVE  OneAtWork(a)' /\ WrittenMarked(a)' /\ WrittenNotListed(a)'
    BY <2>1 DEF AlertOK
  <2>3. /\ a \notin overlapped /\ WrittenMarked(a)
        /\ \A u \in TasksOf(a) : ~Busy(u)
    BY <1>1, <1>2, <2>2 DEF AlertOK
  <2>4. \A u \in TasksOf(a) : u \in Tasks /\ AlertOf(u) = a /\ (Busy(u)' => u = t)
    BY <1>3, <2>3 DEF TasksOf
  <2>5. ASSUME NEW u \in TasksOf(a), NEW j \in Slots(u), Clean(u, j)
        PROVE  recs'[a][j].executed
    <3>1. step[<<u, j>>] # "new"
      BY <2>4, <2>5, CleanIsRecommended DEF Clean
    <3>2. ~AtWork(u, j)
      BY <2>3 DEF AtWork, Busy
    <3> QED BY <1>2, <2>3, <2>4, <2>5, <3>1, <3>2 DEF WrittenMarked
  <2>6. OneAtWork(a)'
    BY <2>4 DEF OneAtWork
  <2>7. WrittenMarked(a)'
    BY <1>1, <2>5 DEF WrittenMarked, Clean
  <2>8. ASSUME NEW u \in TasksOf(a), t \notin explicit', NEW k \in DOMAIN chosen
        PROVE  ~Clean(u, chosen[k])
    <3>1. chosen[k] \in Slots(u) /\ ~recs'[a][chosen[k]].executed
      BY <1>1, <2>4, <2>8, BeginsFacts DEF Chooses, PipelineTypeOK, Slots
    <3> QED BY <2>5, <3>1
  <2>9. WrittenNotListed(a)'
    BY <1>1, <1>2, <2>4, <2>8 DEF WrittenNotListed, Clean
  <2> QED BY <2>6, <2>7, <2>9
<1> QED BY <1>4, <1>5
LEMMA BeginsExecutedOnce ==
  ASSUME PipelineInv, NEW t \in Tasks, NEW chosen, Begins(t, chosen)
  PROVE  ExecutedOnce'
<1>1. /\ ExecutedOnce /\ UNCHANGED <<step, written>> /\ explicit \subseteq explicit'
      /\ PipelineTypeOK'
  BY BeginsFacts DEF PipelineInv, Begins, executorVars
<1>2. \A u \in Tasks : \A j \in Slots(u) :
        step[<<u, j>>] # "new" => recs'[AlertOf(u)] = recs[AlertOf(u)]
  BY BeginsFacts
<1>3. overlapped \subseteq overlapped'
  BY BeginsFacts
<1>4. SUFFICES ASSUME NEW b \in Alerts, b \notin overlapped',
                      NEW x \in TasksOf(b), NEW u \in TasksOf(b), NEW i \in DOMAIN recs'[b],
                      x # u, <<x, i>> \in written, <<u, i>> \in written
               PROVE  \/ {x, u} \cap explicit # {}
                      \/ step[<<x, i>>] = "raised" \/ step[<<u, i>>] = "raised"
  BY <1>1 DEF ExecutedOnce
<1>5. x \in Tasks /\ AlertOf(x) = b /\ i \in Slots(x)
  BY <1>1 DEF TasksOf, Slots, PipelineTypeOK
<1>6. i \in DOMAIN recs[b]
  BY <1>4, <1>5, CleanIsRecommended
<1> QED BY <1>1, <1>3, <1>4, <1>6 DEF ExecutedOnce

LEMMA BeginsStatus ==
  ASSUME PipelineInv, NEW t \in Tasks, NEW chosen, Begins(t, chosen)
  PROVE  StatusMatchesWork'
<1> DEFINE a == AlertOf(t)
<1>1. StatusMatchesWork /\ a \in Alerts /\ t \in TasksOf(a) /\ at[t] = "idle"
  BY SlotsOfTasks DEF PipelineInv, Begins
<1>2. /\ at'[t] = (IF chosen = <<>> THEN "ended" ELSE "gate")
      /\ runStatus'[a] = IF chosen = <<>> THEN "completed" ELSE "remediating"
      /\ \A u \in Tasks \ {t} : at'[u] = at[u]
      /\ \A b \in Alerts \ {a} : runStatus'[b] = runStatus[b]
      /\ overlapped' = IF \E o \in TasksOf(a) : Busy(o)
                       THEN overlapped \cup {a} ELSE overlapped
  BY BeginsFacts
<1>3. \A u \in Tasks \ {t} : Busy(u)' <=> Busy(u)
  BY <1>2 DEF Busy
<1>4. ASSUME NEW b \in Alerts
      PROVE  /\ runStatus'[b] = "remediating" => (\E u \in TasksOf(b) : Busy(u)') \/ Stuck(b)'
             /\ Settled(b)' /\ (\E u \in TasksOf(b) : Busy(u)') => b \in overlapped'
  <2>1. CASE b # a
    <3>1. \A u \in TasksOf(b) : u \in Tasks \ {t}
      BY <2>1 DEF TasksOf
    <3>2. \A p \in Approvals : RunOf[p] = b => p \in Tasks \ {t}
      BY <1>1, <2>1, SlotsOfTasks DEF Tasks
    <3>3. /\ (\E u \in TasksOf(b) : Busy(u)') <=> (\E u \in TasksOf(b) : Busy(u))
          /\ Stuck(b)' <=> Stuck(b)
          /\ Settled(b)' <=> Settled(b)
      BY <1>2, <1>3, <2>1, <3>1, <3>2 DEF Stuck, Settled
    <3> QED BY <1>1, <1>2, <2>1, <3>3 DEF StatusMatchesWork
  <2>2. CASE b = a /\ chosen = <<>>
    <3>1. ~Busy(t)' /\ runStatus'[a] = "completed"
      BY <1>2, <2>2 DEF Busy
    <3> QED BY <1>1, <1>2, <1>3, <2>2, <3>1 DEF TasksOf
  <2>3. CASE b = a /\ chosen # <<>>
    <3>1. Busy(t)' /\ ~Settled(a)'
      BY <1>2, <2>3 DEF Busy, Settled
    <3> QED BY <1>1, <2>3, <3>1
  <2> QED BY <2>1, <2>2, <2>3
<1> QED BY <1>4 DEF StatusMatchesWork

LEMMA BeginsInv ==
  ASSUME PipelineInv, NEW t \in Tasks, NEW chosen, Begins(t, chosen)
  PROVE  PipelineInv'
<1>1. ExecutorInv /\ UNCHANGED executorVars
  BY DEF PipelineInv, Begins
<1>2. ExecutorInv'
  BY <1>1, ExecutorStutter
<1> QED BY <1>2, BeginsFacts, BeginsTasks, BeginsAlerts, BeginsExecutedOnce, BeginsStatus
        DEF PipelineInv

-----------------------------------------------------------------------------
(* The steps of the pipeline.                                              *)

LEMMA RunPipelineInv ==
  ASSUME PipelineInv, NEW a \in Alerts, RunPipeline(a)
  PROVE  PipelineInv'
<1> DEFINE chosen == ForTheRun(Recommend(a))
<1>1. PipelineTypeOK /\ a \in Tasks /\ AlertOf(a) = a
  BY DEF PipelineInv, Tasks, AlertOf
<1>2. /\ Recommend(a) \in Seq(Recommendations)
      /\ DOMAIN Recommend(a) \subseteq DOMAIN Hypotheses[a]
      /\ \A i \in DOMAIN Recommend(a) : Recommend(a)[i].executed = FALSE
  BY <1>1, RecommendType DEF PipelineTypeOK
<1>3. recs'[a] = Recommend(a)
  BY <1>1 DEF RunPipeline, PipelineTypeOK
<1>4. Chooses(a, chosen)
  BY <1>1, <1>2, <1>3, ChosenLists DEF Chooses
<1>5. Begins(a, chosen)
  BY <1>1, <1>2, <1>4 DEF RunPipeline, Begins, PipelineTypeOK
<1> QED BY <1>1, <1>5, BeginsInv

LEMMA ApprovePendingInv ==
  ASSUME PipelineInv, NEW p \in Approvals, ApprovePending(p)
  PROVE  PipelineInv'
<1> DEFINE a == RunOf[p]
           chosen == Pending(recs[a])
<1>1. PipelineTypeOK /\ p \in Tasks /\ p \notin Alerts /\ AlertOf(p) = a /\ a \in Alerts
  BY SlotsOfTasks DEF PipelineInv, Tasks
<1>2. recs[a] \in Seq(Recommendations) /\ UNCHANGED recs
  BY <1>1 DEF PipelineTypeOK, ApprovePending
<1>3. Chooses(p, chosen)
  BY <1>1, <1>2, ChosenLists DEF Chooses
<1>4. Begins(p, chosen)
  BY <1>1, <1>3 DEF ApprovePending, Begins, PipelineTypeOK
<1> QED BY <1>1, <1>4, BeginsInv

(* With an index out of range, nothing but the approval's end changes.      *)
LEMMA ApproveIndicesInv ==
  ASSUME PipelineInv, NEW p \in Approvals, NEW is \in IndexLists[p], ApproveIndices(p, is)
  PROVE  PipelineInv'
<1> DEFINE a == RunOf[p]
<1>1. /\ PipelineTypeOK /\ p \in Tasks /\ p \notin Alerts /\ AlertOf(p) = a /\ a \in Alerts
      /\ \A u \in Tasks : TaskOK(u)
      /\ \A b \in Alerts : AlertOK(b)
      /\ p \in TasksOf(a)
  BY SlotsOfTasks DEF PipelineInv, Tasks
<1>2. is \in Seq(Nat \ {0}) /\ IsInjective(is)
  BY PipelineAssumption DEF PipelineAssumption
<1>3. /\ at[p] = "idle" /\ runStatus[a] # "none"
      /\ UNCHANGED <<executorVars, recs, anyFailed, override>>
  BY DEF ApproveIndices
<1>4. CASE ToSet(is) \subseteq DOMAIN recs[a]
  <2>1. Begin(p, is) /\ explicit' = explicit \cup {p}
    BY <1>4 DEF ApproveIndices
  <2>2. Chooses(p, is)
    BY <1>1, <1>2, <1>3, <1>4, <2>1 DEF Chooses, ToSet
  <2>3. Begins(p, is)
    BY <1>1, <1>3, <2>1, <2>2 DEF Begins, PipelineTypeOK
  <2> QED BY <1>1, <2>3, BeginsInv
<1>5. CASE ~(ToSet(is) \subseteq DOMAIN recs[a])
  <2>1. /\ at' = [at EXCEPT ![p] = "raised"]
        /\ runStatus' = [runStatus EXCEPT ![a] = "remediating"]
        /\ UNCHANGED <<todo, overlapped, explicit>>
    BY <1>5 DEF ApproveIndices
  <2>2. ExecutorInv' /\ UNCHANGED <<step, written>>
    BY <1>3, ExecutorStutter DEF PipelineInv, executorVars
  <2>3. PipelineTypeOK'
    BY <1>1, <1>3, <2>1 DEF PipelineTypeOK
  <2>4. /\ at'[p] = "raised" /\ \A u \in Tasks \ {p} : at'[u] = at[u]
        /\ runStatus'[a] = "remediating" /\ \A b \in Alerts \ {a} : runStatus'[b] = runStatus[b]
    BY <1>1, <2>1 DEF PipelineTypeOK
  <2>5. \A u \in Tasks : /\ Busy(u)' <=> Busy(u)
                         /\ \A j : /\ Clean(u, j)' <=> Clean(u, j)
                                   /\ AtWork(u, j)' <=> AtWork(u, j)
    BY <1>3, <2>1, <2>2, <2>4 DEF Busy, Clean, AtWork
  <2>6. ASSUME NEW u \in Tasks
        PROVE  TaskOK(u)'
    <3>1. at'[u] \in {"idle", "gate"} => at[u] = at'[u]
      BY <2>4
    <3>2. ASSUME NEW k \in DOMAIN todo[u]
          PROVE  EntryOK(u, k)'
      BY <1>1, <1>3, <2>2, <2>1, <3>1 DEF TaskOK, EntryOK
    <3>3. ASSUME NEW j \in Slots(u)
          PROVE  SlotOK(u, j)'
      BY <1>1, <1>3, <2>2, <2>5, <3>1 DEF TaskOK, SlotOK
    <3> QED BY <1>1, <2>1, <2>5, <3>1, <3>2, <3>3 DEF TaskOK, IsInjective
  <2>7. ASSUME NEW b \in Alerts
        PROVE  AlertOK(b)'
    <3>1. /\ AlertOK(b) /\ b \in Tasks \ {p} /\ \A u \in TasksOf(b) : u \in Tasks
      BY <1>1 DEF TasksOf, Tasks
    <3>2. /\ runStatus'[b] = "none" <=> runStatus[b] = "none"
          /\ at'[b] = at[b]
          /\ at[b] = "idle" => \A u \in TasksOf(b) : u # p
      BY <1>1, <1>3, <2>4, <3>1 DEF AlertOK, TasksOf
    <3>3. b \notin overlapped => OneAtWork(b)'
      BY <2>5, <3>1 DEF AlertOK, OneAtWork
    <3>4. b \notin overlapped => WrittenMarked(b)'
      BY <1>3, <2>5, <3>1 DEF AlertOK, WrittenMarked
    <3>5. b \notin overlapped => WrittenNotListed(b)'
      BY <2>1, <2>2, <2>5, <3>1 DEF AlertOK, WrittenNotListed, Clean
    <3> QED BY <2>1, <2>4, <3>1, <3>2, <3>3, <3>4, <3>5 DEF AlertOK
  <2>8. ExecutedOnce'
    BY <1>3, <2>1, <2>2 DEF PipelineInv, ExecutedOnce
  <2>9. ASSUME NEW b \in Alerts
        PROVE  /\ runStatus'[b] = "remediating" => (\E u \in TasksOf(b) : Busy(u)') \/ Stuck(b)'
               /\ Settled(b)' /\ (\E u \in TasksOf(b) : Busy(u)') => b \in overlapped'
    <3>1. CASE b = a
      BY <2>4, <3>1 DEF Stuck, Settled
    <3>2. CASE b # a
      <4>1. \A u \in TasksOf(b) : u \in Tasks
        BY DEF TasksOf
      <4>2. Stuck(b) => Stuck(b)'
        BY <2>4 DEF Stuck, Tasks
      <4> QED BY <2>1, <2>4, <2>5, <3>2, <4>1, <4>2 DEF PipelineInv, StatusMatchesWork, Settled
    <3> QED BY <3>1, <3>2
  <2>10. StatusMatchesWork'
    BY <2>9 DEF StatusMatchesWork
  <2> QED BY <2>2, <2>3, <2>6, <2>7, <2>8, <2>10 DEF PipelineInv
<1> QED BY <1>4, <1>5
LEMMA TaskStepInv ==
  ASSUME PipelineInv, NEW t \in Tasks, TaskStep(t)
  PROVE  PipelineInv'
<1>1. Busy(t) /\ Moves(t) /\ ExecutorInv'
  BY TaskStepMoves
<1>2. PipelineTypeOK'
  BY <1>1, MovesFacts
<1> QED BY <1>1, <1>2, MovesTasks, MovesAlerts, MovesExecutedOnce, MovesStatus DEF PipelineInv

(* The orders' executions are no task's. *)
LEMMA PipelineFramed ==
  ASSUME PipelineInv, ExecutorInv', UNCHANGED pipelineVars,
         \A u \in Tasks : \A i \in Slots(u) : SameWork(u, i)
  PROVE  PipelineInv'
<1> USE DEF pipelineVars
<1>1. /\ PipelineTypeOK /\ \A u \in Tasks : TaskOK(u)
      /\ \A b \in Alerts : AlertOK(b)
      /\ ExecutedOnce /\ StatusMatchesWork
  BY DEF PipelineInv
<1>2. PipelineTypeOK' /\ StatusMatchesWork'
  BY <1>1 DEF PipelineTypeOK, StatusMatchesWork, Busy, Settled, Stuck
<1>3. ASSUME NEW u \in Tasks
      PROVE  TaskOK(u)'
  <2>1. ASSUME NEW k \in DOMAIN todo[u]
        PROVE  EntryOK(u, k)'
    <3>1. EntryOK(u, k) /\ todo[u][k] \in Slots(u)
      BY <1>1, SlotsOfTasks DEF TaskOK, EntryOK, PipelineTypeOK, Slots
    <3> QED BY <3>1 DEF EntryOK, SameWork
  <2>2. ASSUME NEW j \in Slots(u)
        PROVE  SlotOK(u, j)'
    BY <1>1 DEF TaskOK, SlotOK, SameWork, AtWork
  <2> QED BY <1>1, <2>1, <2>2 DEF TaskOK, Busy, IsInjective
<1>4. \A u \in Tasks : \A j \in Slots(u) : Clean(u, j)' <=> Clean(u, j)
  BY DEF Clean, SameWork
<1>5. ASSUME NEW b \in Alerts
      PROVE  AlertOK(b)'
  <2>1. \A u \in TasksOf(b) : u \in Tasks /\ Slots(u) = DOMAIN Hypotheses[b]
    BY DEF TasksOf, Slots
  <2>2. b \notin overlapped => OneAtWork(b)'
    BY <1>1 DEF AlertOK, OneAtWork, Busy
  <2>3. b \notin overlapped => WrittenMarked(b)'
    BY <1>1, <1>4, <2>1 DEF AlertOK, WrittenMarked, AtWork
  <2>4. ASSUME b \notin overlapped,
               NEW t \in TasksOf(b), NEW u \in TasksOf(b), Busy(t), t \notin explicit, u # t,
               NEW k \in DOMAIN todo[t], NEW x, x = todo[t][k]
        PROVE  ~Clean(u, x)'
    <3>1. x \in DOMAIN Hypotheses[b]
      BY <1>1, <2>1, <2>4 DEF TaskOK, EntryOK, PipelineTypeOK, TasksOf
    <3> QED BY <1>1, <1>4, <2>1, <2>4, <3>1 DEF AlertOK, WrittenNotListed
  <2>5. b \notin overlapped => WrittenNotListed(b)'
    BY <2>4 DEF WrittenNotListed, Clean, Busy
  <2> QED BY <1>1, <2>2, <2>3, <2>5 DEF AlertOK
<1>6. ExecutedOnce'
  <2>1. SUFFICES ASSUME NEW b \in Alerts, b \notin overlapped,
                        NEW x \in TasksOf(b), NEW u \in TasksOf(b), NEW i \in DOMAIN recs[b],
                        x # u, <<x, i>> \in written', <<u, i>> \in written'
                 PROVE  \/ {x, u} \cap explicit # {}
                        \/ step'[<<x, i>>] = "raised" \/ step'[<<u, i>>] = "raised"
    BY DEF ExecutedOnce
  <2>2. SameWork(x, i) /\ SameWork(u, i)
    BY <1>1 DEF TasksOf, Slots, PipelineTypeOK
  <2> QED BY <1>1, <2>1, <2>2 DEF ExecutedOnce, SameWork
<1> QED BY <1>2, <1>3, <1>5, <1>6 DEF PipelineInv

LEMMA OrderInv ==
  ASSUME PipelineInv, NEW o \in Orders,
         ExecuteAction(o) \/ OrderStep(o) \/ RollbackEndpoint(o)
  PROVE  PipelineInv'
<1>1. ExecutorInv /\ ExecutorTypeOK
  BY DEF PipelineInv, ExecutorInv
<1>2. /\ o \in Executions
      /\ \A u \in Tasks : \A i \in Slots(u) : <<u, i>> \in Executions \ {o}
  BY SlotsOfTasks, PipelineAssumption DEF PipelineAssumption
<1>3. UNCHANGED pipelineVars
  BY DEF ExecuteAction, OrderStep, RollbackEndpoint
<1>4. CASE ExecuteAction(o)
  <2>1. PICK req \in OrderRequests : Execute(o, req)
    BY <1>4 DEF ExecuteAction
  <2>2. req \in Requests
    BY PipelineAssumption DEF PipelineAssumption
  <2>3. ExecutorInv'
    BY <1>1, <1>2, <2>1, <2>2, ExecuteInv
  <2>4. \A u \in Tasks : \A i \in Slots(u) : SameWork(u, i)
    BY <1>1, <1>2, <2>1 DEF Execute, GoTo, SameWork, ExecutorTypeOK
  <2> QED BY <1>3, <2>3, <2>4, PipelineFramed
<1>5. CASE OrderStep(o) \/ RollbackEndpoint(o)
  <2>1. Executing(o) \/ RollbackAction(o)
    BY <1>5 DEF OrderStep, RollbackEndpoint
  <2>2. ExecutorInv'
    BY <1>1, <1>2, <2>1, ExecutingInv, RollbackActionInv
  <2>3. \A u \in Tasks : \A i \in Slots(u) : SameWork(u, i)
    BY <1>1, <1>2, <2>1, ExecutionFootprint DEF SameWork
  <2> QED BY <1>3, <2>2, <2>3, PipelineFramed
<1> QED BY <1>4, <1>5

LEMMA PipelineInitInv == PipelineInit => PipelineInv
<1> SUFFICES ASSUME PipelineInit PROVE PipelineInv
  OBVIOUS
<1> USE DEF PipelineInit
<1>1. ExecutorInv
  BY ExecutorInitInv
<1>2. PipelineTypeOK
  BY DEF PipelineTypeOK
<1>3. \A t \in Tasks : TaskOK(t)
  <2>1. SUFFICES ASSUME NEW t \in Tasks PROVE TaskOK(t)
    OBVIOUS
  <2>2. \A i \in Slots(t) : SlotOK(t, i)
    BY SlotsOfTasks DEF SlotOK, AtWork, ExecutorInit
  <2>3. IsInjective(todo[t])
    BY DEF IsInjective
  <2> QED BY <2>2, <2>3 DEF TaskOK, Busy
<1>4. \A a \in Alerts : AlertOK(a)
  BY DEF AlertOK, OneAtWork, WrittenMarked, WrittenNotListed, Busy, Clean, TasksOf, Tasks,
         ExecutorInit
<1>5. ExecutedOnce
  BY DEF ExecutedOnce, ExecutorInit
<1>6. StatusMatchesWork
  BY DEF StatusMatchesWork, Settled
<1> QED BY <1>1, <1>2, <1>3, <1>4, <1>5, <1>6 DEF PipelineInv

(* The invariant holds throughout. *)
THEOREM PipelineInvariant == PipelineSpec => []PipelineInv
<1>1. ASSUME PipelineInv, [PipelineNext]_vars
      PROVE  PipelineInv'
  <2>1. CASE UNCHANGED vars
    <3>1. UNCHANGED executorVars /\ UNCHANGED pipelineVars
      BY <2>1 DEF vars
    <3>2. ExecutorInv'
      BY <1>1, <3>1, ExecutorStutter DEF PipelineInv
    <3>3. \A u \in Tasks : \A i \in Slots(u) : SameWork(u, i)
      BY <3>1 DEF executorVars, SameWork
    <3> QED BY <1>1, <3>1, <3>2, <3>3, PipelineFramed
  <2>2. ASSUME NEW a \in Alerts, RunPipeline(a)
        PROVE  PipelineInv'
    BY <1>1, <2>2, RunPipelineInv
  <2>3. ASSUME NEW p \in Approvals,
               ApprovePending(p) \/ \E is \in IndexLists[p] : ApproveIndices(p, is)
        PROVE  PipelineInv'
    BY <1>1, <2>3, ApprovePendingInv, ApproveIndicesInv
  <2>4. ASSUME NEW t \in Tasks, TaskStep(t)
        PROVE  PipelineInv'
    BY <1>1, <2>4, TaskStepInv
  <2>5. ASSUME NEW o \in Orders, ExecuteAction(o) \/ OrderStep(o) \/ RollbackEndpoint(o)
        PROVE  PipelineInv'
    BY <1>1, <2>5, OrderInv
  <2> QED BY <1>1, <2>1, <2>2, <2>3, <2>4, <2>5 DEF PipelineNext
<1> QED BY <1>1, PipelineInitInv, PTL DEF PipelineSpec
-----------------------------------------------------------------------------
(* What follows.                                                           *)

(* Every variable of the pipeline and the executor stays in its domain:     *)
(* PipelineRun, RemediationRecommendation and RemediationResult keep to     *)
(* their fields' types, and lists are never indexed out of their range.     *)
THEOREM PipelineTypeTheorem == PipelineSpec => [](ExecutorTypeOK /\ PipelineTypeOK)
<1>1. PipelineInv => ExecutorTypeOK /\ PipelineTypeOK
  BY DEF PipelineInv, ExecutorInv
<1> QED BY <1>1, PipelineInvariant, PTL

(* Nothing is written that a rule of the gate denies, and a run by itself   *)
(* writes only what its confidence approved (orchestrator.py:53).           *)
THEOREM WritesAuthorisedTheorem == PipelineSpec => []WritesAuthorised
<1>1. ASSUME PipelineInv
      PROVE  WritesAuthorised
  <2>1. SUFFICES ASSUME NEW e \in written
                 PROVE  /\ ~request[e].breaksRule
                        /\ \A a \in Alerts : \A i \in DOMAIN recs[a] :
                             e = <<a, i>> => recs[a][i].auto
    BY DEF WritesAuthorised
  <2>2. e \in Executions /\ ExecutionOK(e)
    BY <1>1 DEF PipelineInv, ExecutorInv, ExecutorTypeOK
  <2>3. ASSUME NEW a \in Alerts, NEW i \in DOMAIN recs[a], e = <<a, i>>
        PROVE  recs[a][i].auto
    <3>1. a \in Tasks /\ AlertOf(a) = a /\ i \in Slots(a)
      BY <1>1 DEF PipelineInv, PipelineTypeOK, Tasks, AlertOf, Slots
    <3>2. SlotOK(a, i)
      BY <1>1, <3>1 DEF PipelineInv, TaskOK
    <3> QED BY <2>2, <2>3, <3>1, <3>2 DEF SlotOK, ExecutionOK
  <2> QED BY <2>2, <2>3 DEF ExecutionOK
<1> QED BY <1>1, PipelineInvariant, PTL

(* The results of K8sRemediationExecutor tell the truth about a resource    *)
(* that nothing disturbed.                                                 *)
THEOREM ReportsAgreeTheorem == PipelineSpec => []ReportsAgree
<1>1. PipelineInv => ReportsAgree
  BY DEF PipelineInv, ExecutorInv, ReportsOf, ReportsAgree
<1> QED BY <1>1, PipelineInvariant, PTL

(* No recommendation is written by two tasks of its run, unless they        *)
(* overlap, name it, or an exception kept it unmarked.                      *)
THEOREM ExecutedOnceTheorem == PipelineSpec => []ExecutedOnce
<1>1. PipelineInv => ExecutedOnce
  BY DEF PipelineInv
<1> QED BY <1>1, PipelineInvariant, PTL

(* PipelineRun.status says that work is under way when it is, and that it   *)
(* is over when it is.                                                     *)
THEOREM StatusMatchesWorkTheorem == PipelineSpec => []StatusMatchesWork
<1>1. PipelineInv => StatusMatchesWork
  BY DEF PipelineInv
<1> QED BY <1>1, PipelineInvariant, PTL

(* A task at work waits for something that can come: for the gate with a    *)
(* recommendation that it has not executed yet, or for an execution that    *)
(* is under way (run_pipeline(), _execute_recommendation()).                *)
TasksCanGoOn ==
  \A t \in Tasks : Busy(t) =>
    /\ Head(todo[t]) \in DOMAIN recs[AlertOf(t)]
    /\ at[t] = "gate" => step[Current(t)] = "new"
    /\ at[t] = "execute" => step[Current(t)] \notin {"new", "done", "raised"}

(* No task is suspended on something that cannot come.                     *)
THEOREM TasksCanGoOnTheorem == PipelineSpec => []TasksCanGoOn
<1>1. PipelineInv => TasksCanGoOn
  BY CurrentOfTask DEF PipelineInv, TasksCanGoOn
<1> QED BY <1>1, PipelineInvariant, PTL

(* A result of execute() stands, unless an operator rolls it back: no step  *)
(* of any coroutine changes the result of an execution that is over.        *)
ResultsStand ==
  \A e \in Executions : status[e] # "none" =>
    status'[e] \in {status[e]} \cup (IF e \in Revocable THEN {"rolled_back"} ELSE {})

(* Of every step of runs, approvals and endpoints.                         *)
THEOREM ResultsStandTheorem == PipelineSpec => [][ResultsStand]_vars
<1>1. ASSUME PipelineInv, [PipelineNext]_vars
      PROVE  [ResultsStand]_vars
  <2>1. ExecutorInv /\ ExecutorTypeOK /\ PipelineTypeOK /\ \A t \in Tasks : TaskOK(t)
    BY <1>1 DEF PipelineInv, ExecutorInv
  <2>2. ASSUME UNCHANGED status
        PROVE  ResultsStand
    BY <2>2 DEF ResultsStand
  <2>3. ASSUME NEW e \in Executions, Executing(e)
        PROVE  ResultsStand
    <3>1. status[e] = "none"
      BY <2>1, <2>3, ExecutionMoves DEF ExecutorInv
    <3> QED BY <2>1, <2>3, <3>1, ExecutionFootprint DEF ResultsStand
  <2>4. ASSUME NEW o \in Orders, RollbackAction(o)
        PROVE  ResultsStand
    BY <2>1, <2>4 DEF RollbackAction, ResultsStand, ExecutorTypeOK
  <2>5. ASSUME NEW a \in Alerts, RunPipeline(a)
        PROVE  ResultsStand
    BY <2>2, <2>5 DEF RunPipeline, executorVars
  <2>6. ASSUME NEW p \in Approvals,
               ApprovePending(p) \/ \E is \in IndexLists[p] : ApproveIndices(p, is)
        PROVE  ResultsStand
    BY <2>2, <2>6 DEF ApprovePending, ApproveIndices, executorVars
  <2>7. ASSUME NEW t \in Tasks, TaskStep(t)
        PROVE  ResultsStand
    <3>1. CASE GateAnswers(t)
      BY <2>2, <3>1 DEF GateAnswers, Execute, executorVars
    <3>2. CASE ExecuteStep(t)
      <4>1. Current(t) \in Executions /\ Executing(Current(t))
        BY <2>1, <3>2, CurrentOfTask DEF ExecuteStep, Busy
      <4> QED BY <2>3, <4>1
    <3> QED BY <2>7, <3>1, <3>2 DEF TaskStep
  <2>8. ASSUME NEW o \in Orders, ExecuteAction(o) \/ OrderStep(o) \/ RollbackEndpoint(o)
        PROVE  ResultsStand
    <3>1. o \in Executions
      BY PipelineAssumption DEF PipelineAssumption
    <3> QED BY <2>2, <2>3, <2>4, <2>8, <3>1
            DEF ExecuteAction, Execute, OrderStep, RollbackEndpoint
  <2> QED BY <1>1, <2>5, <2>6, <2>7, <2>8 DEF PipelineNext
<1> QED BY <1>1, PipelineInvariant, PTL DEF PipelineSpec
=============================================================================
