----------------------------- MODULE JobScheduler -----------------------------
(***************************************************************************)
(* The scheduler of src/shieldops/scheduler/scheduler.py on several API    *)
(* instances, each looping over one job: sleep, lock, run, release.  The   *)
(* locks of different jobs are different keys, so one job stands for all.  *)
(* As in api/app.py, jobs are added before start() and never removed, and  *)
(* redis_url is set.                                                       *)
(***************************************************************************)
EXTENDS DistributedLock

VARIABLES
  running,  \* _running of each instance's scheduler
  task      \* where the job's loop is suspended; "none" if there is no task

schedVars == <<running, task>>
allVars == <<lockVars, running, task>>

SchedTypeOK ==
  /\ LockTypeOK
  /\ running \in [Instances -> BOOLEAN]
  /\ task \in [Instances -> {"none", "sleeping", "acquiring", "running", "releasing"}]
  /\ \A i \in Instances : running[i] => task[i] # "none"

SchedInit ==
  /\ LockInit
  /\ running = [i \in Instances |-> FALSE]
  /\ task = [i \in Instances |-> "none"]

GoTo(i, place) == task' = [task EXCEPT ![i] = place]

-----------------------------------------------------------------------------

(* start(), of a scheduler that is not running. *)
Start(i) ==
  /\ ~running[i] /\ task[i] = "none"
  /\ running' = [running EXCEPT ![i] = TRUE]
  /\ GoTo(i, "sleeping")
  /\ UNCHANGED lockVars

(* interval_seconds are over. *)
Wake(i) ==
  /\ task[i] = "sleeping"
  /\ GoTo(i, "acquiring")
  /\ UNCHANGED <<lockVars, running>>

(* The lock is answered: the job runs or is skipped. *)
Locked(i) ==
  /\ task[i] = "acquiring"
  /\ \/ Acquire(i) /\ GoTo(i, "running")
     \/ AcquireFails /\ GoTo(i, "sleeping")
  /\ UNCHANGED running

(* The lock raises: job.error_count is incremented and the loop goes on.   *)
LockRaises(i) ==
  /\ task[i] = "acquiring"
  /\ AcquireRaises(i)
  /\ GoTo(i, "sleeping")
  /\ UNCHANGED running

(* Mutant: the renewal task is left running. *)
JobEndsRenewing(i) ==
  /\ task[i] = "running"
  /\ GoTo(i, "releasing")
  /\ UNCHANGED <<lockVars, running>>

(* job.func() returns or raises, and __aexit__() runs. *)
JobEnds(i) ==
  /\ task[i] = "running"
  /\ CancelRenewal(i)
  /\ GoTo(i, "releasing")
  /\ UNCHANGED running

(* release() is over; a cancelled loop breaks, any other goes on. *)
Released(i) ==
  /\ task[i] = "releasing"
  /\ Release(i)
  /\ GoTo(i, IF running[i] THEN "sleeping" ELSE "none")
  /\ UNCHANGED running

(* stop() cancels the task and awaits it: a job that runs is interrupted   *)
(* and its lock released, a lock being acquired is abandoned, a release    *)
(* is interrupted.                                                         *)
Stop(i) ==
  /\ running[i]
  /\ running' = [running EXCEPT ![i] = FALSE]
  /\ \/ task[i] = "sleeping" /\ GoTo(i, "none") /\ UNCHANGED lockVars
     \/ task[i] = "acquiring" /\ AcquireRaises(i) /\ GoTo(i, "none")
     \/ task[i] = "running" /\ CancelRenewal(i) /\ GoTo(i, "releasing")
     \/ task[i] = "releasing" /\ Release(i) /\ GoTo(i, "none")

AutoRenew(i) == Renew(i) /\ UNCHANGED schedVars

AutoRenewStops(i) == RenewFails(i) /\ UNCHANGED schedVars

(* The process dies; its key lives on in Redis. *)
Crash(i) ==
  /\ task[i] # "none"
  /\ running' = [running EXCEPT ![i] = FALSE]
  /\ GoTo(i, "none")
  /\ renewal' = [renewal EXCEPT ![i] = "off"]
  /\ UNCHANGED <<owner, lease>>

TimePasses == HalfTTLPasses /\ UNCHANGED schedVars

-----------------------------------------------------------------------------

(* What Redis, an operator or a crash may do to instance i. *)
Disturb(i) == LockRaises(i) \/ AutoRenewStops(i) \/ Stop(i) \/ Crash(i)

Loop(i) == Wake(i) \/ Locked(i) \/ JobEnds(i) \/ Released(i)

SchedNext ==
  \/ \E i \in Instances : Start(i) \/ Loop(i) \/ AutoRenew(i) \/ Disturb(i)
  \/ TimePasses

(* Timers fire, Redis answers or the client gives up, and jobs end; nobody *)
(* has to start a scheduler.                                               *)
SchedSpec ==
  /\ SchedInit /\ [][SchedNext]_allVars
  /\ \A i \in Instances :
       WF_allVars(Loop(i)) /\ WF_allVars(AutoRenew(i) \/ AutoRenewStops(i))
  /\ WF_allVars(TimePasses)

-----------------------------------------------------------------------------

InJob(i) == task[i] = "running"

(* As long as its renewal task lives, a running job holds the lock: no     *)
(* late release, renewal or expiry of another instance takes it away.      *)
LeaseHeld == \A i \in Instances : InJob(i) /\ Renewing(i) => owner = i

(* Two instances are in the job at once only after one of them has lost    *)
(* its renewal task.                                                       *)
ExclusiveWhileRenewed ==
  \A i, j \in Instances :
    (InJob(i) /\ InJob(j) /\ i # j) => ~(Renewing(i) /\ Renewing(j))

(* A lock is renewed only for a job that runs: none is kept from expiring  *)
(* by an instance that is done with it, was stopped or died.               *)
RenewedForAJob == \A i \in Instances : Renewing(i) => InJob(i)

(* A lock that raises while another instance holds it only skips a run.    *)
Setback(i) ==
  (owner = None /\ LockRaises(i)) \/ AutoRenewStops(i) \/ Stop(i) \/ Crash(i)

(* The job is never stuck behind a lock left over from a crash, a stop or  *)
(* a lost reply: once things are quiet and some scheduler runs, the job is *)
(* executed again and again.                                               *)
JobGoesOn ==
  (/\ <>[][~\E i \in Instances : Setback(i)]_allVars
   /\ <>[](\E i \in Instances : running[i]))
     => []<>(\E i \in Instances : InJob(i))
=============================================================================
