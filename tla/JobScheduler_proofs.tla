-------------------------- MODULE JobScheduler_proofs --------------------------
(***************************************************************************)
(* Mutual exclusion of the scheduler's jobs, for any number of instances:  *)
(* what the lease promises as long as it is renewed.                       *)
(***************************************************************************)
EXTENDS JobScheduler, TLAPS

(* The inductive invariant: why a renewed lock is held.  A renewal task    *)
(* that sleeps has the whole TTL before it, and one that is due at least   *)
(* half of it, so the key of a renewed lock does not expire; and nobody    *)
(* else's step removes a key that holds another value.                     *)
LeaseAlive ==
  \A i \in Instances :
    Renewing(i) => /\ InJob(i)
                   /\ owner = i
                   /\ renewal[i] = "asleep" => lease = TTL
                   /\ lease >= 1

SchedInv == SchedTypeOK /\ LeaseAlive

(* The scheduler's operations, one step of an instance each. *)
InstanceStep(i) == Start(i) \/ Loop(i) \/ AutoRenew(i) \/ Disturb(i)

(* The types of the key and of its lease, after a step on the key. *)
LEMMA LockTypes ==
  ASSUME SchedTypeOK, NEW i \in Instances, InstanceStep(i)
  PROVE  /\ owner' \in Instances \cup {None}
         /\ lease' \in 0 .. TTL
         /\ owner' = None <=> lease' = 0
<1> USE LockAssumption DEF SchedTypeOK, LockTypeOK, TTL, LockAssumption
<1>1. ASSUME Start(i) \/ Wake(i) PROVE UNCHANGED <<owner, lease>>
  BY <1>1 DEF Start, Wake, lockVars
<1>2. ASSUME Crash(i) PROVE UNCHANGED <<owner, lease>>
  BY <1>2 DEF Crash
<1>3. CASE Start(i) \/ Wake(i) \/ Crash(i)
  BY <1>1, <1>2, <1>3
<1>4. CASE Locked(i) \/ LockRaises(i)
  BY <1>4 DEF Locked, LockRaises, Acquire, AcquireFails, AcquireRaises, Set, lockVars
<1>5. CASE JobEnds(i) \/ Released(i) \/ Stop(i)
  BY <1>5 DEF JobEnds, Released, Stop, CancelRenewal, Release, AcquireRaises, Set, lockVars
<1>6. CASE AutoRenew(i) \/ AutoRenewStops(i)
  BY <1>6 DEF AutoRenew, AutoRenewStops, Renew, RenewFails
<1> QED
  BY <1>3, <1>4, <1>5, <1>6 DEF InstanceStep, Loop, Disturb

(* A step of one instance touches no other instance's task, flag or        *)
(* renewal, and keeps its own well typed.                                  *)
LEMMA InstanceTypes ==
  ASSUME SchedTypeOK, NEW i \in Instances, InstanceStep(i)
  PROVE  /\ renewal' \in [Instances -> {"off", "asleep", "due"}]
         /\ running' \in [Instances -> BOOLEAN]
         /\ task' \in [Instances -> {"none", "sleeping", "acquiring", "running", "releasing"}]
         /\ \A j \in Instances \ {i} :
              /\ renewal'[j] = renewal[j]
              /\ running'[j] = running[j]
              /\ task'[j] = task[j]
<1>1. /\ renewal \in [Instances -> {"off", "asleep", "due"}]
      /\ running \in [Instances -> BOOLEAN]
      /\ task \in [Instances -> {"none", "sleeping", "acquiring", "running", "releasing"}]
  BY DEF SchedTypeOK, LockTypeOK
<1>2. \E v \in {"off", "asleep", "due"} : renewal' = [renewal EXCEPT ![i] = v]
  BY <1>1 DEF InstanceStep, Start, Loop, Wake, Locked, JobEnds, Released, AutoRenew, Disturb,
     LockRaises, AutoRenewStops, Stop, Crash, lockVars, Acquire, AcquireFails, AcquireRaises,
     CancelRenewal, Release, Renew, RenewFails
<1>3. \E b \in BOOLEAN : running' = [running EXCEPT ![i] = b]
  <2>1. CASE Start(i)
    BY <2>1 DEF Start
  <2>2. CASE Stop(i) \/ Crash(i)
    BY <2>2 DEF Stop, Crash
  <2>3. ASSUME ~Start(i), ~Stop(i), ~Crash(i) PROVE running' = running
    BY <2>3 DEF InstanceStep, Loop, Wake, Locked, JobEnds, Released, AutoRenew, Disturb,
       LockRaises, AutoRenewStops, schedVars
  <2>4. ASSUME running' = running PROVE running[i] \in BOOLEAN /\ running' = [running EXCEPT ![i] = running[i]]
    BY <2>4, <1>1
  <2> QED
    BY <2>1, <2>2, <2>3, <2>4
<1>4. \E p \in {"none", "sleeping", "acquiring", "running", "releasing"} :
        task' = [task EXCEPT ![i] = p]
  BY <1>1 DEF InstanceStep, Start, Loop, Wake, Locked, JobEnds, Released, AutoRenew, Disturb,
     LockRaises, AutoRenewStops, Stop, Crash, schedVars, GoTo
<1> QED
  BY <1>1, <1>2, <1>3, <1>4

(* No step of an instance takes the lock from another one that renews it.  *)
LEMMA OthersKeep ==
  ASSUME SchedInv, NEW i \in Instances, InstanceStep(i),
         NEW j \in Instances \ {i}, Renewing(j)
  PROVE  owner' = j /\ lease' = lease
<1>1. owner = j /\ owner # None /\ owner # i
  BY LockAssumption DEF SchedInv, LeaseAlive, LockAssumption
<1> QED
  BY <1>1 DEF InstanceStep, Start, Loop, Wake, Locked, JobEnds, Released, AutoRenew, Disturb,
     LockRaises, AutoRenewStops, Stop, Crash, lockVars, Acquire, AcquireFails, AcquireRaises,
     CancelRenewal, Release, Renew, RenewFails

(* What an instance's own step leaves of its renewal. *)
LEMMA OwnStep ==
  ASSUME SchedInv, NEW i \in Instances, InstanceStep(i), Renewing(i)'
  PROVE  /\ task'[i] = "running"
         /\ owner' = i
         /\ renewal'[i] = "asleep" => lease' = TTL
         /\ lease' >= 1
<1>1. /\ renewal \in [Instances -> {"off", "asleep", "due"}]
      /\ task \in [Instances -> {"none", "sleeping", "acquiring", "running", "releasing"}]
  BY DEF SchedInv, SchedTypeOK, LockTypeOK
<1>2. Renewing(i) => task[i] = "running" /\ owner = i /\ (renewal[i] = "asleep" => lease = TTL) /\ lease >= 1
  BY DEF SchedInv, LeaseAlive, InJob
<1>3. CASE Locked(i)
  BY <1>1, <1>2, <1>3 DEF Locked, Acquire, AcquireFails, Set, GoTo, lockVars, Renewing, TTL
<1>4. CASE AutoRenew(i)
  BY <1>1, <1>2, <1>4 DEF AutoRenew, Renew, schedVars, Renewing, TTL
<1>5. CASE Start(i) \/ Wake(i) \/ LockRaises(i) \/ Released(i)
  BY <1>1, <1>2, <1>5 DEF Start, Wake, LockRaises, Released, AcquireRaises, Release, lockVars, Renewing
<1>6. CASE JobEnds(i) \/ AutoRenewStops(i) \/ Crash(i)
  BY <1>1, <1>6 DEF JobEnds, AutoRenewStops, Crash, CancelRenewal, RenewFails, Renewing
<1>7. CASE Stop(i)
  BY <1>1, <1>2, <1>7 DEF Stop, AcquireRaises, CancelRenewal, Release, lockVars, Renewing
<1> QED
  BY <1>3, <1>4, <1>5, <1>6, <1>7 DEF InstanceStep, Loop, Disturb

(* An instance with a loop keeps it until it is stopped or dies. *)
LEMMA LoopLives ==
  ASSUME SchedTypeOK, NEW i \in Instances, InstanceStep(i), running'[i]
  PROVE  task'[i] # "none"
<1>1. /\ running \in [Instances -> BOOLEAN]
      /\ task \in [Instances -> {"none", "sleeping", "acquiring", "running", "releasing"}]
      /\ running[i] => task[i] # "none"
  BY DEF SchedTypeOK
<1>2. CASE Stop(i) \/ Crash(i)
  BY <1>1, <1>2 DEF Stop, Crash
<1>3. CASE Start(i)
  BY <1>1, <1>3 DEF Start, GoTo
<1>4. CASE Loop(i)
  BY <1>1, <1>4 DEF Loop, Wake, Locked, JobEnds, Released, GoTo
<1>5. CASE LockRaises(i) \/ AutoRenew(i) \/ AutoRenewStops(i)
  BY <1>1, <1>5 DEF LockRaises, AutoRenew, AutoRenewStops, GoTo, schedVars
<1> QED
  BY <1>2, <1>3, <1>4, <1>5 DEF InstanceStep, Disturb

(* Every step of an instance preserves the invariant. *)
LEMMA InstanceInv == ASSUME SchedInv, NEW i \in Instances, InstanceStep(i) PROVE SchedInv'
<1>1. SchedTypeOK
  BY DEF SchedInv
<1>2. SchedTypeOK'
  <2>1. \A j \in Instances : running'[j] => task'[j] # "none"
    <3>1. running'[i] => task'[i] # "none"
      BY <1>1, LoopLives
    <3>2. \A j \in Instances \ {i} : running'[j] => task'[j] # "none"
      BY <1>1, InstanceTypes DEF SchedTypeOK
    <3> QED
      BY <3>1, <3>2
  <2> QED
    BY <1>1, <2>1, LockTypes, InstanceTypes DEF SchedTypeOK, LockTypeOK
<1>3. LeaseAlive'
  <2>1. ASSUME NEW j \in Instances, Renewing(j)'
        PROVE  /\ task'[j] = "running"
               /\ owner' = j
               /\ renewal'[j] = "asleep" => lease' = TTL
               /\ lease' >= 1
    <3>1. CASE j = i
      BY <2>1, <3>1, OwnStep
    <3>2. CASE j # i
      <4>1. Renewing(j) /\ renewal'[j] = renewal[j] /\ task'[j] = task[j]
        BY <1>1, <2>1, <3>2, InstanceTypes DEF Renewing
      <4>2. owner' = j /\ lease' = lease
        BY <3>2, <4>1, OthersKeep
      <4> QED
        BY <4>1, <4>2 DEF SchedInv, LeaseAlive, InJob
    <3> QED
      BY <3>1, <3>2
  <2> QED
    BY <2>1 DEF LeaseAlive, InJob, Renewing
<1> QED
  BY <1>2, <1>3 DEF SchedInv

(* The lease runs down, but not below what a renewed lock needs. *)
LEMMA TimeInv == SchedInv /\ TimePasses => SchedInv'
<1> SUFFICES ASSUME SchedInv, TimePasses PROVE SchedInv'
  OBVIOUS
<1>1. /\ \A i \in Instances : renewal[i] # "due"
      /\ renewal' = [i \in Instances |-> IF Renewing(i) THEN "due" ELSE "off"]
      /\ lease' = IF lease > 0 THEN lease - 1 ELSE 0
      /\ owner' = IF lease > 1 THEN owner ELSE None
      /\ running' = running /\ task' = task
  BY DEF TimePasses, HalfTTLPasses, Expire, schedVars
<1>2. SchedTypeOK'
  <2>1. /\ owner' \in Instances \cup {None} /\ lease' \in 0 .. TTL
        /\ owner' = None <=> lease' = 0
        /\ renewal' \in [Instances -> {"off", "asleep", "due"}]
    BY <1>1, LockAssumption DEF SchedInv, SchedTypeOK, LockTypeOK, TTL, LockAssumption
  <2> QED
    BY <1>1, <2>1 DEF SchedInv, SchedTypeOK, LockTypeOK
<1>3. LeaseAlive'
  <2>1. ASSUME NEW j \in Instances, Renewing(j)'
        PROVE  InJob(j)' /\ owner' = j /\ renewal'[j] # "asleep" /\ lease' >= 1
    <3>1. Renewing(j) /\ renewal'[j] = "due"
      BY <1>1, <2>1 DEF Renewing
    <3>2. renewal[j] = "asleep"
      BY <1>1, <3>1 DEF Renewing, SchedInv, SchedTypeOK, LockTypeOK
    <3>3. InJob(j) /\ owner = j /\ lease = 2
      BY <3>1, <3>2 DEF SchedInv, LeaseAlive, TTL
    <3> QED
      BY <1>1, <3>1, <3>3 DEF InJob
  <2> QED
    BY <2>1 DEF LeaseAlive
<1> QED
  BY <1>2, <1>3 DEF SchedInv

(* The invariant holds in every reachable state. *)
THEOREM SchedInvTheorem == SchedSpec => []SchedInv
<1>1. SchedInit => SchedInv
  BY LockAssumption
  DEF SchedInit, LockInit, SchedInv, SchedTypeOK, LockTypeOK, LeaseAlive, Renewing, TTL, LockAssumption
<1>2. SchedInv /\ [SchedNext]_allVars => SchedInv'
  <2> SUFFICES ASSUME SchedInv, [SchedNext]_allVars PROVE SchedInv'
    OBVIOUS
  <2>1. ASSUME NEW i \in Instances, Start(i) \/ Loop(i) \/ AutoRenew(i) \/ Disturb(i)
        PROVE  SchedInv'
    BY <2>1, InstanceInv DEF InstanceStep
  <2>2. CASE TimePasses
    BY <2>2, TimeInv
  <2>3. CASE UNCHANGED allVars
    BY <2>3 DEF allVars, lockVars, SchedInv, SchedTypeOK, LockTypeOK, LeaseAlive, Renewing, InJob
  <2> QED
    BY <2>1, <2>2, <2>3 DEF SchedNext
<1> QED
  BY <1>1, <1>2, PTL DEF SchedSpec

(* A running job whose lock is renewed holds it, whatever other instances, *)
(* Redis, stops and crashes do.                                            *)
THEOREM LeaseTheorem == SchedSpec => []LeaseHeld
<1>1. SchedInv => LeaseHeld
  BY DEF SchedInv, LeaseAlive, LeaseHeld
<1> QED
  BY <1>1, SchedInvTheorem, PTL

(* Hence no two instances are in the job with their renewal tasks alive.   *)
THEOREM ExclusionTheorem == SchedSpec => []ExclusiveWhileRenewed
<1>1. SchedInv => ExclusiveWhileRenewed
  BY DEF SchedInv, LeaseAlive, ExclusiveWhileRenewed
<1> QED
  BY <1>1, SchedInvTheorem, PTL

(* No lock is renewed for a job that is over. *)
THEOREM RenewalTheorem == SchedSpec => []RenewedForAJob
<1>1. SchedInv => RenewedForAJob
  BY DEF SchedInv, LeaseAlive, RenewedForAJob
<1> QED
  BY <1>1, SchedInvTheorem, PTL

(* The types, and that a running scheduler never loses its loop. *)
THEOREM SchedTypeTheorem == SchedSpec => []SchedTypeOK
<1>1. SchedInv => SchedTypeOK
  BY DEF SchedInv
<1> QED
  BY <1>1, SchedInvTheorem, PTL
=============================================================================
