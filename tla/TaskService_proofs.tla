-------------------------- MODULE TaskService_proofs --------------------------
(***************************************************************************)
(* Safety of the task queue and of the requests in front of it, for any    *)
(* number of tasks, workers, retries and keys.                             *)
(*                                                                         *)
(* The queue is proved from its own steps; those of the service are shown  *)
(* to be steps of the queue or to leave it alone.                          *)
(***************************************************************************)
EXTENDS TaskService, FiniteSetTheorems, TLAPS

USE QueueAssumption, ServiceAssumption

-----------------------------------------------------------------------------
(* The queue _pending. *)

Injective == \A i, j \in DOMAIN pending : pending[i] = pending[j] => i = j

(* A task that is put into the queue is behind those that are in it. *)
LEMMA QueuedAppend ==
  ASSUME pending \in Seq(Tasks), Injective,
         NEW t \in Tasks, ~Queued(t), pending' = Append(pending, t)
  PROVE  /\ pending' \in Seq(Tasks) /\ Injective'
         /\ \A u : Queued(u)' <=> Queued(u) \/ u = t
<1>1. /\ Len(pending) \in Nat /\ DOMAIN pending = 1 .. Len(pending)
      /\ DOMAIN pending' = 1 .. Len(pending) + 1
      /\ pending'[Len(pending) + 1] = t
      /\ \A i \in 1 .. Len(pending) : pending'[i] = pending[i]
  OBVIOUS
<1>2. DOMAIN pending' = DOMAIN pending \cup {Len(pending) + 1}
  BY <1>1
<1>3. \A i \in DOMAIN pending : pending'[i] = pending[i]
  BY <1>1
<1>4. \A u : Queued(u)' <=> Queued(u) \/ u = t
  BY <1>1, <1>2, <1>3 DEF Queued
<1>5. Injective'
  BY <1>1, <1>2, <1>3 DEF Queued, Injective
<1> QED
  BY <1>4, <1>5

(* The worker takes the head, and it is not queued a second time. *)
LEMMA QueuedTail ==
  ASSUME pending \in Seq(Tasks), Injective, pending # <<>>, pending' = Tail(pending)
  PROVE  /\ pending' \in Seq(Tasks) /\ Injective'
         /\ Head(pending) \in Tasks /\ Queued(Head(pending))
         /\ \A u : Queued(u)' <=> Queued(u) /\ u # Head(pending)
<1>1. /\ Len(pending) \in Nat /\ Len(pending) > 0 /\ DOMAIN pending = 1 .. Len(pending)
      /\ Head(pending) = pending[1] /\ pending[1] \in Tasks
      /\ pending' \in Seq(Tasks)
      /\ DOMAIN pending' = 1 .. Len(pending) - 1
      /\ \A i \in 1 .. Len(pending) - 1 : pending'[i] = pending[i + 1]
  OBVIOUS
<1>2. Injective'
  <2> SUFFICES ASSUME NEW i \in DOMAIN pending', NEW j \in DOMAIN pending',
                      pending'[i] = pending'[j]
               PROVE  i = j
    BY DEF Injective
  <2>1. /\ i \in Nat /\ j \in Nat
        /\ i + 1 \in DOMAIN pending /\ j + 1 \in DOMAIN pending
        /\ pending[i + 1] = pending[j + 1]
    BY <1>1
  <2>2. i + 1 = j + 1
    BY <2>1 DEF Injective
  <2> QED
    BY <2>1, <2>2
<1>3. ASSUME NEW u, Queued(u)' PROVE Queued(u) /\ u # pending[1]
  <2> PICK i \in DOMAIN pending' : pending'[i] = u
    BY <1>3 DEF Queued
  <2>1. /\ i \in Nat /\ i + 1 # 1 /\ 1 \in DOMAIN pending
        /\ i + 1 \in DOMAIN pending /\ pending[i + 1] = u
    BY <1>1
  <2> QED
    BY <2>1 DEF Queued, Injective
<1>4. ASSUME NEW u, Queued(u), u # pending[1] PROVE Queued(u)'
  <2> PICK i \in DOMAIN pending : pending[i] = u
    BY <1>4 DEF Queued
  <2>1. i - 1 \in 1 .. Len(pending) - 1 /\ (i - 1) + 1 = i
    BY <1>1, <1>4
  <2>2. pending'[i - 1] = u
    BY <1>1, <2>1
  <2> QED
    BY <1>1, <2>1, <2>2 DEF Queued
<1>5. Queued(pending[1])
  BY <1>1 DEF Queued
<1> QED
  BY <1>1, <1>2, <1>3, <1>4, <1>5

-----------------------------------------------------------------------------
(* The tasks. *)

QueueShapeOK ==
  /\ running \in BOOLEAN /\ stopping \in BOOLEAN
  /\ tasks \in SUBSET Tasks
  /\ status \in [Tasks -> {"new", "pending", "running"} \cup Final]
  /\ retries \in [Tasks -> 0 .. MaxRetries]
  /\ pending \in Seq(Tasks) /\ Injective
  /\ exec \in [Tasks -> {"none", "waiting", "calling", "sleeping"}]
  /\ begun \in SUBSET Tasks
  /\ withdrawn \in SUBSET Tasks
  /\ interrupted \in SUBSET Tasks

(* A task is new, queued, in a coroutine or past it, and its status and    *)
(* its attempts are those of the place where it is.                        *)
PlaceOK(t) ==
  /\ status[t] = "new" =>
       ~Queued(t) /\ exec[t] = "none" /\ t \notin begun /\ retries[t] < MaxRetries
  /\ Queued(t) =>
       /\ exec[t] = "none" /\ t \notin begun /\ retries[t] < MaxRetries
       /\ status[t] \in {"pending", "cancelled"}
  /\ exec[t] = "waiting" => status[t] \in {"pending", "cancelled"}
  /\ exec[t] \in {"calling", "sleeping"} => status[t] = "running"
  /\ exec[t] # "none" => retries[t] < MaxRetries
  /\ t \in withdrawn =>
       t \notin begun /\ status[t] = "cancelled" /\ exec[t] = "none"
  /\ t \notin interrupted =>
       /\ status[t] = "pending" => t \in tasks /\ (Queued(t) \/ exec[t] = "waiting")
       /\ status[t] = "running" => exec[t] \in {"calling", "sleeping"}

TasksInv == QueueShapeOK /\ \A t \in Tasks : PlaceOK(t)

LEMMA TasksInductive ==
  ASSUME TasksInv, QueueNext
  PROVE  TasksInv'
<1> USE DEF TasksInv, QueueShapeOK, PlaceOK, Suspend, SetStatus, Final
<1>q. UNCHANGED pending => Injective' /\ \A u : Queued(u)' <=> Queued(u)
  BY DEF Queued, Injective
<1>1. CASE Start
  BY <1>q, <1>1 DEF Start
<1>2. CASE Dispatch
  <2>1. /\ pending' \in Seq(Tasks) /\ Injective'
        /\ Head(pending) \in Tasks /\ Queued(Head(pending))
        /\ \A u : Queued(u)' <=> Queued(u) /\ u # Head(pending)
    BY <1>2, QueuedTail DEF Dispatch
  <2> HIDE DEF Injective, Queued
  <2> DEFINE h == Head(pending)
  <2>2. /\ UNCHANGED <<running, stopping, tasks, status, retries, begun, withdrawn,
                       interrupted>>
        /\ IF h \in tasks /\ status[h] # "cancelled"
           THEN exec' = [exec EXCEPT ![h] = "waiting"] ELSE UNCHANGED exec
    BY <1>2 DEF Dispatch
  <2> HIDE DEF h
  <2>3. /\ h \in Tasks /\ Queued(h)
        /\ \A u : Queued(u)' <=> Queued(u) /\ u # h
    BY <2>1 DEF h
  <2>4. QueueShapeOK'
    BY <2>1, <2>2, <2>3
  <2>5. ASSUME NEW t \in Tasks PROVE PlaceOK(t)'
    BY <2>2, <2>3
  <2> QED
    BY <2>4, <2>5
<1>3. CASE Stop
  BY <1>q, <1>3 DEF Stop
<1>4. CASE Stopped
  BY <1>q, <1>4 DEF Stopped
<1>5. ASSUME NEW t \in Tasks, StopCancels(t) PROVE TasksInv'
  BY <1>q, <1>5 DEF StopCancels
<1>6. ASSUME NEW t \in Tasks, Enqueue(t) PROVE TasksInv'
  <2>1. /\ pending' \in Seq(Tasks) /\ Injective'
        /\ \A u : Queued(u)' <=> Queued(u) \/ u = t
    BY <1>6, QueuedAppend DEF Enqueue
  <2> QED
    BY <1>6, <2>1 DEF Enqueue
<1>7. ASSUME NEW t \in Tasks, CancelTask(t) PROVE TasksInv'
  BY <1>q, <1>7 DEF CancelTask
<1>8. ASSUME NEW t \in Tasks, Begin(t) PROVE TasksInv'
  BY <1>q, <1>8 DEF Begin
<1>9. ASSUME NEW t \in Tasks, Succeed(t) PROVE TasksInv'
  BY <1>q, <1>9 DEF Succeed, Leave
<1>10. ASSUME NEW t \in Tasks, Raise(t) PROVE TasksInv'
  <2>1. /\ exec[t] = "calling" /\ retries[t] \in Nat /\ retries[t] < MaxRetries
        /\ retries' = [retries EXCEPT ![t] = retries[t] + 1]
        /\ UNCHANGED <<running, stopping, tasks, pending, begun, withdrawn, interrupted>>
    BY <1>10 DEF Raise
  <2>2. CASE retries[t] + 1 >= MaxRetries
    <3>1. /\ status' = [status EXCEPT ![t] = "failed"]
          /\ exec' = [exec EXCEPT ![t] = "none"]
      BY <1>10, <2>1, <2>2 DEF Raise, Leave
    <3> QED
      BY <1>q, <2>1, <3>1
  <2>3. CASE retries[t] + 1 < MaxRetries
    <3>1. UNCHANGED status /\ exec' = [exec EXCEPT ![t] = "sleeping"]
      BY <1>10, <2>1, <2>3 DEF Raise, Leave
    <3> QED
      BY <1>q, <2>1, <2>3, <3>1
  <2> QED
    BY <2>1, <2>2, <2>3
<1>11. ASSUME NEW t \in Tasks, Retry(t) PROVE TasksInv'
  BY <1>q, <1>11 DEF Retry
<1>12. ASSUME NEW t \in Tasks, Expire(t) PROVE TasksInv'
  BY <1>q, <1>12 DEF Expire
<1> QED
  BY <1>1, <1>2, <1>3, <1>4, <1>5, <1>6, <1>7, <1>8, <1>9, <1>10, <1>11, <1>12
     DEF QueueNext, Shutdown, Execute

-----------------------------------------------------------------------------
(* The semaphore. *)

SlotsInv == slots \in Nat /\ SlotsConserved

LEMMA HoldingFinite == IsFiniteSet(Holding) /\ Cardinality(Holding) \in Nat
  BY FS_Subset, FS_CardinalityType DEF Holding

(* A coroutine that takes a slot joins those that hold one. *)
LEMMA SlotTaken ==
  ASSUME SlotsInv, NEW t \in Tasks, t \notin Holding, Holding' = Holding \cup {t},
         slots > 0, slots' = slots - 1
  PROVE  SlotsInv'
<1>1. Cardinality(Holding') = Cardinality(Holding) + 1
  BY HoldingFinite, FS_AddElement
<1> QED
  BY <1>1, HoldingFinite DEF SlotsInv, SlotsConserved

(* One that gives its slot back leaves them. *)
LEMMA SlotFreed ==
  ASSUME SlotsInv, NEW t \in Tasks, t \in Holding, Holding' = Holding \ {t},
         slots' = slots + 1
  PROVE  SlotsInv'
<1>1. Cardinality(Holding') = Cardinality(Holding) - 1
  BY HoldingFinite, FS_RemoveElement
<1> QED
  BY <1>1, HoldingFinite DEF SlotsInv, SlotsConserved

LEMMA SlotsUnchanged ==
  ASSUME SlotsInv, Holding' = Holding, UNCHANGED slots
  PROVE  SlotsInv'
  BY DEF SlotsInv, SlotsConserved

LEMMA SlotsInductive ==
  ASSUME TasksInv, SlotsInv, QueueNext
  PROVE  SlotsInv'
<1>t. exec \in [Tasks -> {"none", "waiting", "calling", "sleeping"}]
  BY DEF TasksInv, QueueShapeOK
<1>1. CASE UNCHANGED <<exec, slots>>
  BY <1>1, SlotsUnchanged DEF Holding
<1>2. CASE Dispatch
  <2>1. /\ Head(pending) \in Tasks /\ Queued(Head(pending))
    BY <1>2, QueuedTail DEF Dispatch, TasksInv, QueueShapeOK
  <2>2. exec[Head(pending)] = "none"
    BY <2>1 DEF TasksInv, PlaceOK
  <2>3. Holding' = Holding /\ UNCHANGED slots
    BY <1>2, <1>t, <2>1, <2>2 DEF Dispatch, Suspend, Holding
  <2> QED
    BY <2>3, SlotsUnchanged
<1>3. ASSUME NEW t \in Tasks, Begin(t) PROVE SlotsInv'
  <2>1. /\ t \notin Holding /\ Holding' = Holding \cup {t}
        /\ slots > 0 /\ slots' = slots - 1
    BY <1>3, <1>t DEF Begin, Suspend, Holding
  <2> QED
    BY <2>1, SlotTaken
<1>4. ASSUME NEW t \in Tasks, exec[t] \in {"calling", "sleeping"}, Leave(t) PROVE SlotsInv'
  <2>1. t \in Holding /\ Holding' = Holding \ {t} /\ slots' = slots + 1
    BY <1>4, <1>t DEF Leave, Suspend, Holding
  <2> QED
    BY <2>1, SlotFreed
<1>5. ASSUME NEW t \in Tasks, Retry(t) PROVE SlotsInv'
  <2>1. Holding' = Holding /\ UNCHANGED slots
    BY <1>5, <1>t DEF Retry, Suspend, Holding
  <2> QED
    BY <2>1, SlotsUnchanged
<1>6. ASSUME NEW t \in Tasks, Raise(t), ~Leave(t) PROVE SlotsInv'
  <2>1. Holding' = Holding /\ UNCHANGED slots
    BY <1>6, <1>t DEF Raise, Suspend, Holding
  <2> QED
    BY <2>1, SlotsUnchanged
<1>7. ASSUME NEW t \in Tasks, StopCancels(t) PROVE SlotsInv'
  <2>1. CASE t \in Holding
    <3>1. exec[t] \in {"calling", "sleeping"} /\ Leave(t)
      BY <1>7, <2>1 DEF StopCancels, Holding, Leave
    <3> QED
      BY <3>1, <1>4
  <2>2. CASE t \notin Holding
    <3>1. Holding' = Holding /\ UNCHANGED slots
      BY <1>7, <1>t, <2>2 DEF StopCancels, Suspend, Holding
    <3> QED
      BY <3>1, SlotsUnchanged
  <2> QED
    BY <2>1, <2>2
<1>8. CASE Start \/ Stop \/ Stopped \/ \E t \in Tasks : Enqueue(t) \/ CancelTask(t) \/ Expire(t)
  BY <1>1, <1>8 DEF Start, Stop, Stopped, Enqueue, CancelTask, Expire
<1>9. ASSUME NEW t \in Tasks, Succeed(t) \/ Raise(t) PROVE SlotsInv'
  BY <1>4, <1>6, <1>9 DEF Succeed, Raise
<1> QED
  BY <1>2, <1>3, <1>5, <1>7, <1>8, <1>9 DEF QueueNext, Shutdown, Execute

-----------------------------------------------------------------------------
(* The queue under the service. *)

(* What the service does is a step of the queue, or none. *)
LEMMA ServiceStepsQueue == ServiceNext => QueueNext \/ UNCHANGED queueVars
  BY DEF ServiceNext, Boot, QueueStep, SignalShutdown, Drain, StopQueue, Reject,
     Replay, Request, Admit, Handle, HandleFails, Respond, EntryExpires, QueueNext

QueueInv == TasksInv /\ SlotsInv

LEMMA QueueTheorem == ServiceSpec => []QueueInv
<1>1. ServiceInit => QueueInv
  <2> SUFFICES ASSUME QueueInit PROVE QueueInv
    BY DEF ServiceInit
  <2>1. Holding = {}
    BY DEF QueueInit, Holding
  <2>2. SlotsInv
    BY <2>1, FS_EmptySet DEF QueueInit, SlotsInv, SlotsConserved
  <2>3. pending = <<>> /\ DOMAIN pending = {}
    BY DEF QueueInit
  <2>4. TasksInv
    <3>1. pending \in Seq(Tasks)
      BY <2>3
    <3>2. Injective /\ \A t : ~Queued(t)
      BY <2>3 DEF Injective, Queued
    <3>3. QueueShapeOK
      <4>1. /\ status \in [Tasks -> {"new", "pending", "running"} \cup Final]
            /\ retries \in [Tasks -> 0 .. MaxRetries]
            /\ exec \in [Tasks -> {"none", "waiting", "calling", "sleeping"}]
        BY DEF QueueInit
      <4>2. /\ running = FALSE /\ stopping = FALSE
            /\ tasks = {} /\ begun = {} /\ withdrawn = {} /\ interrupted = {}
        BY DEF QueueInit
      <4> QED
        BY <3>1, <3>2, <4>1, <4>2 DEF QueueShapeOK
    <3>4. ASSUME NEW t \in Tasks PROVE PlaceOK(t)
      BY <3>2 DEF QueueInit, PlaceOK
    <3> QED
      BY <3>3, <3>4 DEF TasksInv
  <2> QED
    BY <2>2, <2>4 DEF QueueInv
<1>2. QueueInv /\ [ServiceNext]_allVars => QueueInv'
  <2> SUFFICES ASSUME QueueInv, [ServiceNext]_allVars PROVE QueueInv'
    OBVIOUS
  <2>1. CASE QueueNext
    BY <2>1, TasksInductive, SlotsInductive DEF QueueInv
  <2>2. CASE UNCHANGED queueVars
    <3>1. Injective' /\ \A u : Queued(u)' <=> Queued(u)
      BY <2>2 DEF queueVars, QueueInv, TasksInv, QueueShapeOK, Injective, Queued
    <3>2. TasksInv'
      BY <2>2, <3>1 DEF queueVars, QueueInv, TasksInv, QueueShapeOK, PlaceOK
    <3>3. SlotsInv'
      BY <2>2, SlotsUnchanged DEF queueVars, QueueInv, Holding
    <3> QED
      BY <3>2, <3>3 DEF QueueInv
  <2> QED
    BY <2>1, <2>2, ServiceStepsQueue DEF allVars
<1> QED
  BY <1>1, <1>2, PTL DEF ServiceSpec

(* The semaphore neither loses nor gains a slot through _execute()'s       *)
(* failures, retries and cancellations, for any size of it.                *)
THEOREM SlotsTheorem == ServiceSpec => []SlotsConserved
<1>1. QueueInv => SlotsConserved
  BY DEF QueueInv, SlotsInv
<1> QED
  BY <1>1, QueueTheorem, PTL

(* A task that cancel() finds in the queue never runs. *)
THEOREM WithdrawnTheorem == ServiceSpec => []WithdrawnNeverRuns
<1>1. QueueInv => WithdrawnNeverRuns
  BY DEF QueueInv, TasksInv, QueueShapeOK, PlaceOK, WithdrawnNeverRuns
<1> QED
  BY <1>1, QueueTheorem, PTL

(* A task whose record says pending or running is queued or has a          *)
(* coroutine, unless stop() interrupted it.                                *)
THEOREM ForgottenTheorem == ServiceSpec => []NoneForgotten
<1>1. QueueInv => NoneForgotten
  BY DEF QueueInv, TasksInv, PlaceOK, NoneForgotten
<1> QED
  BY <1>1, QueueTheorem, PTL
-----------------------------------------------------------------------------
(* The promise of WorkQueue. *)

(* A step that changes the place of one task ... *)
LEMMA OneMoves ==
  ASSUME NEW t \in Tasks, NEW place, Place(t)' = place,
         \A u \in Tasks \ {t} : Place(u)' = Place(u)
  PROVE  [u \in Tasks |-> Place(u)]' = [[u \in Tasks |-> Place(u)] EXCEPT ![t] = place]
  OBVIOUS

(* ... is one whose other tasks keep status, coroutine and entry.          *)
LEMMA OthersStay ==
  ASSUME NEW u \in Tasks, status'[u] = status[u], exec'[u] = exec[u],
         Queued(u)' <=> Queued(u)
  PROVE  Place(u)' = Place(u)
  BY DEF Place, Holding

(* The tasks at work are those that hold a slot. *)
LEMMA WorkingHolds ==
  ASSUME \A t \in Tasks : PlaceOK(t)
  PROVE  Work!Working = Holding
<1> SUFFICES ASSUME NEW t \in Tasks PROVE Place(t) = "working" <=> t \in Holding
  BY DEF Work!Working, Holding
<1> QED
  BY DEF Place, PlaceOK, Holding

LEMMA WorkStep ==
  ASSUME QueueInv, QueueNext
  PROVE  [Work!Next]_(Work!vars)
<1> DEFINE place == [u \in Tasks |-> Place(u)]
<1>t. /\ status \in [Tasks -> {"new", "pending", "running"} \cup Final]
      /\ retries \in [Tasks -> 0 .. MaxRetries]
      /\ exec \in [Tasks -> {"none", "waiting", "calling", "sleeping"}]
      /\ \A t \in Tasks : PlaceOK(t)
  BY DEF QueueInv, TasksInv, QueueShapeOK
<1>q. UNCHANGED pending => \A u : Queued(u)' <=> Queued(u)
  BY DEF Queued
<1>1. ASSUME \A u \in Tasks : Place(u)' = Place(u), UNCHANGED retries
      PROVE  UNCHANGED Work!vars
  BY <1>1 DEF Work!vars
<1>2. ASSUME NEW t \in Tasks, Place(t) = "queued", Place(t)' = "over",
             \A u \in Tasks \ {t} : Place(u)' = Place(u), UNCHANGED retries
      PROVE  Work!Next
  <2>1. place' = [place EXCEPT ![t] = "over"] /\ place[t] = "queued"
    BY <1>2, OneMoves
  <2> QED
    BY <1>2, <2>1 DEF Work!Next, Work!Drop, Work!Move
<1>3. CASE Start \/ Stop \/ Stopped \/ \E t \in Tasks : Expire(t)
  <2>1. UNCHANGED <<status, exec, pending, retries>>
    BY <1>3 DEF Start, Stop, Stopped, Expire
  <2> QED
    BY <1>q, <1>1, <2>1, OthersStay
<1>4. CASE Dispatch
  <2>0. /\ Head(pending) \in Tasks /\ Queued(Head(pending))
        /\ \A u : Queued(u)' <=> Queued(u) /\ u # Head(pending)
    BY <1>4, QueuedTail DEF Dispatch, QueueInv, TasksInv, QueueShapeOK
  <2> PICK h \in Tasks : h = Head(pending)
    BY <2>0
  <2>1. /\ Queued(h)
        /\ \A u : Queued(u)' <=> Queued(u) /\ u # h
    BY <2>0
  <2>2. /\ UNCHANGED <<status, retries>>
        /\ IF h \in tasks /\ status[h] # "cancelled"
           THEN exec' = [exec EXCEPT ![h] = "waiting"] ELSE UNCHANGED exec
    BY <1>4 DEF Dispatch, Suspend
  <2>3. exec[h] = "none" /\ status[h] \in {"pending", "cancelled"}
    BY <1>t, <2>1 DEF PlaceOK
  <2>4. \A u \in Tasks \ {h} : Place(u)' = Place(u)
    BY <1>t, <2>1, <2>2, OthersStay
  <2>5. Place(h) = (IF status[h] = "pending" THEN "queued" ELSE "over")
    BY <2>1, <2>3 DEF Place, Holding
  <2>6. CASE h \in tasks /\ status[h] # "cancelled"
    <3>1. exec'[h] = "waiting" /\ status'[h] = "pending"
      BY <1>t, <2>1, <2>2, <2>3, <2>6
    <3>2. Place(h)' = "queued"
      BY <2>1, <3>1 DEF Place, Holding
    <3>3. \A u \in Tasks : Place(u)' = Place(u)
      BY <2>3, <2>4, <2>5, <2>6, <3>2
    <3> QED
      BY <1>1, <2>2, <3>3
  <2>7. CASE ~(h \in tasks /\ status[h] # "cancelled")
    <3>1. exec'[h] = "none" /\ status'[h] # "new" /\ ~Queued(h)'
      BY <2>1, <2>2, <2>3, <2>7
    <3>2. Place(h)' = "over"
      BY <2>1, <3>1 DEF Place, Holding
    <3>3. CASE Place(h) = "queued"
      BY <1>2, <2>1, <2>2, <2>4, <3>2, <3>3
    <3>4. CASE Place(h) = "over"
      <4>1. \A u \in Tasks : Place(u)' = Place(u)
        BY <2>4, <3>2, <3>4
      <4> QED
        BY <1>1, <2>2, <4>1
    <3> QED
      BY <2>5, <3>3, <3>4
  <2> QED
    BY <2>6, <2>7
<1>5. ASSUME NEW t \in Tasks, StopCancels(t)
      PROVE  [Work!Next]_(Work!vars)
  <2>1. /\ exec[t] # "none" /\ exec' = [exec EXCEPT ![t] = "none"]
        /\ UNCHANGED <<status, retries, pending>>
    BY <1>5 DEF StopCancels, Suspend
  <2>2. \A u \in Tasks \ {t} : Place(u)' = Place(u)
    BY <1>q, <1>t, <2>1, OthersStay
  <2>3. Place(t)' = "over" /\ Place(t) \in {"queued", "working"}
    BY <1>q, <1>t, <2>1 DEF Place, PlaceOK, Holding
  <2>4. place' = [place EXCEPT ![t] = "over"] /\ place[t] \in {"queued", "working"}
    BY <2>2, <2>3, OneMoves
  <2> QED
    BY <2>1, <2>4 DEF Work!Next, Work!Drop, Work!End, Work!Move
<1>6. ASSUME NEW t \in Tasks, Enqueue(t)
      PROVE  Work!Next
  <2>1. /\ status[t] = "new" /\ status' = [status EXCEPT ![t] = "pending"]
        /\ UNCHANGED <<exec, retries>>
    BY <1>6 DEF Enqueue, SetStatus
  <2>2. \A u : Queued(u)' <=> Queued(u) \/ u = t
    BY <1>6, <1>t, QueuedAppend DEF Enqueue, QueueInv, TasksInv, QueueShapeOK, PlaceOK
  <2>3. \A u \in Tasks \ {t} : Place(u)' = Place(u)
    BY <1>t, <2>1, <2>2, OthersStay
  <2>4. Place(t)' = "queued" /\ Place(t) = "outside"
    BY <1>t, <2>1, <2>2 DEF Place, PlaceOK, Holding
  <2>5. place' = [place EXCEPT ![t] = "queued"] /\ place[t] = "outside"
    BY <2>3, <2>4, OneMoves
  <2> QED
    BY <2>1, <2>5 DEF Work!Next, Work!Submit, Work!Move
<1>7. ASSUME NEW t \in Tasks, CancelTask(t)
      PROVE  [Work!Next]_(Work!vars)
  <2>1. /\ status[t] = "pending" /\ status' = [status EXCEPT ![t] = "cancelled"]
        /\ UNCHANGED <<exec, retries, pending>>
    BY <1>7 DEF CancelTask, SetStatus
  <2>2. \A u \in Tasks \ {t} : Place(u)' = Place(u)
    BY <1>q, <1>t, <2>1, OthersStay
  <2>3. Place(t)' = Place(t) \/ (Place(t) = "queued" /\ Place(t)' = "over")
    BY <1>q, <1>t, <2>1 DEF Place, PlaceOK, Holding
  <2> QED
    BY <1>1, <1>2, <2>1, <2>2, <2>3
<1>8. ASSUME NEW t \in Tasks, Begin(t)
      PROVE  Work!Next
  <2>1. /\ exec[t] = "waiting" /\ exec' = [exec EXCEPT ![t] = "calling"]
        /\ status' = [status EXCEPT ![t] = "running"] /\ slots > 0
        /\ UNCHANGED <<retries, pending>>
    BY <1>8 DEF Begin, SetStatus, Suspend
  <2>2. \A u \in Tasks \ {t} : Place(u)' = Place(u)
    BY <1>q, <1>t, <2>1, OthersStay
  <2>3. Place(t)' = "working" /\ Place(t) = "queued"
    BY <1>t, <2>1 DEF Place, PlaceOK, Holding
  <2>4. place' = [place EXCEPT ![t] = "working"] /\ place[t] = "queued"
    BY <2>2, <2>3, OneMoves
  <2>5. Cardinality(Work!Working) < MaxWorkers
    BY <1>t, <2>1, WorkingHolds, HoldingFinite DEF QueueInv, SlotsInv, SlotsConserved
  <2>6. Work!Cardinality(Work!Working) = Cardinality(Work!Working)
    BY DEF Work!Cardinality, Cardinality
  <2> QED
    BY <2>1, <2>4, <2>5, <2>6 DEF Work!Next, Work!Start, Work!Move
<1>9. ASSUME NEW t \in Tasks, Succeed(t)
      PROVE  Work!Next
  <2>1. /\ exec[t] = "calling" /\ exec' = [exec EXCEPT ![t] = "none"]
        /\ status' = [status EXCEPT ![t] = "completed"]
        /\ UNCHANGED <<retries, pending>>
    BY <1>9 DEF Succeed, SetStatus, Leave, Suspend
  <2>2. \A u \in Tasks \ {t} : Place(u)' = Place(u)
    BY <1>q, <1>t, <2>1, OthersStay
  <2>3. Place(t)' = "over" /\ Place(t) = "working"
    BY <1>t, <2>1 DEF Place, PlaceOK, Holding
  <2>4. place' = [place EXCEPT ![t] = "over"] /\ place[t] = "working"
    BY <2>2, <2>3, OneMoves
  <2> QED
    BY <2>1, <2>4 DEF Work!Next, Work!End, Work!Move
<1>10. ASSUME NEW t \in Tasks, Raise(t)
       PROVE  Work!Next
  <2>1. /\ exec[t] = "calling" /\ retries[t] \in Nat /\ retries[t] < MaxRetries
        /\ retries' = [retries EXCEPT ![t] = retries[t] + 1]
        /\ retries'[t] = retries[t] + 1 /\ UNCHANGED pending
        /\ status[t] = "running"
    BY <1>10, <1>t DEF Raise, PlaceOK
  <2>2. Place(t) = "working"
    BY <2>1 DEF Place, Holding
  <2>3. CASE retries[t] + 1 >= MaxRetries
    <3>1. /\ status' = [status EXCEPT ![t] = "failed"]
          /\ exec' = [exec EXCEPT ![t] = "none"]
      BY <1>10, <2>1, <2>3 DEF Raise, SetStatus, Leave, Suspend
    <3>2. \A u \in Tasks \ {t} : Place(u)' = Place(u)
      BY <1>q, <1>t, <2>1, <3>1, OthersStay
    <3>3. Place(t)' = "over"
      BY <1>q, <1>t, <2>1, <3>1 DEF Place, PlaceOK, Holding
    <3>4. place' = [place EXCEPT ![t] = "over"] /\ place[t] = "working"
      BY <2>2, <3>2, <3>3, OneMoves
    <3>5. retries[t] + 1 = MaxRetries
      BY <2>1, <2>3
    <3> QED
      BY <2>1, <3>4, <3>5 DEF Work!Next, Work!End, Work!Move
  <2>4. CASE retries[t] + 1 < MaxRetries
    <3>1. UNCHANGED status /\ exec' = [exec EXCEPT ![t] = "sleeping"]
      BY <1>10, <2>1, <2>4 DEF Raise, Suspend
    <3>2. \A u \in Tasks \ {t} : Place(u)' = Place(u)
      BY <1>q, <1>t, <2>1, <3>1, OthersStay
    <3>3. Place(t)' = "working"
      BY <1>t, <2>1, <3>1 DEF Place, Holding
    <3>4. place' = place /\ place[t] = "working"
      BY <2>2, <3>2, <3>3
    <3> QED
      BY <2>1, <2>4, <3>4 DEF Work!Next, Work!TryAgain
  <2> QED
    BY <2>1, <2>3, <2>4
<1>11. ASSUME NEW t \in Tasks, Retry(t)
       PROVE  UNCHANGED Work!vars
  <2>1. /\ exec[t] = "sleeping" /\ exec' = [exec EXCEPT ![t] = "calling"]
        /\ UNCHANGED <<status, retries, pending>> /\ status[t] = "running"
    BY <1>11, <1>t DEF Retry, Suspend, PlaceOK
  <2>2. \A u \in Tasks \ {t} : Place(u)' = Place(u)
    BY <1>q, <1>t, <2>1, OthersStay
  <2>3. Place(t)' = Place(t)
    BY <1>t, <2>1 DEF Place, Holding
  <2> QED
    BY <1>1, <2>1, <2>2, <2>3
<1> QED
  BY <1>3, <1>4, <1>5, <1>6, <1>7, <1>8, <1>9, <1>10, <1>11
     DEF QueueNext, Shutdown, Execute

(* ImplementsWorkQueue: under requests, retries, cancellations, expiries    *)
(* and the shutdown, what enqueue() accepts is worked on once, within the   *)
(* bounds of the semaphore and of max_retries.                             *)
THEOREM WorkQueueTheorem == ServiceSpec => ImplementsWorkQueue
<1>1. ServiceInit => Work!Init
  BY DEF ServiceInit, QueueInit, Work!Init, Place
<1>2. QueueInv /\ [ServiceNext]_allVars => [Work!Next]_(Work!vars)
  <2> SUFFICES ASSUME QueueInv, [ServiceNext]_allVars PROVE [Work!Next]_(Work!vars)
    OBVIOUS
  <2>1. CASE QueueNext
    BY <2>1, WorkStep
  <2>2. CASE UNCHANGED queueVars
    <3>1. UNCHANGED <<status, exec, pending, retries>>
      BY <2>2 DEF queueVars
    <3>2. \A u \in Tasks : Place(u)' = Place(u)
      BY <3>1, OthersStay DEF Queued
    <3> QED
      BY <3>1, <3>2 DEF Work!vars
  <2> QED
    BY <2>1, <2>2, ServiceStepsQueue DEF allVars
<1> QED
  BY <1>1, <1>2, QueueTheorem, PTL DEF ServiceSpec, ImplementsWorkQueue, Work!Spec

-----------------------------------------------------------------------------
(* The requests. *)

Admitted == {r \in Tasks : stage[r] \in {"handling", "responding"}}

RequestShapeOK ==
  /\ stage \in [Tasks -> {"new", "handling", "responding", "done"}]
  /\ answer \in [Tasks -> Tasks \cup {NoTask, "none"} \cup Refusals]
  /\ entry \in [Keys -> Tasks \cup {NoTask, "none", "processing"}]
  /\ shutdown \in {"no", "signaled", "drained", "timed_out"}
  /\ expired \in SUBSET Keys

(* The requests that are counted are those that are being handled. *)
CountOK ==
  /\ inFlight = Cardinality(Admitted)
  /\ shutdown = "drained" => Admitted = {}

(* The requests that may enqueue, or have enqueued, for a key. *)
Owners(k) ==
  {r \in Tasks : KeyOf[r] = k /\ (r \in Admitted \/ status[r] # "new")}

(* While no entry of a key expired: it has one owner, there is an entry as *)
(* long as it has, and a task that the entry or an answer names is its.    *)
KeyOK(k) ==
  /\ \A r, o \in Owners(k) : r = o
  /\ entry[k] = "none" => Owners(k) = {}
  /\ entry[k] \in Tasks => KeyOf[entry[k]] = k /\ status[entry[k]] # "new"
  /\ \A r \in Tasks :
       KeyOf[r] = k /\ answer[r] \in Tasks =>
         KeyOf[answer[r]] = k /\ status[answer[r]] # "new"

RequestsInv ==
  /\ RequestShapeOK
  /\ CountOK
  /\ \A r \in Tasks : status[r] # "new" => stage[r] \in {"responding", "done"}
  /\ \A k \in Keys \ expired : KeyOK(k)

(* What the queue does makes no task new, and no new task any other. *)
LEMMA QueueKeepsNew ==
  ASSUME TasksInv, QueueStep
  PROVE  \A t \in Tasks : status'[t] = "new" <=> status[t] = "new"
<1> USE DEF TasksInv, QueueShapeOK, PlaceOK, SetStatus
<1>1. CASE Dispatch \/ Shutdown
  BY <1>1 DEF Dispatch, Shutdown, StopCancels, Stopped
<1>2. ASSUME NEW t \in Tasks, CancelTask(t) \/ Execute(t) \/ Expire(t)
      PROVE  \A u \in Tasks : status'[u] = "new" <=> status[u] = "new"
  <2>1. status[t] # "new"
    BY <1>2 DEF CancelTask, Execute, Expire, Begin, Succeed, Raise, Retry, Final
  <2>2. \/ UNCHANGED status
        \/ \E s \in {"running"} \cup Final : status' = [status EXCEPT ![t] = s]
    BY <1>2 DEF CancelTask, Execute, Expire, Begin, Succeed, Raise, Retry, Final
  <2> QED
    BY <2>1, <2>2 DEF Final
<1> QED
  BY <1>1, <1>2 DEF QueueStep

LEMMA AdmittedFinite == IsFiniteSet(Admitted) /\ Cardinality(Admitted) \in Nat
  BY FS_Subset, FS_CardinalityType DEF Admitted

(* A step that neither admits a request, nor answers one, nor makes a new  *)
(* task, and adds no entry, keeps the invariant.                           *)
LEMMA RequestsUndisturbed ==
  ASSUME RequestsInv, RequestShapeOK', UNCHANGED <<stage, answer, inFlight>>,
         shutdown' = "drained" => Admitted = {},
         \A k \in Keys \ expired' : k \notin expired /\ entry'[k] = entry[k],
         \A t \in Tasks : status'[t] = "new" <=> status[t] = "new"
  PROVE  RequestsInv'
<1>1. Admitted' = Admitted /\ \A k \in Keys : Owners(k)' = Owners(k)
  BY DEF Admitted, Owners
<1>2. CountOK'
  BY <1>1 DEF RequestsInv, CountOK
<1>3. ASSUME NEW k \in Keys \ expired' PROVE KeyOK(k)'
  BY <1>1, <1>3 DEF RequestsInv, KeyOK
<1> QED
  BY <1>2, <1>3 DEF RequestsInv

LEMMA RequestsInductive ==
  ASSUME TasksInv, RequestsInv, ServiceNext
  PROVE  RequestsInv'
<1> USE DEF RequestShapeOK
<1>s. RequestShapeOK /\ status \in [Tasks -> {"new", "pending", "running"} \cup Final]
  BY DEF RequestsInv, TasksInv, QueueShapeOK
<1>1. CASE Boot \/ QueueStep \/ StopQueue
  <2>1. \A t \in Tasks : status'[t] = "new" <=> status[t] = "new"
    BY <1>1, QueueKeepsNew DEF Boot, Start, StopQueue, Stop
  <2>2. UNCHANGED requestVars
    BY <1>1 DEF Boot, QueueStep, StopQueue
  <2> QED
    BY <1>s, <2>1, <2>2, RequestsUndisturbed DEF requestVars, RequestsInv, CountOK
<1>2. CASE SignalShutdown
  BY <1>s, <1>2, RequestsUndisturbed DEF SignalShutdown, queueVars
<1>3. CASE Drain
  <2>1. shutdown' = "drained" => Admitted = {}
    BY <1>3, AdmittedFinite, FS_EmptySet DEF Drain, RequestsInv, CountOK
  <2> QED
    BY <1>s, <1>3, <2>1, RequestsUndisturbed DEF Drain, queueVars
<1>4. ASSUME NEW k \in Keys, EntryExpires(k) PROVE RequestsInv'
  BY <1>s, <1>4, RequestsUndisturbed DEF EntryExpires, queueVars, RequestsInv, CountOK
<1>5. ASSUME NEW r \in Tasks, Reject(r) \/ Replay(r) PROVE RequestsInv'
  <2>1. /\ stage[r] = "new" /\ stage' = [stage EXCEPT ![r] = "done"]
        /\ answer' = [answer EXCEPT ![r] = answer'[r]]
        /\ answer'[r] \in Refusals \cup ({entry[KeyOf[r]]} \ {"processing"})
        /\ UNCHANGED <<status, entry, shutdown, inFlight, expired>>
    BY <1>s, <1>5 DEF Reject, Replay, Arrives, Answered, queueVars, Refusals
  <2>2. Admitted' = Admitted /\ \A k \in Keys : Owners(k)' = Owners(k)
    BY <1>s, <2>1 DEF Admitted, Owners
  <2>3. answer'[r] \in Tasks => answer'[r] = entry[KeyOf[r]]
    BY <2>1 DEF Refusals
  <2>4. RequestShapeOK'
    BY <1>s, <2>1
  <2>5. ASSUME NEW k \in Keys \ expired' PROVE KeyOK(k)'
    BY <1>s, <2>1, <2>2, <2>3 DEF RequestsInv, KeyOK
  <2> QED
    BY <1>s, <2>1, <2>2, <2>4, <2>5 DEF RequestsInv, CountOK
<1>6. ASSUME NEW r \in Tasks, Admit(r) PROVE RequestsInv'
  <2>1. /\ stage[r] = "new" /\ stage' = [stage EXCEPT ![r] = "handling"]
        /\ entry[KeyOf[r]] = "none"
        /\ entry' = [entry EXCEPT ![KeyOf[r]] = "processing"]
        /\ inFlight' = inFlight + 1 /\ shutdown = "no"
        /\ UNCHANGED <<status, answer, shutdown, expired>>
    BY <1>6 DEF Admit, Arrives, queueVars
  <2>2. r \notin Admitted /\ Admitted' = Admitted \cup {r}
    BY <1>s, <2>1 DEF Admitted
  <2>3. CountOK'
    BY <2>1, <2>2, AdmittedFinite, FS_AddElement DEF RequestsInv, CountOK
  <2>4. RequestShapeOK'
    BY <1>s, <2>1
  <2>5. status[r] = "new"
    BY <2>1 DEF RequestsInv
  <2>6. ASSUME NEW k \in Keys \ expired' PROVE KeyOK(k)'
    <3>1. CASE k = KeyOf[r]
      <4>1. Owners(k) = {} /\ Owners(k)' \subseteq {r}
        BY <2>1, <2>2, <3>1 DEF RequestsInv, KeyOK, Owners
      <4>2. entry'[k] = "processing"
        BY <1>s, <2>1, <3>1
      <4> QED
        BY <2>1, <4>1, <4>2 DEF RequestsInv, KeyOK
    <3>2. CASE k # KeyOf[r]
      <4>1. Owners(k)' = Owners(k) /\ entry'[k] = entry[k]
        BY <1>s, <2>1, <2>2, <3>2 DEF Owners
      <4> QED
        BY <2>1, <4>1 DEF RequestsInv, KeyOK
    <3> QED
      BY <3>1, <3>2
  <2> QED
    BY <1>s, <2>1, <2>3, <2>4, <2>5, <2>6 DEF RequestsInv
<1>7. ASSUME NEW r \in Tasks, Handle(r) \/ HandleFails(r) PROVE RequestsInv'
  <2>1. /\ stage[r] = "handling" /\ stage' = [stage EXCEPT ![r] = "responding"]
        /\ UNCHANGED <<answer, entry, shutdown, inFlight, expired>>
        /\ \/ UNCHANGED status
           \/ status' = [status EXCEPT ![r] = "pending"]
    BY <1>7 DEF Handle, HandleFails, Enqueue, SetStatus, queueVars
  <2>2. r \in Admitted /\ Admitted' = Admitted
    BY <1>s, <2>1 DEF Admitted
  <2>3. \A k \in Keys : Owners(k)' = Owners(k)
    BY <1>s, <2>1, <2>2 DEF Owners
  <2>4. RequestShapeOK'
    BY <1>s, <2>1
  <2>5. \A t \in Tasks : status[t] # "new" => status'[t] # "new"
    BY <1>s, <2>1
  <2>6. ASSUME NEW k \in Keys \ expired' PROVE KeyOK(k)'
    BY <1>s, <2>1, <2>3, <2>5 DEF RequestsInv, KeyOK
  <2>7. \A t \in Tasks : status'[t] # "new" => stage'[t] \in {"responding", "done"}
    BY <1>s, <2>1 DEF RequestsInv
  <2> QED
    BY <2>1, <2>2, <2>4, <2>6, <2>7 DEF RequestsInv, CountOK
<1>8. ASSUME NEW r \in Tasks, Respond(r) PROVE RequestsInv'
  <2> DEFINE a == IF status[r] = "new" THEN NoTask ELSE r
  <2>1. /\ stage[r] = "responding" /\ stage' = [stage EXCEPT ![r] = "done"]
        /\ answer' = [answer EXCEPT ![r] = a]
        /\ entry' = [entry EXCEPT ![KeyOf[r]] = a]
        /\ inFlight' = inFlight - 1
        /\ UNCHANGED <<status, shutdown, expired>>
    BY <1>8 DEF Respond, Answered, queueVars
  <2>2. a \in Tasks \cup {NoTask} /\ (a \in Tasks => a = r /\ status[r] # "new")
    OBVIOUS
  <2> HIDE DEF a
  <2>3. r \in Admitted /\ Admitted' = Admitted \ {r}
    BY <1>s, <2>1 DEF Admitted
  <2>4. CountOK'
    <3>1. Cardinality(Admitted') = Cardinality(Admitted) - 1
      BY <2>3, AdmittedFinite, FS_RemoveElement
    <3> QED
      BY <2>1, <2>3, <3>1 DEF RequestsInv, CountOK
  <2>5. RequestShapeOK'
    BY <1>s, <2>1, <2>2
  <2>6. \A k \in Keys : Owners(k)' \subseteq Owners(k)
    BY <2>1, <2>3 DEF Owners
  <2>7. ASSUME NEW k \in Keys \ expired' PROVE KeyOK(k)'
    <3>1. CASE k = KeyOf[r]
      <4>1. entry'[k] = a /\ a # "none"
        BY <1>s, <2>1, <2>2, <3>1
      <4>2. \A o \in Tasks : answer'[o] = IF o = r THEN a ELSE answer[o]
        BY <1>s, <2>1
      <4> QED
        BY <2>1, <2>2, <2>6, <3>1, <4>1, <4>2 DEF RequestsInv, KeyOK
    <3>2. CASE k # KeyOf[r]
      <4>1. /\ entry'[k] = entry[k]
            /\ \A o \in Tasks : KeyOf[o] = k => answer'[o] = answer[o]
        BY <1>s, <2>1, <3>2
      <4> QED
        BY <2>1, <2>6, <4>1 DEF RequestsInv, KeyOK
    <3> QED
      BY <3>1, <3>2
  <2> QED
    BY <1>s, <2>1, <2>4, <2>5, <2>7 DEF RequestsInv
<1> QED
  BY <1>1, <1>2, <1>3, <1>4, <1>5, <1>6, <1>7, <1>8 DEF ServiceNext, Request

LEMMA RequestsTheorem == ServiceSpec => []RequestsInv
<1>1. ServiceInit => RequestsInv
  <2> SUFFICES ASSUME ServiceInit PROVE RequestsInv
    OBVIOUS
  <2>1. Admitted = {} /\ \A k \in Keys : Owners(k) = {}
    BY DEF ServiceInit, QueueInit, Admitted, Owners
  <2>2. CountOK
    BY <2>1, FS_EmptySet DEF ServiceInit, CountOK
  <2> QED
    BY <2>1, <2>2 DEF ServiceInit, QueueInit, RequestsInv, RequestShapeOK, KeyOK
<1>2. RequestsInv /\ QueueInv /\ [ServiceNext]_allVars => RequestsInv'
  <2> SUFFICES ASSUME RequestsInv, QueueInv, [ServiceNext]_allVars PROVE RequestsInv'
    OBVIOUS
  <2>1. CASE ServiceNext
    BY <2>1, RequestsInductive DEF QueueInv
  <2>2. CASE UNCHANGED allVars
    BY <2>2, RequestsUndisturbed DEF allVars, queueVars, RequestsInv,
       RequestShapeOK, CountOK
  <2> QED
    BY <2>1, <2>2
<1> QED
  BY <1>1, <1>2, QueueTheorem, PTL DEF ServiceSpec

(* As long as no entry of a key expired, IdempotencyMiddleware lets one    *)
(* task be enqueued for it, and answers name no other.                     *)
THEOREM OneTaskTheorem == ServiceSpec => []OneTaskPerKey
<1>1. RequestsInv => OneTaskPerKey
  <2> SUFFICES ASSUME RequestsInv, NEW k \in Keys \ expired
               PROVE  /\ Cardinality(EnqueuedFor(k)) <= 1
                      /\ \A r \in Tasks :
                           (KeyOf[r] = k /\ answer[r] \in Tasks) => answer[r] \in EnqueuedFor(k)
    BY DEF OneTaskPerKey
  <2>1. EnqueuedFor(k) \subseteq Owners(k) /\ \A r, o \in EnqueuedFor(k) : r = o
    BY DEF EnqueuedFor, Owners, RequestsInv, KeyOK
  <2>2. EnqueuedFor(k) = {} \/ \E r : EnqueuedFor(k) = {r}
    BY <2>1
  <2>3. Cardinality(EnqueuedFor(k)) \in {0, 1}
    <3>1. \A r : Cardinality({r}) = 1
      BY FS_Singleton
    <3> QED
      BY <2>2, <3>1, FS_EmptySet
  <2> QED
    BY <2>3 DEF EnqueuedFor, RequestsInv, KeyOK
<1> QED
  BY <1>1, RequestsTheorem, PTL

(* When wait_for_drain() returned for the reason it waits for, no request  *)
(* is left that could enqueue.                                             *)
THEOREM DrainTheorem == ServiceSpec => []DrainComplete
<1>1. RequestsInv => DrainComplete
  BY DEF RequestsInv, RequestShapeOK, CountOK, Admitted, DrainComplete
<1> QED
  BY <1>1, RequestsTheorem, PTL

(* Every variable keeps its type; the semaphore stays within its size, and *)
(* the requests in flight are counted.                                     *)
THEOREM TaskServiceTypeTheorem == ServiceSpec => []ServiceTypeOK
<1>1. QueueInv /\ RequestsInv => ServiceTypeOK
  <2> SUFFICES ASSUME QueueInv, RequestsInv PROVE ServiceTypeOK
    OBVIOUS
  <2>1. slots \in 0 .. MaxWorkers
    BY HoldingFinite DEF QueueInv, SlotsInv, SlotsConserved
  <2>2. inFlight \in 0 .. Cardinality(Tasks)
    <3>1. Cardinality(Admitted) <= Cardinality(Tasks) /\ Cardinality(Tasks) \in Nat
      BY FS_Subset, FS_CardinalityType DEF Admitted
    <3> QED
      BY <3>1, AdmittedFinite DEF RequestsInv, CountOK
  <2> QED
    BY <2>1, <2>2 DEF QueueInv, TasksInv, QueueShapeOK, RequestsInv, RequestShapeOK,
       ServiceTypeOK, QueueTypeOK
<1> QED
  BY <1>1, QueueTheorem, RequestsTheorem, PTL
=============================================================================
