------------------------------- MODULE TaskQueue -------------------------------
(***************************************************************************)
(* The in-memory background task queue of                                  *)
(* src/shieldops/workers/task_queue.py: enqueue(), cancel(), the worker    *)
(* loop, _execute() with its retries inside the semaphore, the clean-up    *)
(* loop, start() and stop(), as coroutines of one event loop.              *)
(*                                                                         *)
(* The functions that tasks run either return or raise, at any moment.     *)
(* Seconds are abstracted: a backoff or the hour after which a record is   *)
(* removed may end at any moment.                                          *)
(***************************************************************************)
EXTENDS Naturals, FiniteSets, Sequences

CONSTANTS
  Tasks,       \* the tasks that may be enqueued
  MaxWorkers,  \* size of the semaphore
  MaxRetries   \* attempts of one task

ASSUME QueueAssumption ==
  /\ IsFiniteSet(Tasks)
  /\ MaxWorkers \in Nat \ {0} /\ MaxRetries \in Nat \ {0}

VARIABLES
  running,     \* _running
  stopping,    \* whether stop() is awaiting the tasks it cancels
  tasks,       \* the keys of _tasks
  status,      \* TaskDefinition.status; "new" before enqueue()
  retries,     \* TaskDefinition.retries
  pending,     \* the queue _pending
  exec,        \* where _execute() is suspended; "none" without a coroutine
  slots,       \* the value of _semaphore
  begun,       \* history: tasks whose function was called
  withdrawn,   \* history: tasks cancelled before the worker took them
  interrupted  \* history: tasks whose coroutine stop() cancelled

queueVars == <<running, stopping, tasks, status, retries, pending, exec, slots,
               begun, withdrawn, interrupted>>

Final == {"completed", "failed", "cancelled"}

(* "waiting" for the semaphore, "calling" the function, "sleeping" before  *)
(* the next attempt.                                                       *)
Holding == {t \in Tasks : exec[t] \in {"calling", "sleeping"}}

Active == {t \in Tasks : exec[t] # "none"}

Queued(t) == \E i \in DOMAIN pending : pending[i] = t

QueueTypeOK ==
  /\ running \in BOOLEAN /\ stopping \in BOOLEAN
  /\ tasks \in SUBSET Tasks
  /\ status \in [Tasks -> {"new", "pending", "running"} \cup Final]
  /\ retries \in [Tasks -> 0 .. MaxRetries]
  /\ pending \in Seq(Tasks)
  /\ exec \in [Tasks -> {"none", "waiting", "calling", "sleeping"}]
  /\ slots \in 0 .. MaxWorkers
  /\ begun \in SUBSET Tasks
  /\ withdrawn \in SUBSET Tasks
  /\ interrupted \in SUBSET Tasks

QueueInit ==
  /\ running = FALSE /\ stopping = FALSE
  /\ tasks = {}
  /\ status = [t \in Tasks |-> "new"]
  /\ retries = [t \in Tasks |-> 0]
  /\ pending = <<>>
  /\ exec = [t \in Tasks |-> "none"]
  /\ slots = MaxWorkers
  /\ begun = {} /\ withdrawn = {} /\ interrupted = {}

Suspend(t, place) == exec' = [exec EXCEPT ![t] = place]

SetStatus(t, s) == status' = [status EXCEPT ![t] = s]

-----------------------------------------------------------------------------

(* start(), of a queue that is not running. *)
Start ==
  /\ ~running /\ ~stopping
  /\ running' = TRUE
  /\ UNCHANGED <<stopping, tasks, status, retries, pending, exec, slots,
                 begun, withdrawn, interrupted>>

Enqueue(t) ==
  /\ status[t] = "new"
  /\ tasks' = tasks \cup {t}
  /\ SetStatus(t, "pending")
  /\ pending' = Append(pending, t)
  /\ UNCHANGED <<running, stopping, retries, exec, slots, begun, withdrawn, interrupted>>

(* cancel() of a pending task: the status alone is set, whether the task   *)
(* is still queued or its coroutine waits for the semaphore.               *)
CancelTask(t) ==
  /\ t \in tasks /\ status[t] = "pending"
  /\ SetStatus(t, "cancelled")
  /\ withdrawn' = IF Queued(t) THEN withdrawn \cup {t} ELSE withdrawn
  /\ UNCHANGED <<running, stopping, tasks, retries, pending, exec, slots, begun, interrupted>>

(* Mutant: the worker does not look at the status. *)
DispatchUnchecked ==
  /\ running /\ pending # <<>>
  /\ pending' = Tail(pending)
  /\ IF Head(pending) \in tasks THEN Suspend(Head(pending), "waiting") ELSE UNCHANGED exec
  /\ UNCHANGED <<running, stopping, tasks, status, retries, slots, begun, withdrawn, interrupted>>

(* One turn of the worker loop: a task that is unknown or cancelled by now *)
(* is dropped, any other gets a coroutine.                                 *)
Dispatch ==
  /\ running /\ pending # <<>>
  /\ pending' = Tail(pending)
  /\ LET t == Head(pending)
     IN  IF t \in tasks /\ status[t] # "cancelled"
         THEN Suspend(t, "waiting") ELSE UNCHANGED exec
  /\ UNCHANGED <<running, stopping, tasks, status, retries, slots, begun, withdrawn, interrupted>>

(* Mutant: only a task that is still pending begins, and the slot is taken *)
(* all the same.                                                           *)
BeginIfPending(t) ==
  /\ exec[t] = "waiting" /\ slots > 0
  /\ slots' = slots - 1
  /\ IF status[t] = "pending"
     THEN SetStatus(t, "running") /\ Suspend(t, "calling") /\ begun' = begun \cup {t}
     ELSE Suspend(t, "none") /\ UNCHANGED <<status, begun>>
  /\ UNCHANGED <<running, stopping, tasks, retries, pending, withdrawn, interrupted>>

(* The semaphore is acquired; the status is not looked at again. *)
Begin(t) ==
  /\ exec[t] = "waiting" /\ slots > 0
  /\ slots' = slots - 1
  /\ SetStatus(t, "running")
  /\ Suspend(t, "calling")
  /\ begun' = begun \cup {t}
  /\ UNCHANGED <<running, stopping, tasks, retries, pending, withdrawn, interrupted>>

(* The coroutine ends and leaves the semaphore. *)
Leave(t) == Suspend(t, "none") /\ slots' = slots + 1

Succeed(t) ==
  /\ exec[t] = "calling"
  /\ SetStatus(t, "completed")
  /\ Leave(t)
  /\ UNCHANGED <<running, stopping, tasks, retries, pending, begun, withdrawn, interrupted>>

(* The function raised: the task has failed, or sleeps in its slot. *)
Raise(t) ==
  /\ exec[t] = "calling"
  /\ retries' = [retries EXCEPT ![t] = @ + 1]
  /\ \/ /\ retries'[t] >= MaxRetries
        /\ SetStatus(t, "failed")
        /\ Leave(t)
     \/ /\ retries'[t] < MaxRetries
        /\ Suspend(t, "sleeping")
        /\ UNCHANGED <<status, slots>>
  /\ UNCHANGED <<running, stopping, tasks, pending, begun, withdrawn, interrupted>>

(* The backoff is over. *)
Retry(t) ==
  /\ exec[t] = "sleeping"
  /\ Suspend(t, "calling")
  /\ UNCHANGED <<running, stopping, tasks, status, retries, pending, slots,
                 begun, withdrawn, interrupted>>

(* Mutant: whatever is not running is expired. *)
ExpireUnlessRunning(t) ==
  /\ running /\ t \in tasks /\ status[t] # "running"
  /\ tasks' = tasks \ {t}
  /\ UNCHANGED <<running, stopping, status, retries, pending, exec, slots,
                 begun, withdrawn, interrupted>>

(* _cleanup_loop() removes the record of a task that ended an hour ago. *)
Expire(t) ==
  /\ running /\ t \in tasks /\ status[t] \in Final
  /\ tasks' = tasks \ {t}
  /\ UNCHANGED <<running, stopping, status, retries, pending, exec, slots,
                 begun, withdrawn, interrupted>>

(* stop() cancels the two loops ... *)
Stop ==
  /\ running
  /\ running' = FALSE /\ stopping' = TRUE
  /\ UNCHANGED <<tasks, status, retries, pending, exec, slots, begun, withdrawn, interrupted>>

(* ... and the coroutines, one after the other; the others go on until it  *)
(* is their turn.  No status is touched ...                                *)
StopCancels(t) ==
  /\ stopping /\ exec[t] # "none"
  /\ Suspend(t, "none")
  /\ slots' = IF t \in Holding THEN slots + 1 ELSE slots
  /\ interrupted' = interrupted \cup {t}
  /\ UNCHANGED <<running, stopping, tasks, status, retries, pending, begun, withdrawn>>

(* ... until none is left. *)
Stopped ==
  /\ stopping /\ Active = {}
  /\ stopping' = FALSE
  /\ UNCHANGED <<running, tasks, status, retries, pending, exec, slots,
                 begun, withdrawn, interrupted>>

-----------------------------------------------------------------------------

(* The steps of a task's coroutine. *)
Execute(t) == Begin(t) \/ Succeed(t) \/ Raise(t) \/ Retry(t)

Shutdown == (\E t \in Tasks : StopCancels(t)) \/ Stopped

QueueNext ==
  \/ Start \/ Dispatch \/ Stop \/ Shutdown
  \/ \E t \in Tasks : Enqueue(t) \/ CancelTask(t) \/ Execute(t) \/ Expire(t)

-----------------------------------------------------------------------------

(* No failure, retry, cancellation or stop loses a slot of the semaphore   *)
(* or makes one: the slots that are not free are those of the tasks that   *)
(* call their function or sleep before they call it again, so no more than *)
(* MaxWorkers ever do.                                                     *)
SlotsConserved == slots + Cardinality(Holding) = MaxWorkers

(* Where a user of the queue has a task: a cancelled one that is still in   *)
(* the heap is over, one that waits for the semaphore may run all the same. *)
Place(t) ==
  IF status[t] = "new" THEN "outside"
  ELSE IF t \in Holding THEN "working"
  ELSE IF exec[t] = "waiting" \/ (Queued(t) /\ status[t] = "pending") THEN "queued"
  ELSE "over"

Work == INSTANCE WorkQueue WITH place <- [t \in Tasks |-> Place(t)], tries <- retries,
                                Capacity <- MaxWorkers, Attempts <- MaxRetries

(* The heap, the semaphore, retries, cancellations, clean-up and stop()     *)
(* together implement the promise of WorkQueue.                            *)
ImplementsWorkQueue == Work!Spec

(* A task that was cancelled before the worker took it never runs, nor is  *)
(* its record ever found in another status.  (One cancelled while it waits *)
(* for the semaphore does run, and is reported as completed.)              *)
WithdrawnNeverRuns ==
  \A t \in withdrawn : t \notin begun /\ status[t] = "cancelled"

(* No task falls between the queue, the coroutines and its status: one     *)
(* that is reported as pending or running is queued or has a coroutine,    *)
(* unless stop() cancelled it there, whose record then says so for ever.   *)
NoneForgotten ==
  \A t \in Tasks \ interrupted :
    /\ status[t] = "pending" => t \in tasks /\ (Queued(t) \/ exec[t] = "waiting")
    /\ status[t] = "running" => exec[t] \in {"calling", "sleeping"}

(* Unless the queue is stopped, every task that is enqueued ends, however  *)
(* many tasks fail and sleep in front of it.                               *)
TasksEnd ==
  \A t \in Tasks :
    status[t] \in {"pending", "running"} ~> (status[t] \in Final \/ ~running)
=============================================================================
