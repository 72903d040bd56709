------------------------------ MODULE TaskService ------------------------------
(***************************************************************************)
(* POST /tasks/enqueue (api/routes/task_queue.py) with the middleware it   *)
(* passes, GracefulShutdownMiddleware outermost and then                   *)
(* IdempotencyMiddleware (api/middleware/), in front of the queue of       *)
(* module TaskQueue; and the shutdown of the application, which drains the *)
(* requests before it stops the queue (api/app.py).                        *)
(*                                                                         *)
(* A request is named by the task that it would enqueue.  Clients retry:   *)
(* several requests carry one idempotency key.  InMemoryIdempotencyStore   *)
(* has no suspension point, so a lookup and the marker set after it are    *)
(* one step.  Seconds are abstracted: an entry may expire at any moment,   *)
(* the marker of 60 seconds also under a request that is still handled.    *)
(***************************************************************************)
EXTENDS TaskQueue

CONSTANTS
  Keys,     \* idempotency keys
  KeyOf,    \* the key each request carries
  NoTask    \* what the response of a failed handler names

Refusals == {"shutting_down", "marker_without_response"}

ASSUME ServiceAssumption ==
  /\ KeyOf \in [Tasks -> Keys]
  /\ Tasks \cap ({NoTask, "none", "processing"} \cup Refusals) = {}
  /\ NoTask \notin {"none", "processing"}

VARIABLES
  stage,     \* where the request is suspended
  answer,    \* what the client was told: a task, or why there is none
  entry,     \* _store: no entry, the marker, or the task a response names
  shutdown,  \* progress of the application's shutdown
  inFlight,  \* ShutdownState._in_flight
  expired    \* history: keys of which an entry expired

requestVars == <<stage, answer, entry, shutdown, inFlight, expired>>
allVars == <<queueVars, stage, answer, entry, shutdown, inFlight, expired>>

ServiceTypeOK ==
  /\ QueueTypeOK
  /\ stage \in [Tasks -> {"new", "handling", "responding", "done"}]
  /\ answer \in [Tasks -> Tasks \cup {NoTask, "none"} \cup Refusals]
  /\ entry \in [Keys -> Tasks \cup {NoTask, "none", "processing"}]
  /\ shutdown \in {"no", "signaled", "drained", "timed_out"}
  /\ inFlight \in 0 .. Cardinality(Tasks)
  /\ expired \in SUBSET Keys

ServiceInit ==
  /\ QueueInit
  /\ stage = [r \in Tasks |-> "new"]
  /\ answer = [r \in Tasks |-> "none"]
  /\ entry = [k \in Keys |-> "none"]
  /\ shutdown = "no"
  /\ inFlight = 0
  /\ expired = {}

-----------------------------------------------------------------------------

(* The lifespan of the application starts the queue before any request. *)
Boot == Start /\ shutdown = "no" /\ UNCHANGED requestVars

Answered(r, a) ==
  /\ stage' = [stage EXCEPT ![r] = "done"]
  /\ answer' = [answer EXCEPT ![r] = a]

Arrives(r) == running /\ stage[r] = "new"

(* 503 of the shutdown middleware. *)
Reject(r) ==
  /\ stage[r] = "new" /\ shutdown # "no"
  /\ Answered(r, "shutting_down")
  /\ UNCHANGED <<queueVars, entry, shutdown, inFlight, expired>>

(* A cached response is replayed.  The marker is found in the same place   *)
(* and has no body to replay: the lookup raises, and the client gets 500.  *)
Replay(r) ==
  /\ Arrives(r) /\ shutdown = "no"
  /\ entry[KeyOf[r]] # "none"
  /\ Answered(r, IF entry[KeyOf[r]] = "processing" THEN "marker_without_response"
                                                   ELSE entry[KeyOf[r]])
  /\ UNCHANGED <<queueVars, entry, shutdown, inFlight, expired>>

(* Mutant: no marker is set. *)
AdmitUnmarked(r) ==
  /\ Arrives(r) /\ shutdown = "no"
  /\ entry[KeyOf[r]] = "none"
  /\ stage' = [stage EXCEPT ![r] = "handling"]
  /\ inFlight' = inFlight + 1
  /\ UNCHANGED <<queueVars, answer, entry, shutdown, expired>>

(* No entry: the request is counted, the marker set, the handler called. *)
Admit(r) ==
  /\ Arrives(r) /\ shutdown = "no"
  /\ entry[KeyOf[r]] = "none"
  /\ entry' = [entry EXCEPT ![KeyOf[r]] = "processing"]
  /\ stage' = [stage EXCEPT ![r] = "handling"]
  /\ inFlight' = inFlight + 1
  /\ UNCHANGED <<queueVars, answer, shutdown, expired>>

(* enqueue_task() ... *)
Handle(r) ==
  /\ stage[r] = "handling"
  /\ Enqueue(r)
  /\ stage' = [stage EXCEPT ![r] = "responding"]
  /\ UNCHANGED <<answer, entry, shutdown, inFlight, expired>>

(* ... or 400, 403 or, from ErrorHandlerMiddleware, 500 in its place. *)
HandleFails(r) ==
  /\ stage[r] = "handling"
  /\ stage' = [stage EXCEPT ![r] = "responding"]
  /\ UNCHANGED <<queueVars, answer, entry, shutdown, inFlight, expired>>

(* The response is cached, an error like any other, and returned. *)
Respond(r) ==
  /\ stage[r] = "responding"
  /\ LET a == IF status[r] = "new" THEN NoTask ELSE r
     IN  Answered(r, a) /\ entry' = [entry EXCEPT ![KeyOf[r]] = a]
  /\ inFlight' = inFlight - 1
  /\ UNCHANGED <<queueVars, shutdown, expired>>

(* A marker or a response reaches its time to live. *)
EntryExpires(k) ==
  /\ entry[k] # "none"
  /\ entry' = [entry EXCEPT ![k] = "none"]
  /\ expired' = expired \cup {k}
  /\ UNCHANGED <<queueVars, stage, answer, shutdown, inFlight>>

SignalShutdown ==
  /\ running /\ shutdown = "no"
  /\ shutdown' = "signaled"
  /\ UNCHANGED <<queueVars, stage, answer, entry, inFlight, expired>>

(* Mutant: a request that is counted does not clear the event waited for. *)
DrainAtOnce ==
  /\ shutdown = "signaled" /\ shutdown' = "drained"
  /\ UNCHANGED <<queueVars, stage, answer, entry, inFlight, expired>>

(* wait_for_drain(): the last request is gone, or 30 seconds are over. *)
Drain ==
  /\ shutdown = "signaled"
  /\ \/ inFlight = 0 /\ shutdown' = "drained"
     \/ inFlight > 0 /\ shutdown' = "timed_out"
  /\ UNCHANGED <<queueVars, stage, answer, entry, inFlight, expired>>

(* Mutant: the queue of an application that did not drain is not stopped. *)
StopQueueIfDrained == Stop /\ shutdown = "drained" /\ UNCHANGED requestVars

(* The lifespan stops the queue next. *)
StopQueue == Stop /\ shutdown \in {"drained", "timed_out"} /\ UNCHANGED requestVars

(* Worker, coroutines, clean-up and POST /tasks/{id}/cancel. *)
QueueStep ==
  /\ Dispatch \/ Shutdown \/ \E t \in Tasks : CancelTask(t) \/ Execute(t) \/ Expire(t)
  /\ UNCHANGED requestVars

-----------------------------------------------------------------------------

Request(r) == Admit(r) \/ Handle(r) \/ HandleFails(r) \/ Respond(r)

ServiceNext ==
  \/ Boot \/ QueueStep \/ SignalShutdown \/ Drain \/ StopQueue
  \/ \E r \in Tasks : Reject(r) \/ Replay(r) \/ Request(r)
  \/ \E k \in Keys : EntryExpires(k)

(* The event loop resumes every coroutine: handlers answer, the worker     *)
(* takes what is queued, sleeps end, and the functions of tasks return or  *)
(* raise.  Nobody has to send a request or to shut the application down.   *)
ServiceSpec ==
  /\ ServiceInit /\ [][ServiceNext]_allVars
  /\ WF_allVars(Dispatch /\ UNCHANGED requestVars)
  /\ \A t \in Tasks :
       /\ WF_allVars(Execute(t) /\ UNCHANGED requestVars)
       /\ WF_allVars(Handle(t) \/ HandleFails(t) \/ Respond(t))
  /\ WF_allVars(Drain) /\ WF_allVars(StopQueue)
  /\ WF_allVars(Shutdown /\ UNCHANGED requestVars)

-----------------------------------------------------------------------------

EnqueuedFor(k) == {t \in Tasks : KeyOf[t] = k /\ status[t] # "new"}

(* Retries do not repeat the work: as long as no entry of a key expired,   *)
(* at most one task is enqueued for it, however its requests overlap, and  *)
(* every client that is told of a task is told of this one.                *)
OneTaskPerKey ==
  \A k \in Keys \ expired :
    /\ Cardinality(EnqueuedFor(k)) <= 1
    /\ \A r \in Tasks :
         (KeyOf[r] = k /\ answer[r] \in Tasks) => answer[r] \in EnqueuedFor(k)

(* Once the requests have drained none is left to be handled, so none can  *)
(* enqueue a task behind the stop of the queue, where it would wait for    *)
(* ever.  (After the timeout of the drain one can.)                        *)
DrainComplete ==
  shutdown = "drained" => \A r \in Tasks : stage[r] \in {"new", "done"}

(* Every admitted request is answered, and a request that finds the marker *)
(* is not the end of its key: the marker gives way.                        *)
RequestsAnswered ==
  \A r \in Tasks : stage[r] = "handling" ~> (stage[r] = "done" /\ entry[KeyOf[r]] # "processing")

(* A shutdown ends: the drain waits no longer than it may, and whatever    *)
(* tasks are running or sleeping, the queue comes to rest.                 *)
ShutdownEnds == shutdown = "signaled" ~> (~running /\ ~stopping /\ Active = {})

(* Nothing that was accepted hangs: tasks, requests and the shutdown end,  *)
(* each past the failures, retries, expiries and cancellations of the      *)
(* others.                                                                 *)
EverythingEnds == TasksEnd /\ RequestsAnswered /\ ShutdownEnds
=============================================================================
