# ShieldOps in TLA+

ShieldOps runs agents that investigate alerts and change infrastructure. What
has to be right in it is not what its agents say but what they are *let do*: a
change is gated by a policy engine, a risk assessment, human approvals and a
blast-radius limit, written through a connector, validated and rolled back,
while calls fail, people answer late or twice, and processes restart. Around
that core, events come in over Kafka, go out over websockets, and wait in task
queues and scheduled jobs, with the same questions of ordering and failure. This
directory models those parts in TLA+, checks them with TLC, and proves the
central ones with TLAPS. All paths below are relative to `src/src/shieldops/`
unless they start with `docs/` (then to `src/`).

## The system

### Components, their state and their operations

| Component | Code | State | Operations |
|---|---|---|---|
| Approval workflow | `policy/approval/workflow.py` | `_pending`: requests with status, approvals, denials, quorum | `request_approval` (a suspended coroutine: notify, poll under a timeout, walk the escalation chain), `approve`, `deny` |
| Policy engine | `policy/opa/client.py`, `policy/opa/rate_limiter.py`, `utils/resilience.py` | circuit breaker, rate counters in Redis | `evaluate` (read counts, call OPA behind the breaker, count what was allowed), `classify_risk` |
| Remediation agent | `agents/remediation/graph.py`, `nodes.py`, `tools.py` | `RemediationState` of each run | eight nodes from `evaluate_policy` to `perform_rollback`, four conditional edges |
| Kubernetes connector | `connectors/kubernetes/connector.py` | `_snapshots`; the cluster | `create_snapshot`, `execute_action`, `get_health`, `rollback` |
| Runner and endpoints | `agents/remediation/runner.py`, `api/routes/remediations.py`, `policy/rollback/manager.py` | `_remediations`, database rows, audit log | `remediate`, `rollback`; trigger, approve, deny, rollback over REST |
| Job scheduler and locks | `scheduler/scheduler.py`, `utils/distributed_lock.py` | jobs and their asyncio tasks; lock keys in Redis with a TTL | start, stop, add, remove, the job loop; acquire, renew, release |
| Task queue | `workers/task_queue.py` | priority heap, task records, semaphore | enqueue, cancel, worker loop, retry with backoff, clean-up, start, stop |
| Request middleware | `api/middleware/idempotency.py`, `shutdown.py` | idempotency keys, in-flight counter | first call, duplicate, drain and shutdown |
| Websocket hub | `api/ws/core/hub.py`, `api/ws/adapters/inmemory_buffer.py` | subscriber queues, event ids, window of retained events, a lock | publish, attach with replay, drain, detach, drop policies |
| Event ingestion | `api/routes/ingestion.py`, `ingestion/kafka_producer.py`, `kafka_consumer.py` | seen keys in Redis, Kafka log and offsets, event store, dead letters | accept, publish, poll, normalize, insert, commit |
| Kubernetes executor | `remediation/k8s_actions.py`, `policy_gate.py`, `rollback.py` | results, snapshots; the cluster | `execute` (gate, snapshot, write, verify, roll back), `rollback_action` |
| Remediation pipeline | `pipeline/orchestrator.py`, `recommender.py` | `_runs`: status, recommendations | `run_pipeline`, `approve_recommendations` |
| Syslog queue, event bus, caches, orchestration | `ingestion/syslog/`, `messaging/`, `cache/`, `orchestration/` | bounded queues, dead letters, L1 and L2, active runs | not modelled, see below |
| Everything else | about 10000 files | records | agents that compute reports, analytics, REST records, dashboard, SDK, deployment |

### How they interact

The REST endpoint `POST /remediations` starts `RemediationRunner.remediate()` as
a background task of the API process's event loop. The runner checks the blast
radius and enters the compiled graph. The graph's nodes call the toolkit, which
calls the policy engine, the approval workflow and the connector; the LLM is
called from two nodes. `request_approval()` suspends the graph until people
answer through the endpoints `approve` and `deny`, which look the remediation up
in the runner's dictionary. All of this is one event loop: two tasks interleave
at every `await`, and never between two awaits. Redis, OPA, the Kubernetes API,
the database and the LLM are outside and may fail at any call.

A request passes `GracefulShutdownMiddleware` and `IdempotencyMiddleware` before a
route like `POST /tasks/enqueue` hands a task to the queue; the lifespan of
`api/app.py` drains the requests before it stops the queue. The route, the
producer and the consumer of the ingestion meet in one Kafka partition and in
Redis. The hub's `publish()` and `attach()` meet in its lock and the buffer. A
second way to the cluster is the pipeline, which recommends, executes and
approves through `K8sRemediationExecutor`; operators call another instance of the
same executor over `api/routes/remediation_actions.py`. The idempotency store is
per process, and at this commit nothing calls `set_producer()`, `set_consumer()` or
`Hub.attach()`, nor includes the pipeline's routes, in `api/app.py`.

### Which behaviours are hard

* answers, polls and timeouts of one approval, in any order;
* gates that must hold on every path of the graph, whatever the LLM, OPA,
  approvers and the cluster answer, with several remediations on one resource;
* a call that fails after it took effect;
* in-memory state (approvals, snapshots, remediations, breaker, jobs) that a
  restart loses while database rows, Redis keys and the cluster survive;
* locks that expire under their holder; tasks cancelled while they are being
  dispatched; breaker results that arrive in a later state of the breaker;
* requests that are retried while the first is still handled, and shutdowns
  around them;
* replays that must not overlap or miss what is published meanwhile, to clients
  that are slow, fail and go away;
* offsets, inserts, dead letters and marks that are separate calls, each of
  which may fail before or after it took effect;
* runs, approvals and operators that write to one resource, with rollbacks to
  snapshots that are older than the others' writes.

`PROJECT.json` lists each of these at its line under `hazards`, with the
properties that would catch it.

### What makes each component correct

* **Approval workflow**: a decision is backed by the answers and final; the
  agent always resumes; an answer in time is not lost.
* **Remediation agent**: no write without the authorisation its risk requires;
  at most one write per remediation; a failure leads to the rollback; every run
  ends; the fallback for a failed LLM loses no approval; together: it implements
  `SafeRemediation`.
* **Runner**: the blast radius bounds every write; a running remediation is
  addressable and nobody else's to change; what was written is on record and
  its audit entry does not hide a failure.
* **Circuit breaker**: probes stay within their bound however late outcomes
  arrive; no outcome loses a probe slot; a closed breaker has its full
  tolerance; it recovers when the service does.
* **Policy engine**: it fails closed, whatever fails, is refused or is cancelled
  on the way; an evaluation always ends.
* **Scheduler and lock**: a job whose lock is renewed runs alone; nothing is
  renewed for a job that is over; no crash or lost reply blocks the job for ever.
* **Task queue**: no slot of the semaphore is lost or made; a task cancelled
  while it was queued never runs; no task falls between queue, coroutine and
  status; every task ends.
* **Idempotency and shutdown**: one key enqueues one task and every client is
  told of it; the queue is stopped behind the requests; requests and shutdowns
  end.
* **Websocket hub**: a client sees events once and in order, without a gap
  between replay and live events but what was dropped; nothing is sent that could
  not be replayed; nobody waits for ever.
* **Ingestion**: what is committed is accounted for; nothing is stored or logged
  twice without a cause the code cannot see; no message blocks the loop.
* **Pipeline and executor**: writes are authorised; recommendations are executed
  once; the run's status and the executor's reports agree with what happened;
  a run comes to its end.

## The modules

| Module | Models | Extends or uses |
|---|---|---|
| `ApprovalWorkflow` | `policy/approval/workflow.py` | |
| `RiskAssessment` | the pure decisions: `classify_risk`, the combination with the LLM's level, approval rules, blast radius | |
| `RemediationGraph` | graph, nodes, toolkit and connector of the remediation agent | `RiskAssessment`; instance of `ApprovalWorkflow` |
| `SafeRemediation` | the promise: the abstract specification of a remediation | |
| `RemediationService` | runner, endpoints, restart | `RemediationGraph` |
| `CircuitBreaker` | `CircuitBreaker` of `utils/resilience.py` | |
| `PolicyEngine` | `PolicyEngine.evaluate()` and the rules of `playbooks/policies/shieldops.rego` | `CircuitBreaker` |
| `DistributedLock` | `utils/distributed_lock.py` and its key in Redis | |
| `JobScheduler` | `scheduler/scheduler.py` on several instances | `DistributedLock` |
| `TaskQueue` | `workers/task_queue.py` | instance of `WorkQueue` for its property |
| `WorkQueue` | the promise of a task queue: worked on once, in bounded attempts, by bounded workers | |
| `TaskService` | the request with its middleware in front of the queue, and the shutdown | `TaskQueue` |
| `WebsocketHub` | `api/ws/core/hub.py` with the in-memory buffer | |
| `AtLeastOnce` | the promise of a consumer that commits by itself: commits never go back and pass only what was handled | |
| `EventIngestion` | route, producer, consumer, and the broker and stores between them | instance of `AtLeastOnce` for its property |
| `K8sExecutor` | `remediation/k8s_actions.py` with the policy gate and the rollback manager | |
| `RemediationPipeline` | `pipeline/orchestrator.py` with the recommender, and the executor's endpoints | `K8sExecutor` |
| `*_proofs` | theorems and proofs; those about `RemediationGraph` are in `RemediationService_proofs` and those about `K8sExecutor` in `RemediationPipeline_proofs` | the module they are named after, `TLAPS` |
| `MC*` | constants for TLC | the module they are named after |

Each definition's lines in the code are in `PROJECT.json` under `map`. A
definition whose comment begins with "Mutant" is not part of a specification: it
is a plausible bug, and a run with it in place of the definition that follows
must violate the property it is listed with.

### How state and actions correspond to the code

**`ApprovalWorkflow`.** One request is one coroutine `request_approval()`. `phase`
says at which `await` it is suspended: sending the notification or the
escalation, sleeping in `_wait_for_decision()`, or sending the resolution.
`status`, `required`, `approvals` and `denials` are the fields of
`ApprovalRequest`. `RequestApproval` is the call up to its first await,
`Notified` the first look of a wait, `Poll` a later one, `WaitTimeout` the
cancellation of the wait by `asyncio.wait_for` with the next escalation or the
final status, `Return` the end. `Approve` and `Deny` come from other tasks at
any moment after the submission, also when the request is decided, since it
never leaves `_pending`. Seconds are abstracted: a poll and the timeout may each
come at any moment of the wait, which includes every order the clock can
produce.

**`RemediationGraph`.** `pc` is the LangGraph node that is next, `state` the
fields of `RemediationState` that decide anything, `world` which remediation
wrote a resource last, `written` the remediations that wrote. One action per
node, with the conditional edge behind it; the node `request_approval` is two
actions with the instance `Approval` running in between. What is outside
answers freely: the policy engine allows or denies (module `PolicyEngine` says
when), the LLM returns any level, any validation verdict, or fails; an API call
succeeds, is refused, or loses its connection before or after it took effect
(`reached` without `success`). `CreateSnapshot` has its three outcomes: a captured
state, a snapshot that records an error, none. `PerformRollback` calls no API,
as in the connector.

**`RemediationService`.** `call` follows `RemediationRunner.remediate()`: blast
radius, graph, entry in `_remediations`, database row, audit entry. `stored` is
the kind of that entry, `audit` the outcome of the audit entry. `RestAnswer` and
`RestRollback` are the endpoints, with their 404 and 400 as guards. `RunFails` is
the `except` branch, taken when a node raises: any but `request_approval`, which
has nothing to raise, since the notifier catches its own errors. `Restart`
kills the calls in flight and empties the memory.

**`CircuitBreaker` and `PolicyEngine`.** The breaker has no lock: `Admit` or
`Refuse` is `call()` before its await, `Succeed` and `Fail` record the outcome in
whatever state the breaker is in by then, `Cancel` records nothing. OPEN becomes
HALF_OPEN when somebody looks (`State`). `probing` is the only variable the code
does not have: the calls admitted since the breaker is half open. `evaluate()` is
`Evaluate` (up to the counters), `Enriched` (last counter read, and the breaker
asked without an await in between), `Answered`, `Unanswered`, `Counted`, and
`Cancelled` or `Abandoned` when its task is cancelled. The counters per hour,
minute and team are read in one place and incremented in another, all
best-effort, so one counter stands for them. The failure count saturates at the
threshold, where the code no longer distinguishes its values.

**`DistributedLock` and `JobScheduler`.** The key in Redis is `owner` and `lease`;
time passes in halves of the TTL, since the renewal task sleeps for one half.
Every command may fail before or after Redis executed it. An instance's name
stands for the UUID of its latest acquisition. `task` says where `_run_loop()` is
suspended, `running` is `_running`. `Stop` cancels the loop at each of its awaits
with what the `finally` and `__aexit__` on its way do; `Crash` leaves the key
behind. One job stands for all, since different jobs use different keys.

**`TaskQueue` and `TaskService`.** `pending` is the heap with its order left to the
enqueueing, `exec` says where `_execute()` is suspended: waiting for the semaphore,
calling the function, or sleeping before a retry. `slots` is the value of the
semaphore. `Dispatch` is the worker loop, which skips what was cancelled; `Begin`
the entry into the semaphore, which looks at nothing; `Succeed`, `Raise` and `Retry`
the attempts; `Expire` the clean-up; `Stop`, `StopCancels` and `Stopped` the parts of
`stop()`. In the service a request is named by the task it would enqueue. `Admit`
sets the marker and counts the request as in flight, `Replay` answers from the
store, `Handle` or `HandleFails` is the route, `Respond` stores the response;
`EntryExpires` may come at any moment. `SignalShutdown`, `Drain` and `StopQueue` are
the end of the application's lifespan, with the drain's timeout.

**`WebsocketHub`.** One channel, since channels share only the lock and the
counter. `lock` names who holds the hub's lock over an await: `Publish` takes an id
and the lock, `Fanout` or `AppendFails` gives it back; `Attach` takes it and puts the
replay in the queue, `Register` or `ReplayFails` gives it back. `Take`, `TakeLast`,
`Sent` and `SendFails` are the drain task, `Detach`, `PutPill` and `Detached` the
parts of `detach()`. `Put` is `put_nowait()` with the three drop policies. What
was dropped is in `lost`, which the code only counts.

**`EventIngestion`.** A request under a lag above the threshold is refused
(`Throttle`), or let through where the lag could not be computed (`Arrive`, which
asks for no lag). `stage` says at which call a request is: the route's look
into Redis, its mark, the producer's look, the send, the producer's mark. `dedup`
is the wiring: no Redis for the producer, one of its own, or the route's. The
consumer's `position` is what `getmany()` has fetched, `committed` what the broker
was told; `at` walks the batch, through `Normalize`, `RouteDlq` or `LoopError`.
`Insert` and `Commit` may take effect and fail all the same. `Crash` ends the
consumer between any two of these, `StartConsumer` begins at the committed offset.

**`K8sExecutor` and `RemediationPipeline`.** An execution is one coroutine of
`execute()`; `step` says what it awaits. A resource is the set of executions whose
effect it carries, so that a snapshot restored too late is visible as an effect
that disappears. A snapshot is read by the API server in `SnapshotRead` and
answered in `SnapshotTaken`, with others' writes in between; an execution counts
as exposed from the read on. `Dispatched` is a write that took effect, or failed after or
before it did. `disturbed` is history: resources on which executions overlapped
between the read of the snapshot and the end, an operator's rollback changed more than its own
execution's effect (`Reverts`), or a restore did nothing (`NotRestored`); an
automatic rollback of an execution that was alone excuses nothing. A snapshot
holds a state or the API's error; `K8sActionType` and the requests are the
models' enumerations. A task is the
coroutine of a run or of an approval: `GateAnswers` is the orchestrator's own gate,
`ExecuteStep` a step of the executor with what the loop does when it returns
(`Proceed`) or raises (`GiveUp`). `RunPipeline` is everything before the first
await, including the recommendations; `InOrder` is the order in which a loop
visits the entries it does not skip. `overlapped` and `explicit` are history.
`MaxCalls` bounds how many of the approvals and orders are made, and guards
`ApprovePending`, `ApproveIndices` and `ExecuteAction`.

## The runs

| Run | Question | Instance |
|---|---|---|
| `Approval` | Is what the agent is told backed and final, is no timely answer lost, does the agent resume? | two requests, one escalation target, up to two answers of each kind |
| `GraphProgress` | Does the agent implement `SafeRemediation`, end, and roll back failures, and does no fallback lose an approval? | one remediation of each of 15 actions, one escalation target, two people |
| `Service` | Do the gates hold with two remediations, endpoints and restarts, is nothing written twice, and are writes and failures on record? | two calls on both sides of the blast-radius limit |
| `Policy` | Does the gate fail closed and answer, and does the breaker stay in bounds and recover? | three agents, one input allowed and one not, threshold 2, one probe, one cancellation |
| `Scheduler` | Does a renewed job run alone, and the job go on? | three instances that start, stop and crash without bound |
| `TaskService` | Does the queue implement `WorkQueue`, are slots, tasks and keys conserved, and does everything end? | two requests with one key, one slot, two attempts |
| `Hub` | Is a client's stream in order and without a gap, and does nobody wait for ever? | one connection, five events, queue of two, window of three, every policy |
| `Ingestion` | Does the consumer implement `AtLeastOnce`, are events neither lost nor repeated, and does nothing block the loop? | two requests of one event, one foreign message, one crash |
| `Pipeline` | Are writes authorised and done once, and do statuses and reports say what happened? | one run with an automatic and a manual recommendation; two of: an approval of what is pending, one that may name indices, an order on the deployment the run restarts |
| `ServiceApproval` | Can a pending remediation be approved over REST? (no) | one remediation |
| `PolicyHardDeny` | Are forbidden actions and excess rates denied? (no) | one agent, every kind of input |
| `IngestionLost` | Are offsets committed only past stored events? (no) | two requests |

The passing runs visit 3.6 million distinct states between them; the two
largest, `Service` (1.3 million) and `Pipeline` (1.1 million), take two to three
minutes each with two workers.

### Bounds, and why they are enough

* `MaxAnswers` = 2 answers of a kind: the largest quorum is 2, and no code looks
  at the length of the lists beyond it. In `Service` and `ServiceApproval` it is 1:
  there a critical action is refused by timeout, and what is asked does not
  depend on a quorum of two.
* `NumTargets` = 1 where the escalation chain matters (`Approval`, `GraphProgress`):
  it has a wait that is not the last and one that is. 0 elsewhere, as in
  `api/app.py`.
* Two remediations share nothing but the cluster, the event loop and the
  runner's dictionaries, whose entries are per remediation. Two are enough for
  every pair of overlapping nodes; the theorems cover any number.
* Resources: one, so that the remediations meet. Actions: every combination of
  baseline, fallback set and connector support in `GraphProgress`.
* Counts 3 and 4: the limit in production and one above.
* Breaker: threshold 2 distinguishes a first failure from the last, and three
  callers give a probe, a call admitted before the trip, and a caller that is
  refused. `HourLimit` = 0 keeps the counter at two values: no rule that is asked
  for reads it. `MaxCancels` = 1 shows the loss of a slot.
* Task service: one slot makes a task wait while another sleeps, two attempts
  have a retry and a last failure, and two requests of one key are a call and
  its duplicate. Nothing is capped.
* Hub: connections share only the lock and the buffer, so one connection among
  publishers and failing appends meets every interleaving of its own; the
  theorems cover several. Five events fill a queue of two and a window of three
  and leave one to be evicted before and one published after the replay.
* Ingestion: two requests of one event are an event and its retry; a batch of two
  spans both, and under the threshold of one the lag may throttle the second. One
  foreign message is one that is not JSON or not an object, before, between or
  after; one crash is enough to deliver again.
* Pipeline: two approvals of one run meet the recommendation that is left to
  them, at once or one after the other, where only the `executed` marker keeps
  the second from repeating the first; the run, an approval that names both
  indices and the order meet on the other. The named list of two makes a loop
  with a next entry, and the index 3 there is not. For the size of the run only
  one approval may name indices (`IndexLists`), and of the two approvals and the
  order any two are made (`MaxCalls` = 2), next to the run itself; the theorems
  bound neither.
* Scheduler: no bound but the number of instances; the lease has three values.

`CHECK_DEADLOCK FALSE` is given where the system may really come to rest: all
remediations, requests or tasks have ended, and all answers the bound allows are
given. The policy engine and the scheduler never stop, and deadlock is checked
there.

### Fairness

* `ApprovalWorkflow`, `RemediationGraph`, `RemediationService`: weak fairness of the
  coroutine, of the next node and of the call. The event loop resumes a
  coroutine whose sleep, timer or call is over; the polling loop is under
  `asyncio.wait_for`; the connectors and the LLM client have timeouts. Nobody
  is assumed to answer, to submit, or to call an endpoint. A restart disables
  the calls it kills, and `WriteRecorded` says so.
* `PolicyEngine`: weak fairness of a suspended evaluation, since httpx gives up
  after 5 seconds and Redis answers or raises, and of the passing of
  `recovery_timeout`. Which outcome a call has is not assumed. `RecoversWhenUp` has
  its assumptions in the formula: agents go on asking, from some point on no
  call fails or is abandoned, and none was cancelled while it awaited OPA.
* `JobScheduler`: weak fairness of each loop (timers fire, Redis answers or the
  client raises, jobs end), of the renewal task, and of time. Nobody has to
  start a scheduler. `JobGoesOn` is about times after the last crash, stop or
  failed command, with some scheduler running.
* `TaskService`: weak fairness of the worker, of each task's coroutine (its
  function returns or raises), of a handler, of the drain, which has a timeout,
  and of `stop()`. `TasksEnd` excuses a queue that is stopped.
* `WebsocketHub`: weak fairness of whoever holds the lock (the buffer answers or
  raises) and of the drain and detaching coroutines. Nobody has to publish,
  attach or detach. `NobodyWaitsForever` names the one detach that does not end.
* `EventIngestion`: weak fairness of the consumer's loop and of its start after a
  stop. Nothing is assumed of the outcome of any call.
* `RemediationPipeline`: weak fairness of the task at work and of an order under
  way: OPA has a timeout of 5 seconds, the API client one of its own, and
  `verify_health()` a deadline. Nobody has to approve.
* One timing assumption is built into `HalfTTLPasses`: a renewal task that is due
  runs before another half of the TTL, at least 150 seconds for the jobs of the
  application, has passed. A job that blocks the event loop for so long is not
  modelled.

## What is proved

All theorems hold for every value of the constants that the named assumptions
(`WorkflowAssumption`, `GraphAssumption`, `ServiceAssumption`, `BreakerAssumption`,
`PolicyAssumption`, `LockAssumption`, `QueueAssumption`, `HubAssumption`,
`IngestAssumption`, `PipelineAssumption`) allow: any number of requests, people,
escalation targets, remediations, resources, callers, instances, tasks,
connections, events, alerts, approvals and orders, any threshold, any size of a
queue, a window or a batch, and any lists of hypotheses and indices.
`PipelineAssumption` types these and keeps the executions of tasks and orders
apart; its one restriction on callers is that an approval does not name an index
twice (for its loop would then execute one recommendation again).

* **`ApprovalWorkflow_proofs`**: `TypeTheorem`, `DecisionBackedTheorem`,
  `DecisionFinalTheorem`. The invariant is `TypeOK` with `DecisionBacked`, which is
  inductive because of its last conjunct: only a request without a decision can
  be polled or time out.
* **`RemediationService_proofs`, the graph**: `TypeTheorem`, `AuthorisationTheorem`,
  `WriteOnceTheorem`, `BaselineTheorem`, `RefinementTheorem`.
  `NoUnauthorisedWrite` is not inductive: it speaks of remediations that wrote,
  and says nothing of one about to write.
  `GraphInv` therefore adds `GatesPassed`: where a remediation is tells which gates
  have let it through, its approval request is new before the node
  `request_approval` and asks for the number of approvals its risk requires. The
  workflow's own theorems are used through its instance: every step of the graph
  is a step of the workflow or leaves it alone (`WorkflowAgrees`), and
  `DecisionBacked` turns the answer "approved" into approvals on record. That an
  approval list only grows (`StepQuorum`) keeps the fact after the decision.
  `BaselineTheorem` adds that the risk a remediation goes on with is one that
  `AssessedRisks` gives for its action (`RiskAssessed`), and a case analysis of the
  two lists of destructive actions. `RefinementTheorem` maps every step to a step
  of `SafeRemediation` or a stutter.
* **`RemediationService_proofs`, the service**: `ServiceTypeTheorem`,
  `ServiceAuthorisationTheorem`, `AuditTheorem`, `ServiceBaselineTheorem`,
  `ServiceWriteOnceTheorem`, `RollbackTheorem`, `ServiceRefinementTheorem`. Every
  step of the service is a step of the graph, leaves the graph alone, or is a
  manual rollback or a restart, which no gate looks at; so `GraphInv` is an
  invariant of the service. `ServiceInv` adds what became of each call: a graph
  that is under way passed the blast radius and is not in `_remediations`, an
  entry of a graph that ended is there only when it has, and an audit entry is
  written by a call that has returned. `RollbackTheorem` follows: a rollback finds
  only entries, hence no running call, and what changes a running remediation is
  one of its nodes, each of which moves `pc` (`NodeMoves`). The service does not
  implement `SafeRemediation` as it stands, since `runner.py:361` rolls back what is
  over, any number of times; `RevocableSafety` is the promise with that one step,
  `Revoke`, added. `ServiceRefinementTheorem` needs that the rollback's guard, a
  snapshot, excludes a remediation that was refused; `SnapshotPlaced` says so:
  only a remediation that got as far as the write has one.
* **`PolicyEngine_proofs`**: `PolicyTypeTheorem`, `BreakerTheorem` for the breaker by itself with
  `BreakerInv`, where the bound on probes and the accounting of slots hold each
  other up through the slot counter, and need that no slot is occupied outside
  HALF_OPEN. `EngineImplementsBreaker` shows that the engine uses the breaker by
  its own operations only; `ProbeTheorem`, `SlotTheorem` and `ToleranceTheorem` then
  follow. `FailClosedTheorem` rests on `VerdictBacked`: an evaluation that counts has
  been allowed.
* **`JobScheduler_proofs`**: `SchedTypeTheorem`, `LeaseTheorem`, `ExclusionTheorem`,
  `RenewalTheorem`. `LeaseHeld` needs to know how much of the lease is left:
  `LeaseAlive` says that a renewal task that sleeps has the whole TTL before it
  and one that is due at least half.
* **`TaskService_proofs`**: `SlotsTheorem`, `WithdrawnTheorem`, `ForgottenTheorem`,
  `WorkQueueTheorem`, `OneTaskTheorem`, `DrainTheorem`, `TaskServiceTypeTheorem`.
  The queue is proved from its own steps, and every step of the service is one of them or leaves the
  queue alone. `TasksInv` ties each task's status to its place: in `pending` at most
  once, in one coroutine, or nowhere; `SlotsInv` counts the slots against the
  coroutines that hold one. `WorkQueueTheorem` maps every step to one of
  `WorkQueue`: a free slot means that fewer than `MaxWorkers` are at work because
  of `SlotsInv`, and a cancelled or interrupted task is over for good because of
  `TasksInv`. `RequestsInv` ties the entry of a key to the stage of
  the request that set it, and counts the requests in flight, which is what the
  drain looks at.
* **`WebsocketHub_proofs`**: `HubTypeTheorem`, `InOrderTheorem`, `NoGapTheorem`,
  `RetainedTheorem`. The invariant `HubInv` follows the events of one connection:
  what it was sent, what its drain task holds and what is queued are one
  increasing sequence of published events, all after the one it attached with;
  and every published event after that one is in the sequence or in `lost`. The
  lock is needed where the replay and the registration are two steps.
* **`EventIngestion_proofs`**: `AtLeastOnceTheorem`, `CommittedTheorem`, `StoredOnceTheorem`,
  `IngestTypeTheorem`, `DuplicateTheorem`, `LoggedOnceTheorem`. Requests only append
  to the log and the consumer only reads it, so each side has an invariant that
  the other's steps preserve: `ConsumerInv`, where each message below the position
  is accounted for or in the batch at hand; and `RequestInv`, where an undisturbed
  event has one active request, which marked its key before the next one looked. `AtLeastOnceTheorem` maps each step to
  one of `AtLeastOnce`, with what is accounted for as what was handled.
* **`RemediationPipeline_proofs`**: `PipelineTypeTheorem`, `WritesAuthorisedTheorem`,
  `ReportsAgreeTheorem`, `ExecutedOnceTheorem`, `StatusMatchesWorkTheorem`,
  `TasksCanGoOnTheorem`, `ResultsStandTheorem`. The invariant `PipelineInv` has
  three layers. `ExecutorInv` follows an execution: by its step it has a request,
  passed the gate, may have written (`ExecutionOK`); and from the read of its
  snapshot to its end it is alone on a resource that nothing disturbed, with a snapshot that
  holds exactly what the others have done (`AloneOn`), which is why an automatic
  rollback there undoes its own effect and no other (`ReportsOf`). `TaskOK` ties a
  task's list to its executions: the entries after the first are new, the first
  is under way exactly when the task awaits it, a run's entries are approved by
  confidence, and no entry occurs twice, so that a task never executes a
  recommendation again. `AlertOK` is about the tasks of one run that does not
  overlap: one is at work, what was written is marked or at work
  (`WrittenMarked`), and what was written by one is not in the list of another
  that chose for itself (`WrittenNotListed`), which is what makes `ExecutedOnce`
  inductive. The steps of the executor are proved first by what they leave alone
  (`ExecutionFootprint`, `ResourceFootprint`), so that each layer is preserved once
  for runs, approvals and orders. `InOrder` is a CHOOSE of an increasing
  enumeration; that one exists is `PositionsOrdered`, by the least cardinality
  without one: `WFMin` with `NatLessThanWellFounded` is first-order and takes the
  place of an induction, whose theorem the provers cannot instantiate.

This proof corrected the property. `ReportsAgree` at first
excused only rollbacks that removed another's effect. With two orders on one
resource it failed: the first fails after its write, the second takes a
snapshot, the first is rolled back, and the rollback of the second restores its
snapshot and with it the effect of the first, which is reported as rolled back.
The one order of the run does not show it. `Reverts` covers both directions.

`WithdrawnNeverRuns` and `CommittedAccountedFor` are in no run by themselves: they
are proved, and the refinements that the runs check contain them but for the record's
status.

Only model-checked: everything with fairness (`AgentResumes`, `AnswerHonoured`,
`FailureRolledBack`, `WriteRecorded`, `RecoversWhenUp`, `JobGoesOn`, `EverythingEnds`,
`NobodyWaitsForever`, `EveryMessageLeaves`, `RunSettles`, and the fairness of
`SafeRemediation` in `ImplementsSafeRemediation`), which is out of the prover's
reach. Every safety property of a passing run is stated by a theorem. `TasksCanGoOn` is as near to `RunSettles` as a proof without fairness comes: a task
at work is never left without a step it waits for. No module has a RECURSIVE
operator. The type invariants are proved and in no run.

## Where the code and its documentation part

Shown by a run, with the text quoted in `PROJECT.json` under `findings`: a
remediation that waits for approval cannot be found by the endpoint that approves
it; the hard denies and the rate limit of the policy deny nothing; a batch of
events that was not stored is covered by the commit of the next one.

Met while modelling, and not carried by a run. In the remediation agent, its
gates and the scheduler:

* `policy/approval/workflow.py:171`: one person can be both approvers of a critical
  action; `docs/architecture/safety-model.md:119` has two independent approvals.
* `agents/remediation/nodes.py:241` assesses `modify_iam_policy` in production as high
  when the LLM fails, where the baseline has critical. `BaselineGated` states that
  an approval is still asked for; the second one is not.
* `agents/remediation/graph.py:150` takes the snapshot one node before the write,
  so that another remediation of the resource may write in between.
* `utils/distributed_lock.py:244`: one failed renewal ends the renewal task but not
  the job, which then runs without exclusion; hence the name
  `ExclusiveWhileRenewed`.
* `policy/approval/workflow.py:170` records answers on requests that are decided;
  the docstring above it speaks of a pending request.
* `agents/remediation/nodes.py:330` goes on to the write when the snapshot failed;
  `docs/architecture/safety-model.md:67` has state captured before every write.
* `nodes.py:468` lets the LLM's verdict replace failed health checks;
  `docs/agents/remediation.md:70` has unhealthy resources trigger a rollback.
* `connectors/kubernetes/connector.py:215` reports a successful rollback and calls
  no API.
* `runner.py:368`: after a restart no remediation has a snapshot any more, so the
  rollback that `docs/agents/remediation.md:120` offers for any completed one is
  refused.
* `runner.py:268` audits a denied or unexecuted remediation as a success;
  `AuditHidesNoFailure` therefore speaks of executions that failed.
* `utils/resilience.py:139`: a cancelled probe never gives its slot back, and
  with all slots lost a half-open breaker refuses for ever. `SlotsAccounted`
  states exactly this loss, and `RecoversWhenUp` excludes it by name.
* `docs/architecture/policy-engine.md:55` has high and critical risks allowed in
  development and staging; the rule `allow` has no such clause. Its blast-radius
  limits and those of the rules (50, 20, 5) are not those of
  `policy/blast_radius.py` (10, 5, 3), which are the ones enforced.

In the task queue and the middleware:

* `workers/task_queue.py:141`: `cancel()` of a task that was dispatched and waits
  for the semaphore returns True; the task then runs and is reported completed.
  `Place`, the refinement of `WorkQueue`, therefore ends only tasks that are cancelled
  while they are still queued, and `WithdrawnNeverRuns` speaks of these.
* `task_queue.py:195`: the docstring of `stop()` has it wait for tasks in flight; it
  cancels them, and their records stay at RUNNING, which `NoneForgotten` excepts.
* `api/middleware/idempotency.py:141`: a duplicate of a call in flight finds a marker
  without a body and fails, where line 4 has the response returned; and the
  marker of 60 seconds expires under a longer call.

In the hub:

* `api/ws/core/hub.py:302`: the pill of the policy "disconnect" finds the queue as
  full as the event did and is dropped, so the slow client is not disconnected.
* `hub.py:226`: `detach()` waits for ever for a place in the queue of a drain task
  that has died with the queue full.
* `hub.py:133`: ids start again at 0 with the process, and a client's old id may
  name another event.

In the ingestion:

* `ingestion/kafka_producer.py:29` and `api/routes/ingestion.py:119` use the same key:
  with one Redis for both, every accepted event is dropped as its own duplicate.
  `DuplicateIsLogged` therefore asks for a Redis of the producer's own.
* `api/routes/ingestion.py:222`: the mark precedes the publication, whose failure
  nobody looks at, so the client's retry is answered as a duplicate.
* `ingestion/kafka_producer.py:207` swallows a failed dead letter, and the offset is
  committed; `ingestion/kafka_consumer.py:210` gives up a whole batch for one
  message that is JSON but no object; a redelivered message is stored under a
  new row id.

In the pipeline and its executor:

* `remediation/policy_gate.py:64` requires an approval of high and critical actions in
  production; no caller looks at it (`remediation/k8s_actions.py:121` logs it), so the
  pipeline's `rollback_deployment` goes out by its confidence alone.
* `k8s_actions.py:204` reports "rolled back" although `rollback.py:320` answered that
  nothing was restored; a snapshot that holds an error is restored as an empty
  patch, a pod's never, and a patch does not remove a field the write added.
* `remediation/rollback.py:194` catches the API's own errors only: another one ends
  `execute()` after its write without a result.
* `pipeline/orchestrator.py:218` announces an error for a run that is not awaiting
  approval; the status is not looked at. The status `awaiting_approval` is
  overwritten at once, and a run whose recommendations are pending is completed.
* `orchestrator.py:230`: an index out of range raises after the status was set, and
  the run says that it is remediating from then on; an empty list means all.
* `pipeline/recommender.py:107` pops `target_override` from the module's map: only the
  first DNS recommendation of a process goes to `coredns`.

In parts that are not modelled:

* `orchestration/supervisor.py:97` counts runs that were registered after they ended
  and are never removed: after ten, every alert is refused.
* `messaging/consumer.py:170` counts a retry that nothing performs, so a failed event
  is neither retried nor dead-lettered.
* `cache/multilevel_cache.py` promotes into L1 an L2 value it read before a delete.

## What is not modelled, and why

* Inside modelled parts: the freshness of a policy verdict after a long wait for
  approval (nothing promises it); the rows of the database, which only
  `GET` reads; the retries of `acquire()`, unused by its only caller; `add_job` and
  `remove_job` on a running scheduler, which the application does not do;
  `retry_with_backoff` of `utils/resilience.py`; connectors other than Kubernetes;
  the priorities of the task heap; the Redis bridge and buffer of the hub, and
  `trim()`; rebalances of the consumer group; the ten action handlers of the
  executor, each one step here; formatting, logging, tracing.
* The three-tier policy engine and the Slack gate (`policy/engine.py`,
  `policy/approval_gate.py`): stateless evaluations, and a wait like the approval
  workflow's.
* Supervisor, workflow engine and parallel executor: a run is registered when it
  is over, so there is no interleaving to check; what goes wrong is above.
* Syslog queue: a bounded drop-oldest queue as in the hub. Event bus and its
  consumers, multi-level cache: not started, or not reached, by the application.
* Agents other than the remediation agent, REST records, analytics, dashboard,
  SDK and deployment: computation, record keeping and I/O without protocol
  logic of their own. They are most of the repository's lines.

## What remains

1. A second process for the hub, with the Redis bridge and ids that outlive a
   process.
2. Consumer groups of the ingestion with rebalances.
3. Abstract specifications of the executor and of the hub's stream, and the lock
   by itself as `PolicyEngine_proofs` has the breaker.
