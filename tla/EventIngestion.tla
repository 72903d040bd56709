---------------------------- MODULE EventIngestion ----------------------------
(***************************************************************************)
(* The way of an event from POST /ingestion/events to the event store:     *)
(* the route (api/routes/ingestion.py), KafkaEventProducer.publish() and   *)
(* publish_dlq() (ingestion/kafka_producer.py) and the loop of             *)
(* KafkaEventConsumer (ingestion/kafka_consumer.py), over one partition of *)
(* the topic ingest.raw.                                                   *)
(*                                                                         *)
(* Every call of Redis, of the broker and of the store may raise, before   *)
(* or after it took effect.  The consumer may be stopped or crash between  *)
(* any two awaits, and then starts again at the committed offset.          *)
(***************************************************************************)
EXTENDS Naturals, FiniteSets, Sequences

CONSTANTS
  Requests,    \* requests of POST /ingestion/events, of one event each
  Events,      \* event ids
  EventOf,     \* the event of each request
  MaxBatch,    \* batch_size
  Threshold,   \* _BACKPRESSURE_THRESHOLD
  MaxForeign,  \* bound of the model: messages of other clients of the broker
  MaxCrashes   \* bound of the model: crashes of the consumer

ASSUME IngestAssumption ==
  /\ IsFiniteSet(Requests)
  /\ EventOf \in [Requests -> Events]
  /\ {"garbage", "scalar"} \cap Events = {}
  /\ MaxBatch \in Nat \ {0} /\ Threshold \in Nat
  /\ MaxForeign \in Nat /\ MaxCrashes \in Nat

VARIABLES
  dedup,      \* the producer's Redis: none, its own, or the same as the route's
  stage,      \* where a request is suspended
  answer,     \* the status the client is told
  outcome,    \* what became of publish(); the route does not look at it
  routeSeen,  \* keys ingest_seen:<event_id> in the route's Redis ...
  ownSeen,    \* ... and in a Redis of the producer's own
  log,        \* the messages of the partition
  phase,      \* where the consumer loop is
  position,   \* offset up to which getmany() has fetched
  committed,  \* offset committed to the broker
  at,         \* offset of the batch that is processed next
  records,    \* offsets of the batch that became records
  stored,     \* offsets inserted into the event store
  dead,       \* offsets sent to ingest.dlq
  dlqLost,    \* history: offsets that publish_dlq() failed to send
  skipped,    \* history: offsets of batches that the loop gave up
  again,      \* history: offsets inserted more than once
  disturbed,  \* history: events with overlapping requests, or whose keys in
              \* Redis expired, or were not read or written
  crashes

requestVars == <<stage, answer, outcome, routeSeen, ownSeen, disturbed>>
consumerVars == <<phase, position, committed, at, records, stored, dead,
                  dlqLost, skipped, again, crashes>>
vars == <<dedup, log, requestVars, consumerVars>>

(* Bytes that are not JSON, and JSON that is not an object. *)
Foreign == {"garbage", "scalar"}

Offsets == 1 .. Len(log)

IngestTypeOK ==
  /\ dedup \in {"none", "own", "same"}
  /\ stage \in [Requests -> {"new", "checking", "marking", "offering", "sending",
                             "noting", "done"}]
  /\ answer \in [Requests -> {"none", "accepted", "duplicate", "throttled"}]
  /\ outcome \in [Requests -> {"none", "published", "duplicate", "failed"}]
  /\ routeSeen \in SUBSET Events /\ ownSeen \in SUBSET Events
  /\ disturbed \in SUBSET Events
  /\ log \in Seq(Events \cup Foreign)
  /\ phase \in {"down", "polling", "processing", "storing", "committing"}
  /\ position \in 0 .. Len(log) /\ committed \in 0 .. position
  /\ at \in 1 .. position + 1
  /\ records \in SUBSET Offsets
  /\ stored \in SUBSET Offsets /\ dead \in SUBSET Offsets
  /\ dlqLost \in SUBSET Offsets /\ skipped \in SUBSET Offsets
  /\ again \in SUBSET stored
  /\ crashes \in 0 .. MaxCrashes

IngestInit ==
  /\ dedup \in {"none", "own", "same"}
  /\ stage = [r \in Requests |-> "new"]
  /\ answer = [r \in Requests |-> "none"]
  /\ outcome = [r \in Requests |-> "none"]
  /\ routeSeen = {} /\ ownSeen = {} /\ disturbed = {}
  /\ log = <<>>
  /\ phase = "down" /\ position = 0 /\ committed = 0 /\ at = 1
  /\ records = {} /\ stored = {} /\ dead = {}
  /\ dlqLost = {} /\ skipped = {} /\ again = {}
  /\ crashes = 0

-----------------------------------------------------------------------------
(* The route and the producer. *)

Goes(r, to) == stage' = [stage EXCEPT ![r] = to]

(* The producer is done with the request, and the route accepts it. *)
Accepted(r, how) ==
  /\ Goes(r, "done")
  /\ answer' = [answer EXCEPT ![r] = "accepted"]
  /\ outcome' = [outcome EXCEPT ![r] = how]

Refused(r, a) ==
  /\ Goes(r, "done")
  /\ answer' = [answer EXCEPT ![r] = a]
  /\ UNCHANGED outcome

Disturb(ev) == disturbed' = disturbed \cup {ev}

(* lag() of a running consumer; 0 without one. *)
Lag == IF phase = "down" THEN 0 ELSE Len(log) - committed

Throttle(r) ==
  /\ stage[r] = "new" /\ Lag > Threshold
  /\ Refused(r, "throttled")
  /\ UNCHANGED <<dedup, log, routeSeen, ownSeen, disturbed, consumerVars>>

(* Whatever the lag: where the consumer fails to compute it, or the route   *)
(* fails to ask, the request is let through.                               *)
Arrive(r) ==
  /\ stage[r] = "new"
  /\ Goes(r, "checking")
  /\ IF \E o \in Requests :
          EventOf[o] = EventOf[r] /\ stage[o] \notin {"new", "done"}
     THEN Disturb(EventOf[r]) ELSE UNCHANGED disturbed
  /\ UNCHANGED <<dedup, log, answer, outcome, routeSeen, ownSeen, consumerVars>>

(* _is_duplicate_v2() of the route. *)
RouteCheck(r) ==
  /\ stage[r] = "checking"
  /\ IF EventOf[r] \in routeSeen THEN Refused(r, "duplicate")
                                 ELSE Goes(r, "marking") /\ UNCHANGED <<answer, outcome>>
  /\ UNCHANGED <<dedup, log, routeSeen, ownSeen, disturbed, consumerVars>>

(* It fails open. *)
RouteCheckFails(r) ==
  /\ stage[r] = "checking"
  /\ Goes(r, "marking")
  /\ Disturb(EventOf[r])
  /\ UNCHANGED <<dedup, log, answer, outcome, routeSeen, ownSeen, consumerVars>>

(* Mutant: the event is not marked. *)
RouteUnmarked(r) ==
  /\ stage[r] = "marking"
  /\ Goes(r, "offering")
  /\ UNCHANGED <<dedup, log, answer, outcome, routeSeen, ownSeen, disturbed, consumerVars>>

(* _mark_ingested(), before the event is published. *)
RouteMark(r) ==
  /\ stage[r] = "marking"
  /\ Goes(r, "offering")
  /\ routeSeen' = routeSeen \cup {EventOf[r]}
  /\ UNCHANGED <<dedup, log, answer, outcome, ownSeen, disturbed, consumerVars>>

RouteMarkFails(r) ==
  /\ stage[r] = "marking"
  /\ Goes(r, "offering")
  /\ Disturb(EventOf[r])
  /\ UNCHANGED <<dedup, log, answer, outcome, routeSeen, ownSeen, consumerVars>>

ProducerSeen == CASE dedup = "none" -> {}
                  [] dedup = "own" -> ownSeen
                  [] dedup = "same" -> routeSeen

(* _is_duplicate() of the producer looks for the key that the route set:   *)
(* in one Redis it finds it, and the event goes nowhere.                   *)
ProducerCheck(r) ==
  /\ stage[r] = "offering"
  /\ IF EventOf[r] \in ProducerSeen
     THEN Accepted(r, "duplicate")
     ELSE Goes(r, "sending") /\ UNCHANGED <<answer, outcome>>
  /\ UNCHANGED <<dedup, log, routeSeen, ownSeen, disturbed, consumerVars>>

ProducerCheckFails(r) ==
  /\ stage[r] = "offering" /\ dedup # "none"
  /\ Goes(r, "sending")
  /\ Disturb(EventOf[r])
  /\ UNCHANGED <<dedup, log, answer, outcome, routeSeen, ownSeen, consumerVars>>

(* Mutant: the key is set before the event is sent. *)
MarkThenSend(r) ==
  /\ stage[r] = "sending"
  /\ Goes(r, "noting")
  /\ ownSeen' = IF dedup = "own" THEN ownSeen \cup {EventOf[r]} ELSE ownSeen
  /\ UNCHANGED <<dedup, log, answer, outcome, routeSeen, disturbed, consumerVars>>

(* send_and_wait() returns. *)
Send(r) ==
  /\ stage[r] = "sending"
  /\ log' = Append(log, EventOf[r])
  /\ Goes(r, "noting")
  /\ UNCHANGED <<dedup, answer, outcome, routeSeen, ownSeen, disturbed, consumerVars>>

(* It raises, before or after the broker appended the message. *)
SendFails(r) ==
  /\ stage[r] = "sending"
  /\ log' \in {log, Append(log, EventOf[r])}
  /\ Accepted(r, "failed")
  /\ UNCHANGED <<dedup, routeSeen, ownSeen, disturbed, consumerVars>>

(* publish() of a producer that is not available. *)
Unavailable(r) ==
  /\ stage[r] = "offering"
  /\ Accepted(r, "failed")
  /\ UNCHANGED <<dedup, log, routeSeen, ownSeen, disturbed, consumerVars>>

(* _mark_seen(). *)
ProducerMark(r) ==
  /\ stage[r] = "noting"
  /\ Accepted(r, "published")
  /\ routeSeen' = IF dedup = "same" THEN routeSeen \cup {EventOf[r]} ELSE routeSeen
  /\ ownSeen' = IF dedup = "own" THEN ownSeen \cup {EventOf[r]} ELSE ownSeen
  /\ UNCHANGED <<dedup, log, disturbed, consumerVars>>

ProducerMarkFails(r) ==
  /\ stage[r] = "noting"
  /\ Accepted(r, "published")
  /\ Disturb(EventOf[r])
  /\ UNCHANGED <<dedup, log, routeSeen, ownSeen, consumerVars>>

(* A day has passed. *)
KeyExpires(ev) ==
  /\ ev \in routeSeen \cup ownSeen
  /\ routeSeen' \in {routeSeen, routeSeen \ {ev}}
  /\ ownSeen' \in {ownSeen, ownSeen \ {ev}}
  /\ Disturb(ev)
  /\ UNCHANGED <<dedup, log, stage, answer, outcome, consumerVars>>

(* Another client of the broker writes to the topic. *)
ForeignMessage(m) ==
  /\ Cardinality({o \in Offsets : log[o] \in Foreign}) < MaxForeign
  /\ log' = Append(log, m)
  /\ UNCHANGED <<dedup, requestVars, consumerVars>>

-----------------------------------------------------------------------------
(* The consumer. *)

(* Mutant: each batch begins with the last message of the one before. *)
PollOverlaps ==
  /\ phase = "polling"
  /\ \E n \in 1 .. MaxBatch :
       position + n <= Len(log) /\ position' = position + n
  /\ at' = IF position = 0 THEN 1 ELSE position
  /\ records' = {}
  /\ phase' = "processing"
  /\ UNCHANGED <<dedup, log, requestVars, committed, stored, dead, dlqLost,
                 skipped, again, crashes>>

(* getmany() moves the position. *)
Poll ==
  /\ phase = "polling"
  /\ \E n \in 1 .. MaxBatch :
       position + n <= Len(log) /\ position' = position + n
  /\ at' = position + 1
  /\ records' = {}
  /\ phase' = "processing"
  /\ UNCHANGED <<dedup, log, requestVars, committed, stored, dead, dlqLost,
                 skipped, again, crashes>>

Processes(m) == phase = "processing" /\ at <= position /\ log[at] = m

(* An event becomes a record. *)
Normalize ==
  /\ \E ev \in Events : Processes(ev)
  /\ records' = records \cup {at}
  /\ at' = at + 1
  /\ UNCHANGED <<dedup, log, requestVars, phase, position, committed, stored,
                 dead, dlqLost, skipped, again, crashes>>

(* _route_dlq(): publish_dlq() fails without a word. *)
RouteDlq ==
  /\ Processes("garbage")
  /\ \/ dead' = dead \cup {at} /\ UNCHANGED dlqLost
     \/ dlqLost' = dlqLost \cup {at} /\ UNCHANGED dead
  /\ at' = at + 1
  /\ UNCHANGED <<dedup, log, requestVars, phase, position, committed, records,
                 stored, skipped, again, crashes>>

(* Mutant: after an error the position is set back to what was committed. *)
LoopErrorRewinds ==
  /\ Processes("scalar")
  /\ phase' = "polling"
  /\ position' = committed /\ at' = committed + 1 /\ records' = {}
  /\ UNCHANGED <<dedup, log, requestVars, committed, stored, dead, dlqLost,
                 skipped, again, crashes>>

(* A message that is no object raises out of _process_message(), and the   *)
(* loop goes on behind the batch.                                          *)
LoopError ==
  /\ Processes("scalar")
  /\ phase' = "polling"
  /\ skipped' = skipped \cup records \cup at .. position
  /\ UNCHANGED <<dedup, log, requestVars, position, committed, at, records, stored,
                 dead, dlqLost, again, crashes>>

(* Mutant: the offsets are committed before the records are inserted. *)
CommitThenStore ==
  /\ phase = "processing" /\ at > position
  /\ committed' = position
  /\ phase' = IF records = {} THEN "committing" ELSE "storing"
  /\ UNCHANGED <<dedup, log, requestVars, position, at, records, stored,
                 dead, dlqLost, skipped, again, crashes>>

Processed ==
  /\ phase = "processing" /\ at > position
  /\ phase' = IF records = {} THEN "committing" ELSE "storing"
  /\ UNCHANGED <<dedup, log, requestVars, position, committed, at, records, stored,
                 dead, dlqLost, skipped, again, crashes>>

Stores(rows) ==
  /\ stored' = stored \cup rows
  /\ again' = again \cup (stored \cap rows)

(* insert_events(): each record has an id of its own, so the store does    *)
(* not know a message that it has seen before.                             *)
Insert ==
  /\ phase = "storing"
  /\ Stores(records)
  /\ phase' = "committing"
  /\ UNCHANGED <<dedup, log, requestVars, position, committed, at, records, dead,
                 dlqLost, skipped, crashes>>

(* It raises, maybe behind some rows: nothing is committed, and nothing    *)
(* sets the position back.                                                 *)
InsertFails ==
  /\ phase = "storing"
  /\ \E last \in 0 .. position :
       LET rows == {o \in records : o <= last}
       IN  Stores(rows) /\ skipped' = skipped \cup (records \ rows)
  /\ phase' = "polling"
  /\ UNCHANGED <<dedup, log, requestVars, position, committed, at, records, dead,
                 dlqLost, crashes>>

(* commit() of the position; it may raise, before or after it took effect. *)
Commit ==
  /\ phase = "committing"
  /\ committed' \in {committed, position}
  /\ at' = position + 1
  /\ phase' = "polling"
  /\ UNCHANGED <<dedup, log, requestVars, position, records, stored, dead,
                 dlqLost, skipped, again, crashes>>

(* The process ends, or stop() is called.  The thread that inserts may get *)
(* to its end all the same.                                                *)
Crash ==
  /\ phase # "down" /\ crashes < MaxCrashes
  /\ IF phase = "storing" THEN Stores(records) \/ UNCHANGED <<stored, again>>
                          ELSE UNCHANGED <<stored, again>>
  /\ phase' = "down" /\ crashes' = crashes + 1
  /\ UNCHANGED <<dedup, log, requestVars, position, committed, at, records, dead,
                 dlqLost, skipped>>

(* start(): the group continues at its committed offset. *)
StartConsumer ==
  /\ phase = "down"
  /\ phase' = "polling"
  /\ position' = committed /\ at' = committed + 1 /\ records' = {}
  /\ UNCHANGED <<dedup, log, requestVars, committed, stored, dead, dlqLost,
                 skipped, again, crashes>>

-----------------------------------------------------------------------------

Ingest(r) ==
  \/ Throttle(r) \/ Arrive(r)
  \/ RouteCheck(r) \/ RouteCheckFails(r) \/ RouteMark(r) \/ RouteMarkFails(r)
  \/ Unavailable(r) \/ ProducerCheck(r) \/ ProducerCheckFails(r)
  \/ Send(r) \/ SendFails(r) \/ ProducerMark(r) \/ ProducerMarkFails(r)

Consume ==
  \/ Poll \/ Normalize \/ RouteDlq \/ LoopError \/ Processed
  \/ Insert \/ InsertFails \/ Commit

Next ==
  \/ \E r \in Requests : Ingest(r)
  \/ \E ev \in Events : KeyExpires(ev)
  \/ \E m \in Foreign : ForeignMessage(m)
  \/ Consume \/ Crash \/ StartConsumer

(* The loop of the consumer runs, its calls return or raise, and a         *)
(* consumer that is down is started again.                                 *)
IngestSpec ==
  /\ IngestInit /\ [][Next]_vars
  /\ WF_vars(Consume) /\ WF_vars(StartConsumer)

-----------------------------------------------------------------------------

(* What became of a message: a row, a dead letter, or it was given up. *)
Accounted == stored \cup dead \cup dlqLost \cup skipped

(* Whatever crashes, raises or is delivered again: a message below the     *)
(* committed offset, which nobody will fetch any more, was stored or sent  *)
(* to the dead letters, or is one of those that the loop gave up before    *)
(* the commit.                                                             *)
CommittedAccountedFor == \A o \in 1 .. committed : o \in Accounted

(* The loop of the consumer, with its batches, failed calls and crashes,    *)
(* implements the promise of a consumer that commits by itself: nothing     *)
(* takes a commit back, and what it passes was accounted for before it.     *)
Topic == INSTANCE AtLeastOnce WITH Messages <- Events \cup Foreign,
                                   handled <- Accounted

ImplementsAtLeastOnce == Topic!Spec

(* As long as the consumer does not crash no message is stored twice,      *)
(* whatever the store, the broker and the commits do.                      *)
StoredOnce == crashes = 0 => again = {}

(* A producer with a Redis of its own never refuses an event that is not   *)
(* on the topic.                                                           *)
DuplicateIsLogged ==
  \A r \in Requests :
    (dedup = "own" /\ outcome[r] = "duplicate") => \E o \in Offsets : log[o] = EventOf[r]

(* Retries do not repeat an event: it is on the topic at most once, unless *)
(* its requests overlapped (the check and the mark are two calls) or its   *)
(* key expired or Redis did not answer.                                    *)
LoggedOnce ==
  \A ev \in Events \ disturbed : \A o, p \in Offsets : log[o] = ev /\ log[p] = ev => o = p

(* No poison pill: every message that is on the topic leaves the consumer  *)
(* again, as a row, as a dead letter or as one of a batch that was given   *)
(* up.                                                                     *)
EveryMessageLeaves ==
  \A o \in 1 .. Cardinality(Requests) + MaxForeign :
    (o \in Offsets) ~> (o \in Accounted)

(* kafka_consumer.py: "Commits offsets only after a successful batch       *)
(* insert."  The commit of the next batch covers a batch that failed.      *)
CommittedOnlyStored ==
  \A o \in 1 .. committed : log[o] \in Events => o \in stored
=============================================================================
