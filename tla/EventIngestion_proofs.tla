------------------------- MODULE EventIngestion_proofs -------------------------
(***************************************************************************)
(* Safety of module EventIngestion, for any number of requests, events and *)
(* crashes, any batch size and any failures.                               *)
(*                                                                         *)
(* The consumer and the requests share the log alone.  The requests only   *)
(* append to it, and the consumer only reads it, so each side has an       *)
(* invariant of its own that the steps of the other preserve.              *)
(***************************************************************************)
EXTENDS EventIngestion, TLAPS

USE IngestAssumption

-----------------------------------------------------------------------------
(* The two sides. *)

(* What a request, an expiry or a foreign client does to the rest.         *)
RequestStep ==
  \/ \E r \in Requests : Ingest(r)
  \/ \E ev \in Events : KeyExpires(ev)
  \/ \E m \in Foreign : ForeignMessage(m)

ConsumerStep == Consume \/ Crash \/ StartConsumer

(* Every step is one of the two sides. *)
LEMMA NextIsOneSide == ASSUME [Next]_vars
                       PROVE  RequestStep \/ ConsumerStep \/ UNCHANGED vars
  BY DEF Next, RequestStep, ConsumerStep

(* The requests append to the log and leave the consumer alone. *)
LEMMA RequestsAppend ==
  ASSUME RequestStep, log \in Seq(Events \cup Foreign)
  PROVE  /\ UNCHANGED consumerVars
         /\ \/ UNCHANGED log
            \/ \E m \in Events \cup Foreign : log' = Append(log, m)
<1>1. CASE \E r \in Requests : Ingest(r)
  <2> PICK r \in Requests : Ingest(r)
    BY <1>1
  <2>1. EventOf[r] \in Events
    OBVIOUS
  <2>2. CASE Send(r) \/ SendFails(r)
    BY <2>1, <2>2 DEF Send, SendFails
  <2>3. CASE ~(Send(r) \/ SendFails(r))
    BY <2>3 DEF Ingest, Throttle, Arrive, RouteCheck, RouteCheckFails, RouteMark,
         RouteMarkFails, Unavailable, ProducerCheck, ProducerCheckFails,
         ProducerMark, ProducerMarkFails
  <2> QED
    BY <2>2, <2>3
<1>2. CASE \E ev \in Events : KeyExpires(ev)
  BY <1>2 DEF KeyExpires
<1>3. CASE \E m \in Foreign : ForeignMessage(m)
  BY <1>3 DEF ForeignMessage
<1> QED
  BY <1>1, <1>2, <1>3 DEF RequestStep

(* The consumer leaves the requests and the log alone. *)
LEMMA ConsumerReads == ASSUME ConsumerStep
                       PROVE  UNCHANGED <<dedup, log, requestVars>>
  BY DEF ConsumerStep, Consume, Poll, Normalize, RouteDlq, LoopError, Processed,
     Insert, InsertFails, Commit, Crash, StartConsumer

-----------------------------------------------------------------------------
(* The consumer. *)

ConsumerTypeOK ==
  /\ phase \in {"down", "polling", "processing", "storing", "committing"}
  /\ position \in 0 .. Len(log) /\ committed \in 0 .. position
  /\ at \in 1 .. position + 1
  /\ records \in SUBSET Offsets
  /\ stored \in SUBSET Offsets /\ dead \in SUBSET Offsets
  /\ dlqLost \in SUBSET Offsets /\ skipped \in SUBSET Offsets
  /\ again \in SUBSET stored
  /\ crashes \in 0 .. MaxCrashes

(* What has been fetched is accounted for, or is in the batch: a record,   *)
(* or not processed yet.                                                   *)
BatchAccountedFor ==
  phase # "down" =>
    \A o \in 1 .. position :
      \/ o \in Accounted
      \/ phase \in {"processing", "storing"} /\ o \in records
      \/ phase = "processing" /\ at <= o

(* Without a crash the batch is behind everything that was stored. *)
BatchBehindStored ==
  /\ phase \in {"processing", "storing"} => \A o \in records : o <= position
  /\ crashes = 0 =>
       /\ again = {}
       /\ phase = "down" => stored = {}
       /\ \A o \in stored :
            /\ o <= position
            /\ phase \in {"processing", "storing"} => o \notin records
            /\ phase = "processing" => o < at

ConsumerInv ==
  /\ log \in Seq(Events \cup Foreign)
  /\ ConsumerTypeOK
  /\ CommittedAccountedFor
  /\ BatchAccountedFor
  /\ BatchBehindStored

LEMMA ConsumerInit == IngestInit => ConsumerInv
<1> SUFFICES ASSUME IngestInit PROVE ConsumerInv
  OBVIOUS
<1>1. log \in Seq(Events \cup Foreign) /\ Len(log) = 0
  BY DEF IngestInit
<1> QED
  BY <1>1 DEF IngestInit, ConsumerInv, ConsumerTypeOK, CommittedAccountedFor,
     BatchAccountedFor, BatchBehindStored, Accounted, Offsets

LEMMA ConsumerAppend ==
  ASSUME ConsumerInv, UNCHANGED consumerVars,
         UNCHANGED log \/ \E m \in Events \cup Foreign : log' = Append(log, m)
  PROVE  ConsumerInv'
<1>1. log' \in Seq(Events \cup Foreign) /\ Len(log) <= Len(log')
  BY DEF ConsumerInv
<1>2. Len(log) \in Nat /\ Len(log') \in Nat
  BY <1>1 DEF ConsumerInv
<1>3. ConsumerTypeOK'
  BY <1>1, <1>2 DEF ConsumerInv, ConsumerTypeOK, consumerVars, Offsets
<1>4. CommittedAccountedFor'
  BY DEF ConsumerInv, consumerVars, CommittedAccountedFor, Accounted
<1>5. BatchAccountedFor'
  BY DEF ConsumerInv, consumerVars, BatchAccountedFor, Accounted
<1>6. BatchBehindStored'
  BY DEF ConsumerInv, consumerVars, BatchBehindStored
<1> QED
  BY <1>1, <1>3, <1>4, <1>5, <1>6 DEF ConsumerInv

LEMMA ConsumerInductive ==
  ASSUME ConsumerInv, ConsumerStep
  PROVE  ConsumerInv'
<1> USE DEF ConsumerInv, ConsumerTypeOK, CommittedAccountedFor,
        BatchAccountedFor, BatchBehindStored, Accounted, Offsets
<1>0. Len(log) \in Nat
  OBVIOUS
<1>1. CASE Poll
  BY <1>0, <1>1 DEF Poll
<1>2. CASE Normalize
  BY <1>0, <1>2 DEF Normalize, Processes
<1>3. CASE RouteDlq
  <2>1. /\ phase = "processing" /\ at <= position /\ at' = at + 1
        /\ UNCHANGED <<log, phase, position, committed, records, stored, skipped,
                       again, crashes>>
        /\ \/ dead' = dead \cup {at} /\ UNCHANGED dlqLost
           \/ dlqLost' = dlqLost \cup {at} /\ UNCHANGED dead
    BY <1>3 DEF RouteDlq, Processes
  <2>2. Accounted' = Accounted \cup {at}
    BY <2>1
  <2>3. ConsumerTypeOK'
    <3>1. at \in 1 .. Len(log) /\ at \in Nat /\ position \in Nat
      BY <1>0, <2>1
    <3>2. dead' \in SUBSET Offsets /\ dlqLost' \in SUBSET Offsets
      BY <2>1, <3>1
    <3>3. at' \in 1 .. position + 1
      BY <2>1, <3>1
    <3> QED
      BY <2>1, <3>2, <3>3
  <2>4. CommittedAccountedFor'
    BY <1>0, <2>1, <2>2
  <2>5. BatchAccountedFor'
    BY <1>0, <2>1, <2>2
  <2>6. BatchBehindStored'
    BY <1>0, <2>1
  <2> QED
    BY <2>1, <2>3, <2>4, <2>5, <2>6
<1>4. CASE LoopError
  BY <1>0, <1>4 DEF LoopError, Processes
<1>5. CASE Processed
  BY <1>0, <1>5 DEF Processed
<1>6. CASE Insert
  BY <1>0, <1>6 DEF Insert, Stores
<1>7. CASE InsertFails
  <2> PICK last \in 0 .. position :
        LET rows == {o \in records : o <= last}
        IN  Stores(rows) /\ skipped' = skipped \cup (records \ rows)
    BY <1>7 DEF InsertFails
  <2> DEFINE rows == {o \in records : o <= last}
  <2>1. /\ phase = "storing" /\ phase' = "polling"
        /\ stored' = stored \cup rows /\ again' = again \cup (stored \cap rows)
        /\ skipped' = skipped \cup (records \ rows)
        /\ UNCHANGED <<log, position, committed, at, records, dead, dlqLost, crashes>>
    BY <1>7 DEF InsertFails, Stores
  <2>2. rows \subseteq records
    OBVIOUS
  <2> HIDE DEF rows
  <2>3. Accounted' = Accounted \cup records
    BY <2>1, <2>2
  <2>4. ConsumerTypeOK'
    BY <1>0, <2>1, <2>2
  <2>5. CommittedAccountedFor'
    BY <1>0, <2>1, <2>3
  <2>6. BatchAccountedFor'
    BY <1>0, <2>1, <2>3
  <2>7. BatchBehindStored'
    <3>1. crashes = 0 => stored \cap rows = {}
      BY <2>1, <2>2
    <3> QED
      BY <1>0, <2>1, <2>2, <3>1
  <2> QED
    BY <2>1, <2>4, <2>5, <2>6, <2>7
<1>8. CASE Commit
  BY <1>0, <1>8 DEF Commit
<1>9. CASE Crash
  <2>1. /\ phase' = "down" /\ crashes' = crashes + 1 /\ crashes < MaxCrashes
        /\ UNCHANGED <<log, position, committed, at, records, dead, dlqLost, skipped>>
    BY <1>9 DEF Crash
  <2>2. \/ stored' = stored \cup records /\ again' = again \cup (stored \cap records)
        \/ UNCHANGED <<stored, again>>
    BY <1>9 DEF Crash, Stores
  <2>3. crashes' \in 0 .. MaxCrashes /\ crashes' # 0
    BY <2>1
  <2>4. ConsumerTypeOK'
    BY <2>1, <2>2, <2>3
  <2>5. Accounted \subseteq Accounted'
    BY <2>1, <2>2
  <2>6. CommittedAccountedFor'
    BY <2>1, <2>5
  <2>7. BatchAccountedFor' /\ BatchBehindStored'
    BY <2>1, <2>3
  <2> QED
    BY <2>1, <2>4, <2>6, <2>7
<1>10. CASE StartConsumer
  BY <1>0, <1>10 DEF StartConsumer
<1> QED
  BY <1>1, <1>2, <1>3, <1>4, <1>5, <1>6, <1>7, <1>8, <1>9, <1>10
     DEF ConsumerStep, Consume

LEMMA ConsumerTheorem == IngestSpec => []ConsumerInv
<1>1. ConsumerInv /\ [Next]_vars => ConsumerInv'
  <2> SUFFICES ASSUME ConsumerInv, [Next]_vars PROVE ConsumerInv'
    OBVIOUS
  <2>1. CASE RequestStep
    <3>1. /\ UNCHANGED consumerVars
          /\ UNCHANGED log \/ \E m \in Events \cup Foreign : log' = Append(log, m)
      BY <2>1, RequestsAppend DEF ConsumerInv
    <3> QED
      BY <3>1, ConsumerAppend
  <2>2. CASE ConsumerStep
    BY <2>2, ConsumerInductive
  <2>3. CASE UNCHANGED vars
    <3>1. UNCHANGED consumerVars /\ UNCHANGED log
      BY <2>3 DEF vars
    <3> QED
      BY <3>1, ConsumerAppend
  <2> QED
    BY <2>1, <2>2, <2>3, NextIsOneSide
<1> QED
  BY <1>1, ConsumerInit, PTL DEF IngestSpec

(* Every message below the committed offset was stored, was sent to the    *)
(* dead letters or given up: CommittedAccountedFor of KafkaEventConsumer's *)
(* loop, with any number of crashes and any size of batches.               *)
THEOREM CommittedTheorem == IngestSpec => []CommittedAccountedFor
<1>1. ConsumerInv => CommittedAccountedFor
  BY DEF ConsumerInv
<1> QED
  BY <1>1, ConsumerTheorem, PTL

(* A step of the consumer takes nothing back, and commits only what is     *)
(* accounted for already.                                                  *)
LEMMA ConsumerHandles ==
  ASSUME ConsumerInv, ConsumerStep
  PROVE  /\ UNCHANGED log
         /\ \/ Accounted \subseteq Accounted' /\ UNCHANGED committed
            \/ /\ UNCHANGED Accounted
               /\ committed' \in committed .. Len(log) /\ 1 .. committed' \subseteq Accounted
<1>1. UNCHANGED log
  BY ConsumerReads
<1>2. CASE Poll \/ Normalize \/ RouteDlq \/ LoopError \/ Processed \/ StartConsumer
  BY <1>1, <1>2 DEF Poll, Normalize, RouteDlq, LoopError, Processed, StartConsumer, Accounted
<1>3. CASE Insert \/ InsertFails \/ Crash
  BY <1>1, <1>3 DEF Insert, InsertFails, Crash, Stores, Accounted
<1>4. CASE Commit
  <2>1. UNCHANGED Accounted /\ committed' \in {committed, position}
    BY <1>4 DEF Commit, Accounted
  <2>2. 1 .. position \subseteq Accounted
    BY <1>4 DEF Commit, ConsumerInv, BatchAccountedFor
  <2>3. position \in committed .. Len(log) /\ committed \in Nat /\ Len(log) \in Nat
    BY DEF ConsumerInv, ConsumerTypeOK
  <2> QED
    BY <1>1, <2>1, <2>2, <2>3
<1> QED
  BY <1>2, <1>3, <1>4 DEF ConsumerStep, Consume

(* ImplementsAtLeastOnce: whatever requests, clients, stores and crashes   *)
(* do, the log and the commits of the consumer are those of AtLeastOnce.   *)
THEOREM AtLeastOnceTheorem == IngestSpec => ImplementsAtLeastOnce
<1>1. IngestInit => Topic!Init
  BY DEF IngestInit, Topic!Init, Accounted
<1>2. ConsumerInv /\ ConsumerInv' /\ [Next]_vars => [Topic!Next]_(Topic!vars)
  <2> SUFFICES ASSUME ConsumerInv, ConsumerInv', [Next]_vars
               PROVE  [Topic!Next]_(Topic!vars)
    OBVIOUS
  <2>1. CASE RequestStep
    <3>1. UNCHANGED Accounted /\ UNCHANGED committed
      BY <2>1, RequestsAppend DEF ConsumerInv, consumerVars, Accounted
    <3>2. UNCHANGED log \/ \E m \in Events \cup Foreign : log' = Append(log, m)
      BY <2>1, RequestsAppend DEF ConsumerInv
    <3> QED
      BY <3>1, <3>2 DEF Topic!Next, Topic!Publish, Topic!vars
  <2>2. CASE ConsumerStep
    <3>1. Accounted' \in SUBSET (1 .. Len(log))
      BY <2>2, ConsumerReads DEF ConsumerInv, ConsumerTypeOK, Accounted, Offsets
    <3>2. CASE Accounted \subseteq Accounted' /\ UNCHANGED committed
      BY <2>2, <3>1, <3>2, ConsumerHandles DEF Topic!Next, Topic!Handle
    <3>3. CASE /\ UNCHANGED Accounted
               /\ committed' \in committed .. Len(log) /\ 1 .. committed' \subseteq Accounted
      BY <2>2, <3>3, ConsumerHandles DEF Topic!Next, Topic!Commit
    <3> QED
      BY <2>2, <3>2, <3>3, ConsumerHandles
  <2>3. CASE UNCHANGED vars
    BY <2>3 DEF vars, consumerVars, Accounted, Topic!vars
  <2> QED
    BY <2>1, <2>2, <2>3, NextIsOneSide
<1> QED
  BY <1>1, <1>2, ConsumerTheorem, PTL DEF IngestSpec, ImplementsAtLeastOnce, Topic!Spec

(* A consumer that does not crash stores no message twice, whatever        *)
(* inserts and commits do.                                                 *)
THEOREM StoredOnceTheorem == IngestSpec => []StoredOnce
<1>1. ConsumerInv => StoredOnce
  BY DEF ConsumerInv, BatchBehindStored, StoredOnce
<1> QED
  BY <1>1, ConsumerTheorem, PTL

-----------------------------------------------------------------------------
(* The requests. *)

Logged(ev) == \E o \in Offsets : log[o] = ev

Once(ev) == \A o, p \in Offsets : log[o] = ev /\ log[p] = ev => o = p

(* An appended message is logged, and nothing else becomes so. *)
LEMMA AppendLogged ==
  ASSUME NEW M, log \in Seq(M), NEW m \in M, log' = Append(log, m)
  PROVE  /\ \A ev : Logged(ev)' <=> Logged(ev) \/ ev = m
         /\ \A ev : Once(ev) /\ (ev = m => ~Logged(ev)) => Once(ev)'
<1>1. /\ Len(log) \in Nat /\ Len(log') = Len(log) + 1
      /\ log'[Len(log) + 1] = m
      /\ \A o \in 1 .. Len(log) : log'[o] = log[o]
  OBVIOUS
<1>2. Offsets' = Offsets \cup {Len(log) + 1}
  BY <1>1 DEF Offsets
<1>3. \A o \in Offsets : log'[o] = log[o]
  BY <1>1 DEF Offsets
<1>4. Len(log) + 1 \notin Offsets
  BY <1>1 DEF Offsets
<1> HIDE DEF Offsets
<1>5. \A ev : Logged(ev)' <=> Logged(ev) \/ ev = m
  BY <1>1, <1>2, <1>3 DEF Logged
<1>6. ASSUME NEW ev, Once(ev), ev = m => ~Logged(ev)
      PROVE  Once(ev)'
  BY <1>1, <1>2, <1>3, <1>4, <1>6 DEF Logged, Once
<1> QED
  BY <1>5, <1>6

Active == {r \in Requests : stage[r] \notin {"new", "done"}}

RequestTypeOK ==
  /\ dedup \in {"none", "own", "same"}
  /\ stage \in [Requests -> {"new", "checking", "marking", "offering", "sending",
                             "noting", "done"}]
  /\ answer \in [Requests -> {"none", "accepted", "duplicate", "throttled"}]
  /\ outcome \in [Requests -> {"none", "published", "duplicate", "failed"}]
  /\ routeSeen \in SUBSET Events /\ ownSeen \in SUBSET Events
  /\ disturbed \in SUBSET Events

(* Of an event that nothing disturbed there is one request at a time. *)
OneActive ==
  \A r, o \in Active :
    EventOf[r] = EventOf[o] /\ EventOf[r] \notin disturbed => r = o

(* It is marked before it can be logged ... *)
MarkedFirst ==
  \A ev \in Events \ disturbed : Logged(ev) => ev \in routeSeen

(* ... and the request that is about to send it found it unmarked. *)
NotYetLogged ==
  \A r \in Requests : EventOf[r] \notin disturbed =>
    /\ stage[r] \in {"marking", "offering", "sending"} => ~Logged(EventOf[r])
    /\ stage[r] \in {"offering", "sending"} => EventOf[r] \in routeSeen

(* The producer's own keys are of events that it sent. *)
OwnLogged ==
  dedup = "own" =>
    /\ \A ev \in ownSeen : Logged(ev)
    /\ \A r \in Requests :
         stage[r] = "noting" \/ outcome[r] = "duplicate" => Logged(EventOf[r])

RequestInv ==
  /\ RequestTypeOK
  /\ OneActive /\ MarkedFirst /\ NotYetLogged
  /\ \A ev \in Events \ disturbed : Once(ev)
  /\ OwnLogged

LEMMA RequestInit == IngestInit => RequestInv
<1> SUFFICES ASSUME IngestInit PROVE RequestInv
  OBVIOUS
<1>1. Offsets = {}
  BY DEF IngestInit, Offsets
<1> QED
  BY <1>1 DEF IngestInit, RequestInv, RequestTypeOK, OneActive, MarkedFirst,
     NotYetLogged, OwnLogged, Active, Logged, Once

(* The steps of one request that do not append to the log. *)
LEMMA QuietRequest ==
  ASSUME RequestInv, NEW r \in Requests, UNCHANGED log,
         \/ Throttle(r) \/ Arrive(r) \/ RouteCheck(r) \/ RouteCheckFails(r)
         \/ RouteMark(r) \/ RouteMarkFails(r) \/ Unavailable(r)
         \/ ProducerCheck(r) \/ ProducerCheckFails(r) \/ SendFails(r)
         \/ ProducerMark(r) \/ ProducerMarkFails(r)
  PROVE  RequestInv'
<1>1. EventOf[r] \in Events
  OBVIOUS
<1>2. (\A ev : Logged(ev)' <=> Logged(ev)) /\ (\A ev : Once(ev)' <=> Once(ev))
  BY DEF Logged, Once, Offsets
<1> USE DEF RequestInv, RequestTypeOK, OneActive, MarkedFirst, NotYetLogged,
        OwnLogged, Active, Goes, Accepted, Refused, Disturb
<1>3. CASE Throttle(r)
  BY <1>1, <1>2, <1>3 DEF Throttle
<1>4. CASE Arrive(r)
  BY <1>1, <1>2, <1>4 DEF Arrive
<1>5. CASE RouteCheck(r)
  BY <1>1, <1>2, <1>5 DEF RouteCheck
<1>6. CASE RouteCheckFails(r)
  BY <1>1, <1>2, <1>6 DEF RouteCheckFails
<1>7. CASE RouteMark(r)
  BY <1>1, <1>2, <1>7 DEF RouteMark
<1>8. CASE RouteMarkFails(r)
  BY <1>1, <1>2, <1>8 DEF RouteMarkFails
<1>9. CASE Unavailable(r)
  BY <1>1, <1>2, <1>9 DEF Unavailable
<1>10. CASE ProducerCheck(r)
  BY <1>1, <1>2, <1>10 DEF ProducerCheck, ProducerSeen
<1>11. CASE ProducerCheckFails(r)
  BY <1>1, <1>2, <1>11 DEF ProducerCheckFails
<1>12. CASE SendFails(r)
  BY <1>1, <1>2, <1>12 DEF SendFails
<1>13. CASE ProducerMark(r)
  BY <1>1, <1>2, <1>13 DEF ProducerMark
<1>14. CASE ProducerMarkFails(r)
  BY <1>1, <1>2, <1>14 DEF ProducerMarkFails
<1> QED
  BY <1>3, <1>4, <1>5, <1>6, <1>7, <1>8, <1>9, <1>10, <1>11, <1>12, <1>13, <1>14

(* The two that do. *)
LEMMA SendingRequest ==
  ASSUME RequestInv, log \in Seq(Events \cup Foreign), NEW r \in Requests,
         Send(r) \/ SendFails(r), log' = Append(log, EventOf[r])
  PROVE  RequestInv'
<1>1. EventOf[r] \in Events
  OBVIOUS
<1>2. /\ \A ev : Logged(ev)' <=> Logged(ev) \/ ev = EventOf[r]
      /\ \A ev : Once(ev) /\ (ev = EventOf[r] => ~Logged(ev)) => Once(ev)'
  <2>1. EventOf[r] \in Events \cup Foreign
    BY <1>1
  <2> QED
    BY <2>1, AppendLogged
<1>3. /\ stage[r] = "sending" /\ stage' = [stage EXCEPT ![r] = stage'[r]]
      /\ stage'[r] \in {"noting", "done"}
      /\ outcome' \in {outcome, [outcome EXCEPT ![r] = "failed"]}
      /\ answer' \in {answer, [answer EXCEPT ![r] = "accepted"]}
      /\ UNCHANGED <<dedup, routeSeen, ownSeen, disturbed>>
  BY DEF Send, SendFails, Goes, Accepted, RequestInv, RequestTypeOK
<1>4. RequestTypeOK'
  BY <1>3 DEF RequestInv, RequestTypeOK
<1>5. OneActive'
  BY <1>3 DEF RequestInv, RequestTypeOK, OneActive, Active
<1>6. MarkedFirst'
  BY <1>2, <1>3 DEF RequestInv, MarkedFirst, NotYetLogged
<1>7. NotYetLogged'
  BY <1>2, <1>3 DEF RequestInv, RequestTypeOK, NotYetLogged, OneActive, Active
<1>8. \A ev \in Events \ disturbed' : Once(ev)'
  BY <1>2, <1>3 DEF RequestInv, NotYetLogged
<1>9. OwnLogged'
  BY <1>2, <1>3 DEF RequestInv, RequestTypeOK, OwnLogged
<1> QED
  BY <1>4, <1>5, <1>6, <1>7, <1>8, <1>9 DEF RequestInv

LEMMA RequestInductive ==
  ASSUME RequestInv, log \in Seq(Events \cup Foreign), RequestStep
  PROVE  RequestInv'
<1>1. CASE \E r \in Requests : Ingest(r)
  <2> PICK r \in Requests : Ingest(r)
    BY <1>1
  <2>1. UNCHANGED log \/ ((Send(r) \/ SendFails(r)) /\ log' = Append(log, EventOf[r]))
    BY DEF Ingest, Throttle, Arrive, RouteCheck, RouteCheckFails, RouteMark,
       RouteMarkFails, Unavailable, ProducerCheck, ProducerCheckFails, Send,
       SendFails, ProducerMark, ProducerMarkFails
  <2>2. CASE UNCHANGED log /\ ~Send(r)
    BY <2>2, QuietRequest DEF Ingest
  <2>3. CASE (Send(r) \/ SendFails(r)) /\ log' = Append(log, EventOf[r])
    BY <2>3, SendingRequest
  <2> QED
    BY <2>1, <2>2, <2>3 DEF Send
<1>2. CASE \E ev \in Events : KeyExpires(ev)
  <2> PICK ev \in Events : KeyExpires(ev)
    BY <1>2
  <2>1. (\A e : Logged(e)' <=> Logged(e)) /\ (\A e : Once(e)' <=> Once(e))
    BY DEF KeyExpires, Logged, Once, Offsets
  <2> QED
    BY <2>1 DEF KeyExpires, Disturb, RequestInv, RequestTypeOK, OneActive,
       MarkedFirst, NotYetLogged, OwnLogged, Active
<1>3. CASE \E m \in Foreign : ForeignMessage(m)
  <2> PICK m \in Foreign : ForeignMessage(m)
    BY <1>3
  <2>1. m \in Events \cup Foreign /\ m \notin Events
    BY DEF Foreign
  <2>2. log' = Append(log, m) /\ UNCHANGED <<dedup, requestVars>>
    BY DEF ForeignMessage
  <2>3. /\ \A e \in Events : Logged(e)' <=> Logged(e)
        /\ \A e \in Events : Once(e) => Once(e)'
    BY <2>1, <2>2, AppendLogged
  <2> QED
    BY <2>2, <2>3 DEF requestVars, RequestInv, RequestTypeOK, OneActive,
       MarkedFirst, NotYetLogged, OwnLogged, Active
<1> QED
  BY <1>1, <1>2, <1>3 DEF RequestStep

LEMMA RequestTheorem == IngestSpec => []RequestInv
<1>1. RequestInv /\ ConsumerInv /\ [Next]_vars => RequestInv'
  <2> SUFFICES ASSUME RequestInv, ConsumerInv, [Next]_vars PROVE RequestInv'
    OBVIOUS
  <2>1. CASE RequestStep
    BY <2>1, RequestInductive DEF ConsumerInv
  <2>2. CASE UNCHANGED <<dedup, log, requestVars>>
    BY <2>2 DEF requestVars, RequestInv, RequestTypeOK, OneActive, MarkedFirst,
       NotYetLogged, OwnLogged, Active, Logged, Once, Offsets
  <2> QED
    BY <2>1, <2>2, NextIsOneSide, ConsumerReads DEF vars
<1> QED
  BY <1>1, RequestInit, ConsumerTheorem, PTL DEF IngestSpec

(* Every variable keeps its type: the offsets of the consumer stay inside  *)
(* the log, and the committed one never passes the position.               *)
THEOREM IngestTypeTheorem == IngestSpec => []IngestTypeOK
<1>1. ConsumerInv /\ RequestInv => IngestTypeOK
  BY DEF ConsumerInv, ConsumerTypeOK, RequestInv, RequestTypeOK, IngestTypeOK
<1> QED
  BY <1>1, ConsumerTheorem, RequestTheorem, PTL

(* The producer refuses as a duplicate only what is on the topic, if the   *)
(* route does not write to its Redis: publish() marks after the send.      *)
THEOREM DuplicateTheorem == IngestSpec => []DuplicateIsLogged
<1>1. RequestInv => DuplicateIsLogged
  BY DEF RequestInv, OwnLogged, DuplicateIsLogged, Logged
<1> QED
  BY <1>1, RequestTheorem, PTL

(* However often the clients retry, and whatever the broker does, an event *)
(* whose keys nothing disturbed is on the topic once at most.              *)
THEOREM LoggedOnceTheorem == IngestSpec => []LoggedOnce
<1>1. RequestInv => LoggedOnce
  BY DEF RequestInv, Once, LoggedOnce
<1> QED
  BY <1>1, RequestTheorem, PTL
=============================================================================
