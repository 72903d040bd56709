----------------------------- MODULE WebsocketHub -----------------------------
(***************************************************************************)
(* The websocket hub of src/shieldops/api/ws/core/hub.py with the buffer   *)
(* of adapters/inmemory_buffer.py, on one channel: publish(), attach()     *)
(* with its replay, the drain task of every connection, detach(), and the  *)
(* drop policies.  Channels share nothing but the lock and the counter.    *)
(*                                                                         *)
(* publish() and attach() hold the hub's lock over an await of the buffer, *)
(* which may fail.  Connections go away and sends fail at any moment.  A   *)
(* client that comes back is a new connection, and attaches with the id of *)
(* any event this hub has published, or with none.                         *)
(***************************************************************************)
EXTENDS Naturals, Sequences

CONSTANTS
  Conns,       \* connections that may be made
  Policies,    \* the drop policies HubConfig may be built with
  QueueMax,    \* HubConfig.queue_max
  BufferMax,   \* max_per_channel of the buffer
  MaxEvents    \* bound of the model: calls of publish()

ASSUME HubAssumption ==
  /\ Policies \subseteq {"oldest", "newest", "disconnect"}
  /\ QueueMax \in Nat \ {0} /\ BufferMax \in Nat \ {0} /\ MaxEvents \in Nat
  /\ {"free", "publish"} \cap Conns = {}

VARIABLES
  policy,      \* HubConfig.drop_policy
  seq,         \* _next_seq
  lock,        \* who holds _lock: publish(), the attach() of a connection, nobody
  buffer,      \* ids of the retained events, a deque
  conn,        \* progress of attach() and detach() of a connection
  since,       \* the since_id it attached with, or, without one, the event
               \* published last before it was registered
  registered,  \* _subscriptions
  queue,       \* the bounded queue of each subscription
  drain,       \* where its drain task is
  sending,     \* the event the drain task took last
  open,        \* transport.is_open()
  sent,        \* ids sent, in order
  published,   \* history: ids that publish() returned
  lost         \* history: ids dropped on overflow or evicted before a replay

connVars == <<conn, since, registered, queue, drain, sending, open, sent, lost>>
vars == <<policy, seq, lock, buffer, published, connVars>>

Unknown == 0           \* an id this hub never published
None == MaxEvents + 1  \* no since_id: the client wants no replay
Pill == 0              \* the None that ends a drain task

HubTypeOK ==
  /\ policy \in Policies
  /\ seq \in 0 .. MaxEvents
  /\ lock \in Conns \cup {"free", "publish"}
  /\ buffer \in Seq(1 .. MaxEvents) /\ Len(buffer) <= BufferMax
  /\ conn \in [Conns -> {"new", "attaching", "attached", "refused",
                         "detaching", "pilled", "detached"}]
  /\ since \in [Conns -> 0 .. None]
  /\ registered \in SUBSET Conns
  /\ queue \in [Conns -> Seq(0 .. MaxEvents)]
  /\ \A c \in Conns : Len(queue[c]) <= QueueMax
  /\ drain \in [Conns -> {"none", "waiting", "sending", "ended"}]
  /\ sending \in [Conns -> 0 .. MaxEvents]
  /\ open \in [Conns -> BOOLEAN]
  /\ sent \in [Conns -> Seq(1 .. MaxEvents)]
  /\ published \in SUBSET (1 .. MaxEvents)
  /\ lost \in [Conns -> SUBSET (1 .. MaxEvents)]

HubInit ==
  /\ policy \in Policies
  /\ seq = 0 /\ lock = "free" /\ buffer = <<>> /\ published = {}
  /\ conn = [c \in Conns |-> "new"]
  /\ since = [c \in Conns |-> None]
  /\ registered = {}
  /\ queue = [c \in Conns |-> <<>>]
  /\ drain = [c \in Conns |-> "none"]
  /\ sending = [c \in Conns |-> 0]
  /\ open = [c \in Conns |-> TRUE]
  /\ sent = [c \in Conns |-> <<>>]
  /\ lost = [c \in Conns |-> {}]

-----------------------------------------------------------------------------

ToSet(s) == {s[i] : i \in DOMAIN s}

Full(q) == Len(q) = QueueMax

(* The last n elements of s. *)
Newest(s, n) == IF Len(s) <= n THEN s ELSE SubSeq(s, Len(s) - n + 1, Len(s))

Retained(id) == \E i \in DOMAIN buffer : buffer[i] = id

(* Mutant: the event of since_id is replayed too. *)
SinceInclusive(id) ==
  IF Retained(id)
  THEN LET i == CHOOSE i \in DOMAIN buffer : buffer[i] = id
       IN  SubSeq(buffer, i, Len(buffer))
  ELSE buffer

(* buffer.since(): what follows the event of this id, or, if the event is  *)
(* not retained any more, the whole window.                                *)
Since(id) ==
  IF Retained(id)
  THEN LET i == CHOOSE i \in DOMAIN buffer : buffer[i] = id
       IN  SubSeq(buffer, i + 1, Len(buffer))
  ELSE buffer

(* put_nowait(), or what the drop policy does with a full queue.  The pill *)
(* of "disconnect" finds the queue as full as the event did.               *)
Put(q, e) ==
  CASE ~Full(q) -> Append(q, e)
    [] Full(q) /\ policy = "oldest" -> Append(Tail(q), e)
    [] OTHER -> q

Dropped(q, e) ==
  CASE ~Full(q) -> {}
    [] Full(q) /\ policy = "oldest" -> {Head(q)}
    [] OTHER -> {e}

-----------------------------------------------------------------------------

(* Mutant: the event is put into the queues before it is retained. *)
PublishFanoutFirst ==
  /\ lock = "free" /\ seq < MaxEvents
  /\ lock' = "publish" /\ seq' = seq + 1
  /\ queue' = [c \in Conns |-> IF c \in registered THEN Put(queue[c], seq') ELSE queue[c]]
  /\ UNCHANGED <<policy, buffer, published, conn, since, registered, drain,
                 sending, open, sent, lost>>

(* publish() up to the await of buffer.append(). *)
Publish ==
  /\ lock = "free" /\ seq < MaxEvents
  /\ lock' = "publish" /\ seq' = seq + 1
  /\ UNCHANGED <<policy, buffer, published, connVars>>

(* The event is retained, and put into the queue of every subscriber. *)
Fanout ==
  /\ lock = "publish" /\ lock' = "free"
  /\ buffer' = Newest(Append(buffer, seq), BufferMax)
  /\ published' = published \cup {seq}
  /\ queue' = [c \in Conns |->
                 IF c \in registered THEN Put(queue[c], seq) ELSE queue[c]]
  /\ lost' = [c \in Conns |->
                IF c \in registered THEN lost[c] \cup Dropped(queue[c], seq) ELSE lost[c]]
  /\ UNCHANGED <<policy, seq, conn, since, registered, drain, sending, open, sent>>

(* append() raises out of publish(): the id is used up. *)
AppendFails ==
  /\ lock = "publish" /\ lock' = "free"
  /\ UNCHANGED <<policy, seq, buffer, published, connVars>>

(* The token is refused. *)
AuthFails(c) ==
  /\ conn[c] = "new"
  /\ conn' = [conn EXCEPT ![c] = "refused"]
  /\ open' = [open EXCEPT ![c] = FALSE]
  /\ UNCHANGED <<policy, seq, lock, buffer, published, since, registered, queue,
                 drain, sending, sent, lost>>

(* attach() is authenticated and puts the replay into the queue, of which  *)
(* the newest events stay ...                                              *)
Replay(c, id) ==
  LET replay == IF id = None THEN <<>> ELSE Since(id)
      kept == Newest(replay, QueueMax)
      evicted == {e \in published : id < e /\ ~Retained(e)}
  IN  /\ conn[c] = "new"
      /\ conn' = [conn EXCEPT ![c] = "attaching"]
      /\ since' = [since EXCEPT ![c] = id]
      /\ queue' = [queue EXCEPT ![c] = kept]
      /\ lost' = [lost EXCEPT ![c] = evicted \cup (ToSet(replay) \ ToSet(kept))]
      /\ UNCHANGED <<policy, seq, buffer, published, registered, drain, sending, open, sent>>

(* Mutant: without the lock. *)
AttachUnlocked(c, id) == Replay(c, id) /\ UNCHANGED lock

(* ... holding the lock ...                                                *)
Attach(c, id) == lock = "free" /\ lock' = c /\ Replay(c, id)

(* ... registers the connection, and starts its drain task ...             *)
Register(c) ==
  /\ conn[c] = "attaching" /\ lock' = "free"
  /\ since' = [since EXCEPT ![c] = IF @ = None THEN seq ELSE @]
  /\ registered' = registered \cup {c}
  /\ conn' = [conn EXCEPT ![c] = "attached"]
  /\ drain' = [drain EXCEPT ![c] = "waiting"]
  /\ UNCHANGED <<policy, seq, buffer, published, queue, sending, open, sent, lost>>

(* ... or raises, as buffer.since() did. *)
ReplayFails(c) ==
  /\ conn[c] = "attaching" /\ lock' = "free"
  /\ conn' = [conn EXCEPT ![c] = "refused"]
  /\ UNCHANGED <<policy, seq, buffer, published, since, registered, queue, drain,
                 sending, open, sent, lost>>

-----------------------------------------------------------------------------

Pop(c) == queue' = [queue EXCEPT ![c] = Tail(@)]

EndDrain(c) == drain' = [drain EXCEPT ![c] = "ended"]

(* The drain task takes an event of an open connection ... *)
Take(c) ==
  /\ drain[c] = "waiting" /\ queue[c] # <<>>
  /\ Head(queue[c]) # Pill /\ open[c]
  /\ Pop(c)
  /\ drain' = [drain EXCEPT ![c] = "sending"]
  /\ sending' = [sending EXCEPT ![c] = Head(queue[c])]
  /\ UNCHANGED <<policy, seq, lock, buffer, published, conn, since, registered,
                 open, sent, lost>>

(* ... or the pill, or anything of a closed one, and ends. *)
TakeLast(c) ==
  /\ drain[c] = "waiting" /\ queue[c] # <<>>
  /\ Head(queue[c]) = Pill \/ ~open[c]
  /\ Pop(c)
  /\ EndDrain(c)
  /\ UNCHANGED <<policy, seq, lock, buffer, published, conn, since, registered,
                 sending, open, sent, lost>>

Sent(c) ==
  /\ drain[c] = "sending"
  /\ drain' = [drain EXCEPT ![c] = "waiting"]
  /\ sent' = [sent EXCEPT ![c] = Append(@, sending[c])]
  /\ UNCHANGED <<policy, seq, lock, buffer, published, conn, since, registered, queue,
                 sending, open, lost>>

(* send() raises: the drain task ends, and the connection stays registered.*)
SendFails(c) ==
  /\ drain[c] = "sending"
  /\ EndDrain(c)
  /\ UNCHANGED <<policy, seq, lock, buffer, published, conn, since, registered, queue,
                 sending, open, sent, lost>>

(* The client goes away. *)
Disconnect(c) ==
  /\ open[c] /\ conn[c] \in {"attaching", "attached", "detaching", "pilled"}
  /\ open' = [open EXCEPT ![c] = FALSE]
  /\ UNCHANGED <<policy, seq, lock, buffer, published, conn, since, registered, queue,
                 drain, sending, sent, lost>>

-----------------------------------------------------------------------------

(* Mutant: a detach that waits for a place in the queue keeps the lock. *)
DetachLocked(c) ==
  /\ conn[c] = "attached" /\ lock = "free" /\ lock' = IF Full(queue[c]) THEN c ELSE lock
  /\ registered' = registered \ {c}
  /\ conn' = [conn EXCEPT ![c] = "detaching"]
  /\ UNCHANGED <<policy, seq, buffer, published, since, queue, drain, sending,
                 open, sent, lost>>

(* detach(): the connection is unregistered under the lock ... *)
Detach(c) ==
  /\ conn[c] = "attached" /\ lock = "free"
  /\ registered' = registered \ {c}
  /\ conn' = [conn EXCEPT ![c] = "detaching"]
  /\ UNCHANGED <<policy, seq, lock, buffer, published, since, queue, drain, sending,
                 open, sent, lost>>

(* ... its queue is given the pill as soon as there is a place ... *)
PutPill(c) ==
  /\ conn[c] = "detaching" /\ ~Full(queue[c])
  /\ queue' = [queue EXCEPT ![c] = Append(@, Pill)]
  /\ conn' = [conn EXCEPT ![c] = "pilled"]
  /\ UNCHANGED <<policy, seq, lock, buffer, published, since, registered, drain,
                 sending, open, sent, lost>>

(* ... and the end of the drain task is awaited. *)
Detached(c) ==
  /\ conn[c] = "pilled" /\ drain[c] = "ended"
  /\ conn' = [conn EXCEPT ![c] = "detached"]
  /\ open' = [open EXCEPT ![c] = FALSE]
  /\ UNCHANGED <<policy, seq, lock, buffer, published, since, registered, queue, drain,
                 sending, sent, lost>>

-----------------------------------------------------------------------------

Drain(c) == Take(c) \/ TakeLast(c) \/ Sent(c) \/ SendFails(c)

Detaching(c) == PutPill(c) \/ Detached(c)

Next ==
  \/ Publish \/ Fanout \/ AppendFails
  \/ \E c \in Conns :
       \/ \E id \in published \cup {Unknown, None} : Attach(c, id)
       \/ AuthFails(c) \/ Register(c) \/ ReplayFails(c)
       \/ Drain(c) \/ Disconnect(c) \/ Detach(c) \/ Detaching(c)

(* The buffer answers or raises, a send ends or raises, and the event loop *)
(* resumes whoever waits for them.  Nobody has to publish, attach or       *)
(* detach.                                                                 *)
HubSpec ==
  /\ HubInit /\ [][Next]_vars
  /\ WF_vars(Fanout \/ AppendFails)
  /\ \A c \in Conns :
       /\ WF_vars(Register(c) \/ ReplayFails(c))
       /\ WF_vars(Drain(c)) /\ WF_vars(Detaching(c))

-----------------------------------------------------------------------------

(* What a client has been sent, and what is on its way to it. *)
OnItsWay(c) ==
  ToSet(queue[c])
    \cup IF drain[c] = "sending" THEN {sending[c]} ELSE {}

SentTo(c) == ToSet(sent[c])

(* The stream of a client goes forward: it is sent each event once, in the *)
(* order of publication, and none up to the event it attached with.        *)
InOrder ==
  \A c \in Conns :
    /\ \A i, j \in DOMAIN sent[c] : i < j => sent[c][i] < sent[c][j]
    /\ \A i \in DOMAIN sent[c] : since[c] < sent[c][i]

(* Nothing falls between the replay and the live events: an event          *)
(* published after the one a connected client attached with was sent, is   *)
(* on its way, or was dropped or evicted.                                  *)
NoSilentGap ==
  \A c \in registered :
    drain[c] \in {"waiting", "sending"} =>
      \A e \in published :
        e > since[c] => e \in SentTo(c) \cup OnItsWay(c) \cup lost[c]

(* No event is sent without being retained for a replay, also when the     *)
(* buffer fails.                                                           *)
RetainedBeforeSent == \A c \in Conns : SentTo(c) \subseteq published

(* Slow or broken clients stall nobody: the lock is always given back.     *)
LockGivenBack == lock # "free" ~> lock = "free"

(* The one way in which a detach does not end: the drain task died of a    *)
(* failed send, and the queue has no place for the pill.                   *)
Stuck(c) == conn[c] = "detaching" /\ drain[c] = "ended" /\ Full(queue[c])

(* Detaching ends, but for that, whatever the connection does meanwhile.   *)
DetachEnds ==
  \A c \in Conns : conn[c] = "detaching" ~> (conn[c] = "detached" \/ Stuck(c))

(* Neither a slow nor a broken connection stops the hub or its own detach. *)
NobodyWaitsForever == LockGivenBack /\ DetachEnds
=============================================================================
