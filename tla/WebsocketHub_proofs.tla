-------------------------- MODULE WebsocketHub_proofs --------------------------
(***************************************************************************)
(* Safety of module WebsocketHub, for any number of connections, any sizes *)
(* of the queue and of the buffer, and any drop policy.                    *)
(*                                                                         *)
(* The argument follows the events of one connection: what it was sent,    *)
(* what its drain task holds and what is queued is an increasing sequence  *)
(* of published events behind the one it attached with.                    *)
(***************************************************************************)
EXTENDS WebsocketHub, TLAPS

USE HubAssumption DEF Pill, None

-----------------------------------------------------------------------------
(* Increasing sequences of ids, among which there may be a pill. *)

Ordered(q) ==
  \A i, j \in DOMAIN q : i < j /\ q[i] # Pill /\ q[j] # Pill => q[i] < q[j]

Ids == 0 .. MaxEvents

LEMMA OrderedAppend ==
  ASSUME NEW q \in Seq(Ids), NEW e \in Ids, Ordered(q),
         e = Pill \/ \A x \in ToSet(q) : x < e
  PROVE  /\ Append(q, e) \in Seq(Ids) /\ Len(Append(q, e)) = Len(q) + 1
         /\ ToSet(Append(q, e)) = ToSet(q) \cup {e}
         /\ Ordered(Append(q, e))
<1> DEFINE r == Append(q, e)
<1>1. /\ Len(q) \in Nat /\ DOMAIN q = 1 .. Len(q) /\ DOMAIN r = 1 .. Len(q) + 1
      /\ r[Len(q) + 1] = e /\ \A i \in 1 .. Len(q) : r[i] = q[i]
      /\ r \in Seq(Ids) /\ Len(r) = Len(q) + 1
  OBVIOUS
<1> HIDE DEF r
<1>2. DOMAIN r = DOMAIN q \cup {Len(q) + 1}
  BY <1>1
<1>3. ToSet(r) = ToSet(q) \cup {e}
  BY <1>1, <1>2 DEF ToSet
<1>4. ASSUME NEW i \in DOMAIN r, NEW j \in DOMAIN r, i < j, r[i] # Pill, r[j] # Pill
      PROVE  r[i] < r[j]
  <2>1. i \in DOMAIN q /\ i \in 1 .. Len(q) /\ r[i] = q[i] /\ q[i] \in ToSet(q)
    BY <1>1, <1>4 DEF ToSet
  <2>2. CASE j \in 1 .. Len(q)
    BY <1>1, <1>4, <2>1, <2>2 DEF Ordered
  <2>3. CASE j = Len(q) + 1
    BY <1>1, <1>4, <2>1, <2>3
  <2> QED
    BY <1>1, <2>2, <2>3
<1> QED
  BY <1>1, <1>3, <1>4 DEF r, Ordered

LEMMA OrderedTail ==
  ASSUME NEW q \in Seq(Ids), Ordered(q), q # <<>>
  PROVE  /\ Tail(q) \in Seq(Ids) /\ Len(Tail(q)) = Len(q) - 1
         /\ Head(q) \in Ids /\ ToSet(q) = ToSet(Tail(q)) \cup {Head(q)}
         /\ Ordered(Tail(q))
         /\ Head(q) # Pill => \A y \in ToSet(Tail(q)) \ {Pill} : Head(q) < y
<1> DEFINE r == Tail(q)
<1>1. /\ Len(q) \in Nat /\ Len(q) > 0 /\ DOMAIN q = 1 .. Len(q)
      /\ DOMAIN r = 1 .. Len(q) - 1
      /\ Head(q) = q[1] /\ q[1] \in Ids /\ r \in Seq(Ids) /\ Len(r) = Len(q) - 1
      /\ \A i \in 1 .. Len(q) - 1 : r[i] = q[i + 1]
  OBVIOUS
<1> HIDE DEF r
<1>2. \A i \in DOMAIN r :
        i + 1 \in DOMAIN q /\ r[i] = q[i + 1] /\ 1 < i + 1 /\ i \in Nat
  BY <1>1
<1>3. 1 \in DOMAIN q
  BY <1>1
<1>4. ToSet(q) = ToSet(r) \cup {q[1]}
  <2>1. ToSet(r) \cup {q[1]} \subseteq ToSet(q)
    BY <1>2, <1>3 DEF ToSet
  <2>2. ASSUME NEW i \in DOMAIN q, i # 1 PROVE q[i] \in ToSet(r)
    <3>1. i - 1 \in 1 .. Len(q) - 1 /\ (i - 1) + 1 = i
      BY <1>1, <2>2
    <3> QED
      BY <1>1, <3>1 DEF ToSet
  <2> QED
    BY <2>1, <2>2 DEF ToSet
<1>5. Ordered(r)
  <2> SUFFICES ASSUME NEW i \in DOMAIN r, NEW j \in DOMAIN r, i < j,
                      r[i] # Pill, r[j] # Pill
               PROVE  r[i] < r[j]
    BY DEF Ordered
  <2>1. i + 1 < j + 1
    BY <1>2
  <2> QED
    BY <1>2, <2>1 DEF Ordered
<1>6. q[1] # Pill => \A y \in ToSet(r) \ {Pill} : q[1] < y
  BY <1>2, <1>3 DEF Ordered, ToSet
<1> QED
  BY <1>1, <1>4, <1>5, <1>6 DEF r

(* Cutting off the front of an increasing sequence without a pill. *)
LEMMA OrderedSuffix ==
  ASSUME NEW q \in Seq(1 .. MaxEvents), Ordered(q), NEW k \in 1 .. Len(q) + 1
  PROVE  LET r == SubSeq(q, k, Len(q))
         IN  /\ r \in Seq(1 .. MaxEvents) /\ Len(r) = Len(q) - k + 1
             /\ Ordered(r)
             /\ ToSet(r) = {q[i] : i \in k .. Len(q)}
             /\ \A x \in ToSet(q) \ ToSet(r), y \in ToSet(r) : x < y
<1> DEFINE r == SubSeq(q, k, Len(q))
<1>1. /\ Len(q) \in Nat /\ k \in Nat /\ DOMAIN q = 1 .. Len(q)
      /\ r \in Seq(1 .. MaxEvents) /\ Len(r) = Len(q) - k + 1
      /\ DOMAIN r = 1 .. Len(q) - k + 1
      /\ \A i \in 1 .. Len(q) - k + 1 : r[i] = q[k + i - 1]
      /\ \A i \in 1 .. Len(q) : q[i] \in 1 .. MaxEvents
  OBVIOUS
<1> HIDE DEF r
<1>k. k \in Nat /\ Len(q) \in Nat
  OBVIOUS
<1>n. \A i \in 1 .. Len(q) - k + 1 : i \in Nat /\ k + i - 1 \in k .. Len(q)
  BY <1>k
<1>m. k .. Len(q) \subseteq 1 .. Len(q)
  BY <1>k
<1>2. \A i \in DOMAIN r : i \in Nat /\ k + i - 1 \in k .. Len(q) /\ r[i] = q[k + i - 1]
  BY <1>1, <1>n
<1>3. ASSUME NEW i \in k .. Len(q) PROVE q[i] \in ToSet(r)
  <2>1. i - k + 1 \in 1 .. Len(q) - k + 1 /\ k + (i - k + 1) - 1 = i
    BY <1>1
  <2> QED
    BY <1>1, <2>1 DEF ToSet
<1>4. ToSet(r) = {q[i] : i \in k .. Len(q)}
  BY <1>2, <1>3 DEF ToSet
<1>5. \A i, j \in 1 .. Len(q) : i < j => q[i] < q[j]
  <2>1. DOMAIN q = 1 .. Len(q) /\ \A i \in 1 .. Len(q) : q[i] # 0
    BY <1>1
  <2> QED
    BY <2>1 DEF Ordered
<1>6. Ordered(r)
  <2> SUFFICES ASSUME NEW i \in DOMAIN r, NEW j \in DOMAIN r, i < j PROVE r[i] < r[j]
    BY DEF Ordered
  <2>1. /\ k + i - 1 \in 1 .. Len(q) /\ k + j - 1 \in 1 .. Len(q)
        /\ k + i - 1 < k + j - 1
    BY <1>2, <1>k, <1>m
  <2> QED
    BY <1>2, <1>5, <2>1
<1>7. ASSUME NEW x \in ToSet(q) \ ToSet(r), NEW y \in ToSet(r) PROVE x < y
  <2> PICK i \in 1 .. Len(q) : q[i] = x
    BY <1>1 DEF ToSet
  <2> PICK j \in k .. Len(q) : q[j] = y
    BY <1>4
  <2>1. i < k
    BY <1>1, <1>4
  <2>2. i < j /\ j \in 1 .. Len(q)
    BY <1>1, <2>1
  <2> QED
    BY <1>5, <2>2
<1> QED
  BY <1>1, <1>4, <1>6, <1>7 DEF r

(* What Newest keeps is behind what it drops. *)
LEMMA OrderedNewest ==
  ASSUME NEW q \in Seq(1 .. MaxEvents), Ordered(q), NEW n \in Nat
  PROVE  LET r == Newest(q, n)
         IN  /\ r \in Seq(1 .. MaxEvents) /\ Len(r) <= n
             /\ Ordered(r) /\ ToSet(r) \subseteq ToSet(q)
             /\ \A x \in ToSet(q) \ ToSet(r), y \in ToSet(r) : x < y
<1> DEFINE k == Len(q) - n + 1
<1>1. Len(q) \in Nat
  OBVIOUS
<1>2. CASE Len(q) <= n
  BY <1>2 DEF Newest
<1>3. CASE Len(q) > n
  <2>1. k \in 1 .. Len(q) + 1 /\ Len(q) - k + 1 = n
    BY <1>1, <1>3
  <2>2. Newest(q, n) = SubSeq(q, k, Len(q))
    BY <1>1, <1>3 DEF Newest
  <2>3. \A i \in k .. Len(q) : i \in DOMAIN q
    BY <1>1, <2>1
  <2> DEFINE r == SubSeq(q, k, Len(q))
  <2>4. /\ r \in Seq(1 .. MaxEvents) /\ Len(r) = n /\ Ordered(r)
        /\ ToSet(r) = {q[i] : i \in k .. Len(q)}
        /\ \A x \in ToSet(q) \ ToSet(r), y \in ToSet(r) : x < y
    <3> HIDE DEF k
    <3> QED
      BY <2>1, OrderedSuffix
  <2> HIDE DEF k, r
  <2>5. ToSet(r) \subseteq ToSet(q)
    BY <2>3, <2>4 DEF ToSet
  <2>6. Newest(q, n) = r /\ n <= n
    BY <2>2 DEF r
  <2> QED
    BY <2>4, <2>5, <2>6
<1> QED
  BY <1>1, <1>2, <1>3

(* put_nowait() with a drop policy: each event is queued or dropped. *)
LEMMA PutDrops ==
  ASSUME NEW q \in Seq(Ids), NEW e \in 1 .. MaxEvents, Ordered(q),
         Len(q) <= QueueMax, \A x \in ToSet(q) : x < e
  PROVE  /\ Put(q, e) \in Seq(Ids) /\ Len(Put(q, e)) <= QueueMax
         /\ Ordered(Put(q, e))
         /\ ToSet(Put(q, e)) \cup Dropped(q, e) = ToSet(q) \cup {e}
<1>1. Len(q) \in Nat /\ e \in Ids
  BY DEF Ids
<1>2. CASE ~Full(q)
  <2>1. Put(q, e) = Append(q, e) /\ Dropped(q, e) = {} /\ Len(q) + 1 <= QueueMax
    BY <1>1, <1>2 DEF Put, Dropped, Full
  <2> QED
    BY <1>1, <2>1, OrderedAppend
<1>3. CASE Full(q) /\ policy = "oldest"
  <2>1. Put(q, e) = Append(Tail(q), e) /\ Dropped(q, e) = {Head(q)}
    BY <1>3 DEF Put, Dropped
  <2>2. q # <<>>
    BY <1>3 DEF Full
  <2>3. /\ Tail(q) \in Seq(Ids) /\ Len(Tail(q)) = Len(q) - 1
        /\ ToSet(q) = ToSet(Tail(q)) \cup {Head(q)} /\ Ordered(Tail(q))
    BY <2>2, OrderedTail
  <2>4. /\ Append(Tail(q), e) \in Seq(Ids) /\ Len(Append(Tail(q), e)) = Len(Tail(q)) + 1
        /\ ToSet(Append(Tail(q), e)) = ToSet(Tail(q)) \cup {e}
        /\ Ordered(Append(Tail(q), e))
    BY <1>1, <2>3, OrderedAppend
  <2>5. Len(Append(Tail(q), e)) <= QueueMax
    BY <1>1, <2>3, <2>4
  <2> QED
    BY <2>1, <2>3, <2>4, <2>5
<1>4. CASE Full(q) /\ policy # "oldest"
  <2>1. Put(q, e) = q /\ Dropped(q, e) = {e}
    BY <1>4 DEF Put, Dropped
  <2> QED
    BY <2>1
<1> QED
  BY <1>2, <1>3, <1>4
-----------------------------------------------------------------------------
(* The invariant. *)

(* The buffer is the end of what was published. *)
BufferOK ==
  /\ published \subseteq 1 .. seq
  /\ lock = "publish" => seq > 0 /\ seq \notin published
  /\ Ordered(buffer) /\ ToSet(buffer) \subseteq published
  /\ \A e \in published \ ToSet(buffer), x \in ToSet(buffer) : e < x

(* The drain task's event and the queue follow what was sent. *)
StreamOK(c) ==
  /\ Ordered(sent[c]) /\ ToSet(sent[c]) \subseteq published
  /\ Ordered(queue[c]) /\ ToSet(queue[c]) \subseteq published \cup {Pill}
  /\ \A x \in ToSet(sent[c]) : since[c] < x
  /\ \A y \in ToSet(queue[c]) \ {Pill} :
       since[c] < y /\ \A x \in ToSet(sent[c]) : x < y
  /\ drain[c] = "sending" =>
       /\ sending[c] \in published /\ since[c] < sending[c]
       /\ \A x \in ToSet(sent[c]) : x < sending[c]
       /\ \A y \in ToSet(queue[c]) \ {Pill} : sending[c] < y

(* Where a connection is, and when its attach() holds the lock. *)
PlaceOK(c) ==
  /\ conn[c] = "attaching" <=> lock = c
  /\ c \in registered <=> conn[c] = "attached"
  /\ conn[c] \in {"new", "attaching", "refused"} => drain[c] = "none" /\ sent[c] = <<>>
  /\ conn[c] = "new" => queue[c] = <<>>
  /\ conn[c] = "attaching" =>
       \/ since[c] = None /\ queue[c] = <<>>
       \/ since[c] \in published \cup {Unknown}
  /\ conn[c] \in {"attaching", "attached"} => Pill \notin ToSet(queue[c])
  /\ c \in registered => since[c] <= seq /\ (lock = "publish" => since[c] < seq)

(* Nothing is missing, from the replay on. *)
GapOK(c) ==
  (conn[c] = "attaching" \/ (c \in registered /\ drain[c] # "ended")) =>
    \A e \in published :
      e > since[c] => e \in SentTo(c) \cup OnItsWay(c) \cup lost[c]

HubInv ==
  /\ HubTypeOK
  /\ BufferOK
  /\ \A c \in Conns : StreamOK(c) /\ PlaceOK(c) /\ GapOK(c)

-----------------------------------------------------------------------------

LEMMA HubInvInit == HubInit => HubInv
<1> SUFFICES ASSUME HubInit PROVE HubInv
  OBVIOUS
<1>1. \A S : <<>> \in Seq(S)
  OBVIOUS
<1>2. Len(<<>>) = 0 /\ Ordered(<<>>) /\ ToSet(<<>>) = {}
  BY DEF Ordered, ToSet
<1>3. HubTypeOK
  <2>1. /\ conn \in [Conns -> {"new", "attaching", "attached", "refused",
                               "detaching", "pilled", "detached"}]
        /\ since \in [Conns -> 0 .. None]
        /\ drain \in [Conns -> {"none", "waiting", "sending", "ended"}]
        /\ sending \in [Conns -> 0 .. MaxEvents]
        /\ open \in [Conns -> BOOLEAN]
        /\ lost \in [Conns -> SUBSET (1 .. MaxEvents)]
    BY DEF HubInit
  <2>2. /\ queue \in [Conns -> Seq(0 .. MaxEvents)]
        /\ sent \in [Conns -> Seq(1 .. MaxEvents)]
        /\ \A c \in Conns : Len(queue[c]) = 0
    BY <1>1, <1>2 DEF HubInit
  <2>3. buffer \in Seq(1 .. MaxEvents) /\ Len(buffer) = 0
    BY <1>1, <1>2 DEF HubInit
  <2>4. /\ policy \in Policies /\ seq = 0 /\ lock = "free"
        /\ published = {} /\ registered = {}
    BY DEF HubInit
  <2> QED
    BY <2>1, <2>2, <2>3, <2>4 DEF HubTypeOK
<1>4. BufferOK
  BY <1>2 DEF HubInit, BufferOK
<1>5. ASSUME NEW c \in Conns PROVE StreamOK(c) /\ PlaceOK(c) /\ GapOK(c)
  <2>1. /\ conn[c] = "new" /\ c \notin registered /\ lock = "free"
        /\ queue[c] = <<>> /\ sent[c] = <<>> /\ drain[c] = "none" /\ published = {}
    BY DEF HubInit
  <2>2. lock # c
    BY <2>1
  <2> QED
    BY <1>2, <2>1, <2>2 DEF StreamOK, PlaceOK, GapOK
<1> QED
  BY <1>3, <1>4, <1>5 DEF HubInv

(* A connection keeps its part of the invariant when a step of another one *)
(* at most takes or frees the lock.                                        *)
LEMMA OtherConnection ==
  ASSUME HubInv, NEW c \in Conns,
         conn'[c] = conn[c], since'[c] = since[c], queue'[c] = queue[c],
         drain'[c] = drain[c], sending'[c] = sending[c], sent'[c] = sent[c],
         lost'[c] = lost[c], c \in registered' <=> c \in registered,
         published' = published, seq' = seq,
         lock' = c <=> lock = c, lock' = "publish" => lock = "publish"
  PROVE  StreamOK(c)' /\ PlaceOK(c)' /\ GapOK(c)'
<1>1. StreamOK(c)'
  BY DEF HubInv, StreamOK, ToSet, Ordered
<1>2. PlaceOK(c)'
  BY DEF HubInv, PlaceOK, ToSet
<1>3. GapOK(c)'
  BY DEF HubInv, GapOK, SentTo, OnItsWay, ToSet
<1> QED
  BY <1>1, <1>2, <1>3

(* What since() yields is what is retained behind the id. *)
LEMMA SinceYields ==
  ASSUME HubInv, NEW id \in published \cup {Unknown}
  PROVE  /\ Since(id) \in Seq(1 .. MaxEvents) /\ Ordered(Since(id))
         /\ ToSet(Since(id)) = {x \in ToSet(buffer) : id < x}
<1>1. /\ buffer \in Seq(1 .. MaxEvents) /\ Ordered(buffer)
      /\ Len(buffer) \in Nat /\ DOMAIN buffer = 1 .. Len(buffer)
      /\ ToSet(buffer) \subseteq 1 .. MaxEvents
  BY DEF HubInv, HubTypeOK, BufferOK, ToSet
<1>2. CASE Retained(id)
  <2> DEFINE k == CHOOSE i \in DOMAIN buffer : buffer[i] = id
  <2>1. k \in 1 .. Len(buffer) /\ buffer[k] = id
    BY <1>1, <1>2 DEF Retained
  <2>2. Since(id) = SubSeq(buffer, k + 1, Len(buffer))
    BY <1>2 DEF Since
  <2> HIDE DEF k
  <2>3. k + 1 \in 1 .. Len(buffer) + 1 /\ k \in Nat
    BY <1>1, <2>1
  <2>4. /\ Since(id) \in Seq(1 .. MaxEvents) /\ Ordered(Since(id))
        /\ ToSet(Since(id)) = {buffer[i] : i \in k + 1 .. Len(buffer)}
    BY <1>1, <2>2, <2>3, OrderedSuffix
  <2>5. \A i, j \in 1 .. Len(buffer) : i < j => buffer[i] < buffer[j]
    <3>1. \A i \in 1 .. Len(buffer) : buffer[i] # 0
      BY <1>1
    <3> QED
      BY <1>1, <3>1 DEF Ordered
  <2>6. ASSUME NEW i \in k + 1 .. Len(buffer)
        PROVE  buffer[i] \in ToSet(buffer) /\ id < buffer[i]
    <3>1. i \in 1 .. Len(buffer) /\ k < i
      BY <1>1, <2>3
    <3> QED
      BY <1>1, <2>1, <2>5, <3>1 DEF ToSet
  <2>7. ASSUME NEW i \in 1 .. Len(buffer), id < buffer[i]
        PROVE  i \in k + 1 .. Len(buffer)
    <3>1. buffer[i] \in Nat /\ id \in Nat
      BY <1>1, <2>1
    <3>2. ~(i < k) /\ i # k
      BY <2>1, <2>5, <2>7, <3>1
    <3> QED
      BY <1>1, <2>3, <3>2
  <2> QED
    BY <1>1, <2>4, <2>6, <2>7 DEF ToSet
<1>3. CASE ~Retained(id)
  <2>1. Since(id) = buffer /\ id \notin ToSet(buffer)
    BY <1>3 DEF Since, Retained, ToSet
  <2>2. \A x \in ToSet(buffer) : id < x
    BY <1>1, <2>1 DEF HubInv, BufferOK, Unknown
  <2> QED
    BY <1>1, <2>1, <2>2
<1> QED
  BY <1>2, <1>3

-----------------------------------------------------------------------------
(* publish() *)

LEMMA FanoutStep == ASSUME HubInv, Fanout PROVE HubInv'
<1>t. HubTypeOK /\ BufferOK
  BY DEF HubInv
<1>1. /\ seq \in 1 .. MaxEvents /\ seq \in Ids /\ seq \in Nat /\ seq # Pill
      /\ \A e \in published : e < seq /\ e \in 1 .. MaxEvents
  <2>1. seq \in 0 .. MaxEvents /\ seq > 0
    BY <1>t DEF Fanout, HubTypeOK, BufferOK
  <2>2. \A e \in published : e \in 1 .. seq /\ e # seq
    BY <1>t DEF Fanout, BufferOK
  <2> QED
    BY <2>1, <2>2 DEF Ids
<1>2. /\ Append(buffer, seq) \in Seq(1 .. MaxEvents)
      /\ Ordered(Append(buffer, seq))
      /\ ToSet(Append(buffer, seq)) = ToSet(buffer) \cup {seq}
  <2>1. buffer \in Seq(1 .. MaxEvents) /\ buffer \in Seq(Ids) /\ Ordered(buffer)
    BY <1>t DEF HubTypeOK, BufferOK, Ids
  <2>2. \A x \in ToSet(buffer) : x < seq
    BY <1>t, <1>1 DEF BufferOK
  <2> QED
    BY <1>1, <2>1, <2>2, OrderedAppend
<1>3. /\ buffer' \in Seq(1 .. MaxEvents) /\ Len(buffer') <= BufferMax
      /\ Ordered(buffer') /\ ToSet(buffer') \subseteq ToSet(buffer) \cup {seq}
      /\ \A x \in (ToSet(buffer) \cup {seq}) \ ToSet(buffer'), y \in ToSet(buffer') : x < y
  <2>1. buffer' = Newest(Append(buffer, seq), BufferMax) /\ BufferMax \in Nat
    BY DEF Fanout
  <2> QED
    BY <1>2, <2>1, OrderedNewest
<1>4. /\ lock' = "free" /\ lock = "publish" /\ published' = published \cup {seq}
      /\ UNCHANGED <<policy, seq, conn, since, registered, drain, sending, open, sent>>
  BY DEF Fanout
<1>5. BufferOK'
  <2>1. published' \subseteq 1 .. seq' /\ ToSet(buffer)' \subseteq published'
    BY <1>t, <1>1, <1>3, <1>4 DEF BufferOK
  <2>2. ASSUME NEW e \in published' \ ToSet(buffer'), NEW x \in ToSet(buffer')
        PROVE  e < x
    BY <1>t, <1>1, <1>3, <1>4 DEF BufferOK
  <2> QED
    BY <1>3, <1>4, <2>1, <2>2 DEF BufferOK
<1>6. ASSUME NEW c \in registered
      PROVE  /\ queue'[c] \in Seq(Ids) /\ Len(queue'[c]) <= QueueMax
             /\ Ordered(queue'[c])
             /\ ToSet(queue'[c]) \subseteq ToSet(queue[c]) \cup {seq}
             /\ ToSet(queue'[c]) \cup lost'[c] = ToSet(queue[c]) \cup {seq} \cup lost[c]
  <2>1. c \in Conns /\ queue[c] \in Seq(Ids) /\ Len(queue[c]) <= QueueMax
    BY <1>t DEF HubTypeOK, Ids
  <2>2. Ordered(queue[c]) /\ \A x \in ToSet(queue[c]) : x < seq
    BY <1>1, <2>1 DEF HubInv, StreamOK, Pill
  <2>3. /\ queue'[c] = Put(queue[c], seq)
        /\ lost'[c] = lost[c] \cup Dropped(queue[c], seq)
    BY <2>1 DEF Fanout
  <2> QED
    BY <1>1, <2>1, <2>2, <2>3, PutDrops
<1>7. \A c \in Conns \ registered : queue'[c] = queue[c] /\ lost'[c] = lost[c]
  BY DEF Fanout
<1>8. HubTypeOK'
  <2>1. ASSUME NEW c \in Conns
        PROVE  /\ queue'[c] \in Seq(0 .. MaxEvents) /\ Len(queue'[c]) <= QueueMax
               /\ lost'[c] \in SUBSET (1 .. MaxEvents)
    <3>1. CASE c \in registered
      <4>1. lost'[c] \subseteq 1 .. MaxEvents
        <5>1. ToSet(queue[c]) \subseteq 1 .. MaxEvents
          BY <1>1, <3>1 DEF HubInv, StreamOK, PlaceOK
        <5> QED
          BY <1>t, <1>1, <1>6, <3>1, <5>1 DEF HubTypeOK
      <4> QED
        BY <1>6, <3>1, <4>1 DEF Ids
    <3>2. CASE c \notin registered
      BY <1>t, <1>7, <3>2 DEF HubTypeOK
    <3> QED
      BY <3>1, <3>2
  <2>2. /\ queue' \in [Conns -> Seq(0 .. MaxEvents)]
        /\ lost' \in [Conns -> SUBSET (1 .. MaxEvents)]
    <3>1. /\ queue' = [c \in Conns |-> queue'[c]]
          /\ lost' = [c \in Conns |-> lost'[c]]
      BY DEF Fanout
    <3> QED
      BY <2>1, <3>1
  <2>3. published' \in SUBSET (1 .. MaxEvents)
    BY <1>1, <1>4
  <2> QED
    BY <1>t, <1>3, <1>4, <2>1, <2>2, <2>3 DEF HubTypeOK
<1>9. ASSUME NEW c \in Conns PROVE StreamOK(c)' /\ PlaceOK(c)' /\ GapOK(c)'
  <2>1. StreamOK(c) /\ PlaceOK(c) /\ GapOK(c)
    BY DEF HubInv
  <2>2. conn[c] # "attaching" /\ lock' # c
    BY <1>4, <2>1 DEF PlaceOK
  <2>3. CASE c \in registered
    <3>1. since[c] < seq /\ Pill \notin ToSet(queue'[c])
      BY <1>1, <1>4, <1>6, <2>1, <2>3 DEF PlaceOK
    <3>2. \A x \in ToSet(queue'[c]) : x \in ToSet(queue[c]) \/ x = seq
      BY <1>6, <2>3
    <3>3. StreamOK(c)'
      BY <1>1, <1>4, <1>6, <2>1, <2>3, <3>1, <3>2 DEF StreamOK
    <3>4. PlaceOK(c)'
      BY <1>4, <2>1, <2>2, <2>3, <3>1 DEF PlaceOK
    <3>5. GapOK(c)'
      BY <1>4, <1>6, <2>1, <2>2, <2>3 DEF GapOK, SentTo, OnItsWay
    <3> QED
      BY <3>3, <3>4, <3>5
  <2>4. CASE c \notin registered
    <3>1. queue'[c] = queue[c] /\ lost'[c] = lost[c]
      BY <1>7, <2>4
    <3>2. StreamOK(c)'
      BY <1>4, <2>1, <3>1 DEF StreamOK
    <3>3. PlaceOK(c)'
      BY <1>4, <2>1, <2>2, <2>4, <3>1 DEF PlaceOK
    <3>4. GapOK(c)'
      BY <1>4, <2>2, <2>4 DEF GapOK
    <3> QED
      BY <3>2, <3>3, <3>4
  <2> QED
    BY <2>3, <2>4
<1> QED
  BY <1>5, <1>8, <1>9 DEF HubInv
(* publish() takes the lock, or gives it back without having published. *)
LEMMA PublishStep == ASSUME HubInv, Publish \/ AppendFails PROVE HubInv'
<1>1. /\ UNCHANGED <<policy, buffer, published, connVars>>
      /\ lock \in {"free", "publish"} /\ lock' \in {"free", "publish"}
      /\ seq' \in {seq, seq + 1} /\ seq' \in 0 .. MaxEvents
      /\ lock' = "publish" => seq' = seq + 1
  BY DEF Publish, AppendFails, HubInv, HubTypeOK
<1>2. seq \in Nat /\ \A e \in published : e \in 1 .. seq
  BY DEF HubInv, HubTypeOK, BufferOK
<1>3. HubTypeOK'
  BY <1>1 DEF HubInv, HubTypeOK, connVars
<1>4. BufferOK'
  BY <1>1, <1>2 DEF HubInv, BufferOK
<1>5. ASSUME NEW c \in Conns PROVE StreamOK(c)' /\ PlaceOK(c)' /\ GapOK(c)'
  <2>1. StreamOK(c) /\ PlaceOK(c) /\ GapOK(c)
    BY DEF HubInv
  <2>2. lock # c /\ lock' # c /\ since[c] \in Nat
    BY <1>1 DEF HubInv, HubTypeOK
  <2>3. StreamOK(c)'
    BY <1>1, <2>1 DEF connVars, StreamOK
  <2>4. GapOK(c)'
    BY <1>1, <2>1 DEF connVars, GapOK, SentTo, OnItsWay
  <2>5. PlaceOK(c)'
    BY <1>1, <1>2, <2>1, <2>2 DEF connVars, PlaceOK
  <2> QED
    BY <2>3, <2>4, <2>5
<1> QED
  BY <1>3, <1>4, <1>5 DEF HubInv

-----------------------------------------------------------------------------
(* attach() *)

LEMMA AttachStep ==
  ASSUME HubInv, NEW c \in Conns, NEW id \in published \cup {Unknown, None}, Attach(c, id)
  PROVE  HubInv'
<1> DEFINE replay == IF id = None THEN <<>> ELSE Since(id)
           kept == Newest(replay, QueueMax)
           evicted == {e \in published : id < e /\ ~Retained(e)}
<1>t. /\ HubTypeOK /\ BufferOK /\ StreamOK(c) /\ PlaceOK(c)
  BY DEF HubInv
<1>1. /\ conn[c] = "new" /\ lock = "free" /\ lock' = c
      /\ conn' = [conn EXCEPT ![c] = "attaching"]
      /\ since' = [since EXCEPT ![c] = id]
      /\ queue' = [queue EXCEPT ![c] = kept]
      /\ lost' = [lost EXCEPT ![c] = evicted \cup (ToSet(replay) \ ToSet(kept))]
      /\ UNCHANGED <<policy, seq, buffer, published, registered, drain, sending, open, sent>>
  BY DEF Attach, Replay
<1>2. /\ published \subseteq 1 .. MaxEvents /\ published \subseteq 1 .. seq
      /\ seq \in 0 .. MaxEvents
  BY <1>t DEF HubTypeOK, BufferOK
<1>3. /\ replay \in Seq(1 .. MaxEvents) /\ Ordered(replay)
      /\ ToSet(replay) = {x \in ToSet(buffer) : id < x}
  <2>1. CASE id = None
    <3>1. ToSet(buffer) \subseteq 1 .. MaxEvents
      BY <1>t, <1>2 DEF BufferOK
    <3>2. <<>> \in Seq(1 .. MaxEvents) /\ Ordered(<<>>) /\ ToSet(<<>>) = {}
      BY DEF Ordered, ToSet
    <3> QED
      BY <2>1, <3>1, <3>2
  <2>2. CASE id # None
    BY <2>2, SinceYields
  <2> QED
    BY <2>1, <2>2
<1> HIDE DEF replay
<1>4. /\ kept \in Seq(1 .. MaxEvents) /\ Len(kept) <= QueueMax
      /\ Ordered(kept) /\ ToSet(kept) \subseteq ToSet(replay)
  BY <1>3, OrderedNewest
<1>5. id = None => kept = <<>>
  BY <1>1 DEF Newest, replay
<1> HIDE DEF kept
<1>6. /\ ToSet(replay) \subseteq published /\ Pill \notin ToSet(replay)
      /\ \A x \in ToSet(replay) : id < x
  BY <1>t, <1>2, <1>3 DEF BufferOK
<1>7. evicted \subseteq published /\ \A e \in published : id < e => e \in evicted \cup ToSet(replay)
  BY <1>3 DEF Retained, ToSet
<1> HIDE DEF evicted
<1>8. HubTypeOK'
  <2>1. /\ kept \in Seq(0 .. MaxEvents) /\ id \in 0 .. None
        /\ evicted \cup (ToSet(replay) \ ToSet(kept)) \in SUBSET (1 .. MaxEvents)
    <3>1. kept \in Seq(0 .. MaxEvents)
      BY <1>4
    <3>2. id \in 0 .. None
      BY <1>2 DEF Unknown
    <3>3. evicted \cup (ToSet(replay) \ ToSet(kept)) \subseteq 1 .. MaxEvents
      BY <1>2, <1>6, <1>7
    <3> QED
      BY <3>1, <3>2, <3>3
  <2>2. /\ conn' \in [Conns -> {"new", "attaching", "attached", "refused",
                                "detaching", "pilled", "detached"}]
        /\ since' \in [Conns -> 0 .. None]
        /\ queue' \in [Conns -> Seq(0 .. MaxEvents)]
        /\ lost' \in [Conns -> SUBSET (1 .. MaxEvents)]
        /\ lock' \in Conns
    BY <1>t, <1>1, <2>1 DEF HubTypeOK
  <2>3. \A d \in Conns : Len(queue'[d]) <= QueueMax
    BY <1>t, <1>1, <1>4 DEF HubTypeOK
  <2> QED
    BY <1>t, <1>1, <2>2, <2>3 DEF HubTypeOK
<1>9. BufferOK'
  <2>1. lock' # "publish"
    BY <1>1
  <2> QED
    BY <1>t, <1>1, <2>1 DEF BufferOK
<1>10. /\ conn'[c] = "attaching" /\ since'[c] = id /\ queue'[c] = kept
       /\ lost'[c] = evicted \cup (ToSet(replay) \ ToSet(kept))
  BY <1>t, <1>1 DEF HubTypeOK
<1>11. drain[c] = "none" /\ sent[c] = <<>> /\ c \notin registered
  BY <1>t, <1>1 DEF PlaceOK
<1>12. ToSet(<<>>) = {} /\ Ordered(<<>>)
  BY DEF ToSet, Ordered
<1>13. StreamOK(c)'
  BY <1>1, <1>4, <1>6, <1>10, <1>11, <1>12 DEF StreamOK
<1>14. PlaceOK(c)'
  BY <1>1, <1>4, <1>5, <1>6, <1>10, <1>11 DEF PlaceOK
<1>15. GapOK(c)'
  BY <1>1, <1>4, <1>7, <1>10 DEF GapOK, OnItsWay
<1>16. ASSUME NEW d \in Conns, d # c PROVE StreamOK(d)' /\ PlaceOK(d)' /\ GapOK(d)'
  <2>1. /\ conn'[d] = conn[d] /\ since'[d] = since[d] /\ queue'[d] = queue[d]
        /\ lost'[d] = lost[d]
    BY <1>t, <1>1, <1>16 DEF HubTypeOK
  <2>2. lock' # d /\ lock # d /\ lock' # "publish"
    BY <1>1, <1>16
  <2> QED
    BY <1>1, <2>1, <2>2, OtherConnection
<1> QED
  BY <1>8, <1>9, <1>13, <1>14, <1>15, <1>16 DEF HubInv

LEMMA RegisterStep ==
  ASSUME HubInv, NEW c \in Conns, Register(c)
  PROVE  HubInv'
<1>t. HubTypeOK /\ BufferOK /\ StreamOK(c) /\ PlaceOK(c) /\ GapOK(c)
  BY DEF HubInv
<1>1. /\ conn[c] = "attaching" /\ lock' = "free"
      /\ since' = [since EXCEPT ![c] = IF since[c] = None THEN seq ELSE since[c]]
      /\ registered' = registered \cup {c}
      /\ conn' = [conn EXCEPT ![c] = "attached"]
      /\ drain' = [drain EXCEPT ![c] = "waiting"]
      /\ UNCHANGED <<policy, seq, buffer, published, queue, sending, open, sent, lost>>
  BY DEF Register
<1>2. lock = c /\ lock # "free" /\ lock # "publish" /\ drain[c] = "none" /\ sent[c] = <<>>
  BY <1>t, <1>1 DEF PlaceOK
<1>3. published \subseteq 1 .. seq /\ seq \in 0 .. MaxEvents
  BY <1>t DEF HubTypeOK, BufferOK
<1>4. HubTypeOK'
  BY <1>t, <1>1, <1>3 DEF HubTypeOK
<1>5. BufferOK'
  BY <1>t, <1>1 DEF BufferOK
<1>6. /\ conn'[c] = "attached" /\ drain'[c] = "waiting"
      /\ since'[c] = IF since[c] = None THEN seq ELSE since[c]
  BY <1>t, <1>1 DEF HubTypeOK
<1>7. ToSet(<<>>) = {}
  BY DEF ToSet
<1>8. since[c] = None => queue[c] = <<>>
  BY <1>t, <1>1, <1>3 DEF PlaceOK, Unknown
<1>9. StreamOK(c)'
  BY <1>t, <1>1, <1>2, <1>6, <1>7, <1>8 DEF StreamOK
<1>10. PlaceOK(c)'
  <2>1. since'[c] <= seq
    BY <1>t, <1>1, <1>3, <1>6 DEF PlaceOK, Unknown
  <2> QED
    BY <1>t, <1>1, <1>2, <1>6, <2>1 DEF PlaceOK
<1>11. GapOK(c)'
  BY <1>t, <1>1, <1>2, <1>3, <1>6 DEF GapOK, SentTo, OnItsWay
<1>12. ASSUME NEW d \in Conns, d # c PROVE StreamOK(d)' /\ PlaceOK(d)' /\ GapOK(d)'
  <2>1. conn'[d] = conn[d] /\ since'[d] = since[d] /\ drain'[d] = drain[d]
    BY <1>t, <1>1, <1>12 DEF HubTypeOK
  <2>2. lock' # d /\ lock # d /\ lock' # "publish"
    BY <1>1, <1>2, <1>12
  <2>3. d \in registered' <=> d \in registered
    BY <1>1, <1>12
  <2> QED
    BY <1>1, <2>1, <2>2, <2>3, OtherConnection
<1> QED
  BY <1>4, <1>5, <1>9, <1>10, <1>11, <1>12 DEF HubInv

(* An attach that ends without a subscription. *)
LEMMA RefusedStep ==
  ASSUME HubInv, NEW c \in Conns, AuthFails(c) \/ ReplayFails(c)
  PROVE  HubInv'
<1>t. HubTypeOK /\ BufferOK /\ StreamOK(c) /\ PlaceOK(c) /\ GapOK(c)
  BY DEF HubInv
<1>1. /\ conn[c] \in {"new", "attaching"}
      /\ conn' = [conn EXCEPT ![c] = "refused"]
      /\ lock' = lock \/ (lock = c /\ lock' = "free")
      /\ lock' # c
      /\ open' \in {open, [open EXCEPT ![c] = FALSE]}
      /\ UNCHANGED <<policy, seq, buffer, published, since, registered, queue, drain,
                     sending, sent, lost>>
  BY <1>t DEF AuthFails, ReplayFails, PlaceOK
<1>2. HubTypeOK'
  BY <1>t, <1>1 DEF HubTypeOK
<1>3. BufferOK'
  BY <1>t, <1>1 DEF BufferOK
<1>4. conn'[c] = "refused" /\ c \notin registered
  BY <1>t, <1>1 DEF HubTypeOK, PlaceOK
<1>5. StreamOK(c)' /\ GapOK(c)'
  BY <1>t, <1>1, <1>4 DEF StreamOK, GapOK
<1>6. PlaceOK(c)'
  BY <1>t, <1>1, <1>4 DEF PlaceOK
<1>7. ASSUME NEW d \in Conns, d # c PROVE StreamOK(d)' /\ PlaceOK(d)' /\ GapOK(d)'
  <2>1. conn'[d] = conn[d]
    BY <1>t, <1>1, <1>7 DEF HubTypeOK
  <2>2. (lock' = d <=> lock = d) /\ (lock' = "publish" => lock = "publish")
    BY <1>1, <1>7
  <2> QED
    BY <1>1, <2>1, <2>2, OtherConnection
<1> QED
  BY <1>2, <1>3, <1>5, <1>6, <1>7 DEF HubInv

-----------------------------------------------------------------------------
(* The drain task and detach(). *)

(* The steps of a connection that leave the lock, the buffer and the ids   *)
(* alone: the invariant is a matter of this connection.                    *)
LEMMA OwnStep ==
  ASSUME HubInv, NEW c \in Conns, HubTypeOK',
         UNCHANGED <<policy, seq, lock, buffer, published, since, lost>>,
         \A d \in Conns \ {c} :
           /\ conn'[d] = conn[d] /\ queue'[d] = queue[d] /\ drain'[d] = drain[d]
           /\ sending'[d] = sending[d] /\ sent'[d] = sent[d]
           /\ d \in registered' <=> d \in registered,
         StreamOK(c)', PlaceOK(c)', GapOK(c)'
  PROVE  HubInv'
<1>1. BufferOK'
  BY DEF HubInv, BufferOK
<1>2. ASSUME NEW d \in Conns \ {c} PROVE StreamOK(d)' /\ PlaceOK(d)' /\ GapOK(d)'
  BY <1>2, OtherConnection
<1> QED
  BY <1>1, <1>2 DEF HubInv

LEMMA TakeStep ==
  ASSUME HubInv, NEW c \in Conns, Take(c) \/ TakeLast(c)
  PROVE  HubInv'
<1>t. HubTypeOK /\ BufferOK /\ StreamOK(c) /\ PlaceOK(c) /\ GapOK(c)
  BY DEF HubInv
<1> DEFINE h == Head(queue[c])
           q == Tail(queue[c])
<1>1. /\ drain[c] = "waiting" /\ queue[c] # <<>>
      /\ queue' = [queue EXCEPT ![c] = q]
      /\ UNCHANGED <<policy, seq, lock, buffer, published, conn, since, registered,
                     open, sent, lost>>
      /\ \/ /\ h # Pill
            /\ drain' = [drain EXCEPT ![c] = "sending"]
            /\ sending' = [sending EXCEPT ![c] = h]
         \/ /\ drain' = [drain EXCEPT ![c] = "ended"]
            /\ UNCHANGED sending
  BY DEF Take, TakeLast, Pop, EndDrain
<1>2. /\ q \in Seq(Ids) /\ Len(q) = Len(queue[c]) - 1
      /\ h \in Ids /\ ToSet(queue[c]) = ToSet(q) \cup {h}
      /\ Ordered(q)
      /\ h # Pill => \A y \in ToSet(q) \ {Pill} : h < y
  BY <1>t, <1>1, OrderedTail DEF HubTypeOK, StreamOK, Ids
<1> HIDE DEF h, q
<1>3. HubTypeOK'
  <2>1. /\ queue' \in [Conns -> Seq(0 .. MaxEvents)]
        /\ drain' \in [Conns -> {"none", "waiting", "sending", "ended"}]
        /\ sending' \in [Conns -> 0 .. MaxEvents]
    <3>1. queue' \in [Conns -> Seq(0 .. MaxEvents)]
      BY <1>t, <1>1, <1>2 DEF HubTypeOK, Ids
    <3>2. drain' \in [Conns -> {"none", "waiting", "sending", "ended"}]
      BY <1>t, <1>1 DEF HubTypeOK
    <3>3. sending' \in [Conns -> 0 .. MaxEvents]
      BY <1>t, <1>1, <1>2 DEF HubTypeOK, Ids
    <3> QED
      BY <3>1, <3>2, <3>3
  <2>2. Len(q) <= QueueMax
    BY <1>t, <1>2 DEF HubTypeOK
  <2>3. \A d \in Conns : Len(queue'[d]) <= QueueMax
    BY <1>t, <1>1, <2>2 DEF HubTypeOK
  <2> QED
    BY <1>t, <1>1, <2>1, <2>3 DEF HubTypeOK
<1>4. queue'[c] = q
  BY <1>t, <1>1 DEF HubTypeOK
<1>5. \/ h # Pill /\ drain'[c] = "sending" /\ sending'[c] = h
      \/ drain'[c] = "ended"
  BY <1>t, <1>1 DEF HubTypeOK
<1>6. StreamOK(c)'
  BY <1>t, <1>1, <1>2, <1>4, <1>5 DEF StreamOK
<1>7. PlaceOK(c)'
  <2>1. conn[c] \notin {"new", "attaching", "refused"}
    BY <1>t, <1>1 DEF PlaceOK
  <2> QED
    BY <1>t, <1>1, <1>2, <1>4, <2>1 DEF PlaceOK
<1>8. GapOK(c)'
  <2>1. conn[c] # "attaching"
    BY <1>t, <1>1 DEF PlaceOK
  <2> QED
    BY <1>t, <1>1, <1>2, <1>4, <1>5, <2>1 DEF GapOK, SentTo, OnItsWay
<1>9. \A d \in Conns \ {c} :
        queue'[d] = queue[d] /\ drain'[d] = drain[d] /\ sending'[d] = sending[d]
  BY <1>t, <1>1 DEF HubTypeOK
<1> QED
  BY <1>1, <1>3, <1>6, <1>7, <1>8, <1>9, OwnStep

LEMMA SentStep ==
  ASSUME HubInv, NEW c \in Conns, Sent(c)
  PROVE  HubInv'
<1>t. HubTypeOK /\ BufferOK /\ StreamOK(c) /\ PlaceOK(c) /\ GapOK(c)
  BY DEF HubInv
<1> DEFINE s == Append(sent[c], sending[c])
<1>1. /\ drain[c] = "sending" /\ drain' = [drain EXCEPT ![c] = "waiting"]
      /\ sent' = [sent EXCEPT ![c] = s]
      /\ UNCHANGED <<policy, seq, lock, buffer, published, conn, since, registered, queue,
                     sending, open, lost>>
  BY DEF Sent
<1>2. /\ sending[c] \in published /\ sending[c] \in 1 .. MaxEvents
      /\ \A x \in ToSet(sent[c]) : x < sending[c]
  BY <1>t, <1>1 DEF HubTypeOK, StreamOK
<1>3. /\ s \in Seq(1 .. MaxEvents) /\ Ordered(s)
      /\ ToSet(s) = ToSet(sent[c]) \cup {sending[c]}
  <2>1. sent[c] \in Seq(1 .. MaxEvents) /\ sent[c] \in Seq(Ids) /\ sending[c] \in Ids
    BY <1>t, <1>2 DEF HubTypeOK, Ids
  <2> QED
    BY <1>t, <1>2, <2>1, OrderedAppend DEF StreamOK
<1> HIDE DEF s
<1>4. HubTypeOK'
  BY <1>t, <1>1, <1>3 DEF HubTypeOK
<1>5. drain'[c] = "waiting" /\ sent'[c] = s
  BY <1>t, <1>1 DEF HubTypeOK
<1>6. StreamOK(c)'
  BY <1>t, <1>1, <1>2, <1>3, <1>5 DEF StreamOK
<1>7. conn[c] \notin {"new", "attaching", "refused"}
  BY <1>t, <1>1 DEF PlaceOK
<1>8. PlaceOK(c)'
  BY <1>t, <1>1, <1>7 DEF PlaceOK
<1>9. GapOK(c)'
  BY <1>t, <1>1, <1>3, <1>5, <1>7 DEF GapOK, SentTo, OnItsWay
<1>10. \A d \in Conns \ {c} : drain'[d] = drain[d] /\ sent'[d] = sent[d]
  BY <1>t, <1>1 DEF HubTypeOK
<1> QED
  BY <1>1, <1>4, <1>6, <1>8, <1>9, <1>10, OwnStep

LEMMA SendFailsStep ==
  ASSUME HubInv, NEW c \in Conns, SendFails(c)
  PROVE  HubInv'
<1>t. HubTypeOK /\ BufferOK /\ StreamOK(c) /\ PlaceOK(c) /\ GapOK(c)
  BY DEF HubInv
<1>1. /\ drain[c] = "sending" /\ drain' = [drain EXCEPT ![c] = "ended"]
      /\ UNCHANGED <<policy, seq, lock, buffer, published, conn, since, registered, queue,
                     sending, open, sent, lost>>
  BY DEF SendFails, EndDrain
<1>2. HubTypeOK'
  BY <1>t, <1>1 DEF HubTypeOK
<1>3. /\ drain'[c] = "ended"
      /\ \A d \in Conns \ {c} : drain'[d] = drain[d]
  BY <1>t, <1>1 DEF HubTypeOK
<1>4. conn[c] \notin {"new", "attaching", "refused"}
  BY <1>t, <1>1 DEF PlaceOK
<1>5. StreamOK(c)' /\ PlaceOK(c)' /\ GapOK(c)'
  BY <1>t, <1>1, <1>3, <1>4 DEF StreamOK, PlaceOK, GapOK
<1> QED
  BY <1>1, <1>2, <1>3, <1>5, OwnStep

LEMMA DetachStep ==
  ASSUME HubInv, NEW c \in Conns, Disconnect(c) \/ Detach(c) \/ Detached(c)
  PROVE  HubInv'
<1>t. HubTypeOK /\ BufferOK /\ StreamOK(c) /\ PlaceOK(c) /\ GapOK(c)
  BY DEF HubInv
<1>1. /\ \/ UNCHANGED conn /\ UNCHANGED registered
         \/ /\ conn[c] = "attached" /\ conn' = [conn EXCEPT ![c] = "detaching"]
            /\ registered' = registered \ {c}
         \/ /\ conn[c] = "pilled" /\ conn' = [conn EXCEPT ![c] = "detached"]
            /\ UNCHANGED registered
      /\ open' \in {open, [open EXCEPT ![c] = FALSE]}
      /\ UNCHANGED <<policy, seq, lock, buffer, published, since, queue, drain, sending,
                     sent, lost>>
  BY DEF Disconnect, Detach, Detached
<1>2. HubTypeOK'
  BY <1>t, <1>1 DEF HubTypeOK
<1>3. \A d \in Conns \ {c} : conn'[d] = conn[d] /\ (d \in registered' <=> d \in registered)
  BY <1>t, <1>1 DEF HubTypeOK
<1>4. \/ conn'[c] = conn[c] /\ (c \in registered' <=> c \in registered)
      \/ /\ conn[c] \in {"attached", "pilled"} /\ conn'[c] \in {"detaching", "detached"}
         /\ c \notin registered'
  BY <1>t, <1>1 DEF HubTypeOK, PlaceOK
<1>5. StreamOK(c)'
  BY <1>t, <1>1 DEF StreamOK
<1>6. PlaceOK(c)'
  BY <1>t, <1>1, <1>4 DEF PlaceOK
<1>7. GapOK(c)'
  BY <1>t, <1>1, <1>4 DEF GapOK, SentTo, OnItsWay
<1> QED
  BY <1>1, <1>2, <1>3, <1>5, <1>6, <1>7, OwnStep

LEMMA PutPillStep ==
  ASSUME HubInv, NEW c \in Conns, PutPill(c)
  PROVE  HubInv'
<1>t. HubTypeOK /\ BufferOK /\ StreamOK(c) /\ PlaceOK(c) /\ GapOK(c)
  BY DEF HubInv
<1> DEFINE q == Append(queue[c], Pill)
<1>1. /\ conn[c] = "detaching" /\ ~Full(queue[c])
      /\ queue' = [queue EXCEPT ![c] = q]
      /\ conn' = [conn EXCEPT ![c] = "pilled"]
      /\ UNCHANGED <<policy, seq, lock, buffer, published, since, registered, drain,
                     sending, open, sent, lost>>
  BY DEF PutPill
<1>2. /\ q \in Seq(Ids) /\ Len(q) = Len(queue[c]) + 1
      /\ ToSet(q) = ToSet(queue[c]) \cup {Pill} /\ Ordered(q)
  <2>1. queue[c] \in Seq(Ids) /\ Pill \in Ids /\ Ordered(queue[c])
    BY <1>t DEF HubTypeOK, StreamOK, Ids
  <2> QED
    BY <2>1, OrderedAppend
<1>3. Len(q) <= QueueMax
  <2>1. Len(queue[c]) \in Nat /\ Len(queue[c]) <= QueueMax /\ Len(queue[c]) # QueueMax
    BY <1>t, <1>1 DEF HubTypeOK, Full
  <2> QED
    BY <1>2, <2>1
<1> HIDE DEF q
<1>4. HubTypeOK'
  <2>1. /\ queue' \in [Conns -> Seq(0 .. MaxEvents)]
        /\ conn' \in [Conns -> {"new", "attaching", "attached", "refused",
                                "detaching", "pilled", "detached"}]
    BY <1>t, <1>1, <1>2 DEF HubTypeOK, Ids
  <2>2. \A d \in Conns : Len(queue'[d]) <= QueueMax
    BY <1>t, <1>1, <1>3 DEF HubTypeOK
  <2> QED
    BY <1>t, <1>1, <2>1, <2>2 DEF HubTypeOK
<1>5. /\ conn'[c] = "pilled" /\ queue'[c] = q /\ c \notin registered /\ lock # c
      /\ \A d \in Conns \ {c} : conn'[d] = conn[d] /\ queue'[d] = queue[d]
  BY <1>t, <1>1 DEF HubTypeOK, PlaceOK
<1>6. StreamOK(c)'
  BY <1>t, <1>1, <1>2, <1>5 DEF StreamOK
<1>7. PlaceOK(c)' /\ GapOK(c)'
  BY <1>t, <1>1, <1>5 DEF PlaceOK, GapOK
<1> QED
  BY <1>1, <1>4, <1>5, <1>6, <1>7, OwnStep

-----------------------------------------------------------------------------

LEMMA HubInductive == HubInv /\ [Next]_vars => HubInv'
<1> SUFFICES ASSUME HubInv, [Next]_vars PROVE HubInv'
  OBVIOUS
<1>1. CASE Publish \/ AppendFails
  BY <1>1, PublishStep
<1>2. CASE Fanout
  BY <1>2, FanoutStep
<1>3. ASSUME NEW c \in Conns, NEW id \in published \cup {Unknown, None}, Attach(c, id)
      PROVE  HubInv'
  BY <1>3, AttachStep
<1>4. ASSUME NEW c \in Conns,
             \/ AuthFails(c) \/ Register(c) \/ ReplayFails(c)
             \/ Drain(c) \/ Disconnect(c) \/ Detach(c) \/ Detaching(c)
      PROVE  HubInv'
  BY <1>4, RefusedStep, RegisterStep, TakeStep, SentStep, SendFailsStep, DetachStep,
     PutPillStep DEF Drain, Detaching
<1>5. CASE UNCHANGED vars
  <2>1. HubTypeOK' /\ BufferOK'
    BY <1>5 DEF vars, connVars, HubInv, HubTypeOK, BufferOK
  <2>2. ASSUME NEW c \in Conns PROVE StreamOK(c)' /\ PlaceOK(c)' /\ GapOK(c)'
    BY <1>5, OtherConnection DEF vars, connVars
  <2> QED
    BY <2>1, <2>2 DEF HubInv
<1> QED
  BY <1>1, <1>2, <1>3, <1>4, <1>5 DEF Next

LEMMA HubTheorem == HubSpec => []HubInv
  BY HubInvInit, HubInductive, PTL DEF HubSpec

(* Every variable keeps its type; queues and buffer keep their bounds,     *)
(* whatever the drop policy does.                                          *)
THEOREM HubTypeTheorem == HubSpec => []HubTypeOK
<1>1. HubInv => HubTypeOK
  BY DEF HubInv
<1> QED
  BY <1>1, HubTheorem, PTL

(* A client is sent events in the order of publication, each once, and     *)
(* none up to the one it attached with.                                    *)
THEOREM InOrderTheorem == HubSpec => []InOrder
<1>1. HubInv => InOrder
  <2> SUFFICES ASSUME HubInv, NEW c \in Conns
               PROVE  /\ \A i, j \in DOMAIN sent[c] : i < j => sent[c][i] < sent[c][j]
                      /\ \A i \in DOMAIN sent[c] : since[c] < sent[c][i]
    BY DEF InOrder
  <2>1. \A i \in DOMAIN sent[c] : sent[c][i] \in ToSet(sent[c]) /\ sent[c][i] # Pill
    BY DEF HubInv, HubTypeOK, ToSet
  <2> QED
    BY <2>1 DEF HubInv, StreamOK, Ordered
<1> QED
  BY <1>1, HubTheorem, PTL

(* Between the replay of attach() and the live events of publish() nothing *)
(* is missing.                                                             *)
THEOREM NoGapTheorem == HubSpec => []NoSilentGap
<1>1. HubInv => NoSilentGap
  BY DEF HubInv, HubTypeOK, GapOK, NoSilentGap
<1> QED
  BY <1>1, HubTheorem, PTL

(* publish() sends nothing that it did not retain. *)
THEOREM RetainedTheorem == HubSpec => []RetainedBeforeSent
<1>1. HubInv => RetainedBeforeSent
  BY DEF HubInv, StreamOK, RetainedBeforeSent, SentTo
<1> QED
  BY <1>1, HubTheorem, PTL
=============================================================================
