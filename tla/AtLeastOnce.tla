------------------------------ MODULE AtLeastOnce ------------------------------
(***************************************************************************)
(* What a consumer that commits its own offsets promises of a partition:   *)
(* messages are appended and stay; the committed offset never goes back,   *)
(* and passes a message only when that was handled, in whatever order and  *)
(* however often, across any number of restarts.  There is no position, no *)
(* batch, no store and no failure here.                                    *)
(***************************************************************************)
EXTENDS Naturals, Sequences

CONSTANT Messages

VARIABLES
  log,       \* the messages of the partition
  handled,   \* offsets that were handled once at least
  committed  \* the offset a restart continues at

vars == <<log, handled, committed>>

Init == log = <<>> /\ handled = {} /\ committed = 0

Publish ==
  /\ \E m \in Messages : log' = Append(log, m)
  /\ UNCHANGED <<handled, committed>>

Handle ==
  /\ handled \subseteq handled' /\ handled' \in SUBSET (1 .. Len(log))
  /\ UNCHANGED <<log, committed>>

Commit ==
  /\ \E n \in committed .. Len(log) : 1 .. n \subseteq handled /\ committed' = n
  /\ UNCHANGED <<log, handled>>

Next == Publish \/ Handle \/ Commit

Spec == Init /\ [][Next]_vars
=============================================================================
