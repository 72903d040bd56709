------------------------------- MODULE WorkQueue -------------------------------
(***************************************************************************)
(* What the users of a task queue are promised: what they submit is worked *)
(* on once, in a bounded number of attempts, by workers of whom no more    *)
(* than Capacity are busy, and what is over stays over.  There is no heap, *)
(* semaphore, backoff, record or shutdown here; a task that is dropped     *)
(* before its work begins was cancelled or interrupted.                    *)
(***************************************************************************)
EXTENDS Naturals, FiniteSets

CONSTANTS Tasks, Capacity, Attempts

VARIABLES
  place,  \* where a task is
  tries   \* its attempts that failed

vars == <<place, tries>>

Init ==
  /\ place = [t \in Tasks |-> "outside"]
  /\ tries = [t \in Tasks |-> 0]

Working == {t \in Tasks : place[t] = "working"}

Move(t, from, to) ==
  /\ place[t] = from
  /\ place' = [place EXCEPT ![t] = to]

Submit(t) == Move(t, "outside", "queued") /\ UNCHANGED tries

Drop(t) == Move(t, "queued", "over") /\ UNCHANGED tries

Start(t) ==
  /\ Cardinality(Working) < Capacity
  /\ Move(t, "queued", "working")
  /\ UNCHANGED tries

TryAgain(t) ==
  /\ place[t] = "working" /\ tries[t] + 1 < Attempts
  /\ tries' = [tries EXCEPT ![t] = @ + 1]
  /\ UNCHANGED place

(* With success, after the last attempt, or interrupted. *)
End(t) ==
  /\ Move(t, "working", "over")
  /\ \/ UNCHANGED tries
     \/ tries[t] + 1 = Attempts /\ tries' = [tries EXCEPT ![t] = Attempts]

Next == \E t \in Tasks : Submit(t) \/ Drop(t) \/ Start(t) \/ TryAgain(t) \/ End(t)

Spec == Init /\ [][Next]_vars
=============================================================================
