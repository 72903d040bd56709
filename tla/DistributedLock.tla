---------------------------- MODULE DistributedLock ----------------------------
(***************************************************************************)
(* The Redis lock of src/shieldops/utils/distributed_lock.py: one key,     *)
(* taken by SET NX EX, kept alive by a task that renews it at half of its  *)
(* time to live, released by compare-and-delete.                           *)
(*                                                                         *)
(* Time passes in halves of the TTL: the key lives for two of them, the    *)
(* renewal task sleeps for one.  Every acquisition uses a fresh UUID; as a *)
(* key of an instance is gone before the instance can set it again, the    *)
(* instance's name stands for its latest UUID.                             *)
(*                                                                         *)
(* Any command may fail, before or after Redis executed it: the reply is   *)
(* then an exception.  The scheduler's locks have max_retries = 0.         *)
(***************************************************************************)
EXTENDS Naturals

CONSTANTS
  Instances,  \* API instances that share the Redis server
  None        \* the key is absent

ASSUME LockAssumption == None \notin Instances

VARIABLES
  owner,   \* whose value the key holds
  lease,   \* halves of the TTL that the key still has
  renewal  \* the task _auto_renew() of each instance's lock

lockVars == <<owner, lease, renewal>>

(* The TTL, counted in the intervals of the renewal task: interval = ttl/2. *)
TTL == 2

LockTypeOK ==
  /\ owner \in Instances \cup {None}
  /\ lease \in 0 .. TTL
  /\ renewal \in [Instances -> {"off", "asleep", "due"}]
  /\ owner = None <=> lease = 0

LockInit ==
  /\ owner = None
  /\ lease = 0
  /\ renewal = [i \in Instances |-> "off"]

Renewing(i) == renewal[i] # "off"

-----------------------------------------------------------------------------

Set(i) == owner' = i /\ lease' = TTL

(* acquire() returns True. *)
Acquire(i) ==
  /\ owner = None
  /\ Set(i)
  /\ renewal' = [renewal EXCEPT ![i] = "asleep"]

(* acquire() returns False. *)
AcquireFails == owner # None /\ UNCHANGED lockVars

(* acquire() raises, or is cancelled: there is no renewal task and nobody  *)
(* will release the key, if it was set.                                    *)
AcquireRaises(i) ==
  /\ (owner = None /\ Set(i)) \/ UNCHANGED <<owner, lease>>
  /\ UNCHANGED renewal

(* release() up to its command: the renewal task is cancelled, with a      *)
(* renewal it may have under way.                                          *)
CancelRenewal(i) ==
  /\ renewal' = [renewal EXCEPT ![i] = "off"]
  /\ \/ UNCHANGED lease
     \/ renewal[i] = "due" /\ owner = i /\ lease' = TTL
  /\ UNCHANGED owner

(* The release script: deletes the key if it still holds this value.  The  *)
(* first disjunct is a command that failed, or found another value.        *)
Release(i) ==
  /\ UNCHANGED <<owner, lease>> \/ (owner = i /\ owner' = None /\ lease' = 0)
  /\ UNCHANGED renewal

(* One turn of _auto_renew(). *)
Renew(i) ==
  /\ renewal[i] = "due"
  /\ owner = i
  /\ lease' = TTL
  /\ renewal' = [renewal EXCEPT ![i] = "asleep"]
  /\ UNCHANGED owner

(* renew() returns False, and the task ends: the key was not ours, or the  *)
(* command failed, before or after it took effect.                         *)
RenewFails(i) ==
  /\ renewal[i] = "due"
  /\ renewal' = [renewal EXCEPT ![i] = "off"]
  /\ UNCHANGED lease \/ (owner = i /\ lease' = TTL)
  /\ UNCHANGED owner

Expire ==
  /\ lease' = IF lease > 0 THEN lease - 1 ELSE 0
  /\ owner' = IF lease > 1 THEN owner ELSE None

(* Mutant: the key is set without a time to live. *)
HalfTTLPassesForEver ==
  /\ \A i \in Instances : renewal[i] # "due"
  /\ owner # None
  /\ renewal' = [i \in Instances |-> IF Renewing(i) THEN "due" ELSE "off"]
  /\ UNCHANGED <<owner, lease>>

(* Mutant: the renewal task sleeps for the whole TTL. *)
HalfTTLPassesTooLong ==
  /\ \A i \in Instances : renewal[i] # "due"
  /\ owner # None
  /\ Expire
  /\ renewal' = [i \in Instances |->
       IF Renewing(i) /\ lease = 1 THEN "due" ELSE renewal[i]]

(* ttl/2 seconds pass, and the renewal tasks wake up.  A task that is due  *)
(* runs long before as much time passes again: no job blocks the event     *)
(* loop for ttl/2 >= 150 seconds.                                          *)
HalfTTLPasses ==
  /\ \A i \in Instances : renewal[i] # "due"
  /\ owner # None
  /\ Expire
  /\ renewal' = [i \in Instances |-> IF Renewing(i) THEN "due" ELSE "off"]
=============================================================================
