-------------------------- MODULE PolicyEngine_proofs --------------------------
(***************************************************************************)
(* Proofs about the circuit breaker, for any number of callers, any        *)
(* threshold and any number of probe slots, and about the policy engine    *)
(* that calls OPA through it.                                              *)
(***************************************************************************)
EXTENDS PolicyEngine, FiniteSetTheorems, TLAPS

(* The inductive invariant.  The two bounds need each other through the    *)
(* count of occupied slots, and both need that outside HALF_OPEN no slot   *)
(* is occupied: a late outcome then finds nothing to give back.            *)
BreakerInv ==
  /\ BreakerTypeOK
  /\ IsFiniteSet(probing)
  /\ Cardinality(probing) <= probes
  /\ SlotsAccounted
  /\ ToleranceRestored
  /\ breaker # "half_open" => probing = {} /\ probes = 0

(* The initial breaker satisfies the invariant. *)
LEMMA InitBreakerInv == BreakerInit => BreakerInv
  <1> SUFFICES ASSUME BreakerInit PROVE BreakerInv
    OBVIOUS
  <1>1. IsFiniteSet({}) /\ Cardinality({}) = 0
    BY FS_EmptySet
  <1>2. BreakerTypeOK
    <2>1. recovered \in BOOLEAN
      BY DEF BreakerInit
    <2>2. failures \in 0 .. FailureThreshold /\ probes \in 0 .. HalfOpenMaxCalls /\ cancels \in 0 .. MaxCancels
      BY BreakerAssumption DEF BreakerInit, BreakerAssumption
    <2>3. breaker \in {"closed", "open", "half_open"} /\ pending \in SUBSET Callers /\ probing \in SUBSET pending
      BY DEF BreakerInit
    <2> QED
      BY <2>1, <2>2, <2>3 DEF BreakerTypeOK
  <1> QED
    BY <1>1, <1>2, BreakerAssumption
    DEF BreakerInit, BreakerInv, SlotsAccounted, ToleranceRestored

(* An admitted call takes one slot of the half-open breaker and no other.  *)
LEMMA AdmitBreakerInv == ASSUME NEW c \in Callers, BreakerInv, Admit(c) PROVE BreakerInv'
  <1> USE DEF BreakerInv, BreakerTypeOK, SlotsAccounted, ToleranceRestored
  <1>1. CASE State = "half_open"
    <2>1. /\ probes < HalfOpenMaxCalls
          /\ breaker' = "half_open"
          /\ probes' = probes + 1
          /\ probing' = probing \cup {c}
          /\ pending' = pending \cup {c}
          /\ UNCHANGED <<recovered, failures, cancels>>
      BY <1>1 DEF Admit, Admits
    <2>2. c \notin probing
      BY DEF Admit
    <2>3. IsFiniteSet(probing') /\ Cardinality(probing') = Cardinality(probing) + 1
      BY <2>1, <2>2, FS_AddElement
    <2>4. Cardinality(probing) \in Nat
      BY FS_CardinalityType
    <2>5. BreakerTypeOK'
      BY <2>1, BreakerAssumption
    <2> QED
      BY <2>1, <2>3, <2>4, <2>5, BreakerAssumption
  <1>2. CASE State # "half_open"
    <2>1. State = "closed" /\ breaker = "closed"
      BY <1>2 DEF Admit, Admits, State
    <2>2. /\ breaker' = "closed"
          /\ pending' = pending \cup {c}
          /\ UNCHANGED <<recovered, failures, probes, probing, cancels>>
      BY <2>1, <1>2 DEF Admit
    <2>3. BreakerTypeOK'
      BY <2>2
    <2> QED
      BY <2>1, <2>2, <2>3
  <1> QED
    BY <1>1, <1>2

(* A recorded outcome frees every slot of a half-open breaker at once, and *)
(* finds none occupied in any other state.                                 *)
LEMMA OutcomeBreakerInv ==
  ASSUME NEW c \in Callers, BreakerInv, Succeed(c) \/ Fail(c) PROVE BreakerInv'
  <1> USE DEF BreakerInv, BreakerTypeOK, SlotsAccounted, ToleranceRestored
  <1>1. IsFiniteSet({}) /\ Cardinality({}) = 0
    BY FS_EmptySet
  <1>2. OneMoreFailure \in 0 .. FailureThreshold
    BY BreakerAssumption DEF OneMoreFailure
  <1>3. pending' \in SUBSET Callers /\ cancels' = cancels
    BY DEF Succeed, Fail
  <1>4. probing' = {} /\ probes' = 0
    BY DEF Succeed, Fail, Trips
  <1>5. CASE Succeed(c)
    <2>1. breaker' = "closed" => failures' = 0
      BY <1>5 DEF Succeed
    <2>2. /\ breaker' \in {"closed", "open", "half_open"}
          /\ failures' \in 0 .. FailureThreshold
          /\ recovered' \in BOOLEAN
      BY <1>5, BreakerAssumption DEF Succeed
    <2> QED
      BY <1>1, <1>3, <1>4, <2>1, <2>2, BreakerAssumption
  <1>6. CASE Fail(c)
    <2>1. breaker' = "closed" => failures' < FailureThreshold
      BY <1>2, <1>6, BreakerAssumption DEF Fail, Trips
    <2>2. /\ breaker' \in {"closed", "open", "half_open"}
          /\ failures' \in 0 .. FailureThreshold
          /\ recovered' \in BOOLEAN
      BY <1>2, <1>6 DEF Fail
    <2> QED
      BY <1>1, <1>3, <1>4, <2>1, <2>2, BreakerAssumption
  <1> QED
    BY <1>5, <1>6

(* A cancelled call keeps its slot occupied, and is counted as lost.       *)
LEMMA CancelBreakerInv == ASSUME NEW c \in Callers, BreakerInv, Cancel(c) PROVE BreakerInv'
  <1> USE DEF BreakerInv, BreakerTypeOK, SlotsAccounted, ToleranceRestored
  <1>1. /\ cancels' = cancels + 1
        /\ cancels < MaxCancels
        /\ pending' = pending \ {c}
        /\ probing' = probing \ {c}
        /\ UNCHANGED <<breaker, recovered, failures, probes>>
    BY DEF Cancel
  <1>2. BreakerTypeOK'
    BY <1>1, BreakerAssumption
  <1>3. Cardinality(probing) \in Nat
    BY FS_CardinalityType
  <1>4. /\ IsFiniteSet(probing')
        /\ Cardinality(probing') <= Cardinality(probing)
        /\ Cardinality(probing) <= Cardinality(probing') + 1
    <2>1. IsFiniteSet(probing')
          /\ Cardinality(probing') =
               IF c \in probing THEN Cardinality(probing) - 1 ELSE Cardinality(probing)
      BY <1>1, FS_RemoveElement
    <2> QED
      BY <2>1, <1>3
  <1>5. Cardinality(probing') \in Nat
    BY <1>4, FS_CardinalityType
  <1> QED
    BY <1>1, <1>2, <1>3, <1>4, <1>5, BreakerAssumption

(* Every step of the breaker preserves the invariant. *)
LEMMA StepBreakerInv == BreakerInv /\ [BreakerNext]_breakerVars => BreakerInv'
  <1> SUFFICES ASSUME BreakerInv, [BreakerNext]_breakerVars PROVE BreakerInv'
    OBVIOUS
  <1>1. ASSUME NEW c \in Callers,
               Admit(c) \/ Refuse(c) \/ Succeed(c) \/ Fail(c) \/ Cancel(c)
        PROVE  BreakerInv'
    <2>1. CASE Admit(c)
      BY <2>1, AdmitBreakerInv
    <2>2. CASE Refuse(c)
      BY <2>2 DEF Refuse, breakerVars, BreakerInv, BreakerTypeOK, SlotsAccounted, ToleranceRestored
    <2>3. CASE Succeed(c) \/ Fail(c)
      BY <2>3, OutcomeBreakerInv
    <2>4. CASE Cancel(c)
      BY <2>4, CancelBreakerInv
    <2> QED
      BY <1>1, <2>1, <2>2, <2>3, <2>4
  <1>2. CASE Recover
    BY <1>2 DEF Recover, BreakerInv, BreakerTypeOK, SlotsAccounted, ToleranceRestored
  <1>3. CASE Reset
    <2>1. IsFiniteSet({}) /\ Cardinality({}) = 0
      BY FS_EmptySet
    <2> QED
      BY <1>3, <2>1, BreakerAssumption
      DEF Reset, BreakerInv, BreakerTypeOK, SlotsAccounted, ToleranceRestored
  <1>4. CASE UNCHANGED breakerVars
    BY <1>4 DEF breakerVars, BreakerInv, BreakerTypeOK, SlotsAccounted, ToleranceRestored
  <1> QED
    BY <1>1, <1>2, <1>3, <1>4 DEF BreakerNext

(* What the invariant says about the probes. *)
LEMMA InvProbeBound == BreakerInv => ProbeBound
  <1> SUFFICES ASSUME BreakerInv PROVE ProbeBound
    OBVIOUS
  <1>1. Cardinality(probing) \in Nat
    BY FS_CardinalityType DEF BreakerInv
  <1> QED
    BY <1>1, BreakerAssumption DEF BreakerInv, BreakerTypeOK, ProbeBound

(* The breaker by itself, with operators resetting it at any moment: no    *)
(* late outcome exceeds the probes, loses a slot or leaves an old count.   *)
THEOREM BreakerTheorem == BreakerSpec => [](ProbeBound /\ SlotsAccounted /\ ToleranceRestored)
  <1>1. BreakerInv => ProbeBound /\ SlotsAccounted /\ ToleranceRestored
    BY InvProbeBound DEF BreakerInv
  <1> QED
    BY <1>1, InitBreakerInv, StepBreakerInv, PTL DEF BreakerSpec

-----------------------------------------------------------------------------

(* Every step of the engine is one of the breaker or leaves it alone.      *)
LEMMA EngineSteps == [EngineNext]_engineVars => [BreakerNext]_breakerVars
  BY DEF EngineNext, engineVars, Evaluate, Evaluation, Enriched, Answered, Unanswered,
         Counted, Cancelled, Abandoned, NextHour, RecoveryElapses, BreakerNext, breakerVars

(* The engine uses the breaker as it is meant to be used, so all that holds*)
(* of the breaker holds in the engine.                                     *)
THEOREM EngineImplementsBreaker == EngineSpec => BreakerSpec
  <1>1. PolicyInit => BreakerInit
    BY DEF PolicyInit
  <1> QED
    BY <1>1, EngineSteps, PTL DEF EngineSpec, BreakerSpec

(* In the engine, whatever OPA, Redis and cancellations do: no more probes *)
(* than allowed in one half-open period.                                   *)
THEOREM ProbeTheorem == EngineSpec => []ProbeBound
  BY EngineImplementsBreaker, BreakerTheorem, PTL

(* ... no slot is lost but to a cancelled call. *)
THEOREM SlotTheorem == EngineSpec => []SlotsAccounted
  BY EngineImplementsBreaker, BreakerTheorem, PTL

(* ... and a closed breaker has its full tolerance back. *)
THEOREM ToleranceTheorem == EngineSpec => []ToleranceRestored
  BY EngineImplementsBreaker, BreakerTheorem, PTL

-----------------------------------------------------------------------------

(* What an evaluation knows at each of its stages. *)
VerdictBacked ==
  \A c \in Callers :
    stage[c] = "counting" \/ verdict[c] = "allowed" => Allow(input[c])

EngineInv ==
  /\ stage \in [Callers -> Stages]
  /\ input \in [Callers -> Inputs]
  /\ verdict \in [Callers -> {"none", "allowed", "denied"}]
  /\ VerdictBacked

(* No step of any evaluation allows what the rule does not. *)
LEMMA StepEngineInv == EngineInv /\ [EngineNext]_engineVars => EngineInv'
  <1> SUFFICES ASSUME EngineInv, [EngineNext]_engineVars PROVE EngineInv'
    OBVIOUS
  <1> USE DEF EngineInv, VerdictBacked, Stages
  <1>1. ASSUME NEW c \in Callers, NEW i \in Inputs, Evaluate(c, i) PROVE EngineInv'
    BY <1>1 DEF Evaluate, Allow
  <1>2. ASSUME NEW c \in Callers, Enriched(c) PROVE EngineInv'
    BY <1>2 DEF Enriched, Conclude, Allow
  <1>3. ASSUME NEW c \in Callers, Answered(c) PROVE EngineInv'
    BY <1>3 DEF Answered, Conclude, Allow
  <1>4. ASSUME NEW c \in Callers, Unanswered(c) PROVE EngineInv'
    BY <1>4 DEF Unanswered, Conclude, Allow
  <1>5. ASSUME NEW c \in Callers, Counted(c) PROVE EngineInv'
    BY <1>5 DEF Counted, Conclude, Allow
  <1>6. ASSUME NEW c \in Callers, Cancelled(c) \/ Abandoned(c) PROVE EngineInv'
    BY <1>6 DEF Cancelled, Abandoned, Allow
  <1>7. CASE NextHour \/ RecoveryElapses \/ UNCHANGED engineVars
    BY <1>7 DEF NextHour, RecoveryElapses, engineVars, policyVars, Allow
  <1> QED
    BY <1>1, <1>2, <1>3, <1>4, <1>5, <1>6, <1>7 DEF EngineNext, Evaluation

(* The gate fails closed, for any number of agents and any inputs. *)
THEOREM FailClosedTheorem == EngineSpec => []FailClosed
  <1>1. PolicyInit => EngineInv
    BY DEF PolicyInit, EngineInv, VerdictBacked, Stages
  <1>2. EngineInv => FailClosed
    BY DEF EngineInv, VerdictBacked, FailClosed
  <1> QED
    BY <1>1, <1>2, StepEngineInv, PTL DEF EngineSpec

-----------------------------------------------------------------------------

(* The engine's types are kept: the breaker sees to its own, and awaits    *)
(* the service for exactly the evaluations that are suspended in the call. *)
LEMMA StepPolicyType ==
  ASSUME PolicyTypeOK, BreakerTypeOK', [EngineNext]_engineVars
  PROVE  PolicyTypeOK'
  <1> USE PolicyAssumption DEF PolicyTypeOK, Stages
  <1>1. ASSUME NEW c \in Callers, NEW i \in Inputs, Evaluate(c, i) PROVE PolicyTypeOK'
    BY <1>1 DEF Evaluate, breakerVars
  <1>2. ASSUME NEW c \in Callers, Enriched(c) PROVE PolicyTypeOK'
    <2>1. CASE Admit(c) /\ stage' = [stage EXCEPT ![c] = "posting"] /\ UNCHANGED verdict
      BY <1>2, <2>1 DEF Enriched, Admit
    <2>2. CASE Refuse(c) /\ Conclude(c, "denied")
      BY <1>2, <2>2 DEF Enriched, Refuse, Conclude, breakerVars
    <2> QED
      BY <1>2, <2>1, <2>2 DEF Enriched
  <1>3. ASSUME NEW c \in Callers, Answered(c) PROVE PolicyTypeOK'
    <2>1. pending' = pending \ {c}
      BY <1>3 DEF Answered, Succeed
    <2> QED
      BY <1>3, <2>1 DEF Answered, Conclude
  <1>4. ASSUME NEW c \in Callers, Unanswered(c) PROVE PolicyTypeOK'
    <2>1. pending' = pending \ {c}
      BY <1>4 DEF Unanswered, Fail
    <2> QED
      BY <1>4, <2>1 DEF Unanswered, Conclude
  <1>5. ASSUME NEW c \in Callers, Counted(c) PROVE PolicyTypeOK'
    BY <1>5 DEF Counted, CountedOnce, Conclude, breakerVars
  <1>6. ASSUME NEW c \in Callers, Cancelled(c) PROVE PolicyTypeOK'
    <2>1. pending' = pending \ {c}
      BY <1>6 DEF Cancelled, Cancel
    <2> QED
      BY <1>6, <2>1 DEF Cancelled
  <1>7. ASSUME NEW c \in Callers, Abandoned(c) PROVE PolicyTypeOK'
    BY <1>7 DEF Abandoned, CountedOnce, breakerVars
  <1>8. CASE NextHour \/ UNCHANGED engineVars
    BY <1>8 DEF NextHour, engineVars, policyVars, breakerVars
  <1>9. CASE RecoveryElapses
    BY <1>9 DEF RecoveryElapses, Recover, policyVars
  <1> QED
    BY <1>1, <1>2, <1>3, <1>4, <1>5, <1>6, <1>7, <1>8, <1>9 DEF EngineNext, Evaluation

(* The types of the engine and its breaker, for any threshold and limits:  *)
(* counts within their bounds, and the breaker waits for nobody who left.  *)
THEOREM PolicyTypeTheorem == EngineSpec => []PolicyTypeOK
  <1>1. PolicyInit => PolicyTypeOK
    <2>1. PolicyInit => BreakerTypeOK
      BY InitBreakerInv DEF PolicyInit, BreakerInv
    <2> QED
      BY <2>1, PolicyAssumption DEF PolicyInit, PolicyTypeOK, Stages, BreakerInit
  <1>2. BreakerSpec => []BreakerTypeOK
    <2>1. BreakerInv => BreakerTypeOK
      BY DEF BreakerInv
    <2> QED
      BY <2>1, InitBreakerInv, StepBreakerInv, PTL DEF BreakerSpec
  <1>3. PolicyTypeOK /\ BreakerTypeOK' /\ [EngineNext]_engineVars => PolicyTypeOK'
    BY StepPolicyType
  <1> QED
    BY <1>1, <1>2, <1>3, EngineImplementsBreaker, PTL DEF EngineSpec
=============================================================================
