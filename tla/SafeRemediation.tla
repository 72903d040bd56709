---------------------------- MODULE SafeRemediation ----------------------------
(***************************************************************************)
(* What docs/agents/remediation.md and docs/architecture/safety-model.md   *)
(* promise of a remediation, without its graph, its workflow of timeouts   *)
(* and escalations, its snapshots or its LLM: it is assessed once, cleared *)
(* only with the assents its assessment calls for, touches the             *)
(* infrastructure at most once and only when cleared, and is then either   *)
(* accepted or rolled back.                                                *)
(***************************************************************************)
EXTENDS Naturals

CONSTANT Remediations

VARIABLES
  stage,    \* how far each remediation is
  need,     \* assents its assessment calls for
  assents,  \* assents given so far
  effects   \* remediations that have touched the infrastructure

vars == <<stage, need, assents, effects>>

Stages == {"idle", "requested", "assessed", "cleared", "attempted",
           "refused", "accepted", "rolled_back"}

TypeOK ==
  /\ stage \in [Remediations -> Stages]
  /\ need \in [Remediations -> 0 .. 2]
  /\ assents \in [Remediations -> Nat]
  /\ effects \in SUBSET Remediations

Init ==
  /\ stage = [r \in Remediations |-> "idle"]
  /\ need = [r \in Remediations |-> 0]
  /\ assents = [r \in Remediations |-> 0]
  /\ effects = {}

Move(r, from, to) ==
  /\ stage[r] \in from
  /\ stage' = [stage EXCEPT ![r] = to]

Start(r) ==
  /\ Move(r, {"idle"}, "requested")
  /\ UNCHANGED <<need, assents, effects>>

Assess(r) ==
  /\ \E n \in 0 .. 2 :
       /\ need' = [need EXCEPT ![r] = n]
       /\ Move(r, {"requested"}, IF n = 0 THEN "cleared" ELSE "assessed")
  /\ UNCHANGED <<assents, effects>>

Assent(r) ==
  /\ assents' = [assents EXCEPT ![r] = @ + 1]
  /\ UNCHANGED <<stage, need, effects>>

Clear(r) ==
  /\ assents[r] >= need[r]
  /\ Move(r, {"assessed"}, "cleared")
  /\ UNCHANGED <<need, assents, effects>>

Refuse(r) ==
  /\ Move(r, {"requested", "assessed"}, "refused")
  /\ UNCHANGED <<need, assents, effects>>

(* An attempt may have had its effect even if it is reported as failed.    *)
Attempt(r) ==
  /\ Move(r, {"cleared"}, "attempted")
  /\ effects' \in {effects, effects \cup {r}}
  /\ UNCHANGED <<need, assents>>

Close(r) ==
  /\ \/ Move(r, {"attempted"}, "accepted")
     \/ Move(r, {"attempted"}, "rolled_back")
  /\ UNCHANGED <<need, assents, effects>>

Progress(r) == Assess(r) \/ Clear(r) \/ Refuse(r) \/ Attempt(r) \/ Close(r)

Next == \E r \in Remediations : Start(r) \/ Assent(r) \/ Progress(r)

Safety == Init /\ [][Next]_vars

(* Through the API a remediation that is over can be rolled back still, and *)
(* again.                                                                  *)
Revoke(r) ==
  /\ Move(r, {"accepted", "rolled_back"}, "rolled_back")
  /\ UNCHANGED <<need, assents, effects>>

RevocableSafety == Init /\ [][Next \/ \E r \in Remediations : Revoke(r)]_vars

(* A remediation that was started is carried through. *)
Spec == Safety /\ \A r \in Remediations : WF_vars(Progress(r))
=============================================================================
