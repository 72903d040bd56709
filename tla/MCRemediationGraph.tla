------------------------- MODULE MCRemediationGraph -------------------------
(***************************************************************************)
(* Finite instances of RemediationGraph for TLC.                           *)
(***************************************************************************)
EXTENDS RemediationGraph

CONSTANTS m1, web, alice, bob

MCOneRemediation == {m1}

MCResources == {web}

MCTwoPeople == {alice, bob}

(* A medium, a high and two critical baselines, supported and not by the   *)
(* connector; one of the critical ones the fallback does not know.         *)
MCAllActions ==
  [type : {"restart_pod", "rollback_deployment", "drain_node",
           "modify_iam_policy", "terminate_instance"},
   env : Environments, target : {web}]
=============================================================================
