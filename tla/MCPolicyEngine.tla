---------------------------- MODULE MCPolicyEngine ----------------------------
(***************************************************************************)
(* Finite instances of PolicyEngine for TLC.                               *)
(***************************************************************************)
EXTENDS PolicyEngine

CONSTANTS a1, a2, a3

MCCallers == {a1, a2, a3}

MCOneCaller == {a1}

(* One input that the policy allows and one that it does not. *)
MCInputs ==
  {[action |-> "restart_pod", environment |-> "production",
    risk_level |-> "medium", approved |-> FALSE],
   [action |-> "drain_node", environment |-> "production",
    risk_level |-> "critical", approved |-> FALSE]}

(* One input of every combination that a rule tells apart. *)
MCAllInputs ==
  [action : {"get_health", "restart_pod", "drain_node", "delete_namespace"},
   environment : {"development", "staging", "production"},
   risk_level : {"low", "medium", "high", "critical"},
   approved : BOOLEAN]
=============================================================================
