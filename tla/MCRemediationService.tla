------------------------ MODULE MCRemediationService ------------------------
(***************************************************************************)
(* Finite instances of RemediationService for TLC.                         *)
(***************************************************************************)
EXTENDS RemediationService

CONSTANTS m1, m2, web, alice

MCRemediations == {m1, m2}

MCOneRemediation == {m1}

MCResources == {web}

MCPeople == {alice}

(* A medium baseline, which the LLM may raise; at most 3 resources.        *)
MCOneAction ==
  {[type |-> "restart_pod", env |-> "production", target |-> web]}

(* On either side of the limit. *)
MCCounts == {3, 4}
=============================================================================
