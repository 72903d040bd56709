---------------------------- MODULE RiskAssessment ----------------------------
(***************************************************************************)
(* The pure decisions that gate a remediation: the baseline risk of        *)
(* policy/opa/client.py (classify_risk), its combination with the LLM's    *)
(* opinion in agents/remediation/nodes.py (assess_risk), the approval      *)
(* rules of policy/approval/workflow.py and the limits of                  *)
(* policy/blast_radius.py.                                                 *)
(*                                                                         *)
(* Risk levels are ordered as in risk_order of nodes.py and numbered.      *)
(***************************************************************************)
EXTENDS Naturals

Low == 1
Medium == 2
High == 3
Critical == 4

RiskLevels == Low .. Critical

Environments == {"development", "staging", "production"}

-----------------------------------------------------------------------------

(* Action types whose baseline is critical in every environment. *)
BaselineDestructive ==
  {"drain_node", "delete_namespace", "modify_network_policy",
   "modify_iam_policy"}

BaselineHighImpact == {"rollback_deployment", "rotate_credentials", "scale_down"}

ClassifyRisk(type, env) ==
  CASE type \in BaselineDestructive -> Critical
    [] type \in BaselineHighImpact \ BaselineDestructive /\ env = "production" -> High
    [] type \in BaselineHighImpact \ BaselineDestructive /\ env = "staging" -> Medium
    [] type \notin BaselineHighImpact \cup BaselineDestructive /\ env = "production" -> Medium
    [] OTHER -> Low

(* Action types the fallback of assess_risk() treats as destructive: not   *)
(* the same set.                                                           *)
FallbackDestructive ==
  {"terminate_instance", "delete_namespace", "drain_node",
   "modify_security_group", "delete_pod", "scale_to_zero"}

(* Mutant: production is not escalated. *)
FallbackRiskFlat(type, env) ==
  IF type \in FallbackDestructive THEN Critical ELSE Low

(* The LLM failed or its answer did not parse. *)
FallbackRisk(type, env) ==
  CASE type \in FallbackDestructive -> Critical
    [] type \notin FallbackDestructive /\ env = "production" -> High
    [] OTHER -> ClassifyRisk(type, env)

(* The LLM answered: the higher of its level and the baseline.  A level    *)
(* that is no RiskLevel counts as the baseline, so it is not an input here.*)
LLMRisk(type, env, llm) ==
  IF llm > ClassifyRisk(type, env) THEN llm ELSE ClassifyRisk(type, env)

(* What assess_risk() may return: the LLM is external and may say anything *)
(* or fail.                                                                *)
AssessedRisks(type, env) ==
  {LLMRisk(type, env, llm) : llm \in RiskLevels} \cup {FallbackRisk(type, env)}

RequiresApproval(risk) == risk \in {High, Critical}

RequiredApprovals(risk) == IF risk = Critical THEN 2 ELSE 1

-----------------------------------------------------------------------------

BlastRadiusLimit(env) ==
  CASE env = "development" -> 10
    [] env = "staging" -> 5
    [] OTHER -> 3

(* count is one target plus the additional_resources of the parameters. *)
BlastRadiusAllows(env, count) == count <= BlastRadiusLimit(env)
=============================================================================
