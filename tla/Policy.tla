------------------------------- MODULE Policy -------------------------------
(***************************************************************************)
(* The deterministic policy layer: what risk tier an action falls into,    *)
(* what that tier means, and the two engines the write gate can be bound   *)
(* to (governance/tiers.py, rules.py, policy_engine.py, and                *)
(* execution/policy_binding.py).                                           *)
(*                                                                         *)
(* Everything here is a function of its arguments: the engine reads no     *)
(* session, no clock and no model text.  Rule names, versions and reason   *)
(* sentences are left out; only the tier and the decision have a meaning   *)
(* to the rest of the system.                                              *)
(***************************************************************************)
EXTENDS Naturals

\* What a strategy agent may propose, and the part of it that can be executed.
ProposedAction == {"crm_task", "email_draft", "crm_field_update",
                   "slack_approval_request", "send_email_direct", "record_delete"}

ExecutableAction == ProposedAction \ {"send_email_direct", "record_delete"}

PolicyDecision == {"allow", "require_approval", "deny"}

(* Tiers: 0 read or compute, 1 internal and reversible, 2 customer facing  *)
(* or material, 3 prohibited.                                              *)
RiskTier == 0 .. 3

MaterialField == {"amount", "stage", "probability", "expected_close_date", "owner_id"}

NonMaterialField == {"description", "next_step"}

Highest(tiers) == CHOOSE t \in tiers : \A u \in tiers : u <= t

TierOfField(f) ==
  IF f \in MaterialField THEN 2 ELSE IF f \in NonMaterialField THEN 1 ELSE 3

\* An update of no named field cannot be assessed, so it is prohibited.
ClassifyFieldUpdate(fields) ==
  IF fields = {} THEN 3 ELSE Highest({TierOfField(f) : f \in fields})

TierByAction ==
  [a \in ProposedAction \ {"crm_field_update"} |->
     CASE a \in {"crm_task", "slack_approval_request"} -> 1
       [] a = "email_draft" -> 2
       [] OTHER -> 3]

\* An action nobody classified is prohibited.
Classify(action, fields) ==
  IF action \notin ProposedAction THEN 3
  ELSE IF action = "crm_field_update" THEN ClassifyFieldUpdate(fields)
  ELSE TierByAction[action]

DecisionByTier ==
  [t \in RiskTier |->
     IF t <= 1 THEN "allow" ELSE IF t = 2 THEN "require_approval" ELSE "deny"]

Evaluate(action, fields) == DecisionByTier[Classify(action, fields)]

-----------------------------------------------------------------------------
(* The tools an action is routed to, and the tier the registry declares    *)
(* for each write tool.                                                    *)

WriteTool == {"crm_create_task", "crm_update_opportunity",
              "messaging_create_email_draft", "messaging_send_slack_approval"}

RegistryTier ==
  [tool \in WriteTool |->
     IF tool \in {"crm_create_task", "messaging_send_slack_approval"} THEN 1 ELSE 2]

\* TOOL_TO_ACTION: a tool missing from it classifies as itself, hence as tier 3.
ToolToAction(tool) ==
  CASE tool = "crm_create_task" -> "crm_task"
    [] tool = "crm_update_opportunity" -> "crm_field_update"
    [] tool = "messaging_create_email_draft" -> "email_draft"
    [] tool = "messaging_send_slack_approval" -> "slack_approval_request"
    [] OTHER -> tool

\* TOOL_FOR_ACTION: crm_field_update is deliberately not routable.
ToolForAction ==
  [a \in ExecutableAction \ {"crm_field_update"} |->
     CASE a = "crm_task" -> "crm_create_task"
       [] a = "email_draft" -> "messaging_create_email_draft"
       [] OTHER -> "messaging_send_slack_approval"]

(* DeterministicPolicyEngine.authorize: the stricter of the tier the       *)
(* arguments imply and the tier the registry declares.                     *)
EngineDecision(tool, tier, fields) ==
  DecisionByTier[Highest({Classify(ToolToAction(tool), fields), tier})]

(* ApprovedActionPolicyEngine.authorize: an approval of one tool turns     *)
(* that tool's REQUIRE_APPROVAL into ALLOW and changes nothing else.       *)
ApprovedEngineDecision(approvedTool, tool, tier, fields) ==
  LET inner == EngineDecision(tool, tier, fields)
  IN  IF inner = "require_approval" /\ tool = approvedTool THEN "allow" ELSE inner
=============================================================================
