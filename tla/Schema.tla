------------------------------- MODULE Schema -------------------------------
(***************************************************************************)
(* The database schema twice: as the baseline migration creates it         *)
(* (alembic/versions/0001_baseline.py) and as the ORM models declare it    *)
(* (db/models/, with the enum values of domain/enums.py).                  *)
(*                                                                         *)
(* A table is the set of its constraints: foreign keys with their ON       *)
(* DELETE rule, unique keys, CHECK names, enum columns with their type,    *)
(* nullable columns, the scale of its decimals, and the columns a later    *)
(* revision adds.  Other columns, lengths and indexes that are not unique  *)
(* are left out.                                                           *)
(***************************************************************************)
EXTENDS Maps, Naturals, Sequences, FiniteSets

\* The table a foreign key column refers to: one naming rule for all tables.
Referenced ==
  [account_id |-> "accounts", opportunity_id |-> "opportunities",
   raw_event_id |-> "raw_events", signal_id |-> "signals", incident_id |-> "incidents",
   run_id |-> "workflow_runs", workflow_run_id |-> "workflow_runs",
   evaluation_run_id |-> "evaluation_runs", intervention_id |-> "interventions",
   model_call_id |-> "model_calls", tool_call_id |-> "tool_calls",
   evidence_item_id |-> "evidence_items", hypothesis_id |-> "hypotheses",
   policy_evaluation_id |-> "policy_evaluations", authorized_by |-> "policy_evaluations",
   approval_request_id |-> "approval_requests"]

Cascade(columns) == [c \in columns |-> [to |-> Referenced[c], on |-> "cascade"]]
SetNull(columns) == [c \in columns |-> [to |-> Referenced[c], on |-> "set null"]]
Restricted(columns) == [c \in columns |-> [to |-> Referenced[c], on |-> "restrict"]]

\* A table with the constraints given and none of the others.
Table(constraints) ==
  constraints ++ [fk |-> <<>>, unique |-> {}, check |-> {}, enum |-> <<>>, nullable |-> {},
                  scale |-> <<>>, added |-> {}]

-----------------------------------------------------------------------------
(* The baseline, in the order the tables are created. *)

\* Tables that refer to no other table.
RootTables ==
  [accounts |-> Table([
      unique |-> {{"account_ref"}}, check |-> {"employee_count_non_negative"},
      enum |-> [segment |-> "account_segment"]]),
   budgets |-> Table([
      unique |-> {{"scope", "scope_ref", "period"}}, check |-> {"amounts_non_negative"},
      enum |-> [scope |-> "budget_scope", period |-> "budget_period"],
      nullable |-> {"scope_ref"}, scale |-> [limit_usd |-> 2, consumed_usd |-> 2]]),
   evaluation_runs |-> Table([
      check |-> {"counts_coherent"}, nullable |-> {"ended_at"}]),
   raw_events |-> Table([
      unique |-> {{"source_system", "source_event_id"}},
      enum |-> [source_system |-> "source_system"]])]

\* The enrichment and engagement mirrors, and the normalized events.
MirrorTables ==
  [company_profiles |-> Table([
      fk |-> Cascade({"account_id"}), unique |-> {{"account_id"}}]),
   engagement_events |-> Table([
      fk |-> Cascade({"account_id"}),
      enum |-> [channel |-> "engagement_channel", event_type |-> "engagement_event_type"]]),
   normalized_events |-> Table([
      fk |-> Cascade({"raw_event_id"}), unique |-> {{"raw_event_id"}},
      enum |-> [event_type |-> "event_type", source_system |-> "source_system", trust_level
        |-> "trust_level"],
      nullable |-> {"account_ref", "opportunity_ref"}])]

\* Opportunities, support issues, usage snapshots.
PipelineTables ==
  [opportunities |-> Table([
      fk |-> Cascade({"account_id"}), unique |-> {{"opportunity_ref"}},
      check |-> {"amount_non_negative", "probability_in_range"},
      enum |-> [stage |-> "opportunity_stage"], scale |-> [amount |-> 2, probability |-> 4]]),
   support_issues |-> Table([
      fk |-> Cascade({"account_id"}), unique |-> {{"external_ref"}},
      enum |-> [severity |-> "support_severity", status |-> "support_status"]]),
   usage_snapshots |-> Table([
      fk |-> Cascade({"account_id"}), unique |-> {{"account_id", "period_start"}},
      check |-> {"counts_non_negative", "period_ordered"}, scale |-> [usage_score |-> 2]])]

SignalTables ==
  [activities |-> Table([
      fk |-> Cascade({"account_id", "opportunity_id"}),
      enum |-> [activity_type |-> "activity_type", direction |-> "activity_direction"],
      nullable |-> {"opportunity_id"}]),
   signals |-> Table([
      fk |-> Cascade({"account_id", "opportunity_id"}), unique |-> {{"dedupe_key"}},
      enum |-> [signal_type |-> "signal_type", severity |-> "severity"],
      nullable |-> {"opportunity_id"}])]

IncidentTables ==
  [incidents |-> Table([
      fk |-> Cascade({"account_id", "opportunity_id", "signal_id"}),
      unique |-> {{"incident_ref"}}, check |-> {"closure_ordered"},
      enum |-> [incident_type |-> "incident_type", status |-> "incident_status", severity
        |-> "severity"],
      nullable |-> {"opportunity_id", "closed_at"}])]

\* Runs, their audit rows, their check results.
RunTables ==
  [workflow_runs |-> Table([
      fk |-> Cascade({"incident_id"}), check |-> {"run_ordered"},
      enum |-> [status |-> "workflow_status"],
      nullable |-> {"current_node", "ended_at", "checkpoint_ref"}]),
   audit_events |-> Table([
      fk |-> Cascade({"incident_id", "run_id"}), nullable |-> {"run_id", "incident_id"}]),
   evaluation_results |-> Table([
      fk |-> Cascade({"evaluation_run_id"}) ++ SetNull({"workflow_run_id"}),
      unique |-> {{"evaluation_run_id", "check_name"}},
      enum |-> [outcome |-> "evaluation_outcome"],
      nullable |-> {"workflow_run_id", "detail"}])]

\* What an investigation finds and proposes.
FindingTables ==
  [evidence_items |-> Table([
      fk |-> Cascade({"run_id"}), unique |-> {{"run_id", "evidence_ref"}},
      enum |-> [source_system |-> "source_system", trust_level |-> "trust_level"]]),
   hypotheses |-> Table([
      fk |-> Cascade({"run_id"}),
      unique |-> {{"run_id", "hypothesis_ref"}, {"run_id", "rank"}},
      check |-> {"confidence_in_range", "rank_positive"}, scale |-> [confidence |-> 4]]),
   impact_assessments |-> Table([
      fk |-> Cascade({"run_id"}), unique |-> {{"run_id"}},
      check |-> {"values_non_negative", "values_ordered"},
      enum |-> [computed_by |-> "computed_by"],
      scale |-> [pipeline_value |-> 2, weighted_value |-> 2, at_risk_value |-> 2]]),
   interventions |-> Table([
      fk |-> Cascade({"run_id"}), unique |-> {{"run_id", "rank"}},
      check |-> {"expected_value_non_negative", "rank_positive"},
      enum |-> [action_type |-> "action_type"],
      scale |-> [expected_value |-> 2, effort_score |-> 2, risk_score |-> 2, composite_score
        |-> 2]])]

\* The trace of a run.
CallTables ==
  [model_calls |-> Table([
      fk |-> Cascade({"run_id"}), check |-> {"tokens_non_negative", "latency_non_negative"}]),
   tool_calls |-> Table([
      fk |-> Cascade({"run_id"}), check |-> {"duration_non_negative"},
      enum |-> [status |-> "tool_call_status"], nullable |-> {"parent_span_id"}]),
   workflow_transitions |-> Table([
      fk |-> Cascade({"run_id"}), unique |-> {{"run_id", "sequence"}},
      check |-> {"duration_non_negative", "sequence_non_negative"},
      nullable |-> {"from_node", "edge_predicate"}])]

\* Effects, decisions and costs.
ActionTables ==
  [action_records |-> Table([
      fk |-> Cascade({"intervention_id", "run_id"}), unique |-> {{"idempotency_key"}},
      check |-> {"attempt_count_non_negative"},
      enum |-> [action_type |-> "action_type", status |-> "action_status"],
      nullable |-> {"result", "executed_at"}]),
   agent_decisions |-> Table([
      fk |-> SetNull({"model_call_id"}) ++ Cascade({"run_id"}),
      nullable |-> {"model_call_id"}]),
   cost_entries |-> Table([
      fk |-> Cascade({"model_call_id", "run_id", "tool_call_id"}),
      check |-> {"exactly_one_source", "amount_non_negative"},
      enum |-> [cost_type |-> "cost_type"], nullable |-> {"model_call_id", "tool_call_id"},
      scale |-> [amount_usd |-> 6]])]

\* Links, verdicts and approvals.
GovernanceTables ==
  [hypothesis_evidence |-> Table([
      fk |-> Cascade({"evidence_item_id", "hypothesis_id"}),
      unique |-> {{"hypothesis_id", "evidence_item_id"}}]),
   policy_evaluations |-> Table([
      fk |-> Cascade({"intervention_id"}), unique |-> {{"intervention_id"}},
      check |-> {"risk_tier_in_range"}, enum |-> [decision |-> "policy_decision"]]),
   approval_requests |-> Table([
      fk |-> Cascade({"policy_evaluation_id", "run_id"}),
      unique |-> {{"policy_evaluation_id"}}, check |-> {"expiry_after_request"},
      enum |-> [status |-> "approval_status"],
      nullable |-> {"decided_at", "decided_by", "decision_note"}])]

\* The native enum types, which PostgreSQL keeps apart from the tables.
BaselineTypes ==
  [account_segment |-> {"enterprise", "mid_market", "smb"},
   action_status |-> {"pending", "executing", "succeeded", "failed", "skipped"},
   action_type |-> {"crm_task", "email_draft", "crm_field_update",
     "slack_approval_request"},
   activity_direction |-> {"inbound", "outbound", "internal"},
   activity_type |-> {"email", "call", "meeting", "note"},
   approval_status |-> {"pending", "approved", "rejected", "expired"},
   budget_period |-> {"run", "incident", "monthly"},
   budget_scope |-> {"global", "incident", "run"},
   computed_by |-> {"deterministic", "model"},
   cost_type |-> {"model_inference", "tool_invocation"},
   engagement_channel |-> {"email", "calendar", "web"},
   engagement_event_type |-> {"sent", "opened", "clicked", "meeting_held"},
   evaluation_outcome |-> {"passed", "failed", "skipped"},
   event_type |-> {"crm.opportunity.updated", "crm.activity.logged",
     "product.usage.rollup", "engagement.email.activity", "engagement.meeting.held",
     "support.issue.opened", "crm.opportunity.stage_changed",
     "crm.record.quality_flagged", "enrichment.provider.usage_reported",
     "campaign.performance.rollup"},
   incident_status |-> {"detected", "triaged", "investigating", "analyzed",
     "strategized", "awaiting_approval", "executing", "completed", "closed_rejected",
     "expired", "dismissed", "failed"},
   incident_type |-> {"stalled_opportunity", "renewal_risk", "deal_slippage",
     "pqa_discovery", "account_expansion", "crm_data_quality",
     "enrichment_cost_anomaly", "campaign_underperformance"},
   opportunity_stage |-> {"discovery", "proposal", "negotiation", "closed_won",
     "closed_lost"},
   policy_decision |-> {"allow", "require_approval", "deny"},
   severity |-> {"low", "medium", "high", "critical"},
   signal_type |-> {"stalled_opportunity", "renewal_risk", "deal_slippage",
     "pqa_discovery", "account_expansion", "crm_data_quality",
     "enrichment_cost_anomaly", "campaign_underperformance"},
   source_system |-> {"crm", "product", "engagement", "support", "enrichment"},
   support_severity |-> {"p1", "p2", "p3", "p4"},
   support_status |-> {"open", "pending", "resolved", "closed"},
   tool_call_status |-> {"success", "error", "denied"},
   trust_level |-> {"untrusted"},
   workflow_status |-> {"running", "interrupted", "completed", "failed"}]

Baseline ==
  [tables |-> RootTables ++ MirrorTables ++ PipelineTables ++ SignalTables ++ IncidentTables
                ++ RunTables ++ FindingTables ++ CallTables ++ ActionTables ++ GovernanceTables,
   types |-> BaselineTypes]

\* Before the baseline and after its downgrade.
EmptyCatalogue == [tables |-> <<>>, types |-> <<>>]

\* The order the downgrade drops the tables in.
DropOrder ==
  <<"approval_requests", "policy_evaluations", "hypothesis_evidence", "cost_entries",
    "agent_decisions", "action_records", "workflow_transitions", "tool_calls", "model_calls",
    "interventions", "impact_assessments", "hypotheses", "evidence_items",
    "evaluation_results", "audit_events", "workflow_runs", "incidents", "signals",
    "activities", "usage_snapshots", "support_issues", "opportunities", "normalized_events",
    "engagement_events", "company_profiles", "raw_events", "evaluation_runs", "budgets",
    "accounts">>

\* Mutant of DroppedTypes: as autogenerate leaves it.
TypesForgotten == {}

\* The enum types the downgrade drops by name, because no table drop does.
DroppedTypes == DOMAIN BaselineTypes

-----------------------------------------------------------------------------
(* The models of db/models/, one definition per file. *)

GtmModels ==
  [accounts |-> Table([
      unique |-> {{"account_ref"}}, check |-> {"employee_count_non_negative"},
      enum |-> [segment |-> "account_segment"]]),
   opportunities |-> Table([
      fk |-> Cascade({"account_id"}), unique |-> {{"opportunity_ref"}},
      check |-> {"amount_non_negative", "probability_in_range"},
      enum |-> [stage |-> "opportunity_stage"], scale |-> [amount |-> 2, probability |-> 4]]),
   activities |-> Table([
      fk |-> Cascade({"account_id", "opportunity_id"}),
      enum |-> [activity_type |-> "activity_type", direction |-> "activity_direction"],
      nullable |-> {"opportunity_id"}]),
   usage_snapshots |-> Table([
      fk |-> Cascade({"account_id"}), unique |-> {{"account_id", "period_start"}},
      check |-> {"period_ordered", "counts_non_negative"}, scale |-> [usage_score |-> 2]]),
   engagement_events |-> Table([
      fk |-> Cascade({"account_id"}),
      enum |-> [channel |-> "engagement_channel", event_type |-> "engagement_event_type"]]),
   support_issues |-> Table([
      fk |-> Cascade({"account_id"}), unique |-> {{"external_ref"}},
      enum |-> [severity |-> "support_severity", status |-> "support_status"]]),
   company_profiles |-> Table([
      fk |-> Cascade({"account_id"}), unique |-> {{"account_id"}}])]

EventModels ==
  [raw_events |-> Table([
      unique |-> {{"source_system", "source_event_id"}},
      enum |-> [source_system |-> "source_system"]]),
   normalized_events |-> Table([
      fk |-> Cascade({"raw_event_id"}), unique |-> {{"raw_event_id"}},
      enum |-> [event_type |-> "event_type", source_system |-> "source_system", trust_level
        |-> "trust_level"],
      nullable |-> {"account_ref", "opportunity_ref"}]),
   signals |-> Table([
      fk |-> Cascade({"account_id", "opportunity_id"}), unique |-> {{"dedupe_key"}},
      enum |-> [signal_type |-> "signal_type", severity |-> "severity"],
      nullable |-> {"opportunity_id"}])]

WorkflowModels ==
  [incidents |-> Table([
      fk |-> Cascade({"signal_id", "account_id", "opportunity_id"}),
      unique |-> {{"incident_ref"}, {"signal_id"}}, check |-> {"closure_ordered"},
      enum |-> [incident_type |-> "incident_type", status |-> "incident_status", severity
        |-> "severity"],
      nullable |-> {"opportunity_id", "closed_at"}]),
   workflow_runs |-> Table([
      fk |-> Cascade({"incident_id"}), check |-> {"run_ordered"},
      enum |-> [status |-> "workflow_status"],
      nullable |-> {"current_node", "ended_at", "checkpoint_ref"}]),
   workflow_transitions |-> Table([
      fk |-> Cascade({"run_id"}), unique |-> {{"run_id", "sequence"}},
      check |-> {"sequence_non_negative", "duration_non_negative"},
      nullable |-> {"from_node", "edge_predicate"}]),
   agent_decisions |-> Table([
      fk |-> Cascade({"run_id"}) ++ SetNull({"model_call_id"}),
      nullable |-> {"model_call_id"}])]

InvestigationModels ==
  [evidence_items |-> Table([
      fk |-> Cascade({"run_id"}), unique |-> {{"run_id", "evidence_ref"}},
      enum |-> [source_system |-> "source_system", trust_level |-> "trust_level"]]),
   hypotheses |-> Table([
      fk |-> Cascade({"run_id"}),
      unique |-> {{"run_id", "hypothesis_ref"}, {"run_id", "rank"}},
      check |-> {"rank_positive", "confidence_in_range"}, scale |-> [confidence |-> 4]]),
   hypothesis_evidence |-> Table([
      fk |-> Cascade({"hypothesis_id", "evidence_item_id"}),
      unique |-> {{"hypothesis_id", "evidence_item_id"}}]),
   impact_assessments |-> Table([
      fk |-> Cascade({"run_id"}), unique |-> {{"run_id"}},
      check |-> {"values_non_negative", "values_ordered"},
      enum |-> [computed_by |-> "computed_by"],
      scale |-> [pipeline_value |-> 2, weighted_value |-> 2, at_risk_value |-> 2]]),
   interventions |-> Table([
      fk |-> Cascade({"run_id"}), unique |-> {{"run_id", "rank"}},
      check |-> {"rank_positive", "expected_value_non_negative"},
      enum |-> [action_type |-> "proposed_action"],
      scale |-> [expected_value |-> 2, effort_score |-> 2, risk_score |-> 2, composite_score
        |-> 2],
      added |-> {"target_ref"}])]

GovernanceModels ==
  [policy_evaluations |-> Table([
      fk |-> Cascade({"intervention_id"}), unique |-> {{"intervention_id"}},
      check |-> {"risk_tier_in_range"}, enum |-> [decision |-> "policy_decision"]]),
   approval_requests |-> Table([
      fk |-> Cascade({"policy_evaluation_id", "run_id"}),
      unique |-> {{"policy_evaluation_id"}, {"approval_ref"}},
      check |-> {"expiry_after_request"}, enum |-> [status |-> "approval_status"],
      nullable |-> {"decided_at", "decided_by", "decision_note"},
      added |-> {"approval_ref", "requested_by"}]),
   action_records |-> Table([
      fk |-> Cascade({"run_id", "intervention_id"}) ++ Restricted({"authorized_by",
        "approval_request_id"}),
      unique |-> {{"idempotency_key"}},
      check |-> {"attempt_count_non_negative", "reconciliation_is_complete_or_absent"},
      enum |-> [action_type |-> "action_type", status |-> "action_status"],
      nullable |-> {"approval_request_id", "result", "executed_at", "reconciled_by",
        "reconciled_at", "reconciliation_evidence"},
      added |-> {"approval_request_id", "reconciled_by", "reconciled_at",
        "reconciliation_evidence"}])]

ObservabilityModels ==
  [tool_calls |-> Table([
      fk |-> Cascade({"run_id"}), check |-> {"duration_non_negative"},
      enum |-> [status |-> "tool_call_status"], nullable |-> {"parent_span_id"}]),
   model_calls |-> Table([
      fk |-> Cascade({"run_id"}), check |-> {"tokens_non_negative", "latency_non_negative"},
      added |-> {"is_replay"}]),
   cost_entries |-> Table([
      fk |-> Cascade({"run_id", "model_call_id", "tool_call_id"}),
      check |-> {"exactly_one_source", "amount_non_negative"},
      enum |-> [cost_type |-> "cost_type"], nullable |-> {"model_call_id", "tool_call_id"},
      scale |-> [amount_usd |-> 6]]),
   budgets |-> Table([
      unique |-> {{"scope", "scope_ref", "period"}}, check |-> {"amounts_non_negative"},
      enum |-> [scope |-> "budget_scope", period |-> "budget_period"],
      nullable |-> {"scope_ref"}, scale |-> [limit_usd |-> 6, consumed_usd |-> 6]]),
   audit_events |-> Table([
      fk |-> Cascade({"run_id", "incident_id"}), nullable |-> {"run_id", "incident_id"}])]

EvaluationModels ==
  [evaluation_runs |-> Table([
      unique |-> {{"seq"}}, check |-> {"counts_coherent"}, nullable |-> {"ended_at"},
      added |-> {"seq"}]),
   evaluation_results |-> Table([
      fk |-> Cascade({"evaluation_run_id"}) ++ SetNull({"workflow_run_id"}),
      unique |-> {{"evaluation_run_id", "check_name"}},
      enum |-> [outcome |-> "evaluation_outcome"],
      nullable |-> {"workflow_run_id", "detail"}])]

MirrorEnums ==
  [account_segment |-> {"enterprise", "mid_market", "smb"},
   opportunity_stage |-> {"discovery", "proposal", "negotiation", "closed_won",
     "closed_lost"},
   activity_type |-> {"email", "call", "meeting", "note"},
   activity_direction |-> {"inbound", "outbound", "internal"},
   engagement_channel |-> {"email", "calendar", "web"},
   engagement_event_type |-> {"sent", "opened", "clicked", "meeting_held"},
   support_severity |-> {"p1", "p2", "p3", "p4"},
   support_status |-> {"open", "pending", "resolved", "closed"},
   source_system |-> {"crm", "product", "engagement", "support", "enrichment"}]

EventEnums ==
  [event_type |-> {"crm.opportunity.updated", "crm.activity.logged",
     "product.usage.rollup", "engagement.email.activity", "engagement.meeting.held",
     "support.issue.opened", "crm.opportunity.stage_changed",
     "crm.record.quality_flagged", "enrichment.provider.usage_reported",
     "campaign.performance.rollup"},
   trust_level |-> {"untrusted"},
   signal_type |-> {"stalled_opportunity", "renewal_risk", "deal_slippage",
     "pqa_discovery", "account_expansion", "crm_data_quality",
     "enrichment_cost_anomaly", "campaign_underperformance"},
   severity |-> {"low", "medium", "high", "critical"}]

IncidentEnums ==
  [incident_type |-> {"stalled_opportunity", "renewal_risk", "deal_slippage",
     "pqa_discovery", "account_expansion", "crm_data_quality",
     "enrichment_cost_anomaly", "campaign_underperformance"},
   incident_status |-> {"detected", "triaged", "investigating", "analyzed",
     "strategized", "awaiting_approval", "executing", "completed", "closed_rejected",
     "expired", "dismissed", "failed"},
   workflow_status |-> {"running", "interrupted", "completed", "failed"},
   computed_by |-> {"deterministic", "model"}]

GovernanceEnums ==
  [policy_decision |-> {"allow", "require_approval", "deny"},
   approval_status |-> {"pending", "approved", "rejected", "expired"},
   action_type |-> {"crm_task", "email_draft", "crm_field_update",
     "slack_approval_request"},
   proposed_action |-> {"crm_task", "email_draft", "crm_field_update",
     "slack_approval_request", "send_email_direct", "record_delete"},
   action_status |-> {"pending", "executing", "succeeded", "failed", "skipped",
     "indeterminate"}]

LedgerEnums ==
  [tool_call_status |-> {"success", "error", "denied"},
   cost_type |-> {"model_inference", "tool_invocation"},
   budget_scope |-> {"global", "incident", "run"},
   budget_period |-> {"run", "incident", "monthly"},
   evaluation_outcome |-> {"passed", "failed", "skipped"}]

Models == GtmModels ++ EventModels ++ WorkflowModels ++ InvestigationModels
            ++ GovernanceModels ++ ObservabilityModels ++ EvaluationModels

ModelTypes == MirrorEnums ++ EventEnums ++ IncidentEnums ++ GovernanceEnums ++ LedgerEnums

-----------------------------------------------------------------------------
(* What PostgreSQL makes of a catalogue. *)

Without(f, keys) == [x \in DOMAIN f \ keys |-> f[x]]

\* The tables that refer to t.
Referring(tables, t) ==
  {u \in DOMAIN tables : \E c \in DOMAIN tables[u].fk : tables[u].fk[c].to = t}

\* DROP TABLE fails while another table refers to it.
Droppable(tables, order) ==
  \A i \in 1 .. Len(order) :
    LET dropped == {order[j] : j \in 1 .. i}
    IN  order[i] \in DOMAIN tables /\ Referring(tables, order[i]) \subseteq dropped

(* DELETE FROM root runs its cascades breadth first.  After n waves: the   *)
(* tables that have lost rows, and whether a RESTRICT key objected - it    *)
(* is looked at when its parent's rows have gone, and the rows that refer  *)
(* to them must have gone in that wave or an earlier one.                  *)
Waves(tables, root) ==
  LET Keys(t, rule) == {c \in DOMAIN tables[t].fk : tables[t].fk[c].on = rule}
      wave[n \in 0 .. Cardinality(DOMAIN tables)] ==
        IF n = 0 THEN [gone |-> {root}, refused |-> FALSE]
        ELSE LET last == wave[n - 1]
                 Hit(t, rule) == \E c \in Keys(t, rule) : tables[t].fk[c].to \in last.gone
             IN  [gone |-> last.gone \cup {t \in DOMAIN tables : Hit(t, "cascade")},
                  refused |-> last.refused
                              \/ \E t \in DOMAIN tables \ last.gone : Hit(t, "restrict")]
  IN  wave[Cardinality(DOMAIN tables)]

DeletionRefused(tables, root) == Waves(tables, root).refused
=============================================================================
