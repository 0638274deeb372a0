---------------------------- MODULE MCExecution ----------------------------
(* Small instances of Execution for the model checker. *)
EXTENDS Execution, TLC

\* The interventions of the flagship scenario, in rank order: one allowed
\* action whose arguments carry a date, one that needs a person, one denied.
FlagshipActions == <<"crm_task", "email_draft", "send_email_direct">>
DatedActions == <<"crm_task", "email_draft">>
NoFields == [i \in 1 .. NItems |-> {}]

\* Actions without a date, so that the key is the same on every day.
UndatedActions == <<"slack_approval_request", "email_draft">>

\* A field update whose stored decision asks for a person and whose fresh one denies.
DriftActions == <<"crm_field_update", "email_draft">>
DriftFields == <<{"amount"}, {}>>

\* Timestamps a day apart; with a TTL of two units, half a day apart and the
\* first of them before midnight.
Days == [t \in 0 .. MaxTime |-> t]

Symmetry == Permutations(Proc)
=============================================================================
