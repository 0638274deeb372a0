------------------------------ MODULE Migrations ------------------------------
(***************************************************************************)
(* A database that is upgraded and downgraded along the nine revisions of  *)
(* alembic/versions/ while the program, at the last revision, writes to    *)
(* it.  A revision is one action: what it does to the catalogue and what   *)
(* it does to the rows already there.  A command runs in one transaction   *)
(* (alembic/env.py), so a revision that raises changes nothing.            *)
(*                                                                         *)
(* The rows are those the revisions rewrite or look at: for each proposal  *)
(* an intervention, its approval request and its action record; the spend  *)
(* of a budget; the references of the incidents; the two sequences.        *)
(***************************************************************************)
EXTENDS Schema

CONSTANTS
  Proposal,       \* the proposals the program may make
  MaxIncidents,   \* bound on the incident numbers drawn
  MaxApprovals,   \* bound on the approval numbers drawn
  Cent,           \* a cent, in the units budgets are charged in
  Charge,         \* the amounts a budget may be charged
  Nil             \* NULL, and the row that does not exist

ASSUME BoundsAssumption == /\ MaxIncidents \in Nat /\ MaxApprovals \in Nat
                           /\ Cent \in Nat \ {0} /\ Charge \subseteq Nat
ASSUME ProposalAssumption == IsFiniteSet(Proposal)

VARIABLES
  rev,            \* the revision in alembic_version, 0 for base
  catalogue,      \* tables and types
  intervention, approval, action,   \* rows by proposal
  consumed,       \* budgets.consumed_usd
  incidents,      \* the numbers in incidents.incident_ref
  counters,       \* the next value of each sequence, 0 when it does not exist
  finding,        \* history: what the program recorded of each proposal
  spent           \* history: what the program charged

rowVars == <<intervention, approval, action, consumed, incidents, counters>>
history == <<finding, spent>>
vars == <<rev, catalogue, rowVars, history>>

HeadRev == 9          \* `alembic upgrade head`
Unknown == "unknown:pre-0005"
NoTarget == "unknown:pre-0006"
Requester == "strategy_agent"
Legacy == "requested_by=strategy_agent"

\* A proposal that needs no approval, one that does, one that is refused.
Kind == {"crm_task", "email_draft", "record_delete"}

Rows(f) == {p \in Proposal : f[p] # Nil}

-----------------------------------------------------------------------------
(* The state. *)

Intervention == [kind : Kind, target : {Nil, NoTarget, "opportunity"}]
Approval == [approved : BOOLEAN, note : {Nil, Legacy, "note"},
             requester : {Nil, Unknown, Requester}, ref : Nat]
Action == [status : {"succeeded", "failed", "indeterminate"}, approval : Proposal \cup {Nil},
           attested : BOOLEAN]

\* What a row says that nobody could work out again.
Finding == [kind : Kind, note : {Nil, "note"}, requester : {Nil, Unknown, Requester},
            status : {Nil, "succeeded", "failed", "indeterminate"}, attested : BOOLEAN]

\* NULL is no row and no value.
ASSUME NilAssumption ==
  /\ Nil \notin Intervention \cup Approval \cup Action \cup Finding \cup Proposal
  /\ Nil \notin {NoTarget, "opportunity", Legacy, "note", Unknown, Requester}

(* Every variable holds a value of its kind, and a column is NULL only     *)
(* where it may be or where the revision has no such column.               *)
TypeOK ==
  /\ rev \in 0 .. HeadRev
  /\ DOMAIN catalogue = {"tables", "types"}
  /\ intervention \in [Proposal -> Intervention \cup {Nil}]
  /\ \A p \in Rows(intervention) : intervention[p].target = Nil <=> rev < 6
  /\ approval \in [Proposal -> Approval \cup {Nil}]
  /\ \A p \in Rows(approval) : /\ approval[p].requester = Nil <=> rev < 5
                               /\ approval[p].ref = 0 <=> rev < 5
  /\ action \in [Proposal -> Action \cup {Nil}]
  /\ consumed \in Nat /\ spent \in Nat
  /\ incidents \subseteq 1 .. MaxIncidents
  /\ counters \in [incident : Nat, approval : Nat]
  /\ finding \in [Proposal -> Finding \cup {Nil}]

NoRows == [p \in Proposal |-> Nil]

Init ==
  /\ rev = 0
  /\ catalogue = EmptyCatalogue
  /\ intervention = NoRows /\ approval = NoRows /\ action = NoRows
  /\ consumed = 0 /\ incidents = {}
  /\ counters = [incident |-> 0, approval |-> 0]
  /\ finding = NoRows /\ spent = 0

-----------------------------------------------------------------------------
(* The program at the last revision. *)

Running == rev = HeadRev /\ UNCHANGED <<rev, catalogue>>

(* open_incident_for_signal: the number is drawn, and stays drawn when the *)
(* insert fails because another row holds it.                              *)
OpenIncident ==
  /\ Running
  /\ counters.incident <= MaxIncidents
  /\ incidents' = incidents \cup {counters.incident}
  /\ counters' = [counters EXCEPT !.incident = @ + 1]
  /\ UNCHANGED <<intervention, approval, action, consumed, history>>

\* What a revision may have to carry over of proposal p.
Record(p) ==
  [kind |-> intervention[p].kind,
   note |-> IF approval[p] = Nil \/ approval[p].note = Legacy THEN Nil ELSE approval[p].note,
   requester |-> IF approval[p] = Nil THEN Nil
                 ELSE IF approval[p].note = Legacy THEN Requester
                 ELSE IF approval[p].requester = Nil THEN Unknown ELSE approval[p].requester,
   status |-> IF action[p] = Nil THEN Nil ELSE action[p].status,
   attested |-> action[p] # Nil /\ action[p].attested]

\* A run's governance records: a request for approval where one is needed.
Propose(p, kind) ==
  /\ Running
  /\ incidents # {} /\ intervention[p] = Nil
  /\ intervention' = [intervention EXCEPT ![p] = [kind |-> kind, target |-> "opportunity"]]
  /\ IF kind = "email_draft"
       THEN /\ counters.approval <= MaxApprovals
            /\ counters' = [counters EXCEPT !.approval = @ + 1]
            /\ approval' = [approval EXCEPT ![p] = [approved |-> FALSE, note |-> Nil,
                              requester |-> Requester, ref |-> counters.approval]]
       ELSE UNCHANGED <<counters, approval>>
  /\ UNCHANGED <<action, consumed, incidents, spent>>
  /\ finding' = [finding EXCEPT ![p] = Record(p)']

\* decide, approving; a note is optional and overwrites the column.
Approve(p, note) ==
  /\ Running
  /\ approval[p] # Nil /\ ~approval[p].approved
  /\ approval' = [approval EXCEPT ![p].approved = TRUE, ![p].note = note]
  /\ UNCHANGED <<intervention, action, consumed, incidents, counters, spent>>
  /\ finding' = [finding EXCEPT ![p] = Record(p)']

(* The executor's record of an effect, with the approval it was done       *)
(* under.  It files a claim found EXECUTING as INDETERMINATE; the claims   *)
(* of this build are never committed in that status, those of a build that *)
(* commits them first, as revision 6 supposes, are.                        *)
Act(p, status) ==
  /\ Running
  /\ intervention[p] # Nil /\ action[p] = Nil
  /\ \/ intervention[p].kind = "crm_task"
     \/ approval[p] # Nil /\ approval[p].approved
  /\ action' = [action EXCEPT ![p] =
                 [status |-> status, attested |-> FALSE,
                  approval |-> IF approval[p] = Nil THEN Nil ELSE p]]
  /\ UNCHANGED <<intervention, approval, consumed, incidents, counters, spent>>
  /\ finding' = [finding EXCEPT ![p] = Record(p)']

\* reconcile: an operator attests whether the effect occurred, once.
Reconcile(p, status) ==
  /\ Running
  /\ action[p] # Nil /\ ~action[p].attested /\ action[p].status = "indeterminate"
  /\ action' = [action EXCEPT ![p].status = status, ![p].attested = TRUE]
  /\ UNCHANGED <<intervention, approval, consumed, incidents, counters, spent>>
  /\ finding' = [finding EXCEPT ![p] = Record(p)']

\* A model call charged to the budget, once.
Spend(amount) ==
  /\ Running
  /\ spent = 0
  /\ consumed' = consumed + amount /\ spent' = spent + amount
  /\ UNCHANGED <<intervention, approval, action, incidents, counters, finding>>

\* The program before revision 5: the requester is kept in the note.
LegacyRequest(p) ==
  /\ rev = 4 /\ incidents # {} /\ intervention[p] = Nil
  /\ intervention' = [intervention EXCEPT ![p] = [kind |-> "email_draft", target |-> Nil]]
  /\ approval' = [approval EXCEPT ![p] =
                   [approved |-> FALSE, note |-> Legacy, requester |-> Nil, ref |-> 0]]
  /\ UNCHANGED <<rev, catalogue, action, consumed, incidents, counters, spent>>
  /\ finding' = [finding EXCEPT ![p] = Record(p)']

\* The same program, deciding: "any later write would silently destroy" it.
LegacyApprove(p) ==
  /\ rev = 4 /\ approval[p] # Nil /\ ~approval[p].approved
  /\ approval' = [approval EXCEPT ![p].approved = TRUE, ![p].note = "note"]
  /\ UNCHANGED <<rev, catalogue, intervention, action, consumed, incidents, counters, spent>>
  /\ finding' = [finding EXCEPT ![p] = Record(p)']

\* clear_seed_data: the mirror goes and, by cascade, all that was found in it.
Seed ==
  /\ rev >= 1
  /\ \A root \in {"opportunities", "accounts"} : ~DeletionRefused(catalogue.tables, root)
  /\ intervention' = NoRows /\ approval' = NoRows /\ action' = NoRows
  /\ incidents' = {} /\ finding' = NoRows
  /\ UNCHANGED <<rev, catalogue, consumed, counters, spent>>

Command ==
  \/ OpenIncident
  \/ \E p \in Proposal :
       \/ \E kind \in Kind : Propose(p, kind)
       \/ \E note \in {Nil, "note"} : Approve(p, note)
       \/ \E status \in {"succeeded", "indeterminate"} : Act(p, status)
       \/ \E status \in {"succeeded", "failed"} : Reconcile(p, status)
       \/ LegacyRequest(p) \/ LegacyApprove(p)
  \/ \E amount \in Charge : Spend(amount)
  \/ Seed

-----------------------------------------------------------------------------
(* The revisions, upwards.  Each is one handler, with its effect on the     *)
(* rows that are there.                                                     *)

\* The catalogue has room for what the baseline creates.
Creatable ==
  /\ DOMAIN catalogue.tables \cap DOMAIN Baseline.tables = {}
  /\ DOMAIN catalogue.types \cap DOMAIN Baseline.types = {}

Up0001 ==
  /\ rev = 0 /\ Creatable
  /\ catalogue' = [tables |-> Baseline.tables ++ catalogue.tables,
                   types |-> Baseline.types ++ catalogue.types]
  /\ UNCHANGED rowVars

\* CREATE SEQUENCE ... START WITH 1, whatever numbers the incidents have.
Up0002 ==
  /\ rev = 1
  /\ catalogue' = [catalogue EXCEPT !.tables["incidents"].unique = @ \cup {{"signal_id"}}]
  /\ counters' = [counters EXCEPT !.incident = 1]
  /\ UNCHANGED <<intervention, approval, action, consumed, incidents>>

Up0003 ==
  /\ rev = 2
  /\ catalogue' = [catalogue EXCEPT !.tables["model_calls"].added = @ \cup {"is_replay"}]
  /\ UNCHANGED rowVars

\* Mutant of Proposable: the model's newest member is not in the revision's list.
ProposableBefore == {"crm_task", "email_draft", "crm_field_update", "slack_approval_request",
                     "send_email_direct"}

\* What may be proposed gets a type of its own, wider than what may be executed.
Proposable == {"crm_task", "email_draft", "crm_field_update", "slack_approval_request",
               "send_email_direct", "record_delete"}

Up0004 ==
  /\ rev = 3
  /\ catalogue.types.action_type \subseteq Proposable
  /\ catalogue' = [catalogue EXCEPT
       !.types = [proposed_action |-> Proposable] ++ @,
       !.tables["interventions"].enum["action_type"] = "proposed_action"]
  /\ UNCHANGED rowVars

\* Mutant of Recovered: the rows that tell nothing are left alone.
RecoveredOrNull(row) == IF row.note = Legacy THEN Requester ELSE Nil

\* The requester a row of an earlier program still tells.
Recovered(row) == IF row.note = Legacy THEN Requester ELSE Unknown

\* Mutant of NextApproval: row_number() instead of nextval().
NextUnused == 1

\* The sequence after it has numbered the rows that are there.
NextApproval == Cardinality(Rows(approval)) + 1

(* Requesters are recovered from the notes, and the rows are numbered by   *)
(* an UPDATE without ORDER BY: in any order.                               *)
Up0005 ==
  /\ rev = 4
  /\ catalogue' = [catalogue EXCEPT
       !.tables["approval_requests"].added = @ \cup {"requested_by", "approval_ref"},
       !.tables["approval_requests"].unique = @ \cup {{"approval_ref"}}]
  /\ \E number \in [Rows(approval) -> 1 .. Cardinality(Rows(approval))] :
       /\ \A p, q \in Rows(approval) : p # q => number[p] # number[q]
       /\ approval' = [p \in Proposal |-> IF approval[p] = Nil THEN Nil ELSE
            [approval[p] EXCEPT !.requester = Recovered(approval[p]), !.ref = number[p],
                                !.note = IF @ = Legacy THEN Nil ELSE @]]
  /\ counters' = [counters EXCEPT !.approval = NextApproval]
  /\ UNCHANGED <<intervention, action, consumed, incidents>>

\* Mutant of AuthorisationKeys: the key to the run is tightened with them.
RunKeysToo == Restricted({"authorized_by", "approval_request_id", "run_id"})

\* An effect holds on to what permitted it.
AuthorisationKeys == Restricted({"authorized_by", "approval_request_id"})

Up0006 ==
  /\ rev = 5
  /\ catalogue' = [catalogue EXCEPT
       !.types["action_status"] = @ \cup {"indeterminate"},
       !.tables["interventions"].added = @ \cup {"target_ref"},
       !.tables["action_records"].added = @ \cup {"approval_request_id"},
       !.tables["action_records"].nullable = @ \cup {"approval_request_id"},
       !.tables["action_records"].fk = AuthorisationKeys ++ @]
  /\ intervention' = [p \in Proposal |-> IF intervention[p] = Nil THEN Nil
                        ELSE [intervention[p] EXCEPT !.target = NoTarget]]
  /\ UNCHANGED <<approval, action, consumed, incidents, counters>>

Up0007 ==
  /\ rev = 6
  /\ catalogue' = [catalogue EXCEPT
       !.tables["budgets"].scale = [limit_usd |-> 6, consumed_usd |-> 6]]
  /\ UNCHANGED rowVars

Up0008 ==
  /\ rev = 7
  /\ catalogue' = [catalogue EXCEPT
       !.tables["evaluation_runs"].added = @ \cup {"seq"},
       !.tables["evaluation_runs"].unique = @ \cup {{"seq"}}]
  /\ UNCHANGED rowVars

Attestation == {"reconciled_by", "reconciled_at", "reconciliation_evidence"}

Up0009 ==
  /\ rev = 8
  /\ catalogue' = [catalogue EXCEPT
       !.tables["action_records"].added = @ \cup Attestation,
       !.tables["action_records"].nullable = @ \cup Attestation,
       !.tables["action_records"].check = @ \cup {"reconciliation_is_complete_or_absent"}]
  /\ UNCHANGED rowVars

Upgrade ==
  /\ \/ Up0001 \/ Up0002 \/ Up0003 \/ Up0004 \/ Up0005 \/ Up0006 \/ Up0007 \/ Up0008 \/ Up0009
  /\ rev' = rev + 1
  /\ UNCHANGED history

-----------------------------------------------------------------------------
(* Downwards, and what each revision refuses to lose. *)

\* A recorded refusal has no value in the narrow type: the cast raises.
Unmappable == \E p \in Rows(intervention) : intervention[p].kind \notin catalogue.types.action_type

\* Mutant of Conflicting: the comparison the wrong way round.
ConflictingUnknown ==
  \E p \in Rows(approval) : approval[p].note # Nil /\ approval[p].requester = Unknown

\* A note and a requester, and one column for both.
Conflicting == \E p \in Rows(approval) : approval[p].note # Nil /\ approval[p].requester # Unknown

Indeterminate == \E p \in Rows(action) : action[p].status = "indeterminate"

SubCent == consumed % Cent # 0

Attested == \E p \in Rows(action) : action[p].attested

Refused ==
  \/ rev = 9 /\ Attested
  \/ rev = 7 /\ SubCent
  \/ rev = 6 /\ Indeterminate
  \/ rev = 5 /\ Conflicting
  \/ rev = 4 /\ Unmappable

Down0009 ==
  /\ rev = 9 /\ ~Attested
  /\ catalogue' = [catalogue EXCEPT
       !.tables["action_records"].check = @ \ {"reconciliation_is_complete_or_absent"},
       !.tables["action_records"].nullable = @ \ Attestation,
       !.tables["action_records"].added = @ \ Attestation]
  /\ action' = [p \in Proposal |-> IF action[p] = Nil THEN Nil
                  ELSE [action[p] EXCEPT !.attested = FALSE]]
  /\ UNCHANGED <<intervention, approval, consumed, incidents, counters>>

Down0008 ==
  /\ rev = 8
  /\ catalogue' = [catalogue EXCEPT
       !.tables["evaluation_runs"].unique = @ \ {{"seq"}},
       !.tables["evaluation_runs"].added = @ \ {"seq"}]
  /\ UNCHANGED rowVars

\* To two decimals, rounded.
Down0007 ==
  /\ rev = 7 /\ ~SubCent
  /\ catalogue' = [catalogue EXCEPT
       !.tables["budgets"].scale = [limit_usd |-> 2, consumed_usd |-> 2]]
  /\ consumed' = ((consumed + Cent \div 2) \div Cent) * Cent
  /\ UNCHANGED <<intervention, approval, action, incidents, counters>>

\* The constraints, the link and the target go, and the type is built again.
Down0006 ==
  /\ rev = 6 /\ ~Indeterminate
  /\ catalogue' = [catalogue EXCEPT
       !.tables["action_records"].fk = Without(@, {"authorized_by", "approval_request_id"}),
       !.tables["action_records"].nullable = @ \ {"approval_request_id"},
       !.tables["action_records"].added = @ \ {"approval_request_id"},
       !.tables["interventions"].added = @ \ {"target_ref"},
       !.types["action_status"] = {"pending", "executing", "succeeded", "failed", "skipped"}]
  /\ action' = [p \in Proposal |-> IF action[p] = Nil THEN Nil
                  ELSE [action[p] EXCEPT !.approval = Nil]]
  /\ intervention' = [p \in Proposal |-> IF intervention[p] = Nil THEN Nil
                        ELSE [intervention[p] EXCEPT !.target = Nil]]
  /\ UNCHANGED <<approval, consumed, incidents, counters>>

\* The requester goes back into the note; the reference goes with its sequence.
Down0005 ==
  /\ rev = 5 /\ ~Conflicting
  /\ catalogue' = [catalogue EXCEPT
       !.tables["approval_requests"].unique = @ \ {{"approval_ref"}},
       !.tables["approval_requests"].added = @ \ {"requested_by", "approval_ref"}]
  /\ approval' = [p \in Proposal |-> IF approval[p] = Nil THEN Nil ELSE
       [approval[p] EXCEPT !.note = IF approval[p].requester # Unknown THEN Legacy ELSE @,
                           !.requester = Nil, !.ref = 0]]
  /\ counters' = [counters EXCEPT !.approval = 0]
  /\ UNCHANGED <<intervention, action, consumed, incidents>>

Down0004 ==
  /\ rev = 4 /\ ~Unmappable
  /\ catalogue' = [catalogue EXCEPT
       !.tables["interventions"].enum["action_type"] = "action_type",
       !.types = Without(@, {"proposed_action"})]
  /\ UNCHANGED rowVars

Down0003 ==
  /\ rev = 3
  /\ catalogue' = [catalogue EXCEPT !.tables["model_calls"].added = @ \ {"is_replay"}]
  /\ UNCHANGED rowVars

Down0002 ==
  /\ rev = 2
  /\ catalogue' = [catalogue EXCEPT !.tables["incidents"].unique = @ \ {{"signal_id"}}]
  /\ counters' = [counters EXCEPT !.incident = 0]
  /\ UNCHANGED <<intervention, approval, action, consumed, incidents>>

\* Every table, in an order the foreign keys allow, and every type by name.
Down0001 ==
  /\ rev = 1 /\ Droppable(catalogue.tables, DropOrder)
  /\ catalogue' = [tables |-> Without(catalogue.tables, {DropOrder[i] : i \in DOMAIN DropOrder}),
                   types |-> Without(catalogue.types, DroppedTypes)]
  /\ intervention' = NoRows /\ approval' = NoRows /\ action' = NoRows
  /\ consumed' = 0 /\ incidents' = {}
  /\ UNCHANGED counters

Downgrade ==
  /\ \/ Down0009 \/ Down0008 \/ Down0007 \/ Down0006 \/ Down0005 \/ Down0004 \/ Down0003
     \/ Down0002 \/ Down0001
  /\ rev' = rev - 1
  /\ finding' = IF rev = 1 THEN NoRows ELSE finding
  /\ spent' = IF rev = 1 THEN 0 ELSE spent

Next == Command \/ Upgrade \/ Downgrade

Spec == Init /\ [][Next]_vars

-----------------------------------------------------------------------------
(* Properties. *)

(* Going down and up again loses no finding: the proposal and its refusal, *)
(* the note and the requester of an approval, the status of an effect, an  *)
(* operator's attestation, the spend.  What cannot be carried is refused.  *)
FindingsSurvive ==
  rev = HeadRev =>
    /\ consumed = spent
    /\ \A p \in Proposal : finding[p] = IF intervention[p] = Nil THEN Nil ELSE Record(p)

(* A revision never fails half way up, whatever rows it meets, and going   *)
(* down fails only by one of the refusals it states; base is really empty. *)
MigrationsApply ==
  /\ rev < HeadRev => ENABLED Upgrade
  /\ rev > 0 => ENABLED Downgrade \/ Refused
  /\ rev = 0 => catalogue = EmptyCatalogue

(* The nine revisions build what the models declare, with the CHECK        *)
(* constraints and the enum values that `alembic check` does not compare,  *)
(* on the first way up and on every later one.                             *)
HeadMatchesModels ==
  rev = HeadRev => catalogue.tables = Models /\ catalogue.types = ModelTypes

(* A reference an operator types names one approval request, and the next  *)
(* number to be drawn is not taken.                                        *)
ApprovalRefsStayUsable ==
  counters.approval # 0 =>
    \A p \in Rows(approval) :
      /\ approval[p].ref \in 1 .. counters.approval - 1
      /\ \A q \in Rows(approval) : approval[p].ref = approval[q].ref => p = q

(* Clearing the mirror is never refused: the RESTRICT keys of revision 6   *)
(* hold an action record to its authorisation, yet whenever a cascade      *)
(* takes the authorisation it has already taken the record.                *)
ErasureNeverRefused ==
  \A root \in {"opportunities", "accounts"} \cap DOMAIN catalogue.tables :
    ~DeletionRefused(catalogue.tables, root)
=============================================================================
