----------------------------- MODULE Evaluation -----------------------------
(***************************************************************************)
(* The rows that whole commands leave behind, and the evaluation that      *)
(* judges a run by them (evaluation/rubric.py, security.py, service.py).   *)
(*                                                                         *)
(* A command is one transaction and is one step here: what happens inside  *)
(* is the matter of Execution, Investigation, Ingestion and Gateway.  An   *)
(* evaluation is not: its transaction is READ COMMITTED, each of its       *)
(* statements sees what was committed when it ran, and commands and people *)
(* go on between them.                                                     *)
(*                                                                         *)
(* Incidents are named by the number their reference was drawn with; each  *)
(* has one signal and at most one run, which bears its number: two         *)
(* commands of one incident do not overlap here.  Of a run's rows kept is  *)
(* what a check or a page tells apart; a call is its last attempt.         *)
(* The checks that recompute or count rows which are written with the run, *)
(* and never again, are left out beyond the four of Report.                *)
(***************************************************************************)
EXTENDS Maps, Policy, Sequences, FiniteSets, SequencesExt

CONSTANTS
  Reports,       \* what investigations may find
  Limit,         \* budgets.limit_usd of the GLOBAL budget
  ApprovalTTL,   \* how long a request may be decided
  Nil,           \* NULL
  MaxIncidents, MaxTime, MaxSeeds, MaxAttempts  \* bounds

Incident == 1 .. MaxIncidents

NoRun == 0

ASSUME BoundsAssumption == {MaxIncidents, MaxTime, MaxSeeds, MaxAttempts, Limit} \subseteq Nat
ASSUME ApprovalAssumption == ApprovalTTL \in Nat \ {0}

\* The plan's sources and the system each reads.
SystemOf ==
  [crm_get_opportunity |-> "crm", crm_list_account_activities |-> "crm",
   product_get_usage_summary |-> "product", engagement_get_email_activity |-> "engagement",
   support_get_open_issues |-> "support"]

\* What an investigation stores: its evidence, what each hypothesis cites of it, what it
\* proposes, the figures of its assessment, what its calls cost.
Finding ==
  [evidence : Seq(DOMAIN SystemOf), cites : Seq(SUBSET Nat), actions : Seq(ProposedAction),
   scores : Seq(Nat), weighted : Nat, atRisk : Nat, cost : Nat]

\* validate_citations, and the CHECK values_ordered of impact_assessments.
ASSUME ReportsAssumption ==
  /\ Reports \subseteq Finding
  /\ \A f \in Reports : UNION ToSet(f.cites) \subseteq DOMAIN f.evidence /\ f.atRisk <= f.weighted

VARIABLES
  now,          \* settings.evaluation_timestamp
  drawn,        \* last value of the sequence of incident numbers
  incidents,    \* incidents, each with its signal
  runs,         \* [incident -> report]: a committed run and all it found
  actions,      \* [<<run, rank>> -> action record]
  requests,     \* [<<run, rank>> -> approval request]
  calls,        \* [run -> number of tool_calls], each with its cost entry
  consumed,     \* budgets.consumed_usd, GLOBAL
  attempts,     \* evaluation_runs and their results, in the order of seq
  audit,        \* an evaluation under way
  \* history
  heeded,       \* drafts performed under an approval in force
  redecided,    \* requests decided again after their action was performed
  erased,       \* spend whose entries are gone
  seeds         \* times the mirror was replaced

commandVars == <<now, drawn, incidents, runs, actions, requests, calls, consumed>>
historyVars == <<heeded, redecided, erased, seeds>>
rowVars == <<commandVars, attempts, historyVars>>

NoAudit == [at |-> 0, run |-> NoRun, startedAt |-> 0, failed |-> {}, drafts |-> {}]

Init ==
  /\ now = 0
  /\ drawn = 0
  /\ incidents = {}
  /\ runs = <<>>
  /\ actions = <<>>
  /\ requests = <<>>
  /\ calls = <<>>
  /\ consumed = 0
  /\ attempts = <<>>
  /\ audit = NoAudit
  /\ heeded = {}
  /\ redecided = {}
  /\ erased = 0
  /\ seeds = 0

\* The sum of what f has of each incident.
SumOf(f) ==
  LET upTo[n \in 0 .. MaxIncidents] ==
        IF n = 0 THEN 0 ELSE upTo[n - 1] + (IF n \in DOMAIN f THEN f[n] ELSE 0)
  IN  upTo[MaxIncidents]

Spent == SumOf([r \in DOMAIN runs |-> runs[r].cost])

-----------------------------------------------------------------------------
(* The commands, and the people. *)

\* The pipeline's transaction: a signal and its incident, with the next reference.
Detect ==
  /\ drawn < MaxIncidents
  /\ drawn' = drawn + 1
  /\ incidents' = incidents \cup {drawn + 1}
  /\ UNCHANGED <<now, runs, actions, requests, calls, consumed, attempts, historyVars>>

\* Ranks of a report whose proposed action the policy decides so.
Decided(f, decision) == {k \in DOMAIN f.actions : Evaluate(f.actions[k], {}) = decision}

\* executed_at is set only if the call succeeded.  How an action ended that needed
\* nobody no check and no page here asks: it is recorded as not executed.
ActionRecord(approved, executed) ==
  [approved |-> approved, executedAt |-> IF executed THEN now ELSE Nil]

(* investigate: the run with all it found, its decisions and requests, and  *)
(* the actions that needed nobody.  With the budget used up it is refused;  *)
(* the last call may have overdrawn it (Investigation, GlobalBudgetHolds).  *)
Investigate(i, f) ==
  /\ i \in incidents \ DOMAIN runs
  /\ consumed < Limit
  /\ runs' = runs ++ One(i, f)
  /\ actions' = actions ++ [k \in {i} \X Decided(f, "allow") |-> ActionRecord(FALSE, FALSE)]
  /\ requests' = requests ++ [k \in {i} \X Decided(f, "require_approval") |->
                                [status |-> "pending", decidedAt |-> Nil,
                                 expiresAt |-> now + ApprovalTTL]]
  /\ calls' = calls ++ One(i, Len(f.evidence) + Cardinality(Decided(f, "allow")))
  /\ consumed' = consumed + f.cost
  /\ UNCHANGED <<now, drawn, incidents, attempts, historyVars>>

\* What the next resume of a run may perform.
Due(i) ==
  {k \in {i} \X DOMAIN runs[i].actions :
     k \in DOMAIN requests \ DOMAIN actions /\ requests[k].status = "approved"}

Resume(i) ==
  /\ i \in DOMAIN runs
  /\ Due(i) # {}
  /\ \E succeeded \in SUBSET Due(i) :
       /\ actions' = actions ++ [k \in Due(i) |-> ActionRecord(TRUE, k \in succeeded)]
       /\ heeded' = heeded \cup succeeded
  /\ calls' = [calls EXCEPT ![i] = @ + Cardinality(Due(i))]
  /\ UNCHANGED <<now, drawn, incidents, runs, requests, consumed, attempts, redecided, erased,
                 seeds>>

\* effective_status: a pending request past its expiry counts as expired.
Lapsed(q) == q.status = "pending" /\ q.expiresAt <= now

\* decide looks at nothing else: a request may be decided again, the other way round.
Decide(k, status) ==
  /\ k \in DOMAIN requests
  /\ ~Lapsed(requests[k])
  /\ requests' = [requests EXCEPT ![k].status = status, ![k].decidedAt = now]
  /\ redecided' = IF k \in DOMAIN actions THEN redecided \cup {k} ELSE redecided
  /\ UNCHANGED <<now, drawn, incidents, runs, actions, calls, consumed, attempts, heeded, erased,
                 seeds>>

Tick ==
  /\ now < MaxTime
  /\ now' = now + 1
  /\ UNCHANGED <<drawn, incidents, runs, actions, requests, calls, consumed, attempts,
                 historyVars>>

\* Mutant of Erased: the evaluations keep naming runs that are gone.
ErasedButNamed(a) == a

\* What the erasure leaves of an evaluation: workflow_run_id is set to NULL.
Erased(a) == [a EXCEPT !.run = NoRun]

(* seed: clearing the mirror cascades through signals and incidents to all  *)
(* that hangs on a run.  Budgets, references drawn and evaluations stay.    *)
Seed ==
  /\ seeds < MaxSeeds
  /\ seeds' = seeds + 1
  /\ incidents' = {}
  /\ runs' = <<>>
  /\ actions' = <<>>
  /\ requests' = <<>>
  /\ calls' = <<>>
  /\ attempts' = [j \in DOMAIN attempts |-> Erased(attempts[j])]
  /\ erased' = erased + Spent
  /\ redecided' = {}
  /\ heeded' = {}
  /\ UNCHANGED <<now, drawn, consumed>>

Command ==
  \/ Detect
  \/ \E i \in Incident : Resume(i) \/ \E f \in Reports : Investigate(i, f)
  \/ \E k \in DOMAIN requests, status \in {"approved", "rejected"} : Decide(k, status)
  \/ Tick
  \/ Seed

-----------------------------------------------------------------------------
(* The checks.  Each is a name and whether it passes, by what one           *)
(* statement of the evaluation sees.                                        *)

Failing(result) == {c \in DOMAIN result : ~result[c]}

NoReport == [evidence |-> <<>>, cites |-> <<>>, actions |-> <<>>, scores |-> <<>>]

ReportOf(r) == IF r \in DOMAIN runs THEN runs[r] ELSE NoReport

Report(f) ==
  [plan_has_valid_steps |-> f.evidence # <<>> /\ ToSet(f.evidence) \subseteq DOMAIN SystemOf,
   evidence_covers_three_sources |-> Cardinality({SystemOf[t] : t \in ToSet(f.evidence)}) >= 3,
   hypotheses_cite_real_evidence |->
     /\ Len(f.cites) >= 2
     /\ UNION ToSet(f.cites) # {}
     /\ UNION ToSet(f.cites) \subseteq DOMAIN f.evidence,
   three_ranked_interventions |->
     /\ Len(f.actions) = 3
     /\ \A j \in 1 .. Len(f.scores) - 1 : f.scores[j] >= f.scores[j + 1]]

RecordsOf(r) == {k \in DOMAIN actions : k[1] = r}

ActionOf(k) == ReportOf(k[1]).actions[k[2]]

DraftsOf(r) == {[key |-> k, row |-> actions[k]] :
                  k \in {q \in RecordsOf(r) : ActionOf(q) = "email_draft"}}

\* The request of a draft, by its key and as it is by now; erased, it is none.
ApprovedNow(draft) ==
  /\ draft.row.approved
  /\ draft.key \in DOMAIN requests
  /\ requests[draft.key].status = "approved"

\* Mutant of AfterApproval: it is the decision that counts, not the draft.
DecidedAtAll(draft) ==
  /\ draft.row.approved
  /\ draft.key \in DOMAIN requests
  /\ requests[draft.key].decidedAt # Nil

\* A draft that was made, and not before its request was decided.
AfterApproval(draft) ==
  /\ draft.row.approved
  /\ draft.key \in DOMAIN requests
  /\ requests[draft.key].decidedAt # Nil
  /\ draft.row.executedAt # Nil
  /\ draft.row.executedAt >= requests[draft.key].decidedAt

Security(r) ==
  [bypass_denied_never_executed |->
     \A k \in RecordsOf(r) : Evaluate(ActionOf(k), {}) # "deny",
   bypass_crm_update_unreachable |-> \A k \in RecordsOf(r) : ActionOf(k) # "crm_field_update",
   bypass_notification_is_not_approval |-> \A draft \in DraftsOf(r) : draft.row.approved]

\* The statements, in the order of CHECKS and SECURITY_CHECKS.  Those of rows that
\* come and go together are one.
Stages ==
  <<"incidents", "run", "drafts", "requests", "draft", "decision", "ledgers", "security">>

Stage == Stages[audit.at]

Result ==
  CASE Stage = "incidents" ->
         [detects_stalled_opportunity |-> Cardinality(incidents) = 1,
          incident_created_once |-> Cardinality(incidents) = 1]
    [] Stage = "run" ->
         Report(ReportOf(audit.run)) ++
         [tier1_auto_executed |->
            \E k \in RecordsOf(audit.run) : ActionOf(k) = "crm_task" /\ ~actions[k].approved]
    [] Stage = "requests" ->
         [no_external_action_without_approval |-> \A draft \in audit.drafts : ApprovedNow(draft)]
    [] Stage = "decision" ->
         [draft_created_after_approval |->
            \E draft \in audit.drafts : AfterApproval(draft)]
    [] Stage = "ledgers" ->
         [audit_trail_complete |-> audit.run \in DOMAIN calls /\ calls[audit.run] > 0,
          budget_respected |-> consumed <= Limit]
    [] Stage = "security" -> Security(audit.run)
    [] OTHER -> <<>>

\* `make eval` judges the latest run of one incident, the first.
BeginEvaluation ==
  /\ audit.at = 0
  /\ 1 \in DOMAIN runs
  /\ Len(attempts) < MaxAttempts
  /\ audit' = [NoAudit EXCEPT !.at = 1, !.run = 1, !.startedAt = now]

Examine ==
  /\ audit.at \in DOMAIN Stages
  /\ audit' = [audit EXCEPT !.at = @ + 1,
                            !.failed = @ \cup Failing(Result),
                            !.drafts = IF Stage \in {"drafts", "draft"}
                                       THEN DraftsOf(audit.run) ELSE {}]

\* Mutant of Persisted: an attempt of the same day takes the place of the last.
PersistedOver(history, attempt) ==
  IF history # <<>> /\ Last(history).startedAt = attempt.startedAt
  THEN Append(Front(history), attempt) ELSE Append(history, attempt)

\* _persist: a new attempt every time.
Persisted(history, attempt) == Append(history, attempt)

RecordAttempt ==
  /\ audit.at = Len(Stages) + 1
  /\ audit.run \in DOMAIN runs
  /\ attempts' = Persisted(attempts, [run |-> audit.run, startedAt |-> audit.startedAt,
                                      failed |-> audit.failed])
  /\ audit' = NoAudit

\* The run is gone: its results cannot refer to it, and the transaction rolls back.
AttemptRefused ==
  /\ audit.at = Len(Stages) + 1
  /\ audit.run \notin DOMAIN runs
  /\ audit' = NoAudit

Evaluation ==
  \/ (BeginEvaluation \/ Examine \/ AttemptRefused) /\ UNCHANGED rowVars
  \/ RecordAttempt /\ UNCHANGED <<commandVars, historyVars>>
=============================================================================
