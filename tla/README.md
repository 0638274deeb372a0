# Revenue Sentinel: verification development

TLA+ models of Revenue Sentinel, the runs in which TLC checks them, and the
theorems TLAPS proves about them. Paths are relative to
`src/revenue_sentinel/` unless they begin with a directory of the repository
root.

| Module | What it is |
|---|---|
| `Policy` | Tiers, decisions and the two policy engines, as operators |
| `Execution` | `investigate` and `resume` of one incident, in overlapping processes, with approvals, retries, crashes and PostgreSQL's locks |
| `ActionLedger` | What the execution layer promises about its effects; `Execution` implements it |
| `Investigation` | Runs of several incidents against one GLOBAL budget: graph, admission, charging, refusal |
| `Ingestion` | Ingestion cycles running at once, with `seed` replacing the mirror under them |
| `Schema` | The database schema twice: as the baseline revision creates it and as the ORM models declare it |
| `Migrations` | The nine revisions, up and down, around a program that writes |
| `Evidence` | What the sources return for a mirror, through the tools and through the repositories |
| `Gateway` | Every tool call of a run and of the stdio server: gate, dispatch, failures, both ledgers |
| `Evaluation` | The rows committed commands leave, and an evaluation that reads them statement by statement |
| `Console` | The pages of the console, read statement by statement beside both |
| `Maps` | Tables as functions from keys to rows, for `Schema` and `Evaluation` |
| `ExecutionProofs`, `IncidentProofs`, `InvestigationProofs`, `IngestionProofs`, `MigrationsProofs`, `GatewayProofs`, `ConsoleProofs` | The theorems and their proofs |
| `NatSets` | Induction over the natural numbers for those proofs |
| `MC*` and `MC*_*.cfg` | The small instances TLC checks |

To check: `tlc -config MCExecution_overlap.cfg MCExecution` (and likewise the
others), `tlapm ExecutionProofs.tla` (and likewise).

## 1. Inventory

Every command of the command line, and every API request, is one process or
thread with one database transaction (`db/session.py session_scope`: commit at
the end, rollback on any exception). Nothing else runs: there is no queue, no
scheduler and no worker. All interaction between parts of the system that run
at the same time therefore goes through PostgreSQL at READ COMMITTED: rows
committed by others, unique keys and row locks that make one wait for another,
foreign keys that cascade, and sequences that are never rolled back. What
leaves the database - a tool call, a paid model call - happens at once and is
not rolled back. That contrast is where the hard behaviours are.

| Component | State | Operations | What is hard | What makes it correct |
|---|---|---|---|---|
| Ingestion (`events/`) | `raw_events`, `normalized_events` | read the mirror, insert, normalize | cycles racing; waiting row by row; failure in a late stage | an event is normalized once; a cycle leaves all or nothing; cycles end |
| Detection (`signals/`, `events/dispatcher.py`) | `signals` | evaluate, persist by dedupe key | read, then wait, then insert; clocks that disagree | one signal per key |
| Incidents (`incidents/`) | `incidents`, `audit_events`, a sequence | open, triage, transition | references allocated blindly; transitions decided on a stale read | one incident per signal, unique references, an unbroken audit trail, terminal states final |
| Seeding (`db/seeding.py`) | the seven mirror tables | delete, insert | foreign keys lock and cascade; deadlock with a cycle | the record of the system's own work survives |
| Investigation (`orchestration/`) | `workflow_runs`, everything a run stores | six-node graph, persist, pause | long transactions holding rows | a run leaves everything or nothing; runs end |
| Cost governance (`cost/`) | `budgets.consumed_usd`, `cost_entries` | reserve, charge, refuse | check and charge are apart; several runs race; spending outlives rollback | the figure is the sum of the entries and passes the limit by a bounded amount |
| Policy (`governance/tiers.py`, `rules.py`, `policy_engine.py`) | none | classify, decide | decision with fields at draft time, without at execution time | nothing denied, and nothing unapproved, is performed |
| Approvals (`governance/approvals.py`) | `approval_requests` | decide, lapse | decided again; lapsed while a command runs | see the execution phase |
| Execution (`execution/`) | `action_records` | authorise, claim, call, retry, settle | effect and record are not atomic; two commands at one effect; dying between the two | every effect accounted for; outcomes written once |
| Reconciliation (`execution/reconciliation.py`) | `action_records` INDETERMINATE | list, attest, abandon | two operators at once | unreachable for rows of this build, see section 6 |
| Tool gateway (`mcp/`) | `tool_calls` | validate, gate a write, dispatch, record | decides a second time, without the grant; shares its transaction with the executor | no effect without a grant, no grant without its effect, one story in both ledgers |
| Evidence (`orchestration/mcp_evidence_source.py`, `evidence_source.py`) | none | five sources, by selection | orders and limits that must agree in two implementations; a source that fails in the middle | the evidence is what one read of the mirror gives |
| Integrations (`integrations/`) | simulated systems | the ports | failure before or after the effect | an injected failure has no effect |
| Agents, LLM clients (`agents/`, `intelligence/`) | replay files | prompt, validate, cite | an answer that does not fit | nothing of a rejected answer is stored |
| Analytics (`analytics/`) | none | impact, scoring, bands, windows | boundaries, rounding | agree with their definitions |
| Evaluation (`evaluation/`) | `evaluation_runs`, `evaluation_results` | score a run, keep the attempt | many statements, commands and people in between; the run erased meanwhile | no false verdict, no attempt lost |
| API, CLI, web console | none | call the above; the console reads | a page is several statements | its figures agree, its records belong together |
| Models and migrations (`db/models/`, `alembic/versions/`) | the schema, and the rows a revision rewrites | nine revisions, up and down | rows no test wrote; the way down and up again; the schema written twice | nothing found is lost, head is what the models declare |
| Core, domain | none | | | |

`PROJECT.json` lists the components with their files, and the hazards with
their lines.

## 2. What is modelled

### Policy

`Classify`, `DecisionByTier`, `Evaluate` are `governance/tiers.py` and
`rules.py` over the kinds of action a draft may propose;
`EngineDecision` is the engine in front of the write gate and
`ApprovedEngineDecision` the one `execution/policy_binding.py` substitutes for
one approved action. `Execution` uses them for the decision stored with a run
(with the fields the draft names) and for the fresh one at execution time
(without them). The two can differ, and the model keeps that.

### Execution

One incident; each process runs one command. Committed rows are `incident`,
`run`, `approval`, `trail`, and the newest version of each action record with
the process that has it uncommitted (`action`, `attempts`, `claimant`);
`incidentLock` is the uncommitted update of the incident row. Steps are those
of the code: `BeginInvestigate`, `OpenRun`, `BeginResume`, `LoadRun`, then for
each intervention `Grant` or `Refuse` (`execution/service.py _process`),
`Claim` or `ResolveExisting` (`executor.py`), `CallSucceeds`, `CallRetries`,
`CallFails`, and at the end `Commit`, or `IllegalTransition`, `Crash`,
`DeadlockVictim`, which roll back. `Decide` is a person, `Tick` the evaluation
timestamp.

- A claim that meets another transaction's uncommitted claim waits for it; a
  circle of waiting processes loses one of them to the deadlock detector.
- The update of the run row is folded into the wait for the incident row: every
  command that updates one updates the other in the same transaction.
- The simulated adapters fail before their effect, so a failed or retried call
  has none.
- The clock never runs backwards. A decided request may be decided again,
  because `decide` does not look. The status EXPIRED that `decide` writes
  before it raises is rolled back, so it is not a state of the model.
- `effects`, `lost`, `granted` are history: what the outside world received,
  what of it lost its record, and for each command which requests of its run
  were approved at some time since it loaded the run.

### Investigation

The graph is a sequence of six nodes; four call a model. `Admit` or `Refuse`
is `BudgetedLLMClient` asking the governor before a call, on the figure the
transaction can see; `Answer` is the provider's bill, `Charge` the entry and
the addition to `consumed_usd`, which takes the budget row's lock until the end
of the transaction. `BadAnswer` is a paid call whose answer fails validation;
it, a refusal and a crash roll back everything but `invoice`.

- What a call costs may exceed its reservation by `Excess`. The reservation is
  priced with the cap of the route (`cost/routing.py`), while
  `intelligence/anthropic_client.py` always sends its own cap and
  `settings.model_default` instead of the model of the route.
- A budget of scope INCIDENT is checked and never charged, so it can only
  refuse a single call larger than itself. A RUN budget cannot exist before its
  run commits, and nothing in `src` creates budgets: the model starts with one.
- A GLOBAL budget is never reset; the model has no month.
- `docs/cost-governance.md` gives a halted run the status BUDGET_EXCEEDED; the
  rollback leaves no row to carry it.

### Ingestion

A cycle reads the mirror (`Begin`), inserts its raw events one by one and waits
for any other transaction that has inserted the same one (`StoreRaw`),
normalizes by absence (`Normalize`), evaluates each opportunity (`Quiet`,
`Detect`, or `FutureTouch`, which fails the cycle), persists the candidate by
its key (`Report`, `Deduplicate`), opens an incident for each new signal
(`Open`) and commits. `seed` deletes opportunities (`SeedBegin`), then accounts
(`SeedAccounts`), each row in turn (`SeedRow`), inserts and commits
(`SeedCommit`), and its foreign keys delete signals, incidents and audit rows.

- A DELETE locks and deletes its rows one by one, in an order nothing says, and
  waits at a row for the cycles that hold their share of it, so a cycle can meet
  a statement half done. The cascade to the signals is at its end.
- One source event per opportunity stands for the five kinds of rows the mirror
  holds. Payloads are left out; a signal's `evidence_refs` are too.
- An opportunity stands for its account too, as if each had its own. In the
  fixture up to two share one; a cycle's share of an account then holds the seed
  back for both.
- Evaluation and insertion are two steps, because a seed can come between them:
  the candidate is persisted from rows that are gone.
- The foreign keys of a new signal lock its account and then its opportunity.
  Behind a seed that has deleted them the insert waits; after its commit the
  check fails, although rows with the same identifiers are there again.
- A thread that reads the mirror in the middle of a seed's commit would see
  tables of both versions; the five reads of `read_source_events` are one step
  here. Two seeds at once are not modelled: the second fails on the unique
  references of the first.
- Two inserts of one signal that collide on its primary key before its dedupe
  key (both are derived from it) would fail instead of wait. The model treats
  the two indexes as one.
- A dedupe key holds the evaluation date. The same stalled opportunity opens a
  second incident on a later day; the runs reach that.

### Schema and migrations

`Schema` gives every table its foreign keys with their ON DELETE rule, unique
keys, CHECKs, enum columns, nullable columns and decimal scales, once from
`0001_baseline.py` and once from `db/models/`. `Migrations` has one action for
each `upgrade` and each `downgrade` (`Up0001` to `Down0001`), on the catalogue
and on the rows they rewrite; a revision that raises changes nothing, because
`alembic/env.py` runs a command in one transaction. At head the program writes:
`OpenIncident`, `Propose`, `Approve`, `Act`, `Reconcile`, `Spend`, `Seed`.

- Before revision 5 requests keep their requester in the note; databases that
  hold such rows exist, so `LegacyRequest` and `LegacyApprove` write them at
  revision 4.
- `Act` may leave INDETERMINATE. This build never commits that status
  (`CommittedRowsSettled`), but the status, `Reconcile` and revision 9 exist for
  builds that commit the claim first, and the revisions must carry such rows.
- `DeletionRefused` follows PostgreSQL's order: the keys of a table that
  cascade are followed in waves, and a RESTRICT key refuses if the row it holds
  is still there in its wave. Whether a seed can be refused is a matter of that
  order alone.

### Evidence and gateway

`Evidence` computes what each source returns for a mirror, along both ways:
tool call, adapter, payload, canonical record (`Canonical`), and repositories
(`Control`). `Gateway` runs the commands of one run one after another -
`BeginInvestigate`, `ReadSource` or `SourceFails` for each source of the
selection, `EndGather`, then as for `BeginResume` a pass of `Skip`, `Claim`,
`Resolve`, `CallSucceeds`, `CallRetries`, `CallFails` - and the stdio server
beside them (`StdioCall`, `StdioStops`). `Answer` is dispatch: the
unknown tool, arguments that do not fit the schema, the gate, the injected
failure, the reference that is not found, and the arguments that make no sense to
the calculator of pipeline impact, in that order.

- One dispatch is one step: nothing of it is visible before the commit.
- The process that injects failures is a function of tool and ordinal
  (`Scripts`). `runner.py` binds none; the others are what tests bind. An
  ordinal counts the calls of one bundle of adapters, which starts again with
  each command.
- The mirror is fixed: what a seed does in between is the matter of `Ingestion`.
  The rows of an account and kind differ in their instants, so that an order is
  total and `OldestFirst` and `LatestFirst` can name the one enumeration a query
  returns. For usage a unique key says so (`uq_usage_snapshots_account_period`).
  For activities, engagement and support rows it is so in the fixtures of the
  seed, and the schema would allow a tie: the order of a query is open then, and
  `EvidenceMatchesControl` claims nothing of such a mirror.
- Arguments are valid as the program builds them; the stdio server may also be
  given invalid ones and names nobody knows.

### Evaluation and console

A command is one transaction and, for a reader, one step: `Detect`,
`Investigate`, `Resume`, `Decide`, `Seed`, with `Tick` for the evaluation
timestamp. An evaluation (`BeginEvaluation`, `Examine`, then `RecordAttempt` or
`AttemptRefused`) and a page (`OpenPage`, `Read`, `Close`) are sequences of
statements, each of which sees what was committed when it ran.

- Of the fifteen checks of the rubric, kept are those whose verdict depends on
  rows that change after the run, and four over rows that do not, to have runs
  that fail; those over rows that come and go together are one statement.
- One run per incident. Evaluation and pages of one incident are about the
  first, which is what `scripts/evaluate.py` does; incidents differ in nothing
  else. A page that has been answered is closed before anything else happens,
  since nothing later changes it.
- `heeded` and `redecided` are history: which drafts were made under an approval
  in force, which requests were decided again after that; `erased` is the spend
  whose entries a seed deleted.

## 3. What the runs check

Statements called *divergence* hold in a document or comment and not in the
code; the run shows the shortest way there.

| Run | Checks | Result |
|---|---|---|
| `overlap` | `TypeOK`, `ClaimsAreHeld`, `EffectsAccountedFor`, `EffectsWereAuthorised`, `CommittedRowsAreSettled`, `CompletedRunsAreSettled`, `StatusIsAccountedFor`, `LedgerSafety`, `ClosedRunsStayClosed` | hold |
| `serial` | `TrailIsOnePath`, `IncidentMirrorsRun` | hold when commands do not overlap |
| `live` | `CommandsEnd` | holds |
| `due` | `OneKeyPerEffect` | violated: the key of a CRM task contains a due date |
| `crash` | `CrashNeverRepeats` | divergence: the claim is flushed, not committed, before the call |
| `budget` | `TypeOK`, `LedgerReconciles`, `GlobalBudgetHolds`, `CeilingsHold`, `RunsEnd` | hold |
| `invoice` | `InvoiceWithinBudget` | divergence: refused runs spend and book nothing |
| `ingest` | `TypeOK`, `EventsNormalizedOnce`, `SignalsAreOpened`, `RefsAreUnique`, `CyclesEnd` | hold |
| `seed` | `RecordIsKept` | divergence: re-seeding erases the audit trail |
| `migrate` | `TypeOK`, `FindingsSurvive`, `MigrationsApply`, `HeadMatchesModels`, `ApprovalRefsStayUsable`, `ErasureNeverRefused` | hold |
| `gateway` | `TypeOK`, `LedgersAgree`, `EvidenceMatchesControl`, `GateAgreesWithGrant`, `EffectsComeFromGrants`, `LedgerSafety` | hold |
| `console` | `TypeOK`, `PagesAddUp`, `PagesHoldTogether`, `AuditTellsTruth`, `HistoryIsKept` | hold |

The bounds, and why they are enough:

- `overlap`: three processes, two in flight, one crash, two dates, three
  interventions - one allowed with a date in its key, one that needs a person,
  one denied. Two commands at one effect, and a third that comes after both, is
  the most that claims, approvals and lost effects can tell apart; three
  attempts are the code's. Processes are interchangeable, and the properties
  of this run are all safety, so symmetry is sound.
- `serial`: one command at a time, two crashes. The properties are about
  sequences of commands; overlapping ones break them (section 5), and keep what
  `StatusIsAccountedFor` and `ClosedRunsStayClosed` say in the run `overlap`.
- `live`: two in flight and no symmetry; a retry and a crash only shorten or
  repeat what is there.
- `budget`: three runs of two incidents, so that two contend for an incident
  and all for the budget. The limit of 8 is met in the middle of a run; calls
  cost 1 or 3 against a reservation of 2, so that `Excess` matters; one tool
  call too many reaches a ceiling. The ceiling on model calls is the code's, 12,
  which the four calls of a run do not come to; the theorem covers smaller ones.
- `ingest`: two cycles at a time suffice for each pair of statements that
  conflict; two opportunities are needed for an order of rows, two days for a
  clock behind the mirror, two seeds to replace a mirror someone reads, and three
  for a circle through a second cycle's key: that cycle must have passed a signal
  the first one holds, so one seed fills the mirror, another erases the committed
  signal that was passed, and the third is the one that waits. `MaxEvents` is 3:
  of seeds, crashes and changes of day any three come together, which is enough
  for each of these and leaves a graph on which liveness can be decided.
  The fixture's youngest touch is a day old; `TouchAge` is 0 here so that two
  days are enough to be late.
- `migrate`: two proposals of three kinds, so that references can be renumbered
  and one row can be in the way of the other; two amounts of spend, one of them
  less than a cent; one incident, enough for a sequence that starts again.
- `gateway`: four interventions - allowed, refused, and two drafts, so that two
  actions call one tool through two derived clients; three commands, one crash;
  five scripts, from no failure to one more than the executor retries; four
  mirrors with a row more than the limit, an empty week, a closed issue, a
  meeting, and nothing; two selections, one of which asks for a source twice.
- `console`: two incidents and two reports, one of which fails most checks; one
  seed, two dates, two attempts. A page or an evaluation takes up to eight
  statements, and any commands may commit between any two of them. A budget of
  3 against costs of 2 and 1 can be used up and overdrawn.

Why the pages add up (`console`). Commands only add: what is at risk comes with
what is weighted, a call with its entry, a charge with its entry. So of two
figures of a page the one that must not exceed the other has to be read first,
and that is the order in which the code happens to evaluate them; the mutant
swaps it. A seed is the one command that takes away, and a page it meets may
disagree with itself; what no page may do even then is show a citation, an
action or an incident without what it rests on.

Why erasure is never refused (`migrate`). Revision 6 adds two RESTRICT keys
from action records, to the decision and to the request. The cascade from the
mirror reaches action records through the run in an earlier wave than it reaches
the decision and the request through the intervention, so the referring rows
are gone when the key is checked. A RESTRICT key on the run itself, which is the
mutant, breaks that.

The runs `gateway` and `console` do not check deadlock: their commands and their
clock are bounded. `migrate` does check it.

The runs of `Execution` and `Investigation` do not check deadlock: each process
runs one command, and when all have, the system has stopped. `ingest` does
check it.

Fairness. `Execution` and `Investigation` assume weak fairness of a command's
own steps, nothing of people, clocks or crashes: a process that has started
waits for the database and its tools only. `Ingestion` assumes strong fairness
of a cycle's steps and of the seed's, because cycles repeat without end and one
that waits for a row could otherwise be overtaken for ever: PostgreSQL queues the
transactions that wait for a row, and wakes the first before a later one can take
it. (A cycle's share lock may slip in between the waking and the taking. If it
did so every time the seed would not end, which the assumption excludes.) Being
failed by the deadlock detector counts as a step of the cycle, so the detector is
assumed to run.

Each property of a passing run comes with a mutant: a definition changed as a
plausible bug would change it (an operator beside the original whose comment
says "Mutant of"), under which the run finds the property violated.

## 4. What is proved

For every value of the constants that satisfies the named `ASSUME`s of the
modules - any number of processes, interventions, runs, opportunities, days and
crashes:

- `ExecutionProofs`: `TypesHold`, `ClaimsHold`, `CommittedRowsSettled`,
  `EffectsAccounted`, `EffectsAuthorised`, and `ImplementsLedger`, that
  `Execution` implements `ActionLedger`.
- `IncidentProofs`: `CompletedRunsSettled`, `StatusAlwaysAccountedFor`,
  `RunsAlwaysStayClosed`; and, where at most one command is in flight at a time,
  `SerialTrailIsOnePath` and `SerialIncidentMirrorsRun`.
- `InvestigationProofs`: `BudgetTypes`, `LedgerAlwaysReconciles`,
  `GlobalBudgetAlwaysHolds`, `CeilingsAlwaysHold`.
- `IngestionProofs`: `IngestionTypes`, `EventsAlwaysNormalizedOnce`,
  `SignalsAlwaysOpened`, `RefsAlwaysUnique`.
- `MigrationsProofs`: `RowsAreTyped`, `FindingsAlwaysSurvive`,
  `RefsAlwaysUsable`, `ErasureAlwaysAllowed`, `HeadAlwaysMatchesModels`,
  `RevisionsAlwaysFit`.
- `GatewayProofs`: `GrantPassesGate`, `GatewayTypes`,
  `EffectsAlwaysComeFromGrants`, `GateAlwaysAgrees`, `LedgersAlwaysAgree`,
  `EvidenceAlwaysMatches`, and `GatewayImplementsLedger`, that `Gateway`
  implements `ActionLedger`.
- `ConsoleProofs`: `ConsoleTypes`, `PagesAlwaysAddUp`,
  `PagesAlwaysHoldTogether`, `AuditAlwaysTellsTruth`, `HistoryAlwaysKept`.

The theorems `Inductive`, `AccountInductive`, `SerialInductive`,
`BudgetInductive`, `IngestionInductive`, `RowsInductive`, `SchemaInductive`,
`GatewayInductive`, `LedgersInductive`, `EvidenceInductive` and
`ConsoleInductive` are the inductive invariants behind them. What the
assumptions on the constants ask is what the code guarantees of the values they
stand for; those that are not mere types are discussed with the argument that
uses them.

The arguments:

- *Effects.* None of the properties is inductive alone. A command in a call
  must be known to hold the EXECUTING row of that very effect
  (`ClaimsAreHeld`), or its success could not be matched with the one effect
  more; a rollback must be known to find no settled row but the command's own,
  to count what it loses. `NeverIndeterminate` and the shape of a command close
  the invariant. The refinement maps an uncommitted row to an absent outcome:
  calls are `Deliver`, a commit is one `Publish`, all else stutters.
- *Authority.* `EffectsAuthorised` is about the step that performs the effect.
  The grant was read some steps before, and a person may have rejected the
  request since: the code reads it once, before the claim, and the claim may have
  to wait. What is left is that the approval was of this run and in force after
  the command loaded it, and that is carried from the grant to the call.
- *Completed runs.* A run is COMPLETED when its pass met nothing to wait for,
  and the claim is about every action it should have performed, which may be
  another command's. `PassShape` carries it through the pass: behind the cursor
  every action that may run has a row that no one can take away from this
  command - its own, or a committed one, for a row another transaction holds
  makes the pass wait. It holds however commands overlap.
- *The incident and its run, in turn.* Both claims are false of commands that
  overlap: two that loaded the same status both walk from it. The theorems
  therefore say `MaxActive <= 1`, which is how one operator at a terminal works,
  and `SerialInv` needs what only then is true: what a command loaded is what is
  still there (`LoadShape`). Section 5 has what overlap does.
- *The incident and its run, overlapping.* What a command loaded may be stale,
  but it was committed, so it is a status the trail has come to and, as the
  trail is only appended to, will always have come to (`AccountInv`,
  `AccountExtends`). Each hop of a walk therefore leaves a status that was: the
  first one the status loaded, every other the end of the hop before it. Only an
  `investigate` pauses, and only its own run, which no one else has seen; a
  resume moves its run and the incident together, and only to COMPLETED. So a
  paused incident has an INTERRUPTED run, a closed one a COMPLETED run, and a
  COMPLETED run stays so - of several runs one may still be INTERRUPTED when the
  incident is closed, and the other way round, which is what remains of
  `IncidentMirrorsRun`.
- *Budget.* The check and the charge are apart, so the bound looks false: three
  runs are admitted on one stale figure. What saves it is that a run keeps the
  budget row from its first charge on. From its second call on it reads the
  newest figure and no one else can add to it, so whoever was admitted on a
  stale one is refused there and rolled back, or was within the limit after
  all. `AdmissionShape` says what each step has established; the argument needs
  that every call costs something and that the first two nodes both call
  (`SequenceFacts`).
- *Ceilings.* They are looked at before a model call only, and the tools of the
  evidence node may pass theirs. That no run completes all the same rests on the
  graph: evidence is gathered at the second of three nodes in a row that call a
  model, so the next node looks again (`CeilingShape`, `OneNodeFurther`).
- *Ingestion.* A unique key is held by one transaction at a time. The rows
  behind a key - the normalized event of a raw one, the incident of a signal -
  have no key to wait for when they are inserted, and inherit the exclusion:
  past normalization a cycle's normalized events are exactly its raw ones
  (`EventShape`), and its incidents are of its own signals (`CaseShape`). A
  reference is below the sequence from the moment it is handed out
  (`RefShape`).
- *Migrations.* A finding has a different form at different revisions - the
  requester a column or a note, the spend with or without fractions of a cent -
  so the invariant cannot be about columns. `Record(p)` reads a row in the form
  it has, and `RowsInv` says that what it reads is what was recorded, at every
  revision and not at head only. The refusals are what makes it inductive: each
  downgrade that would change the reading is refused for just the rows it would
  change it of (`Conflicting`, `Indeterminate`, `Attested`), and a whole number
  of cents is its own rounding (`WholeCents`). `NilAssumption` says that NULL is
  no value, `ProposalAssumption` that a table is finite, so that it can be
  numbered. References survive a renumbering in any order because the numbers
  are one to one and below the sequence.
- *Erasure.* By the keys alone. `KeysInv` says which keys the revisions may put
  where: RESTRICT only from action records to a decision or a request, and every
  way for those to go - by their intervention, by their run - is a way for the
  records to go. So whenever an authorisation has gone in some wave the records
  have gone in that wave or an earlier one, by induction over the waves.
- *The catalogue.* `SchemaInv` says, property by property of each table and for
  each enum type, what the revisions up to the present one have made of it
  (`MovedAt`, `TablesAt`, `TypesAt`), and that everything they do not name is as
  the baseline left it. It is inductive because each `downgrade` undoes just what
  its `upgrade` did - checked revision by revision (`SchemaUp0001` to
  `SchemaDown0001`), going down with no more to go on than the invariant of the
  higher revision. At a revision it has one solution (`OneSchema`), and both ends
  are computed from the two sources table by table (`TableEnds`, `TypeEnds`): at
  revision 1 the baseline, at the head the models. `RevisionsFit` is what the
  revisions require: no table and no type of theirs before the baseline, no action
  type that a proposal could not have before revision 4, a numbering of however
  many requests revision 5 finds (a finite set has one); and, for going down from
  revision 1, an order of dropping the tables that no foreign key refuses. That
  order is `Place`: each table's keys lead to itself or to one dropped later, table
  by table (`KeysAhead`), so nothing left refers to the next (`BaselineDrops`).
- *Gateway.* The gate decides again, knowing the tool and not the grant. A tool
  of a tier that needs no person is allowed by the engine of the pass; one that
  needs a person is called through a sibling client whose engine is bound to
  that very tool; no tool performs a refused action (`GrantPassesGate`).
  With no engine bound no write tool answers, so the stdio server has no
  effect. A record is EXECUTING exactly while its own call is
  under way (`CallShape`), so a success is the one effect more of that record;
  and a saved record is the transaction's own (`RecordShape`), so a rollback
  loses exactly the effects behind unsaved records, and nothing is published
  twice. That no row is a refusal is an invariant over sequences, kept by
  appending an answer past the gate and by the flush (`Undenied`).
- *Two ledgers.* That `tool_calls` and `action_records` tell one story is
  claimed of what is committed, and a command makes calls before it has a record
  to compare. `TellOf` relates any rows to any records, and the invariant states
  it twice: of the committed rows and records, and of the rows with the
  command's own appended and the records as the command sees them. A commit
  makes the second the first and a rollback the first the second. Rows are
  counted as a set of positions, to which an appended row adds one or none
  (`CallsCount`); that reads come first and all of the selection (`ReadsStand`)
  needs that a command that has begun to act reads no more. `AttemptsLeft` keeps
  a retry within the limit. `SelectionAssumption` says that a selection names
  sources, as the planner's answer is validated to do.
- *Evidence.* The tools filter, then sort, then cut; the control sorts, cuts or
  filters in another order. With one row to an instant, rows have one ordered
  enumeration (`MirrorAssumption`), and a sequence that is ordered and takes each
  row once is that one. So it is enough that filtering an ordered enumeration
  gives an ordered enumeration of the rows that pass - proved of the flattened
  sequence of singletons and empties that the control builds, by induction over
  the length. Windows from 1970 to 2999 take every row of a mirror. What was
  gathered is then compared source by source: the evidence a command holds is the
  flattening of the control's answers to the part of the selection it has read,
  and one more source appends one more answer (`EInv`).
- *Console.* Two figures of a page are read at two moments, and the one that
  must not be exceeded is read later. Every command but a seed only
  adds (`Adds`), sums grow with their summands (`SumMono`, `SumAdd`), so what was
  read is at most what is there, and `Figures` carries that from read to read.
  A seed takes away; a page it has met makes no claim about figures (it is no
  longer `Undisturbed`), and the claims about belonging together rest on an
  erased run never coming back, because the sequence of incidents only grows
  (`GoneForGood`). An evaluation reports an action without an approval only
  where there is a `redecided` request, and a draft after its approval only
  where there was one `heeded`: a request that is not approved although its
  action was performed has been decided again, and an action with an instant was
  performed under an approval in force (`ActionsShape`, `RequestsShape`). `ReportsAssumption`
  asks of a report what `validate_citations` and the CHECK `values_ordered`
  ensure.

Induction. The library's induction theorems take the claim as an operator, which
the installed provers cannot instantiate. Three of the proof modules need
induction all the same: sums over incidents, the waves of an erasure, the parts
of a flattened sequence, the rows of an ordered one. `NatSets` states it with the
claim as a set: a set with 0 and every successor of its members has every natural
number. That a recursive function is there at all is proved the same way
(`PartialExists`, `WavesExist`, `FlattenExists`).

Only model-checked:

- `TrailIsOnePath` and `IncidentMirrorsRun` are model-checked where they are
  proved, in the run `serial`, and false elsewhere.
- `MigrationsApply` is stated with ENABLED, which is beyond the installed
  provers. What the revisions' guards ask for is proved (`RevisionsFit`); that a
  step is enabled when its guards hold is what is left to TLC.
- Everything under fairness (`CommandsEnd`, `RunsEnd`, `CyclesEnd`).

## 5. What the code does otherwise than it says

Beyond the four runs above, met while modelling and not given a run.

Commands and approvals:

- A rejected or lapsed request raises the same error as a missing one, so
  `execution/service.py:127` files it as awaiting approval and its run stays
  INTERRUPTED for ever; lines 6-10 of the file put a rejection among the refused.
- A resume that loaded the incident before another one closed it walks it to
  COMPLETED a second time (`incidents/service.py:193` looks at the row as
  loaded); `incidents/lifecycle.py` calls terminal states final.
- `governance/approvals.py` decides a decided request again; no text forbids it,
  but `no_external_action_without_approval` then reports a bypass that was none
  (`AuditTellsTruth` allows exactly that).
- `events/ingest.py` never takes in a changed row of an opportunity, since its
  source identifier does not change; `events/normalize.py` calls the normalized
  event the only shape detectors read, and they read the mirror.
- `docs/event-model.md` gives an idempotency key that contains the run; the
  code's does not.
- The ceilings on tool calls are looked at before model calls only.
- `overshoot_bound` in `cost/governor.py` allows one reservation for every
  further run that races. In live mode the theorem is stronger, by the argument
  in section 4, as far as reservations go; but the bound takes a reservation
  for the most a call can cost, which it is not (`Excess`).
- ADR-0026 equates `consumed_usd` with the sum of the entries; a seed deletes
  the entries and leaves the budget (`TypeOK` of `Console` has the difference).

Gateway and evidence:

- `mcp/dispatcher.py` calls the ordinals of calls per run; each command's client
  starts at one again.
- A call of an unknown tool raises before it is recorded. The row of a failed
  read is rolled back with its command. The session of the stdio server is never
  committed: an audit event it acknowledged is gone when it stops.
- The evidence over the tools never has a meeting, since the source asks for
  emails; the control counts them.
- `crm_update_opportunity` takes a `field_name` and the engine looks for
  `field`, so every call of it is classified without its field.

Evaluation and console:

- `/evaluation/latest` is "the most recent attempt" by `started_at`, which is
  the frozen timestamp; `evaluation_history` explains why it uses `seq` instead.
- `get_incident` calls its second 404 unreachable; a seed between its statements
  reaches it.
- The overview's "at risk right now" sums the assessments of closed incidents
  too. `tier1_auto_executed` passes for a task that FAILED. `make eval` judges
  INC-001 by name, which after a seed never exists again.

Migrations:

- Down past revision 6 and up again, an effect a person approved has
  `approval_request_id` NULL, which `0006_execution_integrity.py:10` reads as
  auto-approved, and every intervention's target is "unknown:pre-0006"; the file
  refuses for other rows it would lose.
- `0002` starts the sequence of references at one on every way up: openings fail
  until the numbers in use are passed.
- `0005:72` numbers requests "by creation order" and the statement has no order:
  after a round trip APR-001 may be another request.
- `0007` narrows budgets to NUMERIC(12, 6): a limit of a million fails. `alembic
  check` compares neither CHECKs nor enum members, which `HeadMatchesModels` does.

## 6. What is not modelled

- *Reconciliation beyond one attestation.* `CommittedRowsSettled` proves that
  this build commits no INDETERMINATE row, so that `list_uncertain` is empty and
  every attestation refused. `Migrations` has rows of builds that commit first,
  and one attestation of each; the race of two is for the day a claim is
  committed before its call.
- *Analytics and pricing.* Pure arithmetic on decimals: impact, scoring, bands,
  prices. One boundary of it fails a cycle and is in `Ingestion`.
- *The injection corpus, prompts, schemas, wording.* Text, on which no step
  depends.
- *Pages and lists of one statement, the catalogue, logging, the web console.*
  Nothing can come between one statement, and nothing they do is read.

## 7. Plan

1. `Analytics` as operators over scaled integers, with theorems on ranges and
   monotonicity.
2. A composition of `Ingestion`, `Investigation` and `Execution` around one
   incident's status, to state what `seed` does to a run in flight.
