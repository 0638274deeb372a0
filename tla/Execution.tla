----------------------------- MODULE Execution -----------------------------
(***************************************************************************)
(* The execution phase of one incident: the commands `investigate` and     *)
(* `resume` running in separate operating-system processes against one     *)
(* PostgreSQL database, people approving and rejecting in between, and     *)
(* processes that die.                                                     *)
(*                                                                         *)
(* A command is one transaction: session_scope commits once, when the      *)
(* command returns, and rolls back on any exception.  What a command       *)
(* writes is therefore visible to the others only when it commits, while   *)
(* an external effect is visible at once and is never rolled back.         *)
(* Isolation is READ COMMITTED: every statement sees what is committed     *)
(* when it runs, but an object loaded once keeps the values it was loaded  *)
(* with.  An INSERT of a key another transaction has inserted and not      *)
(* committed waits for that transaction, and so does an UPDATE of a row    *)
(* another transaction has updated.                                        *)
(*                                                                         *)
(* Interventions are named by their rank.  Drafting is deterministic in    *)
(* fixture mode, so every run of the incident has the same interventions.  *)
(* A run is named after the process whose `investigate` created it.        *)
(***************************************************************************)
EXTENDS Policy, FiniteSets, Sequences

CONSTANTS
  Proc,        \* processes; each runs one command in its life
  NoProc,      \* no process
  NItems,      \* interventions persisted per run (the strategist keeps three)
  ActionOf,    \* [1..NItems -> ProposedAction]
  FieldsOf,    \* fields each draft said it would change
  MaxAttempts, \* attempts a call gets; retry.py fixes it at 3
  MaxTime,     \* bound on the evaluation timestamp
  DateOf,      \* [Time -> Nat]: the calendar date of a timestamp
  ApprovalTTL, \* DEFAULT_APPROVAL_TTL, 24 hours, in the same unit
  MaxCrashes,  \* bound on processes that die
  MaxActive    \* commands that may be in flight together

Item == 1 .. NItems
Time == 0 .. MaxTime

ASSUME ProcAssumption == NoProc \notin Proc
ASSUME ItemAssumption == NItems \in Nat
ASSUME ActionAssumption == ActionOf \in [Item -> ProposedAction]
ASSUME AttemptsAssumption == MaxAttempts \in Nat \ {0}
ASSUME TimeAssumption ==
  /\ MaxTime \in Nat
  /\ DateOf \in [Time -> Nat]
  /\ ApprovalTTL \in Nat \ {0}
ASSUME BoundAssumption == MaxCrashes \in Nat /\ MaxActive \in Nat

(***************************************************************************)
(* The idempotency key digests the incident, the action, its target and    *)
(* its arguments.  Interventions of an incident differ in title, so the    *)
(* rank stands for all of that except one argument: a CRM task carries a   *)
(* due date, two days after the evaluation date of the pass performing it. *)
(***************************************************************************)
DueDate(t) == DateOf[t] + 2

NoDate == 0

KeyDate == {DueDate(t) : t \in Time} \cup {NoDate}

Key == Item \X KeyDate

KeyOf(i, t) == <<i, IF ActionOf[i] = "crm_task" THEN DueDate(t) ELSE NoDate>>

\* authorize_execution evaluates afresh, and does not know the fields.
FreshDecision(i) == Evaluate(ActionOf[i], {})

\* policy_agent evaluated the draft with the fields it names; this is stored.
StoredDecision(i) == Evaluate(ActionOf[i], FieldsOf[i])

NeedsApproval(i) == StoredDecision(i) = "require_approval"

IncidentStatus == {"triaged", "investigating", "analyzed", "strategized",
                   "awaiting_approval", "executing", "completed"}

\* LEGAL_TRANSITIONS between the statuses the runner moves an incident to.
LegalTransition ==
  {<<"triaged", "investigating">>, <<"investigating", "analyzed">>,
   <<"analyzed", "strategized">>, <<"strategized", "awaiting_approval">>,
   <<"strategized", "executing">>, <<"awaiting_approval", "executing">>,
   <<"executing", "completed">>}

RunStatus == {"none", "interrupted", "completed"}
ApprovalStatus == {"none", "pending", "approved", "rejected"}
ActionStatus == {"absent", "executing", "succeeded", "failed", "indeterminate"}

-----------------------------------------------------------------------------
VARIABLES
  clock,         \* settings.evaluation_timestamp
  \* committed rows
  incident,      \* incidents.status
  run,           \* [Proc -> RunStatus]: workflow_runs.status
  startedAt,     \* [Proc -> Time]: workflow_runs.started_at, approvals' requested_at
  approval,      \* [Proc -> [Item -> ApprovalStatus]]: approval_requests.status
  trail,         \* audit_events of the incident: the hops, in order
  \* action_records, the newest version of each row, and who holds it uncommitted
  action,        \* [Key -> ActionStatus]
  attempts,      \* [Key -> 0..MaxAttempts]: attempt_count
  claimant,      \* [Key -> Proc \cup {NoProc}]: inserted, not yet committed
  incidentLock,  \* the process with an uncommitted update of the incident row
  \* the commands
  pc,            \* [Proc -> step]
  now,           \* [Proc -> Time]: the evaluation timestamp it read
  target,        \* [Proc -> run it executes]
  seen,          \* [Proc -> incident.status as loaded]
  seenCompleted, \* [Proc -> run.status is COMPLETED as loaded]
  cursor,        \* [Proc -> rank of the next intervention]
  waiting,       \* [Proc -> phase.awaiting_approval is not empty]
  \* history
  effects,       \* [Key -> Nat]: effects performed in the outside world
  lost,          \* [Key -> Nat]: effects whose record was rolled back
  granted,       \* [Proc -> items APPROVED at some time since it loaded its run]
  crashes

dbVars == <<incident, run, startedAt, approval, trail>>
rowVars == <<action, attempts, claimant>>
cmdVars == <<now, target, seen, seenCompleted, cursor, waiting>>
historyVars == <<effects, lost, granted, crashes>>
vars == <<clock, dbVars, rowVars, incidentLock, pc, cmdVars, historyVars>>

Active(p) == pc[p] \notin {"idle", "done"}

CurrentKey(p) == KeyOf(cursor[p], now[p])

Committed(k) == claimant[k] = NoProc /\ action[k] # "absent"

Init ==
  /\ clock = 0
  /\ incident = "triaged"
  /\ run = [p \in Proc |-> "none"]
  /\ startedAt = [p \in Proc |-> 0]
  /\ approval = [p \in Proc |-> [i \in Item |-> "none"]]
  /\ trail = <<>>
  /\ action = [k \in Key |-> "absent"]
  /\ attempts = [k \in Key |-> 0]
  /\ claimant = [k \in Key |-> NoProc]
  /\ incidentLock = NoProc
  /\ pc = [p \in Proc |-> "idle"]
  /\ now = [p \in Proc |-> 0]
  /\ target = [p \in Proc |-> NoProc]
  /\ seen = [p \in Proc |-> "triaged"]
  /\ seenCompleted = [p \in Proc |-> FALSE]
  /\ cursor = [p \in Proc |-> 1]
  /\ waiting = [p \in Proc |-> FALSE]
  /\ effects = [k \in Key |-> 0]
  /\ lost = [k \in Key |-> 0]
  /\ granted = [p \in Proc |-> {}]
  /\ crashes = 0

-----------------------------------------------------------------------------
(* Starting a command. *)

CanStart(p) ==
  /\ pc[p] = "idle"
  /\ Cardinality({q \in Proc : Active(q)}) < MaxActive

(* run_investigation loads the incident and refuses one that is not        *)
(* TRIAGED, changing nothing.                                              *)
BeginInvestigate(p) ==
  /\ CanStart(p)
  /\ incident = "triaged"
  /\ pc' = [pc EXCEPT ![p] = "open"]
  /\ now' = [now EXCEPT ![p] = clock]
  /\ target' = [target EXCEPT ![p] = p]
  /\ seen' = [seen EXCEPT ![p] = incident]
  /\ UNCHANGED <<clock, dbVars, rowVars, incidentLock, seenCompleted, cursor, waiting,
                 historyVars>>

(* The run row, the move to INVESTIGATING, which holds the incident row    *)
(* until the end of the transaction, the read-only graph, and              *)
(* persist_investigation: one intervention per rank, its policy evaluation *)
(* and a PENDING request where the stored decision asks for one.           *)
OpenRun(p) ==
  /\ pc[p] = "open"
  /\ incidentLock = NoProc
  /\ incidentLock' = p
  /\ startedAt' = [startedAt EXCEPT ![p] = now[p]]
  /\ approval' = [approval EXCEPT ![p] =
                    [i \in Item |-> IF NeedsApproval(i) THEN "pending" ELSE "none"]]
  /\ pc' = [pc EXCEPT ![p] = "pass"]
  /\ UNCHANGED <<clock, incident, run, trail, rowVars, cmdVars, historyVars>>

\* resume_investigation: the incident first ...
BeginResume(p) ==
  /\ CanStart(p)
  /\ pc' = [pc EXCEPT ![p] = "load"]
  /\ now' = [now EXCEPT ![p] = clock]
  /\ seen' = [seen EXCEPT ![p] = incident]
  /\ UNCHANGED <<clock, dbVars, rowVars, incidentLock, target, seenCompleted, cursor,
                 waiting, historyVars>>

LatestRuns ==
  {r \in Proc : run[r] # "none" /\ \A q \in Proc : run[q] # "none" => startedAt[q] <= startedAt[r]}

(* ... then, by another statement, its latest run; ties in started_at are  *)
(* broken arbitrarily.                                                     *)
LoadRun(p) ==
  /\ pc[p] = "load"
  /\ \E r \in LatestRuns :
       /\ target' = [target EXCEPT ![p] = r]
       /\ seenCompleted' = [seenCompleted EXCEPT ![p] = run[r] = "completed"]
       /\ granted' = [granted EXCEPT ![p] = {i \in Item : approval[r][i] = "approved"}]
  /\ pc' = [pc EXCEPT ![p] = "pass"]
  /\ UNCHANGED <<clock, dbVars, rowVars, incidentLock, now, seen, cursor, waiting, effects, lost,
                 crashes>>

\* NotFoundError: the incident has no run.
NoRunToResume(p) ==
  /\ pc[p] = "load"
  /\ LatestRuns = {}
  /\ pc' = [pc EXCEPT ![p] = "done"]
  /\ UNCHANGED <<clock, dbVars, rowVars, incidentLock, cmdVars, historyVars>>

-----------------------------------------------------------------------------
(* The pass over the interventions, in rank order. *)

\* effective_status is EXPIRED: pending, and lapsed at t.
Lapsed(r, i, t) == approval[r][i] = "pending" /\ startedAt[r] + ApprovalTTL <= t

\* Mutant of HasApproval: it is enough that somebody decided the request.
HasDecision(r, i) == approval[r][i] \in {"approved", "rejected"}

\* _require_approval: the effective status is APPROVED.
HasApproval(r, i) == approval[r][i] = "approved"

(* authorize_execution grants: the stored decision is what a fresh         *)
(* evaluation says now, and it allows, or a person approved.               *)
Authorised(r, i) ==
  /\ FreshDecision(i) = StoredDecision(i)
  /\ \/ FreshDecision(i) = "allow"
     \/ FreshDecision(i) = "require_approval" /\ HasApproval(r, i)

(* ApprovalMissingError: the only refusal the phase counts as awaiting     *)
(* approval.  Drift and denial are checked before it.                      *)
ApprovalMissing(r, i) ==
  /\ FreshDecision(i) = StoredDecision(i)
  /\ FreshDecision(i) = "require_approval"
  /\ ~HasApproval(r, i)

Grant(p) ==
  /\ pc[p] = "pass"
  /\ cursor[p] \in Item
  /\ Authorised(target[p], cursor[p])
  /\ pc' = [pc EXCEPT ![p] = "claim"]
  /\ UNCHANGED <<clock, dbVars, rowVars, incidentLock, cmdVars, historyVars>>

\* Mutant of Refuse: the last refusal decides whether the phase is waiting.
RefuseForgetting(p) ==
  /\ pc[p] = "pass"
  /\ cursor[p] \in Item
  /\ ~Authorised(target[p], cursor[p])
  /\ waiting' = [waiting EXCEPT ![p] = ApprovalMissing(target[p], cursor[p])]
  /\ cursor' = [cursor EXCEPT ![p] = @ + 1]
  /\ UNCHANGED <<clock, dbVars, rowVars, incidentLock, pc, now, target, seen, seenCompleted,
                 historyVars>>

Refuse(p) ==
  /\ pc[p] = "pass"
  /\ cursor[p] \in Item
  /\ ~Authorised(target[p], cursor[p])
  /\ waiting' = [waiting EXCEPT ![p] = @ \/ ApprovalMissing(target[p], cursor[p])]
  /\ cursor' = [cursor EXCEPT ![p] = @ + 1]
  /\ UNCHANGED <<clock, dbVars, rowVars, incidentLock, pc, now, target, seen, seenCompleted,
                 historyVars>>

\* Mutant of Claim: a SELECT before the INSERT, which sees no uncommitted row.
ClaimUnseen(p) ==
  LET k == CurrentKey(p) IN
  /\ pc[p] = "claim"
  /\ ~Committed(k)
  /\ action' = [action EXCEPT ![k] = "executing"]
  /\ attempts' = [attempts EXCEPT ![k] = 0]
  /\ claimant' = [claimant EXCEPT ![k] = p]
  /\ pc' = [pc EXCEPT ![p] = "call"]
  /\ UNCHANGED <<clock, dbVars, incidentLock, cmdVars, historyVars>>

\* Mutant of Claim: ON CONFLICT DO UPDATE takes over a committed row.
ClaimUpsert(p) ==
  LET k == CurrentKey(p) IN
  /\ pc[p] = "claim"
  /\ claimant[k] = NoProc
  /\ action' = [action EXCEPT ![k] = "executing"]
  /\ attempts' = [attempts EXCEPT ![k] = 0]
  /\ claimant' = [claimant EXCEPT ![k] = p]
  /\ pc' = [pc EXCEPT ![p] = "call"]
  /\ UNCHANGED <<clock, dbVars, incidentLock, cmdVars, historyVars>>

(* _claim: INSERT ... ON CONFLICT DO NOTHING inserts the row EXECUTING.    *)
(* While another transaction holds the key uncommitted it waits.           *)
Claim(p) ==
  LET k == CurrentKey(p) IN
  /\ pc[p] = "claim"
  /\ action[k] = "absent"
  /\ action' = [action EXCEPT ![k] = "executing"]
  /\ attempts' = [attempts EXCEPT ![k] = 0]
  /\ claimant' = [claimant EXCEPT ![k] = p]
  /\ pc' = [pc EXCEPT ![p] = "call"]
  /\ UNCHANGED <<clock, dbVars, incidentLock, cmdVars, historyVars>>

\* Mutant of ResolveExisting: a FAILED row is put back to be called again.
ResolveRetryingFailed(p) ==
  LET k == CurrentKey(p)
      again == action[k] = "failed" IN
  /\ pc[p] = "claim"
  /\ Committed(k)
  /\ action' = [action EXCEPT ![k] = IF again THEN "executing" ELSE @]
  /\ cursor' = [cursor EXCEPT ![p] = IF again THEN @ ELSE @ + 1]
  /\ pc' = [pc EXCEPT ![p] = IF again THEN "call" ELSE "pass"]
  /\ UNCHANGED <<clock, dbVars, attempts, claimant, incidentLock, now, target, seen,
                 seenCompleted, waiting, historyVars>>

(* _resolve_existing: the row is committed, and nothing is performed.  A   *)
(* row found still EXECUTING becomes INDETERMINATE; any other status is    *)
(* returned as it is, FAILED included.                                     *)
ResolveExisting(p) ==
  LET k == CurrentKey(p) IN
  /\ pc[p] = "claim"
  /\ Committed(k)
  /\ action' = [action EXCEPT ![k] = IF @ = "executing" THEN "indeterminate" ELSE @]
  /\ cursor' = [cursor EXCEPT ![p] = @ + 1]
  /\ pc' = [pc EXCEPT ![p] = "pass"]
  /\ UNCHANGED <<clock, dbVars, attempts, claimant, incidentLock, now, target, seen,
                 seenCompleted, waiting, historyVars>>

Settle(p, k, status) ==
  /\ action' = [action EXCEPT ![k] = status]
  /\ attempts' = [attempts EXCEPT ![k] = @ + 1]
  /\ cursor' = [cursor EXCEPT ![p] = @ + 1]
  /\ pc' = [pc EXCEPT ![p] = "pass"]
  /\ UNCHANGED <<clock, dbVars, claimant, incidentLock, now, target, seen, seenCompleted,
                 waiting, lost, granted, crashes>>

\* _perform: the tool call succeeds and the outcome is recorded.
CallSucceeds(p) ==
  LET k == CurrentKey(p) IN
  /\ pc[p] = "call"
  /\ effects' = [effects EXCEPT ![k] = @ + 1]
  /\ Settle(p, k, "succeeded")

(* _perform: an error that cannot be retried, at any attempt, or any error *)
(* at the last one.                                                        *)
CallFails(p) ==
  /\ pc[p] = "call"
  /\ UNCHANGED effects
  /\ Settle(p, CurrentKey(p), "failed")

\* Mutant of CallRetries: every transient error is retried.
CallRetriesForever(p) ==
  LET k == CurrentKey(p) IN
  /\ pc[p] = "call"
  /\ attempts' = [attempts EXCEPT ![k] = @ + 1]
  /\ UNCHANGED <<clock, dbVars, action, claimant, incidentLock, pc, cmdVars, historyVars>>

\* _perform: RATE_LIMITED or ADAPTER_ERROR before the last attempt.
CallRetries(p) ==
  LET k == CurrentKey(p) IN
  /\ pc[p] = "call"
  /\ attempts[k] + 1 < MaxAttempts
  /\ attempts' = [attempts EXCEPT ![k] = @ + 1]
  /\ UNCHANGED <<clock, dbVars, action, claimant, incidentLock, pc, cmdVars, historyVars>>

-----------------------------------------------------------------------------
(* Finishing a command. *)

Investigating(p) == target[p] = p

\* Mutant of Moves: resume does not look at what is waiting.
MovesAnyway(p) == Investigating(p) \/ ~seenCompleted[p]

(* resume moves nothing while something is waiting, or when the run was    *)
(* already COMPLETED as loaded.                                            *)
Moves(p) == Investigating(p) \/ ~(waiting[p] \/ seenCompleted[p])

\* The statuses the incident is walked through, from the one that was loaded.
Walk(p) ==
  IF ~Investigating(p) THEN <<seen[p], "executing", "completed">>
  ELSE <<seen[p], "investigating", "analyzed", "strategized">> \o
       (IF waiting[p] THEN <<"awaiting_approval">> ELSE <<"executing", "completed">>)

\* Mutant of Hops: the last hop is not recorded.
HopsButLast(path) == [j \in 1 .. Len(path) - 2 |-> <<path[j], path[j + 1]>>]

Hops(path) == [j \in 1 .. Len(path) - 1 |-> <<path[j], path[j + 1]>>]

\* Mutant of LegalWalk: only the hop to the status stored is looked at.
LegalLastHop(path) == <<path[Len(path) - 1], path[Len(path)]>> \in LegalTransition

\* require_legal accepts every hop.
LegalWalk(path) == \A j \in 1 .. Len(path) - 1 : <<path[j], path[j + 1]>> \in LegalTransition

PassDone(p) == pc[p] = "pass" /\ cursor[p] \notin Item

\* Mutant of Release: the lock on the incident row outlives the transaction.
ReleaseRowsOnly(p) ==
  /\ UNCHANGED incidentLock
  /\ pc' = [pc EXCEPT ![p] = "done"]
  /\ granted' = [granted EXCEPT ![p] = {}]
  /\ claimant' = [k \in Key |-> IF claimant[k] = p THEN NoProc ELSE claimant[k]]

\* The transaction of p ends: its rows are committed or gone, its locks free.
Release(p) ==
  /\ incidentLock' = IF incidentLock = p THEN NoProc ELSE incidentLock
  /\ pc' = [pc EXCEPT ![p] = "done"]
  /\ granted' = [granted EXCEPT ![p] = {}]
  /\ claimant' = [k \in Key |-> IF claimant[k] = p THEN NoProc ELSE claimant[k]]

(* _record_execution_outcome or _record_resume_outcome, and the commit of  *)
(* session_scope.  The update of the incident row waits for its lock, and  *)
(* overwrites whatever was committed since the row was loaded.             *)
Commit(p) ==
  /\ PassDone(p)
  /\ IF Moves(p)
     THEN /\ incidentLock \in {NoProc, p}
          /\ LegalWalk(Walk(p))
          /\ incident' = Walk(p)[Len(Walk(p))]
          /\ run' = [run EXCEPT ![target[p]] =
                       IF waiting[p] THEN "interrupted" ELSE "completed"]
          /\ trail' = trail \o Hops(Walk(p))
     ELSE UNCHANGED <<incident, run, trail>>
  /\ Release(p)
  /\ UNCHANGED <<clock, startedAt, approval, action, attempts, cmdVars, effects, lost, crashes>>

\* Mutant of Rollback: the action rows survive it.
RollbackKeepingRows(p) ==
  /\ UNCHANGED <<action, attempts, lost>>
  /\ approval' = IF Investigating(p)
                 THEN [approval EXCEPT ![p] = [i \in Item |-> "none"]] ELSE approval
  /\ Release(p)
  /\ UNCHANGED <<clock, incident, run, startedAt, trail, cmdVars, effects>>

(* The transaction of p is rolled back.  Nothing it wrote remains; the     *)
(* effects it performed do.                                                *)
Rollback(p) ==
  /\ action' = [k \in Key |-> IF claimant[k] = p THEN "absent" ELSE action[k]]
  /\ attempts' = [k \in Key |-> IF claimant[k] = p THEN 0 ELSE attempts[k]]
  /\ lost' = [k \in Key |-> IF claimant[k] = p /\ action[k] = "succeeded"
                            THEN lost[k] + 1 ELSE lost[k]]
  /\ approval' = IF Investigating(p)
                 THEN [approval EXCEPT ![p] = [i \in Item |-> "none"]] ELSE approval
  /\ Release(p)
  /\ UNCHANGED <<clock, incident, run, startedAt, trail, cmdVars, effects>>

\* IllegalTransitionError, raised at the end of a resume that read early.
IllegalTransition(p) ==
  /\ PassDone(p)
  /\ Moves(p)
  /\ ~LegalWalk(Walk(p))
  /\ Rollback(p)
  /\ UNCHANGED crashes

\* The process dies, or anything it called raises.
Crash(p) ==
  /\ Active(p)
  /\ crashes < MaxCrashes
  /\ crashes' = crashes + 1
  /\ Rollback(p)

-----------------------------------------------------------------------------
(* Waiting for a row lock, and the database's deadlock detector. *)

WaitsFor(p) ==
  IF pc[p] = "claim" /\ action[CurrentKey(p)] # "absent" THEN claimant[CurrentKey(p)]
  ELSE IF pc[p] = "open" \/ (PassDone(p) /\ Moves(p) /\ incidentLock # p) THEN incidentLock
  ELSE NoProc

\* A set in which the waiting is one or more closed circles.
Circular(S) == S # {} /\ {WaitsFor(p) : p \in S} = S

DeadlockVictim(p) ==
  /\ \E S \in SUBSET Proc : p \in S /\ Circular(S)
  /\ Rollback(p)
  /\ UNCHANGED crashes

-----------------------------------------------------------------------------
(* People, and the clock. *)

(* decide: refused on a request that lapsed before it was decided, and not *)
(* on one that was already decided.  The decider is not the requester.     *)
Decide(r, i, verdict) ==
  /\ run[r] # "none"
  /\ approval[r][i] # "none"
  /\ ~Lapsed(r, i, clock)
  /\ approval' = [approval EXCEPT ![r][i] = verdict]
  /\ granted' = [p \in Proc |-> IF verdict = "approved" /\ Active(p) /\ target[p] = r
                                THEN granted[p] \cup {i} ELSE granted[p]]
  /\ UNCHANGED <<clock, incident, run, startedAt, trail, rowVars, incidentLock, pc, cmdVars,
                 effects, lost, crashes>>

Tick ==
  /\ clock < MaxTime
  /\ clock' = clock + 1
  /\ UNCHANGED <<dbVars, rowVars, incidentLock, pc, cmdVars, historyVars>>

-----------------------------------------------------------------------------
\* What a live process does next on its own.
Step(p) ==
  \/ OpenRun(p) \/ LoadRun(p) \/ NoRunToResume(p)
  \/ Grant(p) \/ Refuse(p) \/ Claim(p) \/ ResolveExisting(p)
  \/ CallSucceeds(p) \/ CallFails(p) \/ CallRetries(p)
  \/ Commit(p) \/ IllegalTransition(p) \/ DeadlockVictim(p)

Next ==
  \/ \E p \in Proc : BeginInvestigate(p) \/ BeginResume(p) \/ Step(p) \/ Crash(p)
  \/ \E r \in Proc, i \in Item, v \in {"approved", "rejected"} : Decide(r, i, v)
  \/ Tick

Spec == Init /\ [][Next]_vars

(* A process that started runs until its command ends: it never waits for  *)
(* a person, only for the database and the tools.                          *)
FairSpec == Spec /\ \A p \in Proc : WF_vars(Step(p))

-----------------------------------------------------------------------------
(* Properties. *)

TypeOK ==
  /\ clock \in Time
  /\ incident \in IncidentStatus
  /\ run \in [Proc -> RunStatus]
  /\ startedAt \in [Proc -> Time]
  /\ approval \in [Proc -> [Item -> ApprovalStatus]]
  /\ trail \in Seq(IncidentStatus \X IncidentStatus)
  /\ action \in [Key -> ActionStatus]
  /\ attempts \in [Key -> 0 .. MaxAttempts]
  /\ claimant \in [Key -> Proc \cup {NoProc}]
  /\ incidentLock \in Proc \cup {NoProc}
  /\ pc \in [Proc -> {"idle", "open", "load", "pass", "claim", "call", "done"}]
  /\ now \in [Proc -> Time]
  /\ target \in [Proc -> Proc \cup {NoProc}]
  /\ seen \in [Proc -> IncidentStatus]
  /\ seenCompleted \in [Proc -> BOOLEAN]
  /\ cursor \in [Proc -> 1 .. NItems + 1]
  /\ waiting \in [Proc -> BOOLEAN]
  /\ effects \in [Key -> Nat]
  /\ lost \in [Key -> Nat]
  /\ granted \in [Proc -> SUBSET Item]
  /\ crashes \in 0 .. MaxCrashes

(* Every effect the outside world received is either behind the one row    *)
(* recording its success, or was lost with a transaction that rolled back: *)
(* whatever commands overlap, a key is never performed twice by two        *)
(* commands that both survive (executor.py _claim).                        *)
EffectsAccountedFor ==
  \A k \in Key : effects[k] = lost[k] + (IF action[k] = "succeeded" THEN 1 ELSE 0)

(* No effect without its authority: a command performs only what policy    *)
(* still decides as it did, and of that only what it allows or what the    *)
(* request in this very run had an approval for at some time since the     *)
(* command loaded the run.  An approval that was withdrawn before, or that *)
(* another run was given, never carries an effect (authorization.py        *)
(* authorize_execution).                                                   *)
EffectsWereAuthorised ==
  [][\A k \in Key : effects'[k] # effects[k] =>
       /\ FreshDecision(k[1]) = StoredDecision(k[1])
       /\ \E p \in Proc :
            /\ pc[p] = "call" /\ CurrentKey(p) = k
            /\ \/ StoredDecision(k[1]) = "allow"
               \/ StoredDecision(k[1]) = "require_approval" /\ k[1] \in granted[p]]_vars

(* A committed action record is settled.  EXECUTING is only ever seen by   *)
(* the transaction that wrote it, so nothing can find a row to turn        *)
(* INDETERMINATE (executor.py _claim, db/session.py session_scope).        *)
CommittedRowsAreSettled ==
  \A k \in Key : claimant[k] = NoProc => action[k] \in {"absent", "succeeded", "failed"}

(* Claims and commands agree: a command that is calling a tool holds the   *)
(* EXECUTING row of exactly that call, with an attempt to spare, and an     *)
(* uncommitted row belongs to a command in its pass; if it is EXECUTING, to *)
(* the one performing it now.  Two commands are never inside one effect     *)
(* (executor.py _claim, _perform).                                          *)
ClaimsAreHeld ==
  /\ \A p \in Proc : pc[p] = "call" =>
       LET k == CurrentKey(p) IN
         claimant[k] = p /\ action[k] = "executing" /\ attempts[k] < MaxAttempts
  /\ \A k \in Key : claimant[k] # NoProc =>
       /\ pc[claimant[k]] \in {"pass", "claim", "call"}
       /\ action[k] # "absent"
       /\ action[k] = "executing" =>
            pc[claimant[k]] = "call" /\ k = CurrentKey(claimant[k])

(* A run is COMPLETED only when every action of it that may run has a      *)
(* settled record: nothing authorised was skipped by the pass that         *)
(* completed it, whichever process performed it (service.py).              *)
CompletedRunsAreSettled ==
  \A r \in Proc, i \in Item :
    run[r] = "completed" /\ FreshDecision(i) = StoredDecision(i) /\ FreshDecision(i) # "deny"
      => \E d \in KeyDate : Committed(<<i, d>>)

(* The incident as committed follows its latest walk: the trail is one     *)
(* unbroken path from TRIAGED to the status on the row, along legal edges  *)
(* (incidents/service.py transition_incident).                             *)
TrailIsOnePath ==
  /\ \A j \in 1 .. Len(trail) : trail[j] \in LegalTransition
  /\ \A j \in 1 .. Len(trail) - 1 : trail[j][2] = trail[j + 1][1]
  /\ incident = IF trail = <<>> THEN "triaged" ELSE trail[Len(trail)][2]
  /\ trail # <<>> => trail[1][1] = "triaged"

(* The incident row and the run row tell the same story: the incident is   *)
(* closed exactly when its run is COMPLETED, and paused exactly when it is *)
(* INTERRUPTED (runner.py _record_execution_outcome, _record_resume_outcome). *)
IncidentMirrorsRun ==
  /\ incident = "completed" <=> \E r \in Proc : run[r] = "completed"
  /\ incident = "awaiting_approval" <=> \E r \in Proc : run[r] = "interrupted"

\* The statuses the incident has been at after the first j hops.
ReachedBy(j) == {"triaged"} \cup {trail[m][2] : m \in 1 .. j}

(* Commands that overlap may break the path, not the account: every hop is *)
(* legal and leaves a status the incident had come to before, the last one *)
(* leads to the status on the row; a closed or paused incident has a run   *)
(* closed or paused, and each recorded run had its walk (runner.py         *)
(* resume_investigation, incidents/service.py transition_incident).        *)
StatusIsAccountedFor ==
  /\ \A j \in 1 .. Len(trail) : trail[j] \in LegalTransition /\ trail[j][1] \in ReachedBy(j - 1)
  /\ incident = IF trail = <<>> THEN "triaged" ELSE trail[Len(trail)][2]
  /\ incident = "completed" => \E r \in Proc : run[r] = "completed"
  /\ incident = "awaiting_approval" => \E r \in Proc : run[r] = "interrupted"
  /\ \A r \in Proc :
       /\ run[r] = "completed" => "completed" \in ReachedBy(Len(trail))
       /\ run[r] = "interrupted" => "awaiting_approval" \in ReachedBy(Len(trail))

(* A run that was COMPLETED is never reopened, by whatever a command read  *)
(* before another one closed it (runner.py _record_resume_outcome).        *)
ClosedRunsStayClosed ==
  [][\A r \in Proc : run[r] = "completed" => run'[r] = "completed"]_vars

(* The published ledger is write-once and closes delivery: the mapping     *)
(* hides rows that are not committed.                                      *)
PublishedOutcome == [k \in Key |-> IF claimant[k] = NoProc THEN action[k] ELSE "absent"]

Ledger == INSTANCE ActionLedger WITH outcome <- PublishedOutcome, delivered <- effects

LedgerSafety == Ledger!LedgerSpec

(* Every command that starts ends: processes waiting on each other's rows  *)
(* are freed by a commit, a rollback or the deadlock detector.             *)
CommandsEnd == \A p \in Proc : (pc[p] # "idle") ~> (pc[p] = "done")

(* idempotency.py:50: "The key for one effect. Same effect, same key,      *)
(* forever."  An intervention performed under two keys was performed       *)
(* twice, with no crash to blame.                                          *)
OneKeyPerEffect ==
  \A i \in Item : \A d1, d2 \in KeyDate :
    effects[<<i, d1>>] > 0 /\ effects[<<i, d2>>] > 0 => d1 = d2

(* executor.py:12-14: claiming first is what stops a crash between the     *)
(* effect and its record from sending it a second time.                    *)
CrashNeverRepeats == \A k \in Key : effects[k] <= 1
=============================================================================
