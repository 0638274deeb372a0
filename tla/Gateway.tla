------------------------------ MODULE Gateway ------------------------------
(***************************************************************************)
(* The tool gateway and its callers: every call goes through dispatch,     *)
(* which validates it, asks the write gate, calls an adapter, wraps the    *)
(* answer and records the call (mcp/dispatcher.py, gate.py, ledger.py).    *)
(*                                                                         *)
(* The commands of one run call it in turn.  `investigate` reads the       *)
(* evidence of its selection through a client with no policy engine, then  *)
(* performs what is authorised through a client bound to the deterministic *)
(* engine; `resume` does only the second.  For an action a person approved *)
(* the executor derives a sibling client whose engine knows the approval.  *)
(* Each command is a process of its own and one transaction.               *)
(*                                                                         *)
(* Beside them runs the stdio server: the same dispatch for whatever tool  *)
(* an outside client names, with no engine, no run, and one session that   *)
(* is never committed (scripts/mcp_server.py).                             *)
(*                                                                         *)
(* One incident and its opportunity; interventions are named by rank and   *)
(* have one idempotency key each, the evaluation date being fixed here.    *)
(* Commands do not overlap: Execution is about those that do.              *)
(***************************************************************************)
EXTENDS Policy, Evidence, FiniteSets

CONSTANTS
  Opportunity,           \* what the incident is about, in every mirror
  Mirrors,               \* contents the mirror may have
  Selections,            \* selections of the plan's sources a researcher may make
  Scripts,               \* failures injected: functions of <<tool, ordinal>>; runner.py binds none
  ActionOf,              \* [1..NItems -> ProposedAction]
  NItems,                \* interventions of the run
  MaxAttempts,           \* retry.py fixes it at 3
  MaxCommands,           \* bound on the commands of the run
  MaxCrashes,            \* bound on processes that die
  MaxAudit               \* bound on audit events written over stdio

Item == 1 .. NItems

NoItem == 0

ASSUME ItemAssumption == NItems \in Nat /\ ActionOf \in [Item -> ProposedAction]
ASSUME AttemptsAssumption == MaxAttempts \in Nat \ {0}
\* A researcher selects among the sources of the plan, and a plan names only those.
ASSUME SelectionAssumption == Selections \subseteq Seq(EvidenceSource)
ASSUME MirrorAssumption == \A m \in Mirrors : IsMirror(m)
ASSUME BoundAssumption == MaxCommands \in Nat /\ MaxCrashes \in Nat /\ MaxAudit \in Nat

-----------------------------------------------------------------------------
(* The registry: fifteen tools, four of which write.                       *)

ReadTool == EvidenceSource \cup
  {"crm_search_accounts", "crm_get_account", "engagement_get_meeting_activity",
   "enrichment_get_company_profile"}

ComputeTool == {"analytics_calculate_pipeline_impact", "audit_write_event"}

Tool == ReadTool \cup WriteTool \cup ComputeTool

\* Any name outside the registry stands for every such name.
UnknownTool == "messaging_send_email"

\* The tools served by an adapter, which counts the call before anything else.
Simulated == Tool \ ComputeTool

\* What a tool says of a reference that names nothing: only these look one up.
Resolves == (ReadTool \ {"crm_search_accounts"}) \cup ComputeTool

Node == {"collect_evidence", "execution"}

\* A client's engine: none, the deterministic one, or that one with the approval of a tool.
Engine == {"none", "deterministic"} \cup WriteTool

NoFailure == "none"

ErrorCode == {"INVALID_ARGUMENTS", "NOT_FOUND", "POLICY_DENIED", "POLICY_ENGINE_UNAVAILABLE",
              "APPROVAL_REQUIRED", "RATE_LIMITED", "BUDGET_EXCEEDED", "ADAPTER_ERROR"}

Code == ErrorCode \cup {"ok"}

RetryableByExecutor == {"RATE_LIMITED", "ADAPTER_ERROR"}

\* A failure of a kind nobody mapped is an adapter error.
InjectedToCode(kind) ==
  IF kind \in {"RATE_LIMITED", "BUDGET_EXCEEDED"} THEN kind ELSE "ADAPTER_ERROR"

\* The tools' arguments name a field under another key than the engine reads.
FieldsOfArguments == {}

Decision(engine, tool) ==
  IF engine = "deterministic"
  THEN EngineDecision(tool, RegistryTier[tool], FieldsOfArguments)
  ELSE ApprovedEngineDecision(engine, tool, RegistryTier[tool], FieldsOfArguments)

\* Mutant of AuthorizeWrite: an approval the engine holds is not consulted.
AuthorizeUnbound(engine, tool) ==
  IF engine = "none" THEN "POLICY_ENGINE_UNAVAILABLE"
  ELSE IF Decision("deterministic", tool) = "require_approval" THEN "APPROVAL_REQUIRED"
  ELSE IF Decision("deterministic", tool) # "allow" THEN "POLICY_DENIED"
  ELSE "ok"

\* Mutant of AuthorizeWrite: with no engine bound there is nobody to refuse.
AuthorizeByDefault(engine, tool) ==
  IF engine = "none" THEN "ok"
  ELSE IF Decision(engine, tool) = "require_approval" THEN "APPROVAL_REQUIRED"
  ELSE IF Decision(engine, tool) # "allow" THEN "POLICY_DENIED"
  ELSE "ok"

\* authorize_write: no engine, no write; otherwise the engine's own decision.
AuthorizeWrite(engine, tool) ==
  IF engine = "none" THEN "POLICY_ENGINE_UNAVAILABLE"
  ELSE IF Decision(engine, tool) = "require_approval" THEN "APPROVAL_REQUIRED"
  ELSE IF Decision(engine, tool) # "allow" THEN "POLICY_DENIED"
  ELSE "ok"

\* The gate stands before writes only.
Gate(engine, tool) == IF tool \in WriteTool THEN AuthorizeWrite(engine, tool) ELSE "ok"

\* Arguments that fit the tool's schema and make sense, that do not fit it, or
\* that fit it and are refused when the tool computes with them.
Arguments == {"good", "malformed", "nonsense"}

(* dispatch: the first thing that goes wrong is the answer.  failure is    *)
(* what the adapter was scripted to do at this call.                       *)
Answer(tool, arguments, found, engine, failure) ==
  IF tool \notin Tool THEN "NOT_FOUND"
  ELSE IF arguments = "malformed" THEN "INVALID_ARGUMENTS"
  ELSE IF Gate(engine, tool) # "ok" THEN Gate(engine, tool)
  ELSE IF tool \in Simulated /\ failure # NoFailure THEN InjectedToCode(failure)
  ELSE IF tool \in Resolves /\ ~found THEN "NOT_FOUND"
  ELSE IF tool = "analytics_calculate_pipeline_impact" /\ arguments = "nonsense"
       THEN "INVALID_ARGUMENTS"
  ELSE "ok"

\* The call got as far as its adapter.
Reaches(tool, arguments, engine) ==
  tool \in Simulated /\ arguments # "malformed" /\ Gate(engine, tool) = "ok"

CallStatus(code) ==
  CASE code = "ok" -> "SUCCESS"
    [] code \in {"POLICY_DENIED", "APPROVAL_REQUIRED", "POLICY_ENGINE_UNAVAILABLE"} -> "DENIED"
    [] OTHER -> "ERROR"

ToolStatus == {"SUCCESS", "DENIED", "ERROR"}

-----------------------------------------------------------------------------
VARIABLES
  mirror, script,  \* what the adapters serve and when they fail; chosen once
  approved,        \* interventions whose request a person approved
  investigated,    \* the run is committed
  selection,       \* sources the researcher of the run selected
  stored,          \* evidence items as committed
  saved,           \* action records as committed
  ledger,          \* tool_calls as committed
  pc,              \* "idle", "gather", "pass" or "call"
  cursor,          \* intervention the pass is at
  commands,        \* commands started
  counts,          \* calls per tool of each client: its CallCounter
  upstream,        \* calls per tool of each adapter bundle: its SimulatedBehaviour
  evidence,        \* evidence gathered by this command
  record,          \* action records as this transaction sees them
  calls,           \* tool_calls of this transaction
  effects,         \* effects each intervention had on the outside world
  lost,            \* those whose transaction was rolled back afterwards
  crashes,         \* processes that died
  stray,           \* effects performed through the stdio server
  unsaved          \* audit events the stdio server answered as recorded

worldVars == <<mirror, script>>
runVars == <<investigated, selection, stored, saved, ledger>>
clientVars == <<counts, upstream>>
transactionVars == <<evidence, record, calls>>
outsideVars == <<effects, lost, crashes>>
stdioVars == <<stray, unsaved>>
vars == <<worldVars, approved, runVars, pc, cursor, commands, clientVars, transactionVars,
          outsideVars, stdioVars>>

Client == {"reader", "writer", "sibling"}
Bundle == {"reader", "writer"}

ActionStatus == {"absent", "executing", "succeeded", "failed"}

NoRecord == [status |-> "absent", attempts |-> 0]

NoCalls == [tool \in Tool |-> 0]

Init ==
  /\ mirror \in Mirrors
  /\ script \in Scripts
  /\ approved = {}
  /\ investigated = FALSE
  /\ selection = <<>>
  /\ stored = <<>>
  /\ saved = [i \in Item |-> NoRecord]
  /\ ledger = <<>>
  /\ pc = "idle"
  /\ cursor = 1
  /\ commands = 0
  /\ counts = [c \in Client |-> NoCalls]
  /\ upstream = [b \in Bundle |-> NoCalls]
  /\ evidence = <<>>
  /\ record = saved
  /\ calls = <<>>
  /\ effects = [i \in Item |-> 0]
  /\ lost = effects
  /\ crashes = 0
  /\ stray = 0
  /\ unsaved = 0

-----------------------------------------------------------------------------
(* One call of a tool through a client.                                    *)

NeedsApproval(i) == Evaluate(ActionOf[i], {}) = "require_approval"

\* authorize_execution grants.
Granted(i) ==
  \/ Evaluate(ActionOf[i], {}) = "allow"
  \/ NeedsApproval(i) /\ i \in approved

ToolOf(i) == ToolForAction[ActionOf[i]]

\* _client_for: an approved action gets a sibling client, any other the client of the pass.
ClientFor(i) == IF NeedsApproval(i) THEN "sibling" ELSE "writer"

EngineFor(i) == IF NeedsApproval(i) THEN ToolOf(i) ELSE "deterministic"

\* before_call: the ordinal counts every call of the tool that reached the bundle.
Injected(bundle, tool) ==
  LET at == <<tool, upstream[bundle][tool] + 1>>
  IN  IF at \in DOMAIN script THEN script[at] ELSE NoFailure

\* Mutant of Recorded: a call that failed is not worth a row.
RecordedUnlessError(rows, row) == IF row.status = "ERROR" THEN rows ELSE Append(rows, row)

\* record_tool_call, and the cost entry of nothing that goes with it.
Recorded(rows, row) == Append(rows, row)

(* The bookkeeping of one call made within a run: the ordinal, the count   *)
(* of the adapter bundle if the call got there, and the row.               *)
Dispatched(client, bundle, node, tool, item, engine, code) ==
  LET ordinal == counts[client][tool] + 1 IN
  /\ counts' = [counts EXCEPT ![client][tool] = ordinal]
  /\ upstream' = [upstream EXCEPT ![bundle][tool] =
                    IF Reaches(tool, "good", engine) THEN @ + 1 ELSE @]
  /\ calls' = Recorded(calls, [node |-> node, tool |-> tool, ordinal |-> ordinal,
                               status |-> CallStatus(code), item |-> item])

-----------------------------------------------------------------------------
(* Gathering evidence. *)

BeginInvestigate ==
  /\ pc = "idle"
  /\ ~investigated
  /\ commands < MaxCommands
  /\ selection' \in Selections
  /\ commands' = commands + 1
  /\ counts' = [c \in Client |-> NoCalls]
  /\ upstream' = [b \in Bundle |-> NoCalls]
  /\ pc' = "gather"
  /\ UNCHANGED <<worldVars, approved, investigated, stored, saved, ledger, cursor,
                 transactionVars, outsideVars, stdioVars>>

\* How many of the selected sources this command has read.
Gathered == Cardinality({j \in DOMAIN calls : calls[j].node = "collect_evidence"})

NextSource == selection[Gathered + 1]

SourceAnswer ==
  Answer(NextSource, "good", Found(mirror, NextSource, Subject(mirror, NextSource, Opportunity)),
         "none", Injected("reader", NextSource))

ReadSource ==
  /\ pc = "gather"
  /\ Gathered < Len(selection)
  /\ SourceAnswer = "ok"
  /\ evidence' = evidence \o
       Canonical(NextSource,
                 Payload(mirror, NextSource, Subject(mirror, NextSource, Opportunity)))
  /\ Dispatched("reader", "reader", "collect_evidence", NextSource, NoItem, "none", "ok")
  /\ UNCHANGED <<worldVars, approved, runVars, pc, cursor, commands, record, outsideVars,
                 stdioVars>>

\* persist_investigation has everything it needs; the pass over the interventions begins.
EndGather ==
  /\ pc = "gather"
  /\ Gathered = Len(selection)
  /\ pc' = "pass"
  /\ UNCHANGED <<worldVars, approved, runVars, cursor, commands, clientVars, transactionVars,
                 outsideVars, stdioVars>>

BeginResume ==
  /\ pc = "idle"
  /\ investigated
  /\ commands < MaxCommands
  /\ commands' = commands + 1
  /\ counts' = [c \in Client |-> NoCalls]
  /\ upstream' = [b \in Bundle |-> NoCalls]
  /\ pc' = "pass"
  /\ UNCHANGED <<worldVars, approved, runVars, cursor, transactionVars, outsideVars, stdioVars>>

-----------------------------------------------------------------------------
(* The pass: what is granted is claimed and called.                        *)

Skip ==
  /\ pc = "pass"
  /\ cursor \in Item
  /\ ~Granted(cursor)
  /\ cursor' = cursor + 1
  /\ UNCHANGED <<worldVars, approved, runVars, pc, commands, clientVars, transactionVars,
                 outsideVars, stdioVars>>

\* Mutant of Claimable: a call that failed may be tried again.
ClaimableAgain(i) == record[i].status \in {"absent", "failed"}

Claimable(i) == record[i].status = "absent"

\* _claim, once with_policy has made the client: a sibling counts from zero.
Claim ==
  /\ pc = "pass"
  /\ cursor \in Item
  /\ Granted(cursor)
  /\ Claimable(cursor)
  /\ record' = [record EXCEPT ![cursor] = [status |-> "executing", attempts |-> 0]]
  /\ counts' = [counts EXCEPT !["sibling"] = IF NeedsApproval(cursor) THEN NoCalls ELSE @]
  /\ pc' = "call"
  /\ UNCHANGED <<worldVars, approved, runVars, cursor, commands, upstream, evidence, calls,
                 outsideVars, stdioVars>>

\* _resolve_existing: an earlier command settled it.
Resolve ==
  /\ pc = "pass"
  /\ cursor \in Item
  /\ Granted(cursor)
  /\ ~Claimable(cursor)
  /\ cursor' = cursor + 1
  /\ UNCHANGED <<worldVars, approved, runVars, pc, commands, clientVars, transactionVars,
                 outsideVars, stdioVars>>

CallAnswer ==
  Answer(ToolOf(cursor), "good", TRUE, EngineFor(cursor), Injected("writer", ToolOf(cursor)))

\* One attempt of _perform: the attempt is counted, the tool called, the call recorded.
Attempt(code) ==
  /\ pc = "call"
  /\ CallAnswer = code
  /\ Dispatched(ClientFor(cursor), "writer", "execution", ToolOf(cursor), cursor,
                EngineFor(cursor), code)
  /\ UNCHANGED <<worldVars, approved, runVars, commands, evidence, lost, crashes, stdioVars>>

Settled(status) ==
  /\ record' = [record EXCEPT ![cursor] = [status |-> status, attempts |-> @.attempts + 1]]
  /\ cursor' = cursor + 1
  /\ pc' = "pass"

\* A write handler hands its arguments to the adapter, which performs the effect.
Performed(i) == [effects EXCEPT ![i] = @ + 1]

CallSucceeds ==
  /\ Attempt("ok")
  /\ Settled("succeeded")
  /\ effects' = Performed(cursor)

\* Mutant of WorthRetrying: however often it was tried.
WorthRetryingForever(code, attempt) == code \in RetryableByExecutor

WorthRetrying(code, attempt) == code \in RetryableByExecutor /\ attempt < MaxAttempts

CallRetries ==
  \E code \in ErrorCode :
    /\ Attempt(code)
    /\ WorthRetrying(code, record[cursor].attempts + 1)
    /\ record' = [record EXCEPT ![cursor].attempts = @ + 1]
    /\ UNCHANGED <<cursor, pc, effects>>

CallFails ==
  \E code \in ErrorCode :
    /\ Attempt(code)
    /\ ~WorthRetrying(code, record[cursor].attempts + 1)
    /\ Settled("failed")
    /\ UNCHANGED effects

-----------------------------------------------------------------------------
(* How a command ends. *)

Forget ==
  /\ pc' = "idle"
  /\ cursor' = 1
  /\ evidence' = <<>>
  /\ calls' = <<>>

Commit ==
  /\ pc = "pass"
  /\ cursor \notin Item
  /\ investigated' = TRUE
  /\ stored' = IF investigated THEN stored ELSE evidence
  /\ saved' = record
  /\ ledger' = ledger \o calls
  /\ Forget
  /\ UNCHANGED <<worldVars, approved, selection, commands, clientVars, record, outsideVars,
                 stdioVars>>

\* Everything the transaction wrote goes; what it did to the outside stays.
Rollback ==
  /\ record' = saved
  /\ selection' = IF investigated THEN selection ELSE <<>>
  /\ lost' = [i \in Item |-> IF record[i].status = "succeeded" /\ saved[i].status = "absent"
                             THEN lost[i] + 1 ELSE lost[i]]
  /\ Forget
  /\ UNCHANGED <<worldVars, approved, investigated, stored, saved, ledger, commands,
                 clientVars, effects, stdioVars>>

\* EvidenceEnvelopeError leaves the graph and the command with it.
SourceFails ==
  /\ pc = "gather"
  /\ Gathered < Len(selection)
  /\ SourceAnswer # "ok"
  /\ Rollback
  /\ UNCHANGED crashes

Crash ==
  /\ pc # "idle"
  /\ crashes < MaxCrashes
  /\ crashes' = crashes + 1
  /\ Rollback

-----------------------------------------------------------------------------
(* The others: a person, and a client of the stdio server. *)

Approve(i) ==
  /\ investigated
  /\ NeedsApproval(i)
  /\ approved' = approved \cup {i}
  /\ UNCHANGED <<worldVars, runVars, pc, cursor, commands, clientVars, transactionVars,
                 outsideVars, stdioVars>>

(* Any name, with arguments of any kind, and a reference that exists or    *)
(* not.  There is no run, so nothing is recorded; the server's bundle      *)
(* injects no failure, and its counts are read by nobody.                  *)
StdioCall(tool, arguments, found) ==
  LET done == Answer(tool, arguments, found, "none", NoFailure) = "ok" IN
  /\ stray' = IF done /\ tool \in WriteTool THEN stray + 1 ELSE stray
  /\ done /\ tool = "audit_write_event" => unsaved < MaxAudit
  /\ unsaved' = IF done /\ tool = "audit_write_event" THEN unsaved + 1 ELSE unsaved
  /\ UNCHANGED <<worldVars, approved, runVars, pc, cursor, commands, clientVars,
                 transactionVars, outsideVars>>

\* The server's session was never committed: what it flushed is gone with it.
StdioStops ==
  /\ unsaved > 0
  /\ unsaved' = 0
  /\ UNCHANGED <<worldVars, approved, runVars, pc, cursor, commands, clientVars,
                 transactionVars, outsideVars, stray>>

Next ==
  \/ BeginInvestigate \/ ReadSource \/ SourceFails \/ EndGather
  \/ BeginResume
  \/ Skip \/ Claim \/ Resolve
  \/ CallSucceeds \/ CallRetries \/ CallFails
  \/ Commit \/ Crash
  \/ \E i \in Item : Approve(i)
  \/ \E tool \in Tool \cup {UnknownTool}, arguments \in Arguments, found \in BOOLEAN :
       StdioCall(tool, arguments, found)
  \/ StdioStops

Spec == Init /\ [][Next]_vars

-----------------------------------------------------------------------------
(* Properties. *)

CallRow == [node : Node, tool : Tool, ordinal : Nat \ {0}, status : ToolStatus,
            item : Item \cup {NoItem}]

ActionRecord == [status : ActionStatus, attempts : 0 .. MaxAttempts]

\* Types, and the bound on attempts (retry.py MAX_ATTEMPTS).
TypeOK ==
  /\ mirror \in Mirrors
  /\ script \in Scripts
  /\ approved \subseteq Item
  /\ investigated \in BOOLEAN
  /\ selection \in Selections \cup {<<>>}
  /\ saved \in [Item -> ActionRecord]
  /\ record \in [Item -> ActionRecord]
  /\ ledger \in Seq(CallRow)
  /\ calls \in Seq(CallRow)
  /\ pc \in {"idle", "gather", "pass", "call"}
  /\ cursor \in 1 .. NItems + 1
  /\ pc = "call" => cursor \in Item
  /\ commands \in 0 .. MaxCommands
  /\ counts \in [Client -> [Tool -> Nat]]
  /\ upstream \in [Bundle -> [Tool -> Nat]]
  /\ effects \in [Item -> Nat]
  /\ lost \in [Item -> Nat]
  /\ crashes \in 0 .. MaxCrashes
  /\ stray \in Nat
  /\ unsaved \in 0 .. MaxAudit

\* Where the calls of an item stand among the rows, a read being of no item.
CallsOf(rows, i) == {j \in DOMAIN rows : rows[j].item = i}

\* The rows count what the records count, and end with a success where they say so.
TellOf(rows, records) ==
  \A i \in Item :
    /\ Cardinality(CallsOf(rows, i)) = records[i].attempts
    /\ records[i].status = "succeeded" <=> \E j \in CallsOf(rows, i) : rows[j].status = "SUCCESS"
    /\ \A j, k \in CallsOf(rows, i) : rows[j].status = "SUCCESS" => k <= j

\* The first n rows, and no others, are the reads of the selection, in order.
ReadFirst(rows, n) ==
  /\ CallsOf(rows, NoItem) = 1 .. n
  /\ \A j \in 1 .. n : rows[j].tool = selection[j] /\ rows[j].status = "SUCCESS"

(* The two ledgers of a run tell one story: an action record counts as many *)
(* attempts as there are tool calls for it, only the last of them can have  *)
(* succeeded, and it did exactly if the record says so; the other calls are *)
(* the reads of the selection, in order.  The records are written by the    *)
(* executor, the calls by the gateway, and a command may die between them   *)
(* (executor.py _perform, mcp/ledger.py).                                   *)
LedgersAgree ==
  /\ TellOf(ledger, saved)
  /\ ~investigated => ledger = <<>>
  /\ investigated => ReadFirst(ledger, Len(selection))

(* The evidence of a committed run is whole and is what the repository      *)
(* control would have read in one go, record for record and in the order    *)
(* that numbers the citations; meetings are the one thing the control adds  *)
(* (mcp_evidence_source.py, evidence_source.py, researcher.py gather).      *)
EvidenceMatchesControl ==
  stored = IF investigated
           THEN ControlEvidence(WithoutMeetings(mirror), selection, Opportunity)
           ELSE <<>>

(* The gate decides again, without the grant, and comes to the same answer: *)
(* no call of a run is ever refused by policy, an approved one included     *)
(* (gate.py authorize_write, policy_binding.py, service.py _client_for).    *)
GateAgreesWithGrant ==
  /\ \A j \in DOMAIN calls : calls[j].status # "DENIED"
  /\ \A j \in DOMAIN ledger : ledger[j].status # "DENIED"

(* Every effect belongs to a granted action of the run and is behind its    *)
(* record or was lost with its transaction; the write tools a client of the *)
(* stdio server names have none (gate.py, mcp_server.py).                   *)
EffectsComeFromGrants ==
  /\ stray = 0
  /\ \A i \in Item :
       /\ effects[i] = lost[i] + (IF record[i].status = "succeeded" THEN 1 ELSE 0)
       /\ effects[i] > 0 => Granted(i)

Ledger == INSTANCE ActionLedger
            WITH Key <- Item, outcome <- [i \in Item |-> saved[i].status], delivered <- effects

(* What the run publishes of its actions is written once, follows the       *)
(* effect, and ends its repetition, calls and retries included              *)
(* (executor.py, dispatcher.py).                                            *)
LedgerSafety == Ledger!LedgerSpec
=============================================================================
