---------------------------- MODULE GatewayProofs ----------------------------
(***************************************************************************)
(* Theorems about the tool gateway: whatever fails and whoever dies, an    *)
(* effect belongs to a granted action, the gate never contradicts a grant, *)
(* a run publishes the outcomes of its actions as ActionLedger promises,   *)
(* its action records and tool calls tell one story, and the evidence it   *)
(* stores is the repository control's.                                     *)
(***************************************************************************)
EXTENDS Gateway, FiniteSetTheorems, SequenceTheorems, NatSets, TLAPS

-----------------------------------------------------------------------------
(* The gate against the grant. *)

\* The higher of two tiers (classification.py).
LEMMA HighestOfTwo ==
  ASSUME NEW a \in Nat, NEW b \in Nat, a <= b
  PROVE  Highest({a, b}) = b /\ Highest({b, a}) = b
BY DEF Highest

\* What each proposed action comes to when no fields are named.
LEMMA Decisions ==
  /\ Classify("crm_task", {}) = 1
  /\ Classify("slack_approval_request", {}) = 1
  /\ Classify("email_draft", {}) = 2
  /\ \A a \in {"crm_field_update", "send_email_direct", "record_delete"} : Classify(a, {}) = 3
<1>1. TierByAction["crm_task"] = 1 /\ TierByAction["slack_approval_request"] = 1
  BY Zenon DEF TierByAction, ProposedAction
<1>2. TierByAction["email_draft"] = 2
  BY Zenon DEF TierByAction, ProposedAction
<1>3. TierByAction["send_email_direct"] = 3 /\ TierByAction["record_delete"] = 3
  BY Zenon DEF TierByAction, ProposedAction
<1>4. QED
  BY <1>1, <1>2, <1>3 DEF Classify, ClassifyFieldUpdate, ProposedAction

\* The fifteen tools, reads apart from writes (mcp/tools).
LEMMA Tools ==
  /\ ToolForAction["crm_task"] = "crm_create_task"
  /\ ToolForAction["email_draft"] = "messaging_create_email_draft"
  /\ ToolForAction["slack_approval_request"] = "messaging_send_slack_approval"
  /\ ToolToAction("crm_create_task") = "crm_task"
  /\ ToolToAction("messaging_create_email_draft") = "email_draft"
  /\ ToolToAction("messaging_send_slack_approval") = "slack_approval_request"
<1>1. ToolForAction["crm_task"] = "crm_create_task"
  BY Zenon DEF ToolForAction, ExecutableAction, ProposedAction
<1>2. ToolForAction["email_draft"] = "messaging_create_email_draft"
  BY Zenon DEF ToolForAction, ExecutableAction, ProposedAction
<1>3. ToolForAction["slack_approval_request"] = "messaging_send_slack_approval"
  BY Zenon DEF ToolForAction, ExecutableAction, ProposedAction
<1>4. /\ ToolToAction("crm_create_task") = "crm_task"
      /\ ToolToAction("messaging_create_email_draft") = "email_draft"
      /\ ToolToAction("messaging_send_slack_approval") = "slack_approval_request"
  BY Zenon DEF ToolToAction
<1>5. QED
  BY <1>1, <1>2, <1>3, <1>4

\* The gate's second decision, on the tool alone, lets every granted action through
\* (gate.py authorize_write, execution/policy_binding.py).
THEOREM GrantPassesGate ==
  ASSUME NEW i \in Item, Granted(i)
  PROVE  ToolOf(i) \in WriteTool /\ Gate(EngineFor(i), ToolOf(i)) = "ok"
<1>1. ActionOf[i] \in ProposedAction
  BY ItemAssumption
<1>2. Evaluate(ActionOf[i], {}) \in {"allow", "require_approval"}
  BY DEF Granted, NeedsApproval
<1>3. ActionOf[i] \in {"crm_task", "slack_approval_request", "email_draft"}
  BY <1>1, <1>2, Decisions DEF Evaluate, DecisionByTier, RiskTier, ProposedAction
<1>4. CASE ActionOf[i] \in {"crm_task", "slack_approval_request"}
  <2>1. Evaluate(ActionOf[i], {}) = "allow" /\ EngineFor(i) = "deterministic"
    BY <1>4, Decisions DEF Evaluate, DecisionByTier, RiskTier, EngineFor, NeedsApproval
  <2>2. /\ ToolOf(i) \in {"crm_create_task", "messaging_send_slack_approval"}
        /\ Classify(ToolToAction(ToolOf(i)), {}) = 1
    BY <1>4, Tools, Decisions DEF ToolOf
  <2>3. EngineDecision(ToolOf(i), RegistryTier[ToolOf(i)], {}) = "allow"
    <3>1. RegistryTier[ToolOf(i)] = 1
      BY <2>2 DEF RegistryTier, WriteTool
    <3>2. Highest({1, 1}) = 1
      BY HighestOfTwo
    <3>3. QED
      BY <2>2, <3>1, <3>2 DEF EngineDecision, DecisionByTier, RiskTier
  <2>4. QED
    BY <2>1, <2>2, <2>3 DEF Gate, AuthorizeWrite, Decision, FieldsOfArguments, WriteTool
<1>5. CASE ActionOf[i] = "email_draft"
  <2>1. Evaluate(ActionOf[i], {}) = "require_approval" /\ EngineFor(i) = ToolOf(i)
    BY <1>5, Decisions DEF Evaluate, DecisionByTier, RiskTier, EngineFor, NeedsApproval
  <2>2. /\ ToolOf(i) = "messaging_create_email_draft"
        /\ Classify(ToolToAction(ToolOf(i)), {}) = 2
    BY <1>5, Tools, Decisions DEF ToolOf
  <2>3. EngineDecision(ToolOf(i), RegistryTier[ToolOf(i)], {}) = "require_approval"
    <3>1. RegistryTier[ToolOf(i)] = 2
      BY <2>2 DEF RegistryTier, WriteTool
    <3>2. Highest({2, 2}) = 2
      BY HighestOfTwo
    <3>3. QED
      BY <2>2, <3>1, <3>2 DEF EngineDecision, DecisionByTier, RiskTier
  <2>4. QED
    BY <2>1, <2>2, <2>3
    DEF Gate, AuthorizeWrite, Decision, FieldsOfArguments, ApprovedEngineDecision, WriteTool
<1>6. QED
  BY <1>3, <1>4, <1>5

\* With no engine bound no write tool answers.
LEMMA NoEngineNoWrite ==
  ASSUME NEW tool \in WriteTool, NEW arguments, NEW found, NEW failure
  PROVE  Answer(tool, arguments, found, "none", failure) # "ok"
BY DEF Answer, Gate, AuthorizeWrite, Tool

Refusal == {"POLICY_DENIED", "APPROVAL_REQUIRED", "POLICY_ENGINE_UNAVAILABLE"}

\* Past the gate nothing looks like a refusal of it, injected failures included.
LEMMA NoRefusal ==
  ASSUME NEW tool \in Tool, NEW engine, NEW failure, Gate(engine, tool) = "ok"
  PROVE  Answer(tool, "good", TRUE, engine, failure) \notin Refusal
BY DEF Answer, InjectedToCode, Refusal

\* Nor in the rows an answer leaves (mcp/ledger.py).
LEMMA NotDenied ==
  ASSUME NEW code, code \notin Refusal
  PROVE  CallStatus(code) # "DENIED"
<1>1. CASE code = "ok"
  BY <1>1, Zenon DEF CallStatus
<1>2. CASE code # "ok"
  BY <1>2, Zenon DEF CallStatus, Refusal
<1>3. QED
  BY <1>1, <1>2

-----------------------------------------------------------------------------
(* The invariant. *)

Row == [status : ActionStatus, attempts : Nat]

\* Rows of calls none of which the gate refused.
Undenied(rows) == \E S : rows \in Seq(S) /\ \A row \in S : row.status # "DENIED"

\* What a transaction sees of the action records, and what is committed.
RecordShape ==
  /\ saved \in [Item -> Row]
  /\ record \in [Item -> Row]
  /\ \A i \in Item : saved[i].status # "executing"
  /\ \A i \in Item : saved[i].status # "absent" => record[i] = saved[i]
  /\ pc = "idle" => record = saved

\* A record is EXECUTING exactly while its granted action is being called.
CallShape ==
  /\ pc = "call" => cursor \in Item /\ Granted(cursor) /\ record[cursor].status = "executing"
  /\ \A i \in Item : record[i].status = "executing" => pc = "call" /\ i = cursor

OutsideShape ==
  /\ effects \in [Item -> Nat]
  /\ lost \in [Item -> Nat]

GInv ==
  /\ RecordShape
  /\ CallShape
  /\ OutsideShape
  /\ EffectsComeFromGrants
  /\ Undenied(calls)
  /\ Undenied(ledger)

\* One more row that is no refusal leaves the rows without one.
LEMMA UndeniedAppend ==
  ASSUME NEW rows, Undenied(rows), NEW row, row.status # "DENIED"
  PROVE  Undenied(Append(rows, row))
<1>1. PICK S : rows \in Seq(S) /\ \A r \in S : r.status # "DENIED"
  BY DEF Undenied
<1>2. rows \in Seq(S \cup {row})
  BY <1>1
<1>3. Append(rows, row) \in Seq(S \cup {row})
  BY <1>2
<1>4. QED
  BY <1>1, <1>3 DEF Undenied

\* Flushed behind the saved rows, rows without a refusal stay so.
LEMMA UndeniedConcat ==
  ASSUME NEW a, NEW b, Undenied(a), Undenied(b)
  PROVE  Undenied(a \o b)
<1>1. PICK S : a \in Seq(S) /\ \A r \in S : r.status # "DENIED"
  BY DEF Undenied
<1>2. PICK T : b \in Seq(T) /\ \A r \in T : r.status # "DENIED"
  BY DEF Undenied
<1>3. a \in Seq(S \cup T) /\ b \in Seq(S \cup T)
  BY <1>1, <1>2
<1>4. a \o b \in Seq(S \cup T)
  BY <1>3
<1>5. QED
  BY <1>1, <1>2, <1>4 DEF Undenied

\* Before the first call there is no row.
LEMMA UndeniedEmpty == Undenied(<<>>)
<1> DEFINE none == {[status |-> "SUCCESS"]}
<1>1. <<>> \in Seq(none) /\ \A row \in none : row.status # "DENIED"
  OBVIOUS
<1> HIDE DEF none
<1>2. QED
  BY <1>1 DEF Undenied

\* A run that has just been planned has no record, no row and no effect.
LEMMA GInvInit == Init => GInv
<1> SUFFICES ASSUME Init PROVE GInv
  OBVIOUS
<1>1. Undenied(calls) /\ Undenied(ledger)
  BY UndeniedEmpty DEF Init
<1>2. RecordShape /\ CallShape
  BY DEF Init, RecordShape, CallShape, Row, ActionStatus, NoRecord
<1>3. OutsideShape /\ EffectsComeFromGrants
  BY DEF Init, OutsideShape, EffectsComeFromGrants, NoRecord
<1>4. QED
  BY <1>1, <1>2, <1>3 DEF GInv

\* What one attempt of a call does to the rows, and that it is the granted tool's.
LEMMA AttemptShape ==
  ASSUME GInv, NEW code, Attempt(code)
  PROVE  /\ cursor \in Item /\ Granted(cursor) /\ record[cursor].status = "executing"
         /\ saved[cursor].status = "absent"
         /\ Undenied(calls')
         /\ UNCHANGED <<approved, saved, ledger, lost, stray>>
<1>1. /\ cursor \in Item /\ Granted(cursor) /\ record[cursor].status = "executing"
      /\ saved[cursor].status = "absent"
  BY DEF Attempt, GInv, RecordShape, CallShape
<1>2. code \notin Refusal
  <2>1. ToolOf(cursor) \in WriteTool /\ Gate(EngineFor(cursor), ToolOf(cursor)) = "ok"
    BY <1>1, GrantPassesGate
  <2>2. code = Answer(ToolOf(cursor), "good", TRUE, EngineFor(cursor),
                      Injected("writer", ToolOf(cursor)))
    BY DEF Attempt, CallAnswer
  <2>3. QED
    BY <2>1, <2>2, NoRefusal DEF Tool
<1>3. \E row : row.status = CallStatus(code) /\ calls' = Append(calls, row)
  BY DEF Attempt, Dispatched, Recorded
<1>4. Undenied(calls')
  BY <1>2, <1>3, NotDenied, UndeniedAppend DEF GInv
<1>5. QED
  BY <1>1, <1>4 DEF Attempt, runVars, stdioVars

\* Reads have no engine to refuse them.
LEMMA ReadShape ==
  ASSUME GInv, ReadSource
  PROVE  Undenied(calls')
<1>1. CallStatus("ok") # "DENIED"
  BY NotDenied DEF Refusal
<1>2. \E row : row.status = CallStatus("ok") /\ calls' = Append(calls, row)
  BY DEF ReadSource, Dispatched, Recorded
<1>3. QED
  BY <1>1, <1>2, UndeniedAppend DEF GInv

\* What a rollback leaves, whoever it befalls.
LEMMA RollbackKeeps ==
  ASSUME GInv, Rollback
  PROVE  GInv'
<1>1. /\ record' = saved /\ pc' = "idle"
      /\ UNCHANGED <<approved, saved, ledger, effects, stray>>
      /\ calls' = <<>>
      /\ lost' = [i \in Item |-> IF record[i].status = "succeeded" /\ saved[i].status = "absent"
                                 THEN lost[i] + 1 ELSE lost[i]]
  BY DEF Rollback, Forget, stdioVars
<1>2. RecordShape'
  BY <1>1 DEF GInv, RecordShape
<1>3. CallShape'
  BY <1>1 DEF GInv, RecordShape, CallShape
<1>4. OutsideShape'
  BY <1>1 DEF GInv, OutsideShape
<1>5. EffectsComeFromGrants'
  <2>1. ASSUME NEW i \in Item
        PROVE  /\ effects'[i] = lost'[i] + (IF record'[i].status = "succeeded" THEN 1 ELSE 0)
               /\ effects'[i] > 0 => Granted(i)'
    <3>1. effects[i] = lost[i] + (IF record[i].status = "succeeded" THEN 1 ELSE 0)
      BY DEF GInv, EffectsComeFromGrants
    <3>2. effects[i] \in Nat /\ lost[i] \in Nat
      BY DEF GInv, OutsideShape
    <3>3. saved[i].status # "absent" => record[i] = saved[i]
      BY DEF GInv, RecordShape
    <3>4. effects'[i] > 0 => Granted(i)'
      BY <1>1 DEF GInv, EffectsComeFromGrants, Granted, NeedsApproval
    <3>5. QED
      BY <1>1, <3>1, <3>2, <3>3, <3>4
  <2>2. QED
    BY <1>1, <2>1 DEF EffectsComeFromGrants, GInv
<1>6. Undenied(calls') /\ Undenied(ledger')
  BY <1>1, UndeniedEmpty DEF GInv
<1>7. QED
  BY <1>2, <1>3, <1>4, <1>5, <1>6 DEF GInv, Undenied

\* A granted action stays granted: approvals are only added.
LEMMA GrantsStay ==
  ASSUME NEW i \in Item, approved \subseteq approved', Granted(i)
  PROVE  Granted(i)'
BY DEF Granted, NeedsApproval

(* The steps of a call, each on the record of its action.                  *)

\* A claim leaves the invariant: its record is EXECUTING, its effect to come.
LEMMA ClaimKeeps ==
  ASSUME GInv, Claim
  PROVE  GInv'
<1>1. /\ pc = "pass" /\ pc' = "call" /\ cursor \in Item /\ cursor' = cursor /\ Granted(cursor)
      /\ record[cursor].status = "absent"
      /\ record' = [record EXCEPT ![cursor] = [status |-> "executing", attempts |-> 0]]
      /\ UNCHANGED <<approved, saved, ledger, calls, effects, lost, stray>>
  BY DEF Claim, Claimable, runVars, outsideVars, stdioVars
<1>2. RecordShape'
  BY <1>1 DEF GInv, RecordShape, Row, ActionStatus
<1>3. CallShape'
  BY <1>1 DEF GInv, RecordShape, CallShape, Granted, NeedsApproval
<1>4. OutsideShape'
  BY <1>1 DEF GInv, OutsideShape
<1>5. EffectsComeFromGrants'
  <2>1. ASSUME NEW i \in Item
        PROVE  /\ effects'[i] = lost'[i] + (IF record'[i].status = "succeeded" THEN 1 ELSE 0)
               /\ effects'[i] > 0 => Granted(i)'
    <3>1. record'[i].status = "succeeded" <=> record[i].status = "succeeded"
      BY <1>1 DEF GInv, RecordShape
    <3>2. QED
      BY <1>1, <3>1, GrantsStay DEF GInv, EffectsComeFromGrants
  <2>2. QED
    BY <1>1, <2>1 DEF EffectsComeFromGrants, GInv
<1>6. QED
  BY <1>1, <1>2, <1>3, <1>4, <1>5 DEF GInv, Undenied

\* The settlement of an attempt, with its effect or without.
LEMMA SettledKeeps ==
  ASSUME GInv, NEW code, Attempt(code), NEW status \in {"succeeded", "failed"}, Settled(status),
         IF status = "succeeded" THEN effects' = Performed(cursor) ELSE UNCHANGED effects
  PROVE  GInv'
<1>1. /\ cursor \in Item /\ Granted(cursor) /\ record[cursor].status = "executing"
      /\ saved[cursor].status = "absent" /\ Undenied(calls') /\ pc' = "pass" /\ pc = "call"
      /\ record' = [record EXCEPT ![cursor] = [status |-> status, attempts |-> @.attempts + 1]]
      /\ UNCHANGED <<approved, saved, ledger, lost, stray>>
  BY AttemptShape DEF Settled, Attempt
<1>2. RecordShape'
  BY <1>1 DEF GInv, RecordShape, Row, ActionStatus
<1>3. CallShape'
  BY <1>1 DEF GInv, RecordShape, CallShape
<1>4. OutsideShape'
  BY <1>1 DEF GInv, OutsideShape, Performed
<1>5. EffectsComeFromGrants'
  <2>1. ASSUME NEW i \in Item
        PROVE  /\ effects'[i] = lost'[i] + (IF record'[i].status = "succeeded" THEN 1 ELSE 0)
               /\ effects'[i] > 0 => Granted(i)'
    <3>1. /\ effects[i] = lost[i] + (IF record[i].status = "succeeded" THEN 1 ELSE 0)
          /\ effects[i] > 0 => Granted(i)
          /\ effects[i] \in Nat /\ lost[i] \in Nat
      BY DEF GInv, EffectsComeFromGrants, OutsideShape
    <3>2. CASE i = cursor
      <4>1. record'[i].status = status /\ record[i].status = "executing" /\ lost'[i] = lost[i]
        BY <1>1, <3>2 DEF GInv, RecordShape
      <4>2. effects'[i] = IF status = "succeeded" THEN effects[i] + 1 ELSE effects[i]
        BY <3>2, <1>1 DEF Performed, GInv, OutsideShape
      <4>3. Granted(i)'
        BY <1>1, <3>2, GrantsStay
      <4>4. QED
        BY <3>1, <4>1, <4>2, <4>3
    <3>3. CASE i # cursor
      <4>1. record'[i] = record[i] /\ effects'[i] = effects[i] /\ lost'[i] = lost[i]
        BY <1>1, <3>3 DEF GInv, RecordShape, OutsideShape, Performed
      <4>2. Granted(i) => Granted(i)'
        BY <1>1, GrantsStay
      <4>3. QED
        BY <3>1, <4>1, <4>2
    <3>4. QED
      BY <3>2, <3>3
  <2>2. QED
    BY <1>1, <2>1 DEF EffectsComeFromGrants, GInv
<1>6. QED
  BY <1>1, <1>2, <1>3, <1>4, <1>5 DEF GInv, Undenied

\* Another attempt after a failure worth one leaves the record as it was.
LEMMA RetryKeeps ==
  ASSUME GInv, CallRetries
  PROVE  GInv'
<1>1. PICK code \in ErrorCode :
        /\ Attempt(code)
        /\ record' = [record EXCEPT ![cursor].attempts = @ + 1]
        /\ UNCHANGED <<cursor, pc, effects>>
  BY DEF CallRetries
<1>2. /\ cursor \in Item /\ Granted(cursor) /\ record[cursor].status = "executing"
      /\ saved[cursor].status = "absent" /\ Undenied(calls')
      /\ UNCHANGED <<approved, saved, ledger, lost, stray>> /\ pc = "call"
  BY <1>1, AttemptShape DEF Attempt
<1>3. /\ record' \in [Item -> Row]
      /\ \A i \in Item : record'[i].status = record[i].status
      /\ \A i \in Item : i # cursor => record'[i] = record[i]
  BY <1>1, <1>2 DEF GInv, RecordShape, Row
<1>4. RecordShape'
  BY <1>1, <1>2, <1>3 DEF GInv, RecordShape
<1>5. CallShape'
  BY <1>1, <1>2, <1>3 DEF GInv, CallShape, Granted, NeedsApproval
<1>6. OutsideShape' /\ EffectsComeFromGrants'
  BY <1>1, <1>2, <1>3, GrantsStay DEF GInv, OutsideShape, EffectsComeFromGrants
<1>7. QED
  BY <1>2, <1>4, <1>5, <1>6 DEF GInv, Undenied

\* At a commit every record is settled, so what is saved is settled.
LEMMA CommitKeeps ==
  ASSUME GInv, Commit
  PROVE  GInv'
<1>1. /\ pc = "pass" /\ pc' = "idle" /\ saved' = record
      /\ ledger' = ledger \o calls /\ calls' = <<>>
      /\ UNCHANGED <<approved, record, effects, lost, stray>>
  BY DEF Commit, Forget, outsideVars, stdioVars
<1>2. RecordShape'
  BY <1>1 DEF GInv, RecordShape, CallShape
<1>3. CallShape'
  BY <1>1 DEF GInv, CallShape
<1>4. OutsideShape' /\ EffectsComeFromGrants'
  BY <1>1 DEF GInv, OutsideShape, EffectsComeFromGrants, Granted, NeedsApproval
<1>5. Undenied(ledger') /\ Undenied(calls')
  BY <1>1, UndeniedConcat, UndeniedEmpty DEF GInv
<1>6. QED
  BY <1>2, <1>3, <1>4, <1>5 DEF GInv, Undenied

\* Steps that touch neither a record nor an effect, and let no write through.
LEMMA QuietKeeps ==
  ASSUME GInv, approved \subseteq approved', pc' # "call", pc' = "idle" => pc = "idle",
         pc # "call", UNCHANGED <<saved, record, effects, lost, stray>>,
         Undenied(calls'), Undenied(ledger')
  PROVE  GInv'
<1>1. RecordShape' /\ CallShape' /\ OutsideShape'
  BY DEF GInv, RecordShape, CallShape, OutsideShape
<1>2. EffectsComeFromGrants'
  BY GrantsStay DEF GInv, EffectsComeFromGrants
<1>3. QED
  BY <1>1, <1>2 DEF GInv, Undenied

\* Steps of people and of the stdio server, at any moment of a command.
LEMMA BystanderKeeps ==
  ASSUME GInv, approved \subseteq approved',
         UNCHANGED <<pc, cursor, saved, record, calls, ledger, effects, lost, stray>>
  PROVE  GInv'
<1>1. RecordShape' /\ CallShape' /\ OutsideShape'
  BY GrantsStay DEF GInv, RecordShape, CallShape, OutsideShape
<1>2. EffectsComeFromGrants'
  BY GrantsStay DEF GInv, EffectsComeFromGrants
<1>3. QED
  BY <1>1, <1>2 DEF GInv, Undenied

\* The stdio server, with no engine bound, has no effect (mcp/server.py).
LEMMA StdioKeeps ==
  ASSUME NEW tool, NEW arguments, NEW found, StdioCall(tool, arguments, found)
  PROVE  stray' = stray
BY NoEngineNoWrite DEF StdioCall

\* Every step keeps the invariant.
LEMMA StepKeeps == GInv /\ [Next]_vars => GInv'
<1> SUFFICES ASSUME GInv, [Next]_vars PROVE GInv'
  OBVIOUS
<1> USE DEF runVars, transactionVars, outsideVars, stdioVars
<1>1. CASE BeginInvestigate \/ BeginResume \/ EndGather \/ Skip \/ Resolve
  BY <1>1, QuietKeeps DEF GInv, BeginInvestigate, BeginResume, EndGather, Skip, Resolve
<1>2. CASE ReadSource
  BY <1>2, ReadShape, QuietKeeps DEF GInv, ReadSource
<1>3. CASE SourceFails \/ Crash
  BY <1>3, RollbackKeeps DEF SourceFails, Crash
<1>4. CASE Claim
  BY <1>4, ClaimKeeps
<1>5. CASE CallSucceeds
  BY <1>5, SettledKeeps DEF CallSucceeds
<1>6. CASE CallFails
  BY <1>6, SettledKeeps DEF CallFails
<1>7. CASE CallRetries
  BY <1>7, RetryKeeps
<1>8. CASE Commit
  BY <1>8, CommitKeeps
<1>9. CASE \E i \in Item : Approve(i)
  BY <1>9, BystanderKeeps DEF Approve
<1>10. CASE \E tool \in Tool \cup {UnknownTool}, arguments \in Arguments, found \in BOOLEAN :
              StdioCall(tool, arguments, found)
  <2>1. PICK tool \in Tool \cup {UnknownTool}, arguments \in Arguments, found \in BOOLEAN :
          StdioCall(tool, arguments, found)
    BY <1>10
  <2>2. UNCHANGED <<approved, pc, cursor, saved, record, calls, ledger, effects, lost>>
    BY <2>1 DEF StdioCall
  <2>3. QED
    BY <2>1, <2>2, StdioKeeps, BystanderKeeps
<1>11. CASE StdioStops
  BY <1>11, BystanderKeeps DEF StdioStops
<1>12. CASE UNCHANGED vars
  BY <1>12, BystanderKeeps DEF vars
<1>13. QED
  BY <1>1, <1>2, <1>3, <1>4, <1>5, <1>6, <1>7, <1>8, <1>9, <1>10, <1>11, <1>12 DEF Next

\* A record is EXECUTING exactly while its own call is under way, saved rows are
\* final for the transaction, no row is a refusal (executor.py, client.py, gate.py).
THEOREM GatewayInductive == Spec => []GInv
<1>1. QED
  BY GInvInit, StepKeeps, PTL DEF Spec

\* Every effect is a granted action's and is behind its record or lost with its
\* transaction; the stdio server has none (gate.py, mcp_server.py).
THEOREM EffectsAlwaysComeFromGrants == Spec => []EffectsComeFromGrants
<1>1. GInv => EffectsComeFromGrants
  BY DEF GInv
<1>2. QED
  BY <1>1, GatewayInductive, PTL

\* No call of a run is refused by policy, with any failures injected (gate.py).
THEOREM GateAlwaysAgrees == Spec => []GateAgreesWithGrant
<1>1. ASSUME NEW rows, Undenied(rows), NEW j \in DOMAIN rows
      PROVE  rows[j].status # "DENIED"
  BY <1>1 DEF Undenied
<1>2. GInv => GateAgreesWithGrant
  BY <1>1 DEF GInv, GateAgreesWithGrant
<1>3. QED
  BY <1>2, GatewayInductive, PTL

-----------------------------------------------------------------------------
(* What a run publishes. *)

Published == [i \in Item |-> saved[i].status]

\* A step of the run is one step of the abstract ledger or none.
LEMMA LedgerStep == GInv /\ GInv' /\ [Next]_vars => [Ledger!LedgerNext]_(Ledger!ledgerVars)
<1> SUFFICES ASSUME GInv, GInv', [Next]_vars PROVE [Ledger!LedgerNext]_(Ledger!ledgerVars)
  OBVIOUS
<1> USE DEF runVars, transactionVars, outsideVars, stdioVars
<1>1. ASSUME UNCHANGED <<saved, effects>>
      PROVE  UNCHANGED Ledger!ledgerVars
  BY <1>1 DEF Ledger!ledgerVars
<1>2. CASE CallSucceeds
  <2>1. /\ cursor \in Item /\ saved[cursor].status = "absent" /\ saved' = saved
        /\ effects' = [effects EXCEPT ![cursor] = @ + 1]
    BY <1>2, AttemptShape DEF CallSucceeds, Performed
  <2>2. Ledger!Deliver(cursor)
    BY <2>1 DEF Ledger!Deliver
  <2>3. QED
    BY <2>1, <2>2 DEF Ledger!LedgerNext
<1>3. CASE Commit
  <2>1. saved' = record /\ UNCHANGED effects
    BY <1>3 DEF Commit
  <2>2. Published' \in [Item -> {"absent", "succeeded", "failed"}]
    BY DEF GInv, RecordShape, Row, ActionStatus, Published
  <2>3. ASSUME NEW i \in Item, Published'[i] # Published[i]
        PROVE  Published[i] = "absent" /\ (Published'[i] = "succeeded" => effects[i] > 0)
    <3>1. saved[i].status = "absent"
      BY <2>1, <2>3 DEF GInv, RecordShape, Published
    <3>2. record[i].status = "succeeded" => effects[i] > 0
      BY DEF GInv, EffectsComeFromGrants, OutsideShape
    <3>3. QED
      BY <2>1, <3>1, <3>2 DEF Published
  <2>4. Ledger!Publish
    BY <2>1, <2>2, <2>3 DEF Ledger!Publish, Published
  <2>5. QED
    BY <2>4 DEF Ledger!LedgerNext
<1>4. CASE \/ BeginInvestigate \/ ReadSource \/ SourceFails \/ EndGather \/ BeginResume
           \/ Skip \/ Claim \/ Resolve \/ CallRetries \/ CallFails \/ Crash
  BY <1>1, <1>4
  DEF BeginInvestigate, ReadSource, SourceFails, EndGather, BeginResume, Skip, Claim, Resolve,
      CallRetries, CallFails, Crash, Attempt, Rollback
<1>5. CASE \/ \E i \in Item : Approve(i)
           \/ \E tool \in Tool \cup {UnknownTool}, arguments \in Arguments, found \in BOOLEAN :
                StdioCall(tool, arguments, found)
           \/ StdioStops
           \/ UNCHANGED vars
  BY <1>1, <1>5 DEF Approve, StdioCall, StdioStops, vars
<1>6. QED
  BY <1>2, <1>3, <1>4, <1>5 DEF Next

\* A run publishes one outcome per action, never rewrites it, follows the effect with
\* it and has no effect after it (executor.py, dispatcher.py).
THEOREM GatewayImplementsLedger == Spec => LedgerSafety
<1>1. Init => Ledger!LedgerInit
  BY DEF Init, Ledger!LedgerInit, NoRecord
<1>2. GInv /\ GInv' /\ [Next]_vars => [Ledger!LedgerNext]_(Ledger!ledgerVars)
  BY LedgerStep
<1>3. QED
  BY <1>1, <1>2, GatewayInductive, PTL DEF Spec, LedgerSafety, Ledger!LedgerSpec

-----------------------------------------------------------------------------
(* The two ledgers. *)

\* The rows of a run as its transaction sees them.
Rows == ledger \o calls

\* A record under way has an attempt left, one not begun has had none.
AttemptsLeft ==
  \A i \in Item : /\ record[i].status = "executing" => record[i].attempts < MaxAttempts
                  /\ record[i].status = "absent" => record[i].attempts = 0
                  /\ saved[i].status = "absent" => saved[i].attempts = 0

\* Where the reads stand at each moment of a command.
ReadsStand ==
  /\ ~investigated => ledger = <<>>
  /\ investigated => ReadFirst(ledger, Len(selection))
  /\ pc = "idle" => calls = <<>>
  /\ pc = "gather" => /\ ~investigated
                      /\ Len(calls) \in 0 .. Len(selection)
                      /\ ReadFirst(Rows, Len(calls))
  /\ pc \in {"pass", "call"} => ReadFirst(Rows, Len(selection))
  /\ \A j \in DOMAIN calls : calls[j].node = "collect_evidence" <=> calls[j].item = NoItem

LInv ==
  /\ TypeOK
  /\ AttemptsLeft
  /\ TellOf(ledger, saved)
  /\ TellOf(Rows, record)
  /\ ReadsStand

\* One row more is one call more of its item.
LEMMA CallsAppend ==
  ASSUME NEW rows \in Seq(CallRow), NEW row \in CallRow, NEW i
  PROVE  /\ row.item = i => CallsOf(Append(rows, row), i) = CallsOf(rows, i) \cup {Len(rows) + 1}
         /\ row.item # i => CallsOf(Append(rows, row), i) = CallsOf(rows, i)
         /\ \A j \in CallsOf(rows, i) : Append(rows, row)[j] = rows[j] /\ j \in 1 .. Len(rows)
         /\ Append(rows, row)[Len(rows) + 1] = row
<1>1. /\ DOMAIN Append(rows, row) = 1 .. Len(rows) + 1 /\ DOMAIN rows = 1 .. Len(rows)
      /\ \A j \in 1 .. Len(rows) : Append(rows, row)[j] = rows[j]
      /\ Append(rows, row)[Len(rows) + 1] = row
      /\ Len(rows) \in Nat
  BY AppendProperties
<1>2. QED
  BY <1>1 DEF CallsOf

\* So it counts one more.
LEMMA CallsCount ==
  ASSUME NEW rows \in Seq(CallRow), NEW row \in CallRow, NEW i
  PROVE  Cardinality(CallsOf(Append(rows, row), i)) =
           Cardinality(CallsOf(rows, i)) + (IF row.item = i THEN 1 ELSE 0)
<1>1. CallsOf(rows, i) \subseteq 1 .. Len(rows) /\ Len(rows) \in Nat
  BY DEF CallsOf
<1>2. IsFiniteSet(CallsOf(rows, i))
  <2>1. IsFiniteSet(1 .. Len(rows))
    BY <1>1, FS_Interval
  <2>2. QED
    BY <1>1, <2>1, FS_Subset
<1>3. Len(rows) + 1 \notin CallsOf(rows, i)
  BY <1>1
<1>4. Cardinality(CallsOf(rows, i) \cup {Len(rows) + 1}) = Cardinality(CallsOf(rows, i)) + 1
  BY <1>2, <1>3, FS_AddElement
<1>5. Cardinality(CallsOf(rows, i)) \in Nat
  BY <1>2, FS_CardinalityType
<1>6. CASE row.item = i
  BY <1>4, <1>6, CallsAppend
<1>7. CASE row.item # i
  BY <1>5, <1>7, CallsAppend
<1>8. QED
  BY <1>6, <1>7

\* A call of an action whose record counts it keeps the two alike.
LEMMA TellCall ==
  ASSUME NEW rows \in Seq(CallRow), NEW row \in CallRow, NEW before, NEW after,
         NEW c \in Item, row.item = c, TellOf(rows, before),
         before[c].status # "succeeded", before[c].attempts \in Nat,
         after[c].attempts = before[c].attempts + 1,
         after[c].status = "succeeded" <=> row.status = "SUCCESS",
         \A i \in Item \ {c} : after[i] = before[i]
  PROVE  TellOf(Append(rows, row), after)
<1> DEFINE more == Append(rows, row)
<1>1. ASSUME NEW i \in Item, i # c
      PROVE  /\ Cardinality(CallsOf(more, i)) = after[i].attempts
             /\ after[i].status = "succeeded" <=> \E j \in CallsOf(more, i) : more[j].status = "SUCCESS"
             /\ \A j, k \in CallsOf(more, i) : more[j].status = "SUCCESS" => k <= j
  <2>1. CallsOf(more, i) = CallsOf(rows, i) /\ \A j \in CallsOf(rows, i) : more[j] = rows[j]
    BY <1>1, CallsAppend
  <2>2. after[i] = before[i]
    BY <1>1
  <2> HIDE DEF more
  <2>3. QED
    BY <2>1, <2>2 DEF TellOf
<1>2. ASSUME NEW i \in Item, i = c
      PROVE  /\ Cardinality(CallsOf(more, i)) = after[i].attempts
             /\ after[i].status = "succeeded" <=> \E j \in CallsOf(more, i) : more[j].status = "SUCCESS"
             /\ \A j, k \in CallsOf(more, i) : more[j].status = "SUCCESS" => k <= j
  <2>1. /\ CallsOf(more, i) = CallsOf(rows, i) \cup {Len(rows) + 1}
        /\ \A j \in CallsOf(rows, i) : more[j] = rows[j] /\ j \in 1 .. Len(rows)
        /\ more[Len(rows) + 1] = row
    BY <1>2, CallsAppend
  <2>2. \A j \in CallsOf(rows, i) : rows[j].status # "SUCCESS"
    BY <1>2 DEF TellOf
  <2>3. Cardinality(CallsOf(more, i)) = after[i].attempts
    BY <1>2, CallsCount DEF TellOf
  <2>4. Len(rows) \in Nat
    OBVIOUS
  <2>5. QED
    BY <1>2, <2>1, <2>2, <2>3, <2>4
<1>3. QED
  BY <1>1, <1>2 DEF TellOf

\* A read is nobody's call.
LEMMA TellRead ==
  ASSUME NEW rows \in Seq(CallRow), NEW row \in CallRow, NEW records,
         TellOf(rows, records), row.item = NoItem
  PROVE  TellOf(Append(rows, row), records)
<1>1. ASSUME NEW i \in Item
      PROVE  /\ CallsOf(Append(rows, row), i) = CallsOf(rows, i)
             /\ \A j \in CallsOf(rows, i) : Append(rows, row)[j] = rows[j]
  BY CallsAppend, ItemAssumption DEF Item, NoItem
<1> DEFINE more == Append(rows, row)
<1> HIDE DEF more
<1>2. \A i \in Item : CallsOf(more, i) = CallsOf(rows, i) /\ \A j \in CallsOf(rows, i) : more[j] = rows[j]
  BY <1>1 DEF more
<1>3. TellOf(more, records)
  BY <1>2 DEF TellOf
<1>4. QED
  BY <1>3 DEF more

\* A claim makes no call.
LEMMA TellClaim ==
  ASSUME NEW rows, NEW before, NEW after, TellOf(rows, before),
         \A i \in Item : /\ after[i].attempts = before[i].attempts
                         /\ after[i].status = "succeeded" <=> before[i].status = "succeeded"
  PROVE  TellOf(rows, after)
BY DEF TellOf

\* The reads stay first whatever is called after them.
LEMMA ReadsStayFirst ==
  ASSUME NEW rows \in Seq(CallRow), NEW row \in CallRow, NEW n \in Nat,
         ReadFirst(rows, n), row.item # NoItem
  PROVE  ReadFirst(Append(rows, row), n)
<1>1. CallsOf(Append(rows, row), NoItem) = CallsOf(rows, NoItem)
  BY CallsAppend
<1>2. \A j \in 1 .. n : Append(rows, row)[j] = rows[j]
  BY CallsAppend DEF ReadFirst
<1>3. QED
  BY <1>1, <1>2 DEF ReadFirst

\* What a transaction appends is appended to what it sees.
LEMMA RowsAppend ==
  ASSUME TypeOK, NEW row \in CallRow, ledger' = ledger, calls' = Append(calls, row)
  PROVE  Rows \in Seq(CallRow) /\ Rows' = Append(Rows, row) /\ calls' \in Seq(CallRow)
<1>1. ledger \in Seq(CallRow) /\ calls \in Seq(CallRow) /\ calls' \in Seq(CallRow)
  BY DEF TypeOK
<1>2. Append(calls, row) = calls \o <<row>> /\ <<row>> \in Seq(CallRow)
  BY <1>1, AppendIsConcat
<1>3. ledger \o (calls \o <<row>>) = (ledger \o calls) \o <<row>>
  BY <1>1, <1>2, ConcatAssociative
<1>4. Rows \in Seq(CallRow) /\ Append(Rows, row) = Rows \o <<row>>
  BY <1>1, ConcatProperties, AppendIsConcat DEF Rows
<1>5. QED
  BY <1>1, <1>2, <1>3, <1>4 DEF Rows

\* Flushed or dropped, a transaction's rows leave the ledger as the only ones.
LEMMA RowsAlone ==
  ASSUME NEW rows \in Seq(CallRow)
  PROVE  rows \o <<>> = rows /\ <<>> \o rows = rows /\ <<>> \in Seq(CallRow)
BY ConcatEmptySeq, EmptySeq

\* In the gathering every row is a read of this command.
LEMMA GatheredAll ==
  ASSUME LInv, pc = "gather"
  PROVE  /\ ledger = <<>> /\ Rows = calls /\ Gathered = Len(calls)
         /\ Len(calls) \in Nat /\ Len(selection) \in Nat
<1>1. ledger = <<>> /\ calls \in Seq(CallRow)
  BY DEF LInv, ReadsStand, TypeOK
<1>2. Rows = calls
  BY <1>1, RowsAlone DEF Rows
<1>3. Len(calls) \in Nat
  BY <1>1, LenProperties
<1>4. CallsOf(calls, NoItem) = 1 .. Len(calls)
  BY <1>2 DEF LInv, ReadsStand, ReadFirst
<1>5. {j \in DOMAIN calls : calls[j].node = "collect_evidence"} = CallsOf(calls, NoItem)
  BY DEF LInv, ReadsStand, CallsOf
<1>6. Cardinality(1 .. Len(calls)) = Len(calls)
  <2>1. Cardinality(1 .. Len(calls)) = IF 1 > Len(calls) THEN 0 ELSE Len(calls) - 1 + 1
    BY <1>3, FS_Interval
  <2>2. QED
    BY <1>3, <2>1
<1>7. selection \in Seq(EvidenceSource)
  BY SelectionAssumption, EmptySeq DEF LInv, TypeOK
<1>8. QED
  BY <1>1, <1>2, <1>3, <1>4, <1>5, <1>6, <1>7, LenProperties DEF Gathered

\* The bookkeeping of one call adds one row, and keeps the counters counters.
LEMMA DispatchedShape ==
  ASSUME TypeOK, NEW client \in Client, NEW bundle \in Bundle, NEW node \in Node,
         NEW tool \in Tool, NEW item \in Item \cup {NoItem}, NEW engine, NEW code,
         Dispatched(client, bundle, node, tool, item, engine, code)
  PROVE  /\ counts' \in [Client -> [Tool -> Nat]]
         /\ upstream' \in [Bundle -> [Tool -> Nat]]
         /\ \E row \in CallRow :
              /\ row.node = node /\ row.tool = tool /\ row.item = item
              /\ row.status = CallStatus(code)
              /\ calls' = Append(calls, row)
<1>1. counts \in [Client -> [Tool -> Nat]] /\ upstream \in [Bundle -> [Tool -> Nat]]
  BY DEF TypeOK
<1>2. counts[client] \in [Tool -> Nat] /\ counts[client][tool] + 1 \in Nat \ {0}
  BY <1>1
<1>3. counts' = [counts EXCEPT ![client][tool] = counts[client][tool] + 1]
  BY DEF Dispatched
<1>4. counts' \in [Client -> [Tool -> Nat]]
  BY <1>1, <1>2, <1>3
<1>5. PICK n : /\ n = upstream[bundle][tool] \/ n = upstream[bundle][tool] + 1
               /\ upstream' = [upstream EXCEPT ![bundle][tool] = n]
  BY DEF Dispatched
<1>6. upstream[bundle] \in [Tool -> Nat] /\ n \in Nat
  BY <1>1, <1>5
<1>7. upstream' \in [Bundle -> [Tool -> Nat]]
  BY <1>1, <1>5, <1>6
<1>8. CallStatus(code) \in ToolStatus
  BY Zenon DEF CallStatus, ToolStatus
<1> DEFINE row == [node |-> node, tool |-> tool, ordinal |-> counts[client][tool] + 1,
                   status |-> CallStatus(code), item |-> item]
<1>9. row \in CallRow
  BY <1>2, <1>8 DEF CallRow
<1>10. calls' = Append(calls, row)
  BY DEF Dispatched, Recorded
<1>11. QED
  BY <1>4, <1>7, <1>9, <1>10

\* Only an answer "ok" leaves a success behind (mcp/ledger.py).
LEMMA SuccessIsOk ==
  ASSUME NEW code
  PROVE  CallStatus(code) = "SUCCESS" <=> code = "ok"
<1>1. CASE code = "ok"
  BY <1>1, Zenon DEF CallStatus
<1>2. CASE code # "ok"
  BY <1>2, Zenon DEF CallStatus
<1>3. QED
  BY <1>1, <1>2

\* A read adds the next row of the selection.
LEMMA ReadTells ==
  ASSUME LInv, GInv, ReadSource
  PROVE  LInv'
<1>1. /\ pc = "gather" /\ pc' = pc /\ Len(calls) < Len(selection)
      /\ Rows = calls /\ ledger = <<>> /\ Len(calls) \in Nat /\ Len(selection) \in Nat
      /\ NextSource = selection[Len(calls) + 1]
  BY GatheredAll DEF ReadSource, NextSource
<1>2. UNCHANGED <<mirror, script, approved, investigated, selection, stored, saved, ledger,
                  cursor, commands, record, effects, lost, crashes, stray, unsaved>>
  BY DEF ReadSource, worldVars, runVars, outsideVars, stdioVars
<1>3. NextSource \in EvidenceSource
  <2>1. selection \in Seq(EvidenceSource)
    BY SelectionAssumption, EmptySeq DEF LInv, TypeOK
  <2>2. Len(calls) + 1 \in 1 .. Len(selection)
    BY <1>1
  <2>3. QED
    BY <1>1, <2>1, <2>2, ElementOfSeq
<1>4. PICK row \in CallRow :
        /\ row.node = "collect_evidence" /\ row.tool = NextSource /\ row.item = NoItem
        /\ row.status = CallStatus("ok")
        /\ calls' = Append(calls, row)
        /\ counts' \in [Client -> [Tool -> Nat]] /\ upstream' \in [Bundle -> [Tool -> Nat]]
  <2>1. Dispatched("reader", "reader", "collect_evidence", NextSource, NoItem, "none", "ok")
    BY DEF ReadSource
  <2>2. /\ "reader" \in Client /\ "reader" \in Bundle /\ "collect_evidence" \in Node
        /\ NextSource \in Tool /\ NoItem \in Item \cup {NoItem} /\ TypeOK
    BY <1>3 DEF LInv, Client, Bundle, Node, Tool, ReadTool
  <2>3. QED
    BY <2>1, <2>2, DispatchedShape
<1>5. Rows \in Seq(CallRow) /\ Rows' = Append(Rows, row) /\ calls' \in Seq(CallRow)
  BY <1>2, <1>4, RowsAppend DEF LInv
<1>6. TypeOK'
  BY <1>1, <1>2, <1>4, <1>5 DEF LInv, TypeOK
<1>7. AttemptsLeft' /\ TellOf(ledger, saved)'
  BY <1>2 DEF LInv, AttemptsLeft, TellOf
<1>8. TellOf(Rows', record)
  BY <1>4, <1>5, TellRead DEF LInv
<1>9. TellOf(Rows, record)'
  BY <1>2, <1>8 DEF TellOf
<1>10. ReadsStand'
  <2>1. /\ calls \in Seq(CallRow) /\ Len(calls') = Len(calls) + 1
        /\ DOMAIN calls = 1 .. Len(calls) /\ DOMAIN calls' = 1 .. Len(calls) + 1
        /\ \A j \in 1 .. Len(calls) : calls'[j] = calls[j]
        /\ calls'[Len(calls) + 1] = row
    BY <1>4, AppendProperties DEF LInv, TypeOK
  <2>2. ReadFirst(calls, Len(calls))
    BY <1>1 DEF LInv, ReadsStand
  <2>3. CallsOf(calls', NoItem) = 1 .. Len(calls')
    BY <1>1, <1>4, <2>1, <2>2 DEF CallsOf, ReadFirst
  <2>4. row.status = "SUCCESS"
    BY <1>4, SuccessIsOk
  <2>5. \A j \in 1 .. Len(calls') : calls'[j].tool = selection[j] /\ calls'[j].status = "SUCCESS"
    BY <1>1, <1>4, <2>1, <2>2, <2>4 DEF ReadFirst
  <2>6. Rows' = calls'
    BY <1>1, <1>4, <1>5
  <2>7. ReadFirst(Rows, Len(calls))'
    BY <1>2, <2>3, <2>5, <2>6 DEF ReadFirst, CallsOf
  <2>8. Len(calls') \in 0 .. Len(selection')
    BY <1>1, <1>2, <2>1
  <2>9. ASSUME NEW j \in DOMAIN calls'
        PROVE  calls'[j].node = "collect_evidence" <=> calls'[j].item = NoItem
    BY <1>1, <1>4, <2>1 DEF LInv, ReadsStand
  <2>10. QED
    BY <1>1, <1>2, <2>7, <2>8, <2>9 DEF LInv, ReadsStand
<1>11. QED
  BY <1>6, <1>7, <1>9, <1>10 DEF LInv

\* An attempt adds one row of the action at hand.
LEMMA AttemptTells ==
  ASSUME LInv, GInv, NEW code, Attempt(code)
  PROVE  /\ cursor \in Item /\ record[cursor].status = "executing"
         /\ counts' \in [Client -> [Tool -> Nat]] /\ upstream' \in [Bundle -> [Tool -> Nat]]
         /\ UNCHANGED <<mirror, script, approved, investigated, selection, saved, ledger,
                        commands, crashes, stray, unsaved>>
         /\ calls' \in Seq(CallRow)
         /\ \A j \in DOMAIN calls' :
              calls'[j].node = "collect_evidence" <=> calls'[j].item = NoItem
         /\ \E row \in CallRow :
              /\ row.item = cursor /\ row.status = CallStatus(code)
              /\ Rows \in Seq(CallRow) /\ Rows' = Append(Rows, row)
<1>1. /\ cursor \in Item /\ Granted(cursor) /\ record[cursor].status = "executing"
  BY AttemptShape
<1>2. UNCHANGED <<mirror, script, approved, investigated, selection, saved, ledger,
                  commands, crashes, stray, unsaved>>
  BY DEF Attempt, worldVars, runVars, stdioVars
<1>3. Dispatched(ClientFor(cursor), "writer", "execution", ToolOf(cursor), cursor,
                 EngineFor(cursor), code)
  BY DEF Attempt
<1>4. ToolOf(cursor) \in Tool
  BY <1>1, GrantPassesGate DEF Tool
<1>5. /\ ClientFor(cursor) \in Client /\ "writer" \in Bundle /\ "execution" \in Node
      /\ cursor \in Item \cup {NoItem} /\ TypeOK
  BY <1>1 DEF ClientFor, Client, Bundle, Node, LInv
<1>6. /\ counts' \in [Client -> [Tool -> Nat]] /\ upstream' \in [Bundle -> [Tool -> Nat]]
      /\ \E row \in CallRow :
           /\ row.node = "execution" /\ row.tool = ToolOf(cursor) /\ row.item = cursor
           /\ row.status = CallStatus(code)
           /\ calls' = Append(calls, row)
  BY <1>3, <1>4, <1>5, DispatchedShape
<1>7. PICK row \in CallRow :
        /\ row.node = "execution" /\ row.item = cursor /\ row.status = CallStatus(code)
        /\ calls' = Append(calls, row)
  BY <1>6
<1>8. Rows \in Seq(CallRow) /\ Rows' = Append(Rows, row) /\ calls' \in Seq(CallRow)
  BY <1>2, <1>5, <1>7, RowsAppend
<1>9. \A j \in DOMAIN calls' : calls'[j].node = "collect_evidence" <=> calls'[j].item = NoItem
  <2>1. /\ calls \in Seq(CallRow) /\ DOMAIN calls = 1 .. Len(calls)
        /\ DOMAIN calls' = 1 .. Len(calls) + 1 /\ Len(calls) \in Nat
        /\ \A j \in 1 .. Len(calls) : calls'[j] = calls[j]
        /\ calls'[Len(calls) + 1] = row
    BY <1>5, <1>7, AppendProperties DEF TypeOK
  <2>2. cursor # NoItem
    BY <1>1, ItemAssumption DEF Item, NoItem
  <2>3. QED
    BY <1>7, <2>1, <2>2 DEF LInv, ReadsStand
<1>10. QED
  BY <1>1, <1>2, <1>6, <1>7, <1>8, <1>9

\* Once it is counted in the record, both ledgers have it.
LEMMA CallTells ==
  ASSUME LInv, GInv, GInv', NEW code, Attempt(code),
         NEW status \in {"succeeded", "failed", "executing"},
         record' = [record EXCEPT ![cursor] = [status |-> status, attempts |-> @.attempts + 1]],
         status = "succeeded" <=> code = "ok",
         status = "executing" => record[cursor].attempts + 1 < MaxAttempts,
         pc' \in {"pass", "call"}, pc' = "call" => cursor' = cursor,
         cursor' = cursor \/ cursor' = cursor + 1
  PROVE  LInv'
<1>1. /\ cursor \in Item /\ record[cursor].status = "executing" /\ pc = "call"
      /\ UNCHANGED <<mirror, script, approved, investigated, selection, saved, ledger,
                     commands, crashes, stray, unsaved>>
  BY AttemptTells DEF Attempt
<1>2. PICK row \in CallRow :
        /\ row.item = cursor /\ row.status = CallStatus(code)
        /\ Rows \in Seq(CallRow) /\ Rows' = Append(Rows, row)
  BY AttemptTells
<1>3. /\ record \in [Item -> ActionRecord] /\ MaxAttempts \in Nat \ {0}
      /\ record[cursor].attempts \in 0 .. MaxAttempts /\ record[cursor].attempts < MaxAttempts
  BY <1>1, AttemptsAssumption DEF LInv, TypeOK, ActionRecord, AttemptsLeft
<1>4. /\ record'[cursor].status = status
      /\ record'[cursor].attempts = record[cursor].attempts + 1
      /\ \A i \in Item : i # cursor => record'[i] = record[i]
      /\ record' \in [Item -> ActionRecord]
  BY <1>1, <1>3 DEF ActionRecord, ActionStatus
<1>5. cursor' \in 1 .. NItems + 1 /\ (pc' = "call" => cursor' \in Item)
  BY <1>1, ItemAssumption DEF Item
<1>6. TypeOK'
  <2>1. effects' \in [Item -> Nat] /\ lost' \in [Item -> Nat]
    BY DEF GInv, OutsideShape
  <2>2. /\ counts' \in [Client -> [Tool -> Nat]] /\ upstream' \in [Bundle -> [Tool -> Nat]]
        /\ calls' \in Seq(CallRow)
    BY AttemptTells
  <2>3. QED
    BY <1>1, <1>4, <1>5, <2>1, <2>2 DEF LInv, TypeOK
<1>7. AttemptsLeft'
  BY <1>1, <1>4 DEF LInv, AttemptsLeft
<1>8. TellOf(Rows, record)'
  <2>1. row.status = "SUCCESS" <=> status = "succeeded"
    BY <1>2, SuccessIsOk
  <2>2. TellOf(Rows, record) /\ record[cursor].attempts \in Nat
    BY <1>3 DEF LInv
  <2>3. /\ cursor \in Item /\ row.item = cursor /\ record[cursor].status # "succeeded"
        /\ record'[cursor].attempts = record[cursor].attempts + 1
        /\ record'[cursor].status = "succeeded" <=> row.status = "SUCCESS"
        /\ \A i \in Item \ {cursor} : record'[i] = record[i]
    BY <1>1, <1>2, <1>4, <2>1, <2>2
  <2>4. TellOf(Append(Rows, row), record')
    <3> DEFINE after == record'
    <3>1. /\ after[cursor].attempts = record[cursor].attempts + 1
          /\ after[cursor].status = "succeeded" <=> row.status = "SUCCESS"
          /\ \A i \in Item \ {cursor} : after[i] = record[i]
      BY <2>3
    <3> HIDE DEF after
    <3>2. TellOf(Append(Rows, row), after)
      BY <1>2, <2>2, <2>3, <3>1, TellCall
    <3>3. QED
      BY <3>2 DEF after
  <2>5. QED
    BY <1>2, <2>4 DEF TellOf
<1>9. TellOf(ledger, saved)'
  BY <1>1 DEF LInv, TellOf
<1>10. ReadsStand'
  <2>1. cursor # NoItem /\ Len(selection) \in Nat
    <3>1. selection \in Seq(EvidenceSource)
      BY SelectionAssumption, EmptySeq DEF LInv, TypeOK
    <3>2. QED
      BY <1>1, <3>1, LenProperties, ItemAssumption DEF Item, NoItem
  <2>2. ReadFirst(Rows, Len(selection))
    BY <1>1 DEF LInv, ReadsStand
  <2>3. ReadFirst(Append(Rows, row), Len(selection))
    BY <1>2, <2>1, <2>2, ReadsStayFirst
  <2>4. ReadFirst(Rows, Len(selection))'
    BY <1>1, <1>2, <2>3 DEF ReadFirst
  <2>5. (investigated => ReadFirst(ledger, Len(selection)))'
    BY <1>1 DEF LInv, ReadsStand, ReadFirst
  <2>6. QED
    BY <1>1, <2>4, <2>5, AttemptTells DEF LInv, ReadsStand
<1>11. QED
  BY <1>6, <1>7, <1>8, <1>9, <1>10 DEF LInv

\* The three ways an attempt ends.
LEMMA SettlementTells ==
  ASSUME LInv, GInv, GInv', CallSucceeds \/ CallFails \/ CallRetries
  PROVE  LInv'
<1>1. CASE CallSucceeds
  <2>1. Attempt("ok") /\ Settled("succeeded")
    BY <1>1 DEF CallSucceeds
  <2>2. QED
    BY <2>1, CallTells DEF Settled
<1>2. CASE CallFails
  <2>1. PICK code \in ErrorCode : Attempt(code) /\ Settled("failed")
    BY <1>2 DEF CallFails
  <2>2. code # "ok"
    BY DEF ErrorCode
  <2>3. QED
    BY <2>1, <2>2, CallTells DEF Settled
<1>3. CASE CallRetries
  <2>1. PICK code \in ErrorCode :
          /\ Attempt(code) /\ WorthRetrying(code, record[cursor].attempts + 1)
          /\ record' = [record EXCEPT ![cursor].attempts = @ + 1]
          /\ UNCHANGED <<cursor, pc, effects>>
    BY <1>3 DEF CallRetries
  <2>2. code # "ok" /\ record[cursor].attempts + 1 < MaxAttempts /\ pc = "call"
    BY <2>1 DEF ErrorCode, WorthRetrying, Attempt
  <2>3. cursor \in Item /\ record[cursor].status = "executing"
    BY <2>1, AttemptShape
  <2>4. record' = [record EXCEPT ![cursor] =
                     [status |-> "executing", attempts |-> record[cursor].attempts + 1]]
    <3>1. record \in [Item -> ActionRecord]
      BY DEF LInv, TypeOK
    <3>2. PICK n \in 0 .. MaxAttempts : record[cursor] = [status |-> "executing", attempts |-> n]
      BY <2>3, <3>1 DEF ActionRecord
    <3>3. record' = [record EXCEPT ![cursor] = [record[cursor] EXCEPT !.attempts = n + 1]]
      BY <2>1, <3>2
    <3>4. [record[cursor] EXCEPT !.attempts = n + 1] = [status |-> "executing", attempts |-> n + 1]
      BY <3>2
    <3>5. record[cursor].attempts = n
      BY <3>2
    <3>6. QED
      BY <3>3, <3>4, <3>5, Zenon
  <2>5. QED
    BY <2>1, <2>2, <2>4, CallTells
<1>4. QED
  BY <1>1, <1>2, <1>3

\* A rollback leaves the ledgers as they were committed.
LEMMA RollbackTells ==
  ASSUME LInv, GInv, GInv', Rollback, crashes' \in 0 .. MaxCrashes
  PROVE  LInv'
<1>1. /\ record' = saved /\ pc' = "idle" /\ cursor' = 1 /\ calls' = <<>>
      /\ selection' = IF investigated THEN selection ELSE <<>>
      /\ UNCHANGED <<mirror, script, approved, investigated, saved, ledger, commands, counts,
                     upstream, stray, unsaved>>
  BY DEF Rollback, Forget, worldVars, clientVars, stdioVars
<1>2. ledger \in Seq(CallRow) /\ <<>> \in Seq(CallRow) /\ Rows' = ledger
  BY <1>1, RowsAlone DEF Rows, LInv, TypeOK
<1>3. TypeOK'
  <2>1. lost' \in [Item -> Nat] /\ effects' \in [Item -> Nat]
    BY DEF GInv, OutsideShape
  <2>2. 1 \in 1 .. NItems + 1
    BY ItemAssumption
  <2>3. QED
    BY <1>1, <1>2, <2>1, <2>2 DEF LInv, TypeOK
<1>4. AttemptsLeft'
  BY <1>1 DEF LInv, AttemptsLeft, GInv, RecordShape
<1>5. TellOf(ledger, saved)' /\ TellOf(Rows, record)'
  BY <1>1, <1>2 DEF LInv, TellOf
<1>6. ReadsStand'
  <2>1. \A j \in DOMAIN <<>> : FALSE
    OBVIOUS
  <2>2. QED
    BY <1>1, <2>1 DEF LInv, ReadsStand, ReadFirst
<1>7. QED
  BY <1>3, <1>4, <1>5, <1>6 DEF LInv

\* A commit publishes what the transaction saw, in both ledgers.
LEMMA CommitTells ==
  ASSUME LInv, GInv, GInv', Commit
  PROVE  LInv'
<1>1. /\ pc = "pass" /\ pc' = "idle" /\ cursor' = 1 /\ calls' = <<>> /\ investigated' = TRUE
      /\ saved' = record /\ ledger' = Rows
      /\ UNCHANGED <<mirror, script, approved, selection, record, commands, counts, upstream,
                     effects, lost, crashes, stray, unsaved>>
  BY DEF Commit, Forget, Rows, worldVars, clientVars, outsideVars, stdioVars
<1>2. Rows \in Seq(CallRow)
  BY ConcatProperties DEF LInv, TypeOK, Rows
<1>3. <<>> \in Seq(CallRow) /\ Rows' = Rows
  BY <1>1, <1>2, RowsAlone DEF Rows
<1>4. TypeOK'
  <2>1. 1 \in 1 .. NItems + 1
    BY ItemAssumption
  <2>2. QED
    BY <1>1, <1>2, <1>3, <2>1 DEF LInv, TypeOK
<1>5. AttemptsLeft'
  BY <1>1 DEF LInv, AttemptsLeft
<1>6. TellOf(ledger, saved)' /\ TellOf(Rows, record)'
  BY <1>1, <1>3 DEF LInv, TellOf
<1>7. ReadsStand'
  <2>1. \A j \in DOMAIN <<>> : FALSE
    OBVIOUS
  <2>2. QED
    BY <1>1, <2>1 DEF LInv, ReadsStand, ReadFirst
<1>8. QED
  BY <1>4, <1>5, <1>6, <1>7 DEF LInv

\* A claim has its attempts before it.
LEMMA ClaimTells ==
  ASSUME LInv, GInv, GInv', Claim
  PROVE  LInv'
<1>1. /\ pc = "pass" /\ pc' = "call" /\ cursor \in Item /\ record[cursor].status = "absent"
      /\ record' = [record EXCEPT ![cursor] = [status |-> "executing", attempts |-> 0]]
      /\ counts' = [counts EXCEPT !["sibling"] = IF NeedsApproval(cursor) THEN NoCalls ELSE @]
      /\ UNCHANGED <<mirror, script, approved, investigated, selection, saved, ledger, cursor,
                     commands, upstream, calls, effects, lost, crashes, stray, unsaved>>
  BY DEF Claim, Claimable, worldVars, runVars, outsideVars, stdioVars
<1>2. /\ record \in [Item -> ActionRecord] /\ record[cursor].attempts = 0
      /\ MaxAttempts \in Nat \ {0} /\ counts \in [Client -> [Tool -> Nat]]
  BY <1>1, AttemptsAssumption DEF LInv, TypeOK, AttemptsLeft
<1>3. /\ record' \in [Item -> ActionRecord]
      /\ record'[cursor] = [status |-> "executing", attempts |-> 0]
      /\ \A i \in Item : i # cursor => record'[i] = record[i]
  BY <1>1, <1>2 DEF ActionRecord, ActionStatus
<1>4. counts' \in [Client -> [Tool -> Nat]]
  <2>1. NoCalls \in [Tool -> Nat]
    BY DEF NoCalls
  <2>2. QED
    BY <1>1, <1>2, <2>1
<1>5. TypeOK'
  BY <1>1, <1>3, <1>4 DEF LInv, TypeOK
<1>6. AttemptsLeft'
  BY <1>1, <1>2, <1>3 DEF LInv, AttemptsLeft
<1>7. TellOf(Rows, record)'
  <2> DEFINE after == record'
  <2>1. \A i \in Item : /\ after[i].attempts = record[i].attempts
                        /\ after[i].status = "succeeded" <=> record[i].status = "succeeded"
    BY <1>1, <1>2, <1>3
  <2>2. Rows' = Rows
    BY <1>1 DEF Rows
  <2> HIDE DEF after
  <2>3. TellOf(Rows, after)
    BY <2>1, TellClaim DEF LInv
  <2>4. QED
    BY <2>2, <2>3 DEF after, TellOf
<1>8. TellOf(ledger, saved)'
  BY <1>1 DEF LInv, TellOf
<1>9. ReadsStand'
  BY <1>1 DEF LInv, ReadsStand, ReadFirst, Rows
<1>10. QED
  BY <1>5, <1>6, <1>7, <1>8, <1>9 DEF LInv

\* Steps that write neither ledger nor record.
LEMMA QuietTells ==
  ASSUME LInv,
         UNCHANGED <<mirror, script, saved, ledger, record, calls, effects, lost, crashes>>,
         TypeOK', ReadsStand'
  PROVE  LInv'
<1>1. AttemptsLeft'
  BY DEF LInv, AttemptsLeft
<1>2. TellOf(ledger, saved)'
  BY DEF LInv, TellOf
<1>3. Rows' = Rows
  BY DEF Rows
<1>4. TellOf(Rows, record)'
  BY <1>3 DEF LInv, TellOf
<1>5. QED
  BY <1>1, <1>2, <1>4 DEF LInv

\* A command begins with counters at zero and nothing written.
LEMMA BeginTells ==
  ASSUME LInv, BeginInvestigate \/ BeginResume
  PROVE  LInv'
<1>1. /\ pc = "idle" /\ calls = <<>> /\ calls' = calls
      /\ commands' = commands + 1 /\ commands < MaxCommands
      /\ counts' = [c \in Client |-> NoCalls] /\ upstream' = [b \in Bundle |-> NoCalls]
      /\ UNCHANGED <<mirror, script, approved, investigated, saved, ledger, cursor, record,
                     effects, lost, crashes, stray, unsaved>>
  BY DEF BeginInvestigate, BeginResume, LInv, ReadsStand, worldVars, runVars, transactionVars,
         outsideVars, stdioVars
<1>2. NoCalls \in [Tool -> Nat]
  BY DEF NoCalls
<1>3. /\ counts' \in [Client -> [Tool -> Nat]] /\ upstream' \in [Bundle -> [Tool -> Nat]]
  BY <1>1, <1>2
<1>4. commands' \in 0 .. MaxCommands
  BY <1>1, BoundAssumption DEF LInv, TypeOK
<1>5. ledger \in Seq(CallRow) /\ Rows' = ledger
  BY <1>1, RowsAlone DEF LInv, TypeOK, Rows
<1>6. \A j \in DOMAIN <<>> : FALSE
  OBVIOUS
<1>7. CASE BeginInvestigate
  <2>1. ~investigated /\ ledger = <<>> /\ pc' = "gather" /\ selection' \in Selections
    BY <1>7 DEF BeginInvestigate, LInv, ReadsStand
  <2>2. TypeOK'
    BY <1>1, <1>3, <1>4, <2>1 DEF LInv, TypeOK
  <2>3. Len(selection') \in Nat /\ Len(<<>>) = 0
    BY <2>1, SelectionAssumption, LenProperties, EmptySeq
  <2>4. ReadFirst(<<>>, 0)'
    BY <1>6 DEF ReadFirst, CallsOf
  <2>5. ReadsStand'
    BY <1>1, <1>5, <1>6, <2>1, <2>3, <2>4 DEF ReadsStand
  <2>6. QED
    BY <1>1, <2>2, <2>5, QuietTells
<1>8. CASE BeginResume
  <2>1. investigated /\ pc' = "pass" /\ selection' = selection
    BY <1>8 DEF BeginResume, runVars
  <2>2. TypeOK'
    BY <1>1, <1>3, <1>4, <2>1 DEF LInv, TypeOK
  <2>3. ReadFirst(ledger, Len(selection))'
    BY <1>1, <2>1 DEF LInv, ReadsStand, ReadFirst
  <2>4. ReadsStand'
    BY <1>1, <1>5, <1>6, <2>1, <2>3 DEF ReadsStand, ReadFirst
  <2>5. QED
    BY <1>1, <2>2, <2>4, QuietTells
<1>9. QED
  BY <1>7, <1>8

\* The gathering ends when the selection is read; the pass goes on or past an action.
LEMMA PassTells ==
  ASSUME LInv, EndGather \/ Skip \/ Resolve
  PROVE  LInv'
<1>1. /\ pc' = "pass"
      /\ \/ pc = "gather" /\ Gathered = Len(selection) /\ cursor' = cursor
         \/ pc = "pass" /\ cursor \in Item /\ cursor' = cursor + 1
      /\ UNCHANGED <<mirror, script, approved, investigated, selection, saved, ledger,
                     commands, counts, upstream, record, calls, effects, lost, crashes, stray,
                     unsaved>>
  BY DEF EndGather, Skip, Resolve, worldVars, runVars, clientVars, transactionVars,
         outsideVars, stdioVars
<1>2. cursor' \in 1 .. NItems + 1
  BY <1>1, ItemAssumption DEF LInv, TypeOK, Item
<1>3. TypeOK'
  BY <1>1, <1>2 DEF LInv, TypeOK
<1>4. ReadFirst(Rows, Len(selection))
  BY <1>1, GatheredAll DEF LInv, ReadsStand
<1>5. ReadsStand'
  BY <1>1, <1>4 DEF LInv, ReadsStand, ReadFirst, Rows
<1>6. QED
  BY <1>1, <1>3, <1>5, QuietTells

\* The others write nothing of a run.
LEMMA BystanderTells ==
  ASSUME LInv, approved' \subseteq Item, stray' \in Nat, unsaved' \in 0 .. MaxAudit,
         UNCHANGED <<worldVars, runVars, pc, cursor, commands, clientVars, transactionVars,
                     outsideVars>>
  PROVE  LInv'
<1>1. UNCHANGED <<mirror, script, investigated, selection, saved, ledger, pc, cursor, commands,
                  counts, upstream, record, calls, effects, lost, crashes>>
  BY DEF worldVars, runVars, clientVars, transactionVars, outsideVars
<1>2. TypeOK'
  BY <1>1 DEF LInv, TypeOK
<1>3. ReadsStand'
  BY <1>1 DEF LInv, ReadsStand, ReadFirst, Rows
<1>4. QED
  BY <1>1, <1>2, <1>3, QuietTells

\* A run that has just been planned.
LEMMA TellInit == Init => LInv
<1> SUFFICES ASSUME Init PROVE LInv
  OBVIOUS
<1>1. /\ calls = <<>> /\ ledger = <<>> /\ <<>> \in Seq(CallRow) /\ Rows = <<>>
  BY RowsAlone, EmptySeq DEF Init, Rows
<1>2. TypeOK
  <2>1. NoRecord \in ActionRecord
    BY AttemptsAssumption DEF NoRecord, ActionRecord, ActionStatus
  <2>2. NoCalls \in [Tool -> Nat]
    BY DEF NoCalls
  <2>3. 1 \in 1 .. NItems + 1
    BY ItemAssumption
  <2>4. /\ mirror \in Mirrors /\ script \in Scripts /\ approved \subseteq Item
        /\ investigated \in BOOLEAN /\ selection \in Selections \cup {<<>>}
        /\ pc \in {"idle", "gather", "pass", "call"} /\ pc # "call"
        /\ cursor \in 1 .. NItems + 1 /\ stray \in Nat
    BY <2>3 DEF Init
  <2>5. commands \in 0 .. MaxCommands /\ crashes \in 0 .. MaxCrashes /\ unsaved \in 0 .. MaxAudit
    BY BoundAssumption DEF Init
  <2>6. saved \in [Item -> ActionRecord] /\ record \in [Item -> ActionRecord]
    BY <2>1 DEF Init
  <2>7. effects \in [Item -> Nat] /\ lost \in [Item -> Nat]
    BY DEF Init
  <2>8. counts \in [Client -> [Tool -> Nat]] /\ upstream \in [Bundle -> [Tool -> Nat]]
    BY <2>2 DEF Init
  <2>9. QED
    BY <1>1, <2>4, <2>5, <2>6, <2>7, <2>8 DEF TypeOK
<1>3. AttemptsLeft
  BY DEF Init, AttemptsLeft, NoRecord
<1>4. \A i : CallsOf(<<>>, i) = {}
  BY DEF CallsOf
<1>5. Cardinality({}) = 0
  BY FS_EmptySet
<1>6. TellOf(ledger, saved) /\ TellOf(Rows, record)
  BY <1>1, <1>4, <1>5 DEF Init, TellOf, NoRecord
<1>7. ReadsStand
  BY <1>1 DEF Init, ReadsStand
<1>8. QED
  BY <1>2, <1>3, <1>6, <1>7 DEF LInv

\* Every step keeps both ledgers to one story.
LEMMA StepTells == LInv /\ GInv /\ GInv' /\ [Next]_vars => LInv'
<1> SUFFICES ASSUME LInv, GInv, GInv', [Next]_vars PROVE LInv'
  OBVIOUS
<1>1. CASE BeginInvestigate \/ BeginResume
  BY <1>1, BeginTells
<1>2. CASE ReadSource
  BY <1>2, ReadTells
<1>3. CASE SourceFails \/ Crash
  <2>1. crashes' \in 0 .. MaxCrashes
    BY <1>3, BoundAssumption DEF SourceFails, Crash, LInv, TypeOK
  <2>2. QED
    BY <1>3, <2>1, RollbackTells DEF SourceFails, Crash
<1>4. CASE EndGather \/ Skip \/ Resolve
  BY <1>4, PassTells
<1>5. CASE Claim
  BY <1>5, ClaimTells
<1>6. CASE CallSucceeds \/ CallFails \/ CallRetries
  BY <1>6, SettlementTells
<1>7. CASE Commit
  BY <1>7, CommitTells
<1>8. CASE \E i \in Item : Approve(i)
  BY <1>8, BystanderTells DEF Approve, LInv, TypeOK, stdioVars
<1>9. CASE \E tool \in Tool \cup {UnknownTool}, arguments \in Arguments, found \in BOOLEAN :
             StdioCall(tool, arguments, found)
  <2>1. PICK tool \in Tool \cup {UnknownTool}, arguments \in Arguments, found \in BOOLEAN :
          StdioCall(tool, arguments, found)
    BY <1>9
  <2>2. stray \in Nat /\ unsaved \in 0 .. MaxAudit /\ approved \subseteq Item
    BY DEF LInv, TypeOK
  <2>3. /\ stray' \in Nat /\ unsaved' \in 0 .. MaxAudit /\ approved' \subseteq Item
        /\ UNCHANGED <<worldVars, runVars, pc, cursor, commands, clientVars, transactionVars,
                       outsideVars>>
    BY <2>1, <2>2, BoundAssumption DEF StdioCall
  <2>4. QED
    BY <2>3, BystanderTells
<1>10. CASE StdioStops
  BY <1>10, BystanderTells, BoundAssumption DEF StdioStops, LInv, TypeOK
<1>11. CASE UNCHANGED vars
  BY <1>11, BystanderTells DEF vars, stdioVars, LInv, TypeOK
<1>12. QED
  BY <1>1, <1>2, <1>3, <1>4, <1>5, <1>6, <1>7, <1>8, <1>9, <1>10, <1>11 DEF Next

\* What a transaction sees and what is committed each tell one story, with the reads
\* first, at every step of every command (executor.py, mcp/ledger.py).
THEOREM LedgersInductive == Spec => []LInv
<1>1. QED
  BY TellInit, StepTells, GatewayInductive, PTL DEF Spec

\* Every variable of the gateway keeps its type, and no action is tried more often
\* than the executor's limit (retry.py MAX_ATTEMPTS).
THEOREM GatewayTypes == Spec => []TypeOK
<1>1. LInv => TypeOK
  BY DEF LInv
<1>2. QED
  BY <1>1, LedgersInductive, PTL

\* Whatever fails and whoever dies, the action records and the tool calls of a run
\* count the same attempts and name the same success (executor.py, mcp/ledger.py).
THEOREM LedgersAlwaysAgree == Spec => []LedgersAgree
<1>1. LInv => LedgersAgree
  BY DEF LInv, ReadsStand, LedgersAgree
<1>2. QED
  BY <1>1, LedgersInductive, PTL

-----------------------------------------------------------------------------
(* Flattening. *)

Joined(a, b) == a \o b

Recurs(f, parts, n) ==
  f = [i \in 1 .. n |-> IF i = 1 THEN parts[1] ELSE Joined(f[i - 1], parts[i])]

\* The recursion FlattenSeq is defined by has a solution.
LEMMA FlattenExists ==
  ASSUME NEW parts, NEW n \in Nat
  PROVE  \E f : Recurs(f, parts, n)
<1> DEFINE T == {k \in Nat : \E f : Recurs(f, parts, k)}
<1>1. 0 \in T
  <2> DEFINE f == [i \in 1 .. 0 |-> <<>>]
  <2>1. Recurs(f, parts, 0)
    BY DEF Recurs
  <2>2. QED
    BY <2>1
<1>2. ASSUME NEW k \in Nat, k \in T
      PROVE  k + 1 \in T
  <2>1. PICK f : Recurs(f, parts, k)
    BY <1>2
  <2> DEFINE g == [i \in 1 .. k + 1 |-> IF i <= k THEN f[i]
                                        ELSE IF i = 1 THEN parts[1] ELSE Joined(f[i - 1], parts[i])]
  <2>2. \A i \in 1 .. k : f[i] = IF i = 1 THEN parts[1] ELSE Joined(f[i - 1], parts[i])
    BY <2>1 DEF Recurs
  <2>3. ASSUME NEW i \in 1 .. k + 1
        PROVE  g[i] = IF i = 1 THEN parts[1] ELSE Joined(g[i - 1], parts[i])
    <3>1. i # 1 => i - 1 \in 1 .. k /\ g[i - 1] = f[i - 1]
      OBVIOUS
    <3>2. CASE i = 1
      BY <2>2, <3>2
    <3>3. CASE i # 1 /\ i <= k
      BY <2>2, <3>1, <3>3
    <3>4. CASE i # 1 /\ i = k + 1
      BY <3>1, <3>4
    <3>5. QED
      BY <3>2, <3>3, <3>4
  <2>4. g = [i \in 1 .. k + 1 |-> g[i]]
    OBVIOUS
  <2> HIDE DEF g
  <2>5. Recurs(g, parts, k + 1)
    BY <2>3, <2>4 DEF Recurs
  <2>6. QED
    BY <2>5
<1> HIDE DEF T
<1>3. Nat \subseteq T
  BY <1>1, <1>2, NatSetInduction
<1>4. QED
  BY <1>3 DEF T

\* What is flattened is the last of the partial results.
LEMMA FlattenLaw ==
  ASSUME NEW S, NEW n \in Nat, n # 0, NEW parts \in [1 .. n -> S]
  PROVE  \E f : Recurs(f, parts, n) /\ FlattenSeq(parts) = f[n]
<1>1. Len(parts) = n
  OBVIOUS
<1>2. \E f : Recurs(f, parts, n)
  BY FlattenExists
<1> DEFINE f == CHOOSE f : Recurs(f, parts, n)
<1>3. Recurs(f, parts, n)
  BY <1>2
<1>4. FlattenSeq(parts) =
        (CHOOSE g : g = [i \in 1 .. n |-> IF i = 1 THEN parts[i] ELSE g[i - 1] \o parts[i]])[n]
  BY <1>1, Zenon DEF FlattenSeq
<1>5. ASSUME NEW g
      PROVE  Recurs(g, parts, n) <=>
               g = [i \in 1 .. n |-> IF i = 1 THEN parts[i] ELSE g[i - 1] \o parts[i]]
  BY DEF Recurs, Joined
<1>6. f = CHOOSE g : g = [i \in 1 .. n |-> IF i = 1 THEN parts[i] ELSE g[i - 1] \o parts[i]]
  BY <1>5
<1>7. QED
  BY <1>3, <1>4, <1>6

\* Flattening one more part appends it.
LEMMA FlattenNext ==
  ASSUME NEW S, NEW n \in Nat, NEW parts \in [1 .. n + 1 -> Seq(S)]
  PROVE  FlattenSeq(parts) = FlattenSeq([j \in 1 .. n |-> parts[j]]) \o parts[n + 1]
<1> DEFINE before == [j \in 1 .. n |-> parts[j]]
<1>1. before \in [1 .. n -> Seq(S)] /\ n + 1 \in Nat /\ n + 1 # 0 /\ parts[n + 1] \in Seq(S)
  OBVIOUS
<1>2. PICK f : Recurs(f, parts, n + 1) /\ FlattenSeq(parts) = f[n + 1]
  BY <1>1, FlattenLaw
<1>3. \A i \in 1 .. n + 1 : f[i] = IF i = 1 THEN parts[1] ELSE Joined(f[i - 1], parts[i])
  BY <1>2 DEF Recurs
<1>4. CASE n = 0
  <2>1. before = <<>>
    BY <1>4
  <2>2. FlattenSeq(before) = <<>>
    BY <2>1 DEF FlattenSeq
  <2>3. <<>> \o parts[n + 1] = parts[n + 1]
    BY <1>1, ConcatEmptySeq
  <2>4. QED
    BY <1>2, <1>3, <1>4, <2>2, <2>3
<1>5. CASE n # 0
  <2>1. PICK g : Recurs(g, before, n) /\ FlattenSeq(before) = g[n]
    BY <1>1, <1>5, FlattenLaw
  <2>2. \A i \in 1 .. n : g[i] = IF i = 1 THEN parts[1] ELSE Joined(g[i - 1], parts[i])
    BY <2>1 DEF Recurs
  <2> DEFINE T == {k \in Nat : k \in 1 .. n => f[k] = g[k]}
  <2>3. 0 \in T
    OBVIOUS
  <2>4. ASSUME NEW k \in Nat, k \in T PROVE k + 1 \in T
    <3>1. CASE k = 0
      BY <1>3, <1>5, <2>2, <3>1
    <3>2. CASE k \in 1 .. n /\ k + 1 \in 1 .. n
      <4>1. f[k + 1] = Joined(f[k], parts[k + 1]) /\ g[k + 1] = Joined(g[k], parts[k + 1])
        BY <1>3, <2>2, <3>2
      <4>2. QED
        BY <2>4, <3>2, <4>1
    <3>3. QED
      BY <3>1, <3>2
  <2> HIDE DEF T
  <2>5. n \in T
    BY <2>3, <2>4, NatSetInduction
  <2>6. f[n] = g[n]
    BY <1>5, <2>5 DEF T
  <2>7. f[n + 1] = Joined(f[n], parts[n + 1])
    BY <1>3, <1>5
  <2>8. QED
    BY <1>2, <2>1, <2>6, <2>7, Zenon DEF Joined
<1>6. QED
  BY <1>4, <1>5

-----------------------------------------------------------------------------
(* Rows in the order of their instants. *)

\* s lists the rows of R, each before those of a later instant.
Lists(s, n, R) ==
  /\ s \in [1 .. n -> R]
  /\ \A r \in R : \E i \in 1 .. n : s[i] = r
  /\ \A i, j \in 1 .. n : i < j => s[i].at < s[j].at

Instants(R) ==
  /\ \A r \in R : r.at \in Nat
  /\ \A r, s \in R : r.at = s.at => r = s

\* A finite set of rows with instants of their own can be listed.
LEMMA ListsExist ==
  ASSUME NEW rows, IsFiniteSet(rows), Instants(rows)
  PROVE  \E s : Lists(s, Cardinality(rows), rows)
<1> DEFINE T == {n \in Nat : \A R \in SUBSET rows :
                               Cardinality(R) = n => \E s : Lists(s, n, R)}
<1>1. 0 \in T
  <2>1. ASSUME NEW R \in SUBSET rows, Cardinality(R) = 0
        PROVE  \E s : Lists(s, 0, R)
    <3>1. R = {}
      BY <2>1, FS_Subset, FS_EmptySet
    <3> DEFINE s == [i \in 1 .. 0 |-> 0]
    <3>2. Lists(s, 0, R)
      BY <3>1 DEF Lists
    <3>3. QED
      BY <3>2
  <2>2. QED
    BY <2>1
<1>2. ASSUME NEW n \in Nat, n \in T PROVE n + 1 \in T
  <2>1. ASSUME NEW R \in SUBSET rows, Cardinality(R) = n + 1
        PROVE  \E s : Lists(s, n + 1, R)
    <3>1. IsFiniteSet(R) /\ R # {}
      BY <2>1, FS_Subset, FS_EmptySet
    <3> DEFINE U == {r.at : r \in R}
    <3>2. U \subseteq Nat /\ U # {}
      BY <3>1 DEF Instants
    <3> HIDE DEF U
    <3>3. PICK m \in U : \A y \in U : m <= y
      BY <3>2, NatMin
    <3>4. PICK r \in R : r.at = m
      BY <3>3 DEF U
    <3> DEFINE Q == R \ {r}
    <3>5. Cardinality(Q) = n /\ Q \in SUBSET rows
      <4>1. Cardinality(Q) = IF r \in R THEN Cardinality(R) - 1 ELSE Cardinality(R)
        BY <3>1, FS_RemoveElement, Zenon
      <4>2. QED
        BY <2>1, <4>1
    <3>6. PICK s : Lists(s, n, Q)
      BY <1>2, <3>5
    <3>7. \A q \in Q : r.at < q.at /\ r.at \in Nat /\ q.at \in Nat
      BY <3>2, <3>3, <3>4 DEF U, Instants
    <3> DEFINE t == [i \in 1 .. n + 1 |-> IF i = 1 THEN r ELSE s[i - 1]]
    <3>8. \A i \in 1 .. n : s[i] \in Q /\ t[i + 1] = s[i]
      BY <3>6 DEF Lists
    <3>9. t[1] = r /\ \A i \in 1 .. n + 1 : i # 1 => t[i] = s[i - 1] /\ i - 1 \in 1 .. n
      OBVIOUS
    <3>10. t \in [1 .. n + 1 -> R]
      BY <3>8, <3>9
    <3>11. ASSUME NEW q \in R PROVE \E i \in 1 .. n + 1 : t[i] = q
      <4>1. CASE q = r
        BY <3>9, <4>1
      <4>2. CASE q # r
        <5>1. PICK i \in 1 .. n : s[i] = q
          BY <3>6, <4>2 DEF Lists
        <5>2. i + 1 \in 1 .. n + 1 /\ t[i + 1] = q
          BY <3>8, <5>1
        <5>3. QED
          BY <5>2
      <4>3. QED
        BY <4>1, <4>2
    <3>12. ASSUME NEW i \in 1 .. n + 1, NEW j \in 1 .. n + 1, i < j
           PROVE  t[i].at < t[j].at
      <4>1. CASE i = 1
        <5>1. t[i] = r /\ t[j] = s[j - 1] /\ j - 1 \in 1 .. n
          BY <3>12, <4>1
        <5>2. s[j - 1] \in Q
          BY <3>8, <5>1
        <5>3. QED
          BY <3>7, <5>1, <5>2
      <4>2. CASE i # 1
        <5>1. t[i] = s[i - 1] /\ t[j] = s[j - 1] /\ i - 1 \in 1 .. n /\ j - 1 \in 1 .. n
          BY <3>9, <3>12, <4>2
        <5>2. i - 1 < j - 1
          BY <3>12
        <5>3. QED
          BY <3>6, <5>1, <5>2 DEF Lists
      <4>3. QED
        BY <4>1, <4>2
    <3> HIDE DEF t
    <3>13. Lists(t, n + 1, R)
      BY <3>10, <3>11, <3>12 DEF Lists
    <3>14. QED
      BY <3>13
  <2>2. QED
    BY <2>1
<1> HIDE DEF T
<1>3. Nat \subseteq T
  BY <1>1, <1>2, NatSetInduction
<1>4. Cardinality(rows) \in Nat /\ rows \in SUBSET rows
  BY FS_CardinalityType
<1>5. QED
  BY <1>3, <1>4 DEF T

\* Two lists of the same rows are one.
LEMMA ListsUnique ==
  ASSUME NEW R, Instants(R), NEW n \in Nat, NEW s, NEW t, Lists(s, n, R), Lists(t, n, R)
  PROVE  s = t
<1> DEFINE D == {i \in 1 .. n : s[i] # t[i]}
<1>0. s \in [1 .. n -> R] /\ t \in [1 .. n -> R]
  BY DEF Lists
<1>1. SUFFICES ASSUME D # {} PROVE FALSE
  BY <1>0
<1>2. D \subseteq Nat
  OBVIOUS
<1>3. PICK i \in D : \A y \in D : i <= y
  BY <1>1, <1>2, NatMin
<1>4. i \in 1 .. n /\ s[i] # t[i] /\ s[i] \in R /\ t[i] \in R
  BY <1>3 DEF Lists
<1>5. \A j \in 1 .. n : j < i => s[j] = t[j]
  BY <1>3
<1>6. \A j \in 1 .. n : s[j].at \in Nat /\ t[j].at \in Nat
  BY DEF Lists, Instants
<1>7. s[i].at # t[i].at
  BY <1>4 DEF Instants
<1>8. CASE s[i].at < t[i].at
  <2>1. PICK k \in 1 .. n : t[k] = s[i]
    BY <1>4 DEF Lists
  <2>2. ~ (i < k) /\ k # i
    <3>1. i < k => t[i].at < t[k].at
      BY <1>4 DEF Lists
    <3>2. t[i].at \in Nat /\ t[k].at \in Nat
      BY <1>4, <1>6
    <3>3. QED
      BY <1>8, <2>1, <3>1, <3>2
  <2>3. k < i
    BY <1>4, <2>1, <2>2
  <2>4. s[k] = s[i] /\ s[k].at < s[i].at
    BY <1>4, <1>5, <2>1, <2>3 DEF Lists
  <2>5. QED
    BY <1>4, <1>6, <2>4
<1>9. CASE t[i].at < s[i].at
  <2>1. PICK k \in 1 .. n : s[k] = t[i]
    BY <1>4 DEF Lists
  <2>2. ~ (i < k) /\ k # i
    <3>1. i < k => s[i].at < s[k].at
      BY <1>4 DEF Lists
    <3>2. s[i].at \in Nat /\ s[k].at \in Nat
      BY <1>4, <1>6
    <3>3. QED
      BY <1>9, <2>1, <3>1, <3>2
  <2>3. k < i
    BY <1>4, <2>1, <2>2
  <2>4. t[k] = t[i] /\ t[k].at < t[i].at
    BY <1>4, <1>5, <2>1, <2>3 DEF Lists
  <2>5. QED
    BY <1>4, <1>6, <2>4
<1>10. QED
  BY <1>4, <1>6, <1>7, <1>8, <1>9

\* Whatever lists the rows of a query is its answer.
LEMMA OldestFirstIs ==
  ASSUME NEW R, Instants(R), NEW n \in Nat, NEW s, Lists(s, n, R)
  PROVE  OldestFirst(R) = s
<1>1. \A i, j \in 1 .. n : s[i] = s[j] => i = j
  BY DEF Lists, Instants
<1>2. s \in Bijection(1 .. n, R)
  BY <1>1, Zenon DEF Lists, Bijection, Injection, Surjection, IsInjective
<1>3. Cardinality(R) = n /\ IsFiniteSet(R) /\ IsFiniteSet(1 .. n) /\ Cardinality(1 .. n) = n
  <2>1. ExistsBijection(1 .. n, R)
    BY <1>2 DEF ExistsBijection
  <2>2. 1 \in Int /\ n \in Int
    OBVIOUS
  <2>3. IsFiniteSet(1 .. n) /\ Cardinality(1 .. n) = IF 1 > n THEN 0 ELSE n - 1 + 1
    BY <2>2, FS_Interval, Zenon
  <2>4. QED
    BY <2>1, <2>3, FS_CountingElements, FS_Bijection
<1> DEFINE ordered(t) == \A i, j \in DOMAIN t : i < j => t[i].at < t[j].at
<1>4. s \in [1 .. n -> R] /\ ordered(s)
  BY DEF Lists
<1>5. ASSUME NEW t \in [1 .. n -> R], ordered(t)
      PROVE  t = s
  <2>1. \A i, j \in 1 .. n : i < j => t[i].at < t[j].at
    BY <1>5
  <2>2. \A i, j \in 1 .. n : t[i] = t[j] => i = j
    BY <2>1 DEF Instants
  <2>3. t \in Injection(1 .. n, R)
    BY <2>2, Zenon DEF Injection, IsInjective
  <2>4. t \in Surjection(1 .. n, R)
    BY <1>3, <2>3, FS_Injection
  <2>5. \A r \in R : \E i \in 1 .. n : t[i] = r
    BY <2>4, Zenon DEF Surjection
  <2>6. Lists(t, n, R)
    BY <2>1, <2>5 DEF Lists
  <2>7. QED
    BY <2>6, ListsUnique
<1>6. OldestFirst(R) = CHOOSE t \in [1 .. n -> R] : ordered(t)
  BY <1>3 DEF OldestFirst
<1> HIDE DEF ordered
<1>7. QED
  BY <1>4, <1>5, <1>6

\* A query over a table answers with a list.
LEMMA OldestFirstLists ==
  ASSUME NEW R, IsFiniteSet(R), Instants(R)
  PROVE  Cardinality(R) \in Nat /\ Lists(OldestFirst(R), Cardinality(R), R)
<1>1. Cardinality(R) \in Nat
  BY FS_CardinalityType
<1>2. PICK s : Lists(s, Cardinality(R), R)
  BY ListsExist
<1>3. QED
  BY <1>1, <1>2, OldestFirstIs

\* The open ones of rows in order are what a query for the open ones lists.
LEMMA OpenInOrder ==
  ASSUME NEW R, IsFiniteSet(R), Instants(R)
  PROVE  ControlIssues(OldestFirst(R)).issues = OldestFirst({r \in R : r.status \in OpenStatus})
<1> DEFINE n == Cardinality(R)
           rows == OldestFirst(R)
           part(j) == IF rows[j].status \in OpenStatus THEN <<rows[j]>> ELSE <<>>
           parts(k) == [j \in 1 .. k |-> part(j)]
           upto(k) == {r \in R : r.status \in OpenStatus /\ \E j \in 1 .. k : rows[j] = r}
<1>1. n \in Nat /\ Lists(rows, n, R)
  BY OldestFirstLists
<1> HIDE DEF n, rows
<1>2. /\ rows \in [1 .. n -> R] /\ DOMAIN rows = 1 .. n
      /\ \A r \in R : \E i \in 1 .. n : rows[i] = r
      /\ \A i, j \in 1 .. n : i < j => rows[i].at < rows[j].at
  BY <1>1 DEF Lists
<1> DEFINE T == {k \in Nat : k <= n =>
                   \E m \in Nat : Lists(FlattenSeq(parts(k)), m, upto(k))}
<1>3. 0 \in T
  <2>1. parts(0) = <<>> /\ upto(0) = {}
    OBVIOUS
  <2>2. FlattenSeq(<<>>) = <<>>
    BY DEF FlattenSeq
  <2>3. Lists(<<>>, 0, {})
    BY DEF Lists
  <2>4. QED
    BY <2>1, <2>2, <2>3
<1>4. ASSUME NEW k \in Nat, k \in T PROVE k + 1 \in T
  <2>1. SUFFICES ASSUME k + 1 <= n
                 PROVE  \E m \in Nat : Lists(FlattenSeq(parts(k + 1)), m, upto(k + 1))
    <3>1. k + 1 \in Nat
      OBVIOUS
    <3>2. QED
      BY <3>1, Zenon
  <2>2. k <= n /\ k + 1 \in 1 .. n /\ n \in Nat
    BY <1>1, <2>1
  <2>3. PICK m \in Nat : Lists(FlattenSeq(parts(k)), m, upto(k))
    BY <1>4, <2>2
  <2> DEFINE s == FlattenSeq(parts(k))
             row == rows[k + 1]
  <2>4. row \in R
    BY <1>2, <2>2
  <2>5. FlattenSeq(parts(k + 1)) = s \o part(k + 1)
    <3> DEFINE p == parts(k + 1)
    <3>1. p \in [1 .. k + 1 -> Seq(R)]
      <4>1. \A j \in 1 .. k + 1 : rows[j] \in R
        BY <1>2, <2>2
      <4>2. QED
        BY <4>1
    <3>2. p[k + 1] = part(k + 1) /\ [j \in 1 .. k |-> p[j]] = parts(k)
      OBVIOUS
    <3> HIDE DEF p
    <3>3. FlattenSeq(p) = FlattenSeq([j \in 1 .. k |-> p[j]]) \o p[k + 1]
      BY <3>1, FlattenNext
    <3> HIDE DEF part, parts
    <3>4. QED
      BY <3>2, <3>3 DEF p
  <2>6. s \in [1 .. m -> upto(k)] /\ s \in Seq(R) /\ Len(s) = m
    <3>1. s \in [1 .. m -> upto(k)]
      BY <2>3 DEF Lists
    <3>2. upto(k) \subseteq R
      OBVIOUS
    <3> HIDE DEF s, upto
    <3>3. s \in [1 .. m -> R]
      BY <3>1, <3>2
    <3>4. QED
      BY <3>1, <3>3
  <2>7. CASE row.status \notin OpenStatus
    <3>1. part(k + 1) = <<>> /\ upto(k + 1) = upto(k)
      <4>1. upto(k + 1) \subseteq upto(k)
        <5>1. ASSUME NEW r \in upto(k + 1) PROVE r \in upto(k)
          <6>1. PICK j \in 1 .. k + 1 : rows[j] = r
            OBVIOUS
          <6>2. j # k + 1
            BY <2>7, <6>1
          <6>3. QED
            BY <6>1, <6>2
        <5>2. QED
          BY <5>1
      <4>2. QED
        BY <2>7, <4>1
    <3> HIDE DEF s, part, upto, row
    <3>2. s \o <<>> = s
      BY <2>6, ConcatEmptySeq
    <3>3. QED
      BY <2>3, <2>5, <3>1, <3>2 DEF s
  <2>8. CASE row.status \in OpenStatus
    <3>1. part(k + 1) = <<row>>
      BY <2>8
    <3>2. upto(k + 1) = upto(k) \cup {row}
      <4>1. upto(k + 1) \subseteq upto(k) \cup {row}
        <5>1. ASSUME NEW r \in upto(k + 1) PROVE r \in upto(k) \cup {row}
          <6>1. PICK j \in 1 .. k + 1 : rows[j] = r
            OBVIOUS
          <6>2. CASE j = k + 1
            BY <6>1, <6>2
          <6>3. CASE j \in 1 .. k
            BY <6>1, <6>3
          <6>4. QED
            BY <6>2, <6>3
        <5>2. QED
          BY <5>1
      <4>2. row \in upto(k + 1)
        BY <2>4, <2>8
      <4>3. QED
        BY <4>1, <4>2
    <3>3. \A q \in upto(k) : q.at < row.at
      <4>1. ASSUME NEW q \in upto(k) PROVE q.at < row.at
        <5>1. PICK j \in 1 .. k : rows[j] = q
          OBVIOUS
        <5>2. j \in 1 .. n /\ j < k + 1
          BY <2>2
        <5>3. QED
          BY <1>2, <2>2, <5>1, <5>2
      <4>2. QED
        BY <4>1
    <3> DEFINE t == s \o <<row>>
    <3>4. t = Append(s, row)
      BY <2>4, <2>6
    <3> HIDE DEF upto, s, row, part
    <3>6. /\ \A i \in 1 .. m : t[i] = s[i] /\ s[i] \in upto(k)
          /\ t[m + 1] = row
          /\ t = [i \in 1 .. m + 1 |-> t[i]]
      BY <2>4, <2>6, <3>4
    <3> HIDE DEF t
    <3>5. t \in [1 .. m + 1 -> upto(k + 1)]
      <4>1. ASSUME NEW i \in 1 .. m + 1 PROVE t[i] \in upto(k + 1)
        <5>1. CASE i = m + 1
          BY <3>2, <3>6, <5>1
        <5>2. CASE i \in 1 .. m
          BY <3>2, <3>6, <5>2
        <5>3. QED
          BY <5>1, <5>2
      <4>2. QED
        BY <3>6, <4>1
    <3>7. \A r \in upto(k + 1) : \E i \in 1 .. m + 1 : t[i] = r
      <4>1. ASSUME NEW r \in upto(k) PROVE \E i \in 1 .. m + 1 : t[i] = r
        <5>1. PICK i \in 1 .. m : s[i] = r
          BY <2>3 DEF Lists, s
        <5>2. QED
          BY <3>6, <5>1
      <4>2. m + 1 \in 1 .. m + 1
        OBVIOUS
      <4>3. QED
        BY <3>2, <3>6, <4>1, <4>2
    <3>8. ASSUME NEW i \in 1 .. m + 1, NEW j \in 1 .. m + 1, i < j
          PROVE  t[i].at < t[j].at
      <4>1. i \in 1 .. m
        BY <3>8
      <4>2. CASE j = m + 1
        BY <3>3, <3>6, <4>1, <4>2
      <4>3. CASE j \in 1 .. m
        <5>1. s[i].at < s[j].at
          BY <2>3, <3>8, <4>1, <4>3 DEF Lists, s
        <5>2. QED
          BY <3>6, <4>1, <4>3, <5>1
      <4>4. QED
        BY <4>2, <4>3
    <3>9. Lists(t, m + 1, upto(k + 1))
      BY <3>5, <3>7, <3>8 DEF Lists
    <3> HIDE DEF parts
    <3>10. FlattenSeq(parts(k + 1)) = t /\ m + 1 \in Nat
      BY <2>5, <3>1 DEF t
    <3>11. QED
      BY <3>9, <3>10
  <2>9. QED
    BY <2>7, <2>8
<1> HIDE DEF T
<1>5. n \in T
  BY <1>1, <1>3, <1>4, NatSetInduction
<1>6. PICK m \in Nat : Lists(FlattenSeq(parts(n)), m, upto(n))
  BY <1>1, <1>5 DEF T
<1> DEFINE open == {r \in R : r.status \in OpenStatus}
<1>7. upto(n) = open /\ Instants(open)
  BY <1>2 DEF Instants
<1>8. ControlIssues(rows).issues = FlattenSeq(parts(n))
  BY <1>2 DEF ControlIssues
<1> HIDE DEF open, upto, parts
<1>9. OldestFirst(open) = FlattenSeq(parts(n))
  BY <1>6, <1>7, OldestFirstIs
<1>10. QED
  BY <1>8, <1>9 DEF rows, open

-----------------------------------------------------------------------------
(* The sources of a selection. *)

\* Setting the meetings aside leaves the other tables.
LEMMA OtherTables ==
  ASSUME NEW m, IsMirror(m)
  PROVE  LET w == WithoutMeetings(m)
         IN  /\ w.owner = m.owner /\ w.activities = m.activities
             /\ w.usage = m.usage /\ w.issues = m.issues
             /\ w.engagement = {r \in m.engagement : r.kind # "meeting_held"}
<1>1. DOMAIN m = {"accounts", "owner", "profiles", "activities", "usage", "engagement", "issues"}
  BY DEF IsMirror
<1>2. QED
  BY <1>1, Zenon DEF WithoutMeetings

\* The rows of an account in a table have instants of their own.
LEMMA RowsOrdered ==
  ASSUME NEW table, IsTable(table), NEW a
  PROVE  IsFiniteSet(RowsOf(table, a)) /\ Instants(RowsOf(table, a))
<1>1. RowsOf(table, a) \in SUBSET table
  BY DEF RowsOf
<1>2. IsFiniteSet(RowsOf(table, a))
  BY <1>1, FS_Subset DEF IsTable
<1>3. QED
  BY <1>2 DEF Instants, IsTable, RowsOf

\* Each source answers over MCP what the control reads, meetings aside.
LEMMA SourceMatches ==
  ASSUME NEW m, IsMirror(m), NEW source \in EvidenceSource, NEW opp
  PROVE  Canonical(source, Payload(m, source, Subject(m, source, opp)))
           = Control(WithoutMeetings(m), source, opp)
<1> DEFINE w == WithoutMeetings(m)
           a == m.owner[opp]
<1>1. /\ w.owner = m.owner /\ w.activities = m.activities
      /\ w.usage = m.usage /\ w.issues = m.issues
      /\ w.engagement = {r \in m.engagement : r.kind # "meeting_held"}
  BY OtherTables
<1> HIDE DEF w
<1>2. CASE source = "crm_get_opportunity"
  <2>1. Subject(m, source, opp) = opp
    BY <1>2 DEF Subject
  <2>2. Payload(m, source, opp) = [opportunity |-> opp, account |-> a]
    BY <1>2, Zenon DEF Payload
  <2>3. Canonical(source, Payload(m, source, opp))
          = <<Record(source, [opportunity |-> opp, account |-> a])>>
    BY <1>2, <2>2, Zenon DEF Canonical
  <2>4. Control(w, source, opp) = <<Record(source, [opportunity |-> opp, account |-> a])>>
    BY <1>1, <1>2, Zenon DEF Control
  <2>5. QED
    BY <2>1, <2>3, <2>4 DEF w
<1>3. CASE source = "crm_list_account_activities"
  <2>1. Subject(m, source, opp) = a
    BY <1>3 DEF Subject
  <2>2. {r \in RowsOf(m.activities, a) : r.at >= BeginningOfTime} = RowsOf(m.activities, a)
    BY DEF IsMirror, IsTable, RowsOf, BeginningOfTime
  <2> DEFINE few == FirstFew(LatestFirst(RowsOf(m.activities, a)), ActivityLimit)
  <2>3. Payload(m, source, a) = [rows |-> few]
    BY <1>3, <2>2, Zenon DEF Payload, ListAccountActivities
  <2> HIDE DEF few
  <2>4. Canonical(source, [rows |-> few]) = <<Record(source, [count |-> Len(few), rows |-> few])>>
    <3>1. [rows |-> few].rows = few
      OBVIOUS
    <3>2. QED
      BY <1>3, <3>1, Zenon DEF Canonical
  <2>5. Control(w, source, opp) = <<Record(source, [count |-> Len(few), rows |-> few])>>
    BY <1>1, <1>3, Zenon DEF Control, ControlActivities, few
  <2>6. QED
    BY <2>1, <2>3, <2>4, <2>5 DEF w
<1>4. CASE source = "product_get_usage_summary"
  <2>1. Subject(m, source, opp) = a
    BY <1>4 DEF Subject
  <2>2. {r \in RowsOf(m.usage, a) : r.at >= EarliestPeriod /\ r.until <= LatestPeriod}
          = RowsOf(m.usage, a)
    BY DEF IsMirror, IsTable, RowsOf, EarliestPeriod
  <2> DEFINE weeks == Periods(OldestFirst(RowsOf(m.usage, a)))
  <2>3. Payload(m, source, a) = [periods |-> weeks]
    BY <1>4, <2>2, Zenon DEF Payload, UsageSummary
  <2> HIDE DEF weeks
  <2>4. Canonical(source, [periods |-> weeks]) = [j \in DOMAIN weeks |-> Record(source, weeks[j])]
    <3>1. [periods |-> weeks].periods = weeks
      OBVIOUS
    <3>2. QED
      BY <1>4, <3>1, Zenon DEF Canonical
  <2>5. Control(w, source, opp) = [j \in DOMAIN weeks |-> Record(source, weeks[j])]
    BY <1>1, <1>4, Zenon DEF Control, weeks
  <2>6. QED
    BY <2>1, <2>3, <2>4, <2>5 DEF w
<1>5. CASE source = "engagement_get_email_activity"
  <2>1. Subject(m, source, opp) = a
    BY <1>5 DEF Subject
  <2>2. {r \in RowsOf(m.engagement, a) : r.at >= BeginningOfTime /\ r.kind \in EmailKind}
          = RowsOf(w.engagement, a)
    <3>1. \A r \in m.engagement : r.at >= 0 /\ (r.kind \in EmailKind <=> r.kind # "meeting_held")
      BY DEF IsMirror, IsTable, EmailKind
    <3>2. QED
      BY <1>1, <3>1 DEF RowsOf, BeginningOfTime
  <2> DEFINE rows == OldestFirst(RowsOf(w.engagement, a))
  <2>3. Payload(m, source, a) = [totals |-> Totals(rows), events |-> rows]
    BY <1>5, <2>2, Zenon DEF Payload, EmailActivity, Engagement
  <2> HIDE DEF rows
  <2> DEFINE content == [totals |-> Totals(rows),
                         meetings |-> TotalOf(Totals(rows), "meeting_held"), events |-> rows]
  <2>4. Canonical(source, [totals |-> Totals(rows), events |-> rows])
          = <<Record(source, content)>>
    <3>1. /\ [totals |-> Totals(rows), events |-> rows].totals = Totals(rows)
          /\ [totals |-> Totals(rows), events |-> rows].events = rows
      OBVIOUS
    <3>2. QED
      BY <1>5, <3>1, Zenon DEF Canonical
  <2>5. Control(w, source, opp) = <<Record(source, content)>>
    BY <1>1, <1>5, Zenon DEF Control, ControlEngagement, rows
  <2>6. QED
    BY <2>1, <2>3, <2>4, <2>5 DEF w
<1>6. CASE source = "support_get_open_issues"
  <2>1. Subject(m, source, opp) = a
    BY <1>6 DEF Subject
  <2> DEFINE all == RowsOf(m.issues, a)
             open == OldestFirst({r \in all : r.status \in OpenStatus})
             control == ControlIssues(OldestFirst(all))
  <2>2. Payload(m, source, a) = [issues |-> open]
    BY <1>6, Zenon DEF Payload, OpenIssues
  <2>3. control.issues = open
    BY RowsOrdered, OpenInOrder DEF IsMirror
  <2>4. control = [open |-> Len(control.issues), issues |-> control.issues]
    BY DEF ControlIssues
  <2>5. Control(w, source, opp) = <<Record(source, control)>>
    BY <1>1, <1>6, Zenon DEF Control
  <2> HIDE DEF open, control
  <2>6. Canonical(source, [issues |-> open])
          = <<Record(source, [open |-> Len(open), issues |-> open])>>
    <3>1. [issues |-> open].issues = open
      OBVIOUS
    <3>2. QED
      BY <1>6, <3>1, Zenon DEF Canonical
  <2>7. QED
    BY <2>1, <2>2, <2>3, <2>4, <2>5, <2>6 DEF w
<1>7. QED
  BY <1>2, <1>3, <1>4, <1>5, <1>6 DEF EvidenceSource

\* A source answers with a sequence of records.
LEMMA ControlIsSeq ==
  ASSUME NEW m, IsMirror(m), NEW source \in EvidenceSource, NEW opp
  PROVE  \E S : Control(WithoutMeetings(m), source, opp) \in Seq(S)
<1> DEFINE w == WithoutMeetings(m)
           rows == OldestFirst(RowsOf(m.usage, m.owner[opp]))
           weeks == Periods(rows)
<1>1. w.usage = m.usage /\ w.owner = m.owner
  BY OtherTables
<1> HIDE DEF w
<1>2. CASE source = "product_get_usage_summary"
  <2>1. PICK n \in Nat : DOMAIN rows = 1 .. n
    <3>1. PICK n \in Nat : rows \in [1 .. n -> RowsOf(m.usage, m.owner[opp])]
      BY RowsOrdered, OldestFirstLists DEF IsMirror, Lists
    <3>2. QED
      BY <3>1
  <2> HIDE DEF rows
  <2>2. DOMAIN weeks = 1 .. n
    BY <2>1 DEF Periods
  <2> HIDE DEF weeks
  <2> DEFINE s == [j \in 1 .. n |-> Record(source, weeks[j])]
  <2>3. Control(w, source, opp) = s
    BY <1>1, <1>2, <2>2, Zenon DEF Control, weeks, rows
  <2>4. s \in Seq({s[j] : j \in 1 .. n})
    OBVIOUS
  <2>5. QED
    BY <2>3, <2>4 DEF w
<1>3. CASE source # "product_get_usage_summary"
  <2>1. \E content : Control(w, source, opp) = <<content>>
    BY <1>3, Zenon DEF Control, EvidenceSource
  <2>2. PICK content : Control(w, source, opp) = <<content>>
    BY <2>1
  <2>3. <<content>> \in Seq({content})
    OBVIOUS
  <2>4. QED
    BY <2>2, <2>3 DEF w
<1>4. QED
  BY <1>2, <1>3

\* What the control reads of one more source comes behind the rest.
LEMMA ControlNext ==
  ASSUME NEW m, IsMirror(m), NEW opp, NEW sources \in Seq(EvidenceSource),
         NEW n \in Nat, n < Len(sources)
  PROVE  LET w == WithoutMeetings(m)
         IN  ControlEvidence(w, SubSeq(sources, 1, n + 1), opp)
               = ControlEvidence(w, SubSeq(sources, 1, n), opp) \o Control(w, sources[n + 1], opp)
<1> DEFINE w == WithoutMeetings(m)
           part(j) == Control(w, sources[j], opp)
           parts(k) == [j \in 1 .. k |-> part(j)]
<1>1. \A j \in 1 .. n + 1 : sources[j] \in EvidenceSource /\ \E S : part(j) \in Seq(S)
  BY ControlIsSeq
<1>2. \E S : parts(n + 1) \in [1 .. n + 1 -> Seq(S)]
  <2> DEFINE S == UNION {{part(j)[i] : i \in DOMAIN part(j)} : j \in 1 .. n + 1}
  <2>1. ASSUME NEW j \in 1 .. n + 1 PROVE part(j) \in Seq(S)
    <3> DEFINE p == part(j)
               P == {p[i] : i \in DOMAIN p}
    <3>1. PICK U : p \in Seq(U)
      BY <1>1
    <3>2. P \subseteq S
      OBVIOUS
    <3> HIDE DEF p, S
    <3>3. p \in Seq(P)
      BY <3>1
    <3>4. p \in Seq(S)
      BY <3>2, <3>3
    <3>5. QED
      BY <3>4 DEF p
  <2> HIDE DEF S, part
  <2>2. QED
    BY <2>1
<1>3. ASSUME NEW k \in Nat, k <= Len(sources)
      PROVE  ControlEvidence(w, SubSeq(sources, 1, k), opp) = FlattenSeq(parts(k))
  <2> DEFINE sub == SubSeq(sources, 1, k)
  <2>1. DOMAIN sub = 1 .. k /\ \A j \in 1 .. k : sub[j] = sources[j]
    BY <1>3
  <2> HIDE DEF sub, w
  <2>2. [j \in DOMAIN sub |-> Control(w, sub[j], opp)] = parts(k)
    BY <2>1
  <2>3. QED
    BY <2>2, Zenon DEF ControlEvidence, sub
<1>4. n + 1 <= Len(sources) /\ n <= Len(sources) /\ n + 1 \in Nat
  BY LenProperties
<1>5. /\ parts(n + 1)[n + 1] = part(n + 1)
      /\ [j \in 1 .. n |-> parts(n + 1)[j]] = parts(n)
  OBVIOUS
<1> HIDE DEF parts, part, w
<1>6. FlattenSeq(parts(n + 1)) = FlattenSeq(parts(n)) \o part(n + 1)
  <2>1. PICK S : parts(n + 1) \in [1 .. n + 1 -> Seq(S)]
    BY <1>2
  <2> DEFINE p == parts(n + 1)
  <2>2. p \in [1 .. n + 1 -> Seq(S)]
    BY <2>1
  <2> HIDE DEF p
  <2>3. FlattenSeq(p) = FlattenSeq([j \in 1 .. n |-> p[j]]) \o p[n + 1]
    BY <2>2, FlattenNext
  <2>4. QED
    BY <1>5, <2>3 DEF p
<1>7. QED
  BY <1>3, <1>4, <1>6 DEF w, part

-----------------------------------------------------------------------------
(* The evidence of a run. *)

\* What a command has gathered is what the control reads of the sources so far.
EvidenceShape ==
  /\ pc = "idle" => evidence = <<>>
  /\ pc = "gather" =>
       evidence = ControlEvidence(WithoutMeetings(mirror), SubSeq(selection, 1, Len(calls)),
                                  Opportunity)
  /\ ~investigated /\ pc \in {"pass", "call"} =>
       evidence = ControlEvidence(WithoutMeetings(mirror), selection, Opportunity)

EInv == EvidenceShape /\ EvidenceMatchesControl

\* Of no source the control reads nothing.
LEMMA ControlNothing ==
  ASSUME NEW m, NEW opp, NEW sources \in Seq(EvidenceSource)
  PROVE  ControlEvidence(m, SubSeq(sources, 1, 0), opp) = <<>>
<1> DEFINE none == SubSeq(sources, 1, 0)
<1>1. DOMAIN none = {}
  OBVIOUS
<1> HIDE DEF none
<1>2. [j \in DOMAIN none |-> Control(m, none[j], opp)] = <<>>
  BY <1>1
<1>3. FlattenSeq(<<>>) = <<>>
  BY DEF FlattenSeq
<1>4. QED
  BY <1>2, <1>3, Zenon DEF ControlEvidence, none

\* A command that begins to gather has nothing yet.
LEMMA BeginReads ==
  ASSUME LInv, EInv, BeginInvestigate
  PROVE  EInv'
<1>1. /\ pc = "idle" /\ pc' = "gather" /\ calls' = <<>> /\ evidence' = <<>>
      /\ ~investigated /\ ~investigated' /\ stored = <<>> /\ stored' = stored
      /\ selection' \in Seq(EvidenceSource)
  BY SelectionAssumption
  DEF BeginInvestigate, LInv, ReadsStand, EInv, EvidenceShape, EvidenceMatchesControl,
      transactionVars
<1>2. ControlEvidence(WithoutMeetings(mirror'), SubSeq(selection', 1, 0), Opportunity) = <<>>
  BY <1>1, ControlNothing
<1>3. Len(<<>>) = 0
  OBVIOUS
<1>4. EvidenceShape'
  BY <1>1, <1>2, <1>3, Zenon DEF EvidenceShape
<1>5. EvidenceMatchesControl'
  BY <1>1, Zenon DEF EvidenceMatchesControl
<1>6. QED
  BY <1>4, <1>5 DEF EInv

\* One more source read over MCP is one more source the control reads.
LEMMA SourceReads ==
  ASSUME LInv, EInv, ReadSource
  PROVE  EInv'
<1> DEFINE n == Len(calls)
           w == WithoutMeetings(mirror)
<1>1. /\ pc = "gather" /\ pc' = pc /\ n < Len(selection)
      /\ n \in Nat /\ Len(selection) \in Nat
      /\ NextSource = selection[n + 1]
      /\ evidence' = evidence \o
           Canonical(NextSource, Payload(mirror, NextSource,
                                         Subject(mirror, NextSource, Opportunity)))
  BY GatheredAll DEF ReadSource, NextSource
<1>2. UNCHANGED <<mirror, investigated, selection, stored>>
  BY DEF ReadSource, worldVars, runVars
<1>3. ~investigated /\ stored = <<>>
  BY <1>1 DEF LInv, ReadsStand, EInv, EvidenceMatchesControl
<1>4. selection \in Seq(EvidenceSource) /\ IsMirror(mirror) /\ NextSource \in EvidenceSource
  <2>1. selection \in Seq(EvidenceSource)
    BY SelectionAssumption, EmptySeq DEF LInv, TypeOK
  <2>2. n + 1 \in 1 .. Len(selection)
    BY <1>1
  <2>3. IsMirror(mirror)
    BY MirrorAssumption DEF LInv, TypeOK
  <2>4. QED
    BY <1>1, <2>1, <2>2, <2>3, ElementOfSeq
<1>5. Len(calls') = n + 1
  <2>1. \E row : calls' = Append(calls, row)
    BY DEF ReadSource, Dispatched, Recorded
  <2>2. QED
    BY <2>1, AppendProperties DEF LInv, TypeOK
<1>6. evidence = ControlEvidence(w, SubSeq(selection, 1, n), Opportunity)
  BY <1>1 DEF EInv, EvidenceShape
<1>7. evidence' = evidence \o Control(w, selection[n + 1], Opportunity)
  BY <1>1, <1>4, SourceMatches
<1>8. ControlEvidence(w, SubSeq(selection, 1, n + 1), Opportunity)
        = ControlEvidence(w, SubSeq(selection, 1, n), Opportunity)
            \o Control(w, selection[n + 1], Opportunity)
  BY <1>1, <1>4, ControlNext
<1> DEFINE more == ControlEvidence(w, SubSeq(selection, 1, n + 1), Opportunity)
<1>9. evidence' = more
  BY <1>6, <1>7, <1>8, Zenon
<1>10. EvidenceShape'
  BY <1>1, <1>2, <1>5, <1>9, Zenon DEF EvidenceShape
<1>11. EvidenceMatchesControl'
  BY <1>2, <1>3, Zenon DEF EvidenceMatchesControl
<1>12. QED
  BY <1>10, <1>11 DEF EInv

\* With the whole selection read, the evidence is the control's for it.
LEMMA GatherEnds ==
  ASSUME LInv, EInv, EndGather
  PROVE  EInv'
<1>1. /\ pc = "gather" /\ pc' = "pass" /\ Len(calls) = Len(selection)
      /\ UNCHANGED <<mirror, investigated, selection, stored, evidence, calls>>
  BY GatheredAll DEF EndGather, worldVars, runVars, transactionVars
<1>2. SubSeq(selection, 1, Len(selection)) = selection
  <2>1. selection \in Seq(EvidenceSource)
    BY SelectionAssumption, EmptySeq DEF LInv, TypeOK
  <2>2. QED
    BY <2>1
<1>3. evidence = ControlEvidence(WithoutMeetings(mirror), selection, Opportunity)
  BY <1>1, <1>2, Zenon DEF EInv, EvidenceShape
<1>4. EvidenceShape'
  BY <1>1, <1>3, Zenon DEF EvidenceShape
<1>5. EvidenceMatchesControl'
  BY <1>1, Zenon DEF EInv, EvidenceMatchesControl
<1>6. QED
  BY <1>4, <1>5 DEF EInv

\* The pass over the actions leaves the evidence alone.
LEMMA PassReads ==
  ASSUME EInv, UNCHANGED <<mirror, investigated, selection, stored, evidence>>,
         \/ pc \in {"pass", "call"} /\ pc' \in {"pass", "call"}
         \/ pc = "idle" /\ investigated /\ pc' = "pass"
         \/ UNCHANGED <<pc, calls>>
  PROVE  EInv'
<1>1. EvidenceMatchesControl'
  BY Zenon DEF EInv, EvidenceMatchesControl
<1>2. EvidenceShape'
  <2>1. pc' = "idle" => evidence' = <<>>
    BY DEF EInv, EvidenceShape
  <2>2. pc' = "gather" => pc = "gather" /\ calls' = calls
    OBVIOUS
  <2>3. ~investigated' /\ pc' \in {"pass", "call"} => ~investigated /\ pc \in {"pass", "call"}
    OBVIOUS
  <2>4. QED
    BY <2>1, <2>2, <2>3, Zenon DEF EInv, EvidenceShape
<1>3. QED
  BY <1>1, <1>2 DEF EInv

\* A command that ends, however it ends, has nothing left and stores all or nothing.
LEMMA EndReads ==
  ASSUME EInv, Rollback \/ Commit
  PROVE  EInv'
<1>1. pc' = "idle" /\ evidence' = <<>> /\ mirror' = mirror
  BY DEF Rollback, Commit, Forget, worldVars
<1>2. EvidenceShape'
  BY <1>1 DEF EvidenceShape
<1>3. CASE Rollback
  <2>1. /\ investigated' = investigated /\ stored' = stored
        /\ investigated => selection' = selection
    BY <1>3 DEF Rollback
  <2>2. EvidenceMatchesControl'
    BY <1>1, <2>1, Zenon DEF EInv, EvidenceMatchesControl
  <2>3. QED
    BY <1>2, <2>2 DEF EInv
<1>4. CASE Commit
  <2>1. /\ pc = "pass" /\ investigated' = TRUE /\ selection' = selection
        /\ stored' = IF investigated THEN stored ELSE evidence
    BY <1>4 DEF Commit
  <2>2. CASE investigated
    BY <1>1, <1>2, <2>1, <2>2, Zenon DEF EInv, EvidenceMatchesControl
  <2>3. CASE ~investigated
    <3>1. evidence = ControlEvidence(WithoutMeetings(mirror), selection, Opportunity)
      BY <2>1, <2>3 DEF EInv, EvidenceShape
    <3>2. EvidenceMatchesControl'
      BY <1>1, <2>1, <2>3, <3>1, Zenon DEF EvidenceMatchesControl
    <3>3. QED
      BY <1>2, <3>2 DEF EInv
  <2>4. QED
    BY <2>2, <2>3
<1>5. QED
  BY <1>3, <1>4

\* Every step keeps the evidence to what the control reads.
LEMMA StepReads == LInv /\ EInv /\ [Next]_vars => EInv'
<1> SUFFICES ASSUME LInv, EInv, [Next]_vars PROVE EInv'
  OBVIOUS
<1>1. CASE BeginInvestigate
  BY <1>1, BeginReads
<1>2. CASE ReadSource
  BY <1>2, SourceReads
<1>3. CASE EndGather
  BY <1>3, GatherEnds
<1>4. CASE SourceFails \/ Crash \/ Commit
  BY <1>4, EndReads DEF SourceFails, Crash
<1>5. CASE BeginResume \/ Skip \/ Claim \/ Resolve
  BY <1>5, PassReads
  DEF BeginResume, Skip, Claim, Resolve, worldVars, runVars, transactionVars
<1>6. CASE CallSucceeds \/ CallRetries \/ CallFails
  <2>1. \E code : Attempt(code) /\ pc' \in {"pass", "call"}
    BY <1>6 DEF CallSucceeds, CallRetries, CallFails, Settled, Attempt
  <2>2. QED
    BY <2>1, PassReads DEF Attempt, worldVars, runVars
<1>7. CASE \E i \in Item : Approve(i)
  BY <1>7, PassReads DEF Approve, worldVars, runVars, transactionVars
<1>8. CASE \E tool \in Tool \cup {UnknownTool}, arguments \in Arguments, found \in BOOLEAN :
             StdioCall(tool, arguments, found)
  BY <1>8, PassReads DEF StdioCall, worldVars, runVars, transactionVars
<1>9. CASE StdioStops
  BY <1>9, PassReads DEF StdioStops, worldVars, runVars, transactionVars
<1>10. CASE UNCHANGED vars
  BY <1>10, PassReads DEF vars, worldVars, runVars, transactionVars
<1>11. QED
  BY <1>1, <1>2, <1>3, <1>4, <1>5, <1>6, <1>7, <1>8, <1>9, <1>10 DEF Next

\* At every step of every command the evidence gathered so far is what the control
\* reads of the sources so far (researcher.py gather, mcp_evidence_source.py).
THEOREM EvidenceInductive == Spec => []EInv
<1>1. Init => EInv
  BY DEF Init, EInv, EvidenceShape, EvidenceMatchesControl
<1>2. QED
  BY <1>1, StepReads, LedgersInductive, PTL DEF Spec

\* Whatever the mirror holds, whichever sources fail and whoever dies, the evidence of a
\* committed run is the repository control's for its whole selection, meetings aside
\* (mcp_evidence_source.py, evidence_source.py).
THEOREM EvidenceAlwaysMatches == Spec => []EvidenceMatchesControl
<1>1. EInv => EvidenceMatchesControl
  BY DEF EInv
<1>2. QED
  BY <1>1, EvidenceInductive, PTL

=============================================================================
