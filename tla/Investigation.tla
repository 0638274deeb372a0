--------------------------- MODULE Investigation ---------------------------
(***************************************************************************)
(* Investigations of several incidents running at once against one GLOBAL  *)
(* budget: the graph of six nodes, the admission control in front of every *)
(* model call, and the ledger that books what a call really cost           *)
(* (orchestration/graph.py and nodes.py, cost/client.py, governor.py and   *)
(* ledger.py).                                                             *)
(*                                                                         *)
(* A run is one transaction, from the move to INVESTIGATING to the end of  *)
(* its execution phase.  It locks the incident row first and, from its     *)
(* first charge on, the GLOBAL budget row; both until it commits or rolls  *)
(* back.  A refusal, an answer that fails validation and a dying process   *)
(* all roll it back, after which the incident is TRIAGED again and nothing *)
(* of the run is left, except what the provider will bill.                 *)
(*                                                                         *)
(* The mode is live: a call costs something.  In fixture mode every call   *)
(* costs zero, and a charge of zero updates no row.  Money is counted in   *)
(* an arbitrary unit.                                                      *)
(***************************************************************************)
EXTENDS Naturals, Sequences, FiniteSets

CONSTANTS
  Run,            \* runs that may ever be started
  NoRun,
  Incident,
  IncidentOf,     \* [Run -> Incident]
  Reserve,        \* [LlmNode -> Nat]: the worst case the governor prices
  CostsOf,        \* [LlmNode -> SUBSET Nat]: what the provider may charge
  Excess,         \* bounds what a call costs beyond its reservation
  EvidenceCalls,  \* tool calls the evidence node may make
  GlobalLimit,    \* limit_usd of the GLOBAL budget, a hard one
  IncidentLimit,  \* limit_usd of each incident's budget, hard too
  MaxModelCalls,  \* MAX_MODEL_CALLS_PER_RUN
  MaxToolCalls,   \* MAX_TOOL_CALLS_PER_RUN
  MaxActive,      \* runs in flight together
  MaxFaults       \* bound on crashes and on answers that fail validation

NodeSequence == <<"plan_investigation", "collect_evidence", "generate_hypotheses",
                  "calculate_impact", "draft_interventions", "evaluate_policy">>

\* The nodes that call a model; the other two compute.
LlmNode == {"plan_investigation", "collect_evidence", "generate_hypotheses",
            "draft_interventions"}

GraphEnd == Len(NodeSequence) + 1

ASSUME RunAssumption == NoRun \notin Run /\ IncidentOf \in [Run -> Incident]
ASSUME CostAssumption ==
  /\ Reserve \in [LlmNode -> Nat]
  /\ CostsOf \in [LlmNode -> SUBSET (Nat \ {0})]
  /\ Excess \in Nat
  /\ \A n \in LlmNode : \A c \in CostsOf[n] : c <= Reserve[n] + Excess
ASSUME LimitAssumption ==
  /\ EvidenceCalls \subseteq Nat
  /\ {GlobalLimit, IncidentLimit, MaxModelCalls, MaxToolCalls, MaxActive, MaxFaults} \subseteq Nat

VARIABLES
  \* committed rows
  status,        \* [Incident -> {"triaged", "worked"}]: incidents.status
  consumed,      \* GLOBAL budgets.consumed_usd
  ledger,        \* SUM(cost_entries.amount_usd)
  \* uncommitted versions, and who holds them
  incidentLock,  \* [Incident -> Run \cup {NoRun}]
  budgetLock,    \* Run \cup {NoRun}
  written,       \* consumed_usd as budgetLock has written it
  own,           \* [Run -> Nat]: the cost entries of the run
  \* runs
  pc,            \* [Run -> step]
  pos,           \* [Run -> position in NodeSequence]
  owed,          \* [Run -> cost of the call that just returned]
  toolCalls,     \* [Run -> Nat]: tool_calls rows of the run
  \* history
  invoice,       \* what the provider bills
  faults

rowVars == <<status, consumed, ledger>>
lockVars == <<incidentLock, budgetLock, written>>
vars == <<rowVars, lockVars, own, pc, pos, owed, toolCalls, invoice, faults>>

Init ==
  /\ status = [i \in Incident |-> "triaged"]
  /\ consumed = 0
  /\ ledger = 0
  /\ incidentLock = [i \in Incident |-> NoRun]
  /\ budgetLock = NoRun
  /\ written = 0
  /\ own = [r \in Run |-> 0]
  /\ pc = [r \in Run |-> "idle"]
  /\ pos = [r \in Run |-> 1]
  /\ owed = [r \in Run |-> 0]
  /\ toolCalls = [r \in Run |-> 0]
  /\ invoice = 0
  /\ faults = 0

Active(r) == pc[r] \notin {"idle", "done"}

NodeAt(r) == NodeSequence[pos[r]]

ModelCalls(r) == Cardinality({j \in 1 .. pos[r] - 1 : NodeSequence[j] \in LlmNode})

-----------------------------------------------------------------------------
(* The transaction of a run. *)

\* run_investigation loads the incident, and refuses one that is not TRIAGED.
Begin(r) ==
  /\ pc[r] = "idle"
  /\ Cardinality({q \in Run : Active(q)}) < MaxActive
  /\ status[IncidentOf[r]] = "triaged"
  /\ pc' = [pc EXCEPT ![r] = "open"]
  /\ UNCHANGED <<rowVars, lockVars, own, pos, owed, toolCalls, invoice, faults>>

(* The run row, and the move to INVESTIGATING: it waits for the incident   *)
(* row, and does not look again at what it loaded.                         *)
Open(r) ==
  LET i == IncidentOf[r] IN
  /\ pc[r] = "open"
  /\ incidentLock[i] = NoRun
  /\ incidentLock' = [incidentLock EXCEPT ![i] = r]
  /\ pc' = [pc EXCEPT ![r] = "node"]
  /\ UNCHANGED <<rowVars, budgetLock, written, own, pos, owed, toolCalls, invoice, faults>>

\* Mutant of Release: the row locks of the budget outlive the transaction.
ReleaseIncidentOnly(r) ==
  /\ incidentLock' = [i \in Incident |-> IF incidentLock[i] = r THEN NoRun ELSE incidentLock[i]]
  /\ budgetLock' = budgetLock
  /\ pc' = [pc EXCEPT ![r] = "done"]

Release(r) ==
  /\ incidentLock' = [i \in Incident |-> IF incidentLock[i] = r THEN NoRun ELSE incidentLock[i]]
  /\ budgetLock' = IF budgetLock = r THEN NoRun ELSE budgetLock
  /\ pc' = [pc EXCEPT ![r] = "done"]

\* Everything the run wrote is gone.
Rollback(r) ==
  /\ Release(r)
  /\ own' = [own EXCEPT ![r] = 0]
  /\ UNCHANGED <<rowVars, written, pos, owed, toolCalls>>

(* The exit transition, persist_investigation, the moves of the incident   *)
(* and the execution phase, whose tools cost nothing, and the commit.      *)
Finish(r) ==
  /\ pc[r] = "node"
  /\ pos[r] = GraphEnd
  /\ status' = [status EXCEPT ![IncidentOf[r]] = "worked"]
  /\ consumed' = IF budgetLock = r THEN written ELSE consumed
  /\ ledger' = ledger + own[r]
  /\ Release(r)
  /\ UNCHANGED <<written, own, pos, owed, toolCalls, invoice, faults>>

Crash(r) ==
  /\ Active(r)
  /\ faults < MaxFaults
  /\ faults' = faults + 1
  /\ Rollback(r)
  /\ UNCHANGED invoice

-----------------------------------------------------------------------------
(* The nodes. *)

\* Mutant of Compute: the end of the graph is a node like the others.
ComputePastEnd(r) ==
  /\ pc[r] = "node"
  /\ pos[r] = GraphEnd \/ NodeAt(r) \notin LlmNode
  /\ pos' = [pos EXCEPT ![r] = @ + 1]
  /\ UNCHANGED <<rowVars, lockVars, own, pc, owed, toolCalls, invoice, faults>>

\* calculate_impact and evaluate_policy: no model, no cost.
Compute(r) ==
  /\ pc[r] = "node"
  /\ pos[r] # GraphEnd
  /\ NodeAt(r) \notin LlmNode
  /\ pos' = [pos EXCEPT ![r] = @ + 1]
  /\ UNCHANGED <<rowVars, lockVars, own, pc, owed, toolCalls, invoice, faults>>

(* consumed_usd as a SELECT of the run sees it: its own update, or else    *)
(* what is committed.  No budget object outlives the check that loaded it, *)
(* so the session never answers with an older one.                         *)
Figure(r) == IF budgetLock = r THEN written ELSE consumed

\* Mutant of Affordable: the figure is the committed one, without what the
\* run itself has already charged.
AffordableByCommitted(r) ==
  /\ consumed + Reserve[NodeAt(r)] <= GlobalLimit
  /\ Reserve[NodeAt(r)] <= IncidentLimit

(* check_affordable: every scope must absorb the reservation.  _consume    *)
(* adds to RUN and GLOBAL budgets only, so an INCIDENT budget stays at     *)
(* zero; and no RUN budget can exist before the run it names commits.      *)
Affordable(r) ==
  /\ Figure(r) + Reserve[NodeAt(r)] <= GlobalLimit
  /\ Reserve[NodeAt(r)] <= IncidentLimit

\* Mutant of CeilingReached: tool calls are not counted.
CeilingOnModels(r) == ModelCalls(r) >= MaxModelCalls

CeilingReached(r) == ModelCalls(r) >= MaxModelCalls \/ toolCalls[r] >= MaxToolCalls

AtModelCall(r) ==
  /\ pc[r] = "node"
  /\ pos[r] # GraphEnd
  /\ NodeAt(r) \in LlmNode

\* BUDGET_EXCEEDED ends the command, and with it the transaction.
Refuse(r) ==
  /\ AtModelCall(r)
  /\ CeilingReached(r) \/ ~Affordable(r)
  /\ Rollback(r)
  /\ UNCHANGED <<invoice, faults>>

Admit(r) ==
  /\ AtModelCall(r)
  /\ ~CeilingReached(r)
  /\ Affordable(r)
  /\ pc' = [pc EXCEPT ![r] = "call"]
  /\ UNCHANGED <<rowVars, lockVars, own, pos, owed, toolCalls, invoice, faults>>

\* The provider answers; the evidence node then calls its tools.
Answer(r) ==
  /\ pc[r] = "call"
  /\ \E c \in CostsOf[NodeAt(r)] :
       /\ invoice' = invoice + c
       /\ owed' = [owed EXCEPT ![r] = c]
  /\ \E t \in IF NodeAt(r) = "collect_evidence" THEN EvidenceCalls ELSE {0} :
       toolCalls' = [toolCalls EXCEPT ![r] = @ + t]
  /\ pc' = [pc EXCEPT ![r] = "charge"]
  /\ UNCHANGED <<rowVars, lockVars, own, pos, faults>>

(* The provider answers, and the answer fails its schema, names a source   *)
(* outside the plan or cites evidence nobody gathered: the node raises     *)
(* before the call is recorded.                                            *)
BadAnswer(r) ==
  /\ pc[r] = "call"
  /\ faults < MaxFaults
  /\ faults' = faults + 1
  /\ \E c \in CostsOf[NodeAt(r)] : invoice' = invoice + c
  /\ Rollback(r)

\* Mutant of Charge: the new figure is computed from the committed one.
ChargeFromCommitted(r) ==
  /\ pc[r] = "charge"
  /\ budgetLock \in {NoRun, r}
  /\ budgetLock' = r
  /\ written' = consumed + owed[r]
  /\ own' = [own EXCEPT ![r] = @ + owed[r]]
  /\ pos' = [pos EXCEPT ![r] = @ + 1]
  /\ pc' = [pc EXCEPT ![r] = "node"]
  /\ UNCHANGED <<rowVars, incidentLock, owed, toolCalls, invoice, faults>>

(* record_model_call, record_model_cost and its UPDATE of the budget row,  *)
(* which waits while another run holds it, then the agent decision.        *)
Charge(r) ==
  /\ pc[r] = "charge"
  /\ budgetLock \in {NoRun, r}
  /\ budgetLock' = r
  /\ written' = Figure(r) + owed[r]
  /\ own' = [own EXCEPT ![r] = @ + owed[r]]
  /\ pos' = [pos EXCEPT ![r] = @ + 1]
  /\ pc' = [pc EXCEPT ![r] = "node"]
  /\ UNCHANGED <<rowVars, incidentLock, owed, toolCalls, invoice, faults>>

-----------------------------------------------------------------------------
Step(r) ==
  \/ Open(r) \/ Compute(r) \/ Refuse(r) \/ Admit(r) \/ Answer(r) \/ Charge(r) \/ Finish(r)

Next == \E r \in Run : Begin(r) \/ Step(r) \/ BadAnswer(r) \/ Crash(r)

Spec == Init /\ [][Next]_vars

\* A run waits only for the provider and the database, never for a person.
FairSpec == Spec /\ \A r \in Run : WF_vars(Step(r))

-----------------------------------------------------------------------------
(* Properties. *)

TypeOK ==
  /\ status \in [Incident -> {"triaged", "worked"}]
  /\ {consumed, ledger, written, invoice} \subseteq Nat
  /\ incidentLock \in [Incident -> Run \cup {NoRun}]
  /\ budgetLock \in Run \cup {NoRun}
  /\ own \in [Run -> Nat]
  /\ pc \in [Run -> {"idle", "open", "node", "call", "charge", "done"}]
  /\ pos \in [Run -> 1 .. GraphEnd]
  /\ owed \in [Run -> Nat]
  /\ toolCalls \in [Run -> Nat]
  /\ faults \in 0 .. MaxFaults

(* SUM(cost_entries) = budgets.consumed_usd whatever the interleaving,     *)
(* committed, and as the run that holds the row will see it               *)
(* (ADR-0026, cost/ledger.py _consume).                                    *)
LedgerReconciles ==
  /\ consumed = ledger
  /\ \A r \in Run : budgetLock = r => written = ledger + own[r]

(* The figure on the GLOBAL budget never passes its limit by more than one *)
(* call can cost beyond its reservation, however many runs race admission: *)
(* a run that was admitted on a stale figure is refused at its next call,  *)
(* because charging made it wait for the row (cost/governor.py             *)
(* check_affordable, cost/ledger.py _consume).                             *)
GlobalBudgetHolds == consumed <= GlobalLimit + Excess

(* A run at a ceiling, of models or of tools, makes no further model call  *)
(* and never completes.  The ceilings are looked at before a model call    *)
(* only: the tool calls of a node may pass theirs, and it is the next node *)
(* that stops the run (cost/governor.py check_call_ceilings).              *)
CeilingsHold ==
  \A r \in Run :
    /\ ModelCalls(r) <= MaxModelCalls
    /\ toolCalls[r] >= MaxToolCalls => pc[r] # "call" /\ pos[r] # GraphEnd

(* A run that started ends: the row locks it waits for are taken in one    *)
(* order, the incident before the budget, and every holder lets go.        *)
RunsEnd == \A r \in Run : (pc[r] # "idle") ~> (pc[r] = "done")

(* docs/cost-governance.md:62: "a runaway loop stops at the budget rather  *)
(* than at the invoice".  Granted here: what one call in flight per run    *)
(* may add, the bound of governor.py overshoot_bound and one call more.    *)
WorstCase == CHOOSE w \in {Reserve[n] : n \in LlmNode} : \A n \in LlmNode : Reserve[n] <= w

InvoiceWithinBudget == invoice <= GlobalLimit + MaxActive * (WorstCase + Excess)
=============================================================================
