------------------------------ MODULE Console ------------------------------
(***************************************************************************)
(* The pages of the web console (api/dashboard.py, centres.py,             *)
(* incidents.py) beside the commands and the evaluation.                   *)
(*                                                                         *)
(* A page is built from several statements in one READ COMMITTED           *)
(* transaction, so each statement has a state of the rows of its own.      *)
(* What the pages rely on is that commands only add rows and that a        *)
(* statement which is compared with another runs on the right side of it;  *)
(* what spoils it is the one command that erases.                          *)
(*                                                                         *)
(* Pages of one statement, formatting and the static catalogue are left    *)
(* out; a list of rows that are looked up one by one is a page of one row. *)
(* A page and an evaluation do not exclude each other in the code, but     *)
(* neither reads what the other writes: a page here is opened with no      *)
(* evaluation under way or recorded.                                       *)
(***************************************************************************)
EXTENDS Evaluation

CONSTANT MaxRank   \* bound on the ranks a page of interventions is asked for

VARIABLE page

vars == <<rowVars, audit, page>>

Kind == {"overview", "cost", "investigation", "interventions", "timeline", "detail"}

ASSUME NilAssumption == Nil \notin Kind

\* Mutant of CostStatements: the breakdown is computed first.
BreakdownFirst == <<"by_incident", "tool_calls", "consumed", "total", "model", "tool">>

\* cost_centre: its arguments are evaluated in the order they are written.
CostStatements == <<"tool_calls", "consumed", "total", "model", "tool", "by_incident">>

\* Mutant of InterventionStatements: the action is looked up before the decision.
ActionFirst == <<"run", "action", "decision">>

\* One row of the page: its decision, then its action.
InterventionStatements == <<"run", "decision", "action">>

Statements ==
  [overview |-> <<"at_risk", "weighted", "open">>,
   cost |-> CostStatements,
   investigation |-> <<"run", "evidence", "hypotheses", "cites">>,
   interventions |-> InterventionStatements,
   timeline |-> <<"run", "tool_calls", "entries", "audit_events">>,
   detail |-> <<"incident", "account", "signal">>]

Total(field) == SumOf([r \in DOMAIN runs |-> runs[r][field]])

CallsOf(S) == SumOf([r \in S |-> calls[r]])

\* An incident that is not COMPLETED: not investigated, or with something waiting.
Open(i) ==
  \/ i \notin DOMAIN runs
  \/ \E k \in {i} \X Decided(runs[i], "require_approval") : k \notin DOMAIN actions

\* What a statement of a page about incident i, or rank k of it, returns now.
Answer(statement, i, k) ==
  CASE statement = "at_risk" -> Total("atRisk")
    [] statement = "weighted" -> Total("weighted")
    [] statement = "open" -> Cardinality({j \in incidents : Open(j)})
    [] statement = "consumed" -> consumed
    [] statement \in {"total", "model"} -> Spent
    [] statement = "tool" -> 0
    [] statement = "tool_calls" ->
         CallsOf(IF page.kind = "cost" THEN DOMAIN calls ELSE DOMAIN calls \cap {i})
    [] statement = "entries" -> CallsOf(DOMAIN calls \cap {i})
    [] statement = "by_incident" ->
         [cost |-> Spent, calls |-> CallsOf(DOMAIN calls)]
    [] statement = "audit_events" -> i \in incidents
    [] statement = "run" -> i \in DOMAIN runs
    [] statement = "evidence" -> DOMAIN ReportOf(i).evidence
    [] statement = "hypotheses" -> DOMAIN ReportOf(i).cites
    [] statement = "cites" -> UNION ToSet(ReportOf(i).cites)
    [] statement = "decision" ->
         IF k \in DOMAIN ReportOf(i).actions THEN Evaluate(ReportOf(i).actions[k], {}) ELSE Nil
    [] statement = "action" ->
         <<i, k>> \in DOMAIN actions
    [] OTHER -> i \in incidents

NoPage == [kind |-> Nil, rank |-> 1, at |-> 1, got |-> <<>>, since |-> 0]

Missing == \E s \in DOMAIN page.got \cap {"run", "incident"} : ~page.got[s]

\* Of an open page: every statement has run, or the first found nothing.
Sent == Missing \/ page.at > Len(Statements[page.kind])

\* A page of one incident is about the first: they differ in nothing else.
OpenPage(kind, k) ==
  /\ page.kind = Nil
  /\ audit.at = 0 /\ attempts = <<>>
  /\ kind # "interventions" => k = 1
  /\ page' = [kind |-> kind, rank |-> k, at |-> 1, got |-> <<>>, since |-> seeds]

Read ==
  /\ page.kind # Nil
  /\ ~Sent
  /\ LET s == Statements[page.kind][page.at]
     IN  page' = [page EXCEPT !.at = @ + 1, !.got = @ ++ One(s, Answer(s, 1, page.rank))]

\* The answer is sent: nothing that happens later changes it.
Close ==
  /\ page.kind # Nil
  /\ Sent
  /\ page' = NoPage

Next ==
  \/ (page.kind # Nil => ~Sent) /\ Command /\ UNCHANGED <<audit, page>>
  \/ page.kind = Nil /\ Evaluation /\ UNCHANGED page
  \/ /\ UNCHANGED <<rowVars, audit>>
     /\ \/ Read
        \/ Close
        \/ \E kind \in Kind, k \in 1 .. MaxRank : OpenPage(kind, k)

ConsoleInit == Init /\ page = NoPage

Spec == ConsoleInit /\ [][Next]_vars

-----------------------------------------------------------------------------
(* Properties. *)

Complete(kind) == page.kind = kind /\ Sent /\ ~Missing

Undisturbed == page.since = seeds

(* Types; an evaluation names a run that is there, or none (db/models/      *)
(* evaluation.py, SET NULL), and the ledger is what the budget says less    *)
(* the entries that were erased.                                            *)
TypeOK ==
  /\ now \in 0 .. MaxTime
  /\ incidents \subseteq 1 .. drawn
  /\ drawn \in 0 .. MaxIncidents
  /\ DOMAIN runs \subseteq incidents
  /\ DOMAIN calls = DOMAIN runs
  /\ \A k \in DOMAIN actions \cup DOMAIN requests : k[1] \in DOMAIN runs
  /\ \A j \in DOMAIN attempts : attempts[j].run \in DOMAIN runs \cup {NoRun}
  /\ audit.at \in 0 .. Len(Stages) + 1
  /\ page.kind \in Kind \cup {Nil}
  /\ seeds \in 0 .. MaxSeeds
  /\ consumed = erased + Spent

(* The figures of a page agree although each is a statement of its own and  *)
(* commands commit in between: what is at risk is no more than what is      *)
(* weighted, spend no more than its breakdown, and every call shown has its *)
(* entry (dashboard.py overview, centres.py cost_centre, cost/timeline.py). *)
(* The budget may exceed the total only by what was erased.                 *)
PagesAddUp ==
  Undisturbed =>
    /\ Complete("overview") => page.got.at_risk <= page.got.weighted
    /\ Complete("cost") =>
         /\ page.got.consumed <= page.got.total + erased
         /\ page.got.total <= page.got.model + page.got.tool
         /\ page.got.model + page.got.tool <= page.got.by_incident.cost
         /\ page.got.tool_calls <= page.got.by_incident.calls
    /\ Complete("timeline") => page.got.tool_calls <= page.got.entries

(* Whatever is committed or erased while a page is built, a citation it     *)
(* shows is among the evidence it shows, an action it shows as performed    *)
(* comes with the decision that let it, and an incident is reported to      *)
(* refer to missing records only when they were erased (dashboard.py        *)
(* investigation and interventions, incidents.py get_incident).             *)
PagesHoldTogether ==
  /\ Complete("investigation") => page.got.cites \subseteq page.got.evidence
  /\ Complete("interventions") /\ page.got.action =>
       page.got.decision \in {"allow", "require_approval"}
  /\ Complete("detail") /\ Undisturbed => page.got.account /\ page.got.signal

(* An evaluation may be overtaken by commands and people at every           *)
(* statement; still it records no bypass that never was, except that a      *)
(* decision taken again after the draft makes the draft look unapproved,    *)
(* and where it says that the draft followed its approval, it did           *)
(* (rubric.py no_external_action_without_approval,                          *)
(* draft_created_after_approval, security.py).                              *)
AuditTellsTruth ==
  \A j \in DOMAIN attempts : LET a == attempts[j] IN a.run # NoRun =>
    /\ a.failed \cap DOMAIN Security(a.run) = {}
    /\ "no_external_action_without_approval" \in a.failed => \E k \in redecided : k[1] = a.run
    /\ "draft_created_after_approval" \notin a.failed => \E k \in heeded : k[1] = a.run

(* Evaluations are append-only: no later attempt, no later command, not     *)
(* even an erasure changes the day or the outcome of one (evaluation/       *)
(* service.py _persist, centres.py evaluation_history).                     *)
HistoryIsKept ==
  [][/\ Len(attempts) <= Len(attempts')
     /\ \A j \in DOMAIN attempts : attempts'[j] \in {attempts[j], Erased(attempts[j])}]_vars
=============================================================================
