--------------------------- MODULE ConsoleProofs ---------------------------
(***************************************************************************)
(* What every instance of Console guarantees: the pages add up and hold    *)
(* together while commands commit in between, and an evaluation tells the  *)
(* truth about the run it names.                                           *)
(*                                                                         *)
(* The figures of the pages are sums over incidents.  A sum is a recursive *)
(* function, and what is needed of it (it grows with its summands) is      *)
(* proved by taking the set of the numbers up to which it holds.           *)
(***************************************************************************)
EXTENDS Console, FiniteSetTheorems, NatSets, TLAPS

-----------------------------------------------------------------------------
(* Sums. *)

\* What f has of incident i.
Part(f, i) == IF i \in DOMAIN f THEN f[i] ELSE 0

\* The sums of f up to each number up to N.
Partial(u, f, N) == u = [n \in 0 .. N |-> IF n = 0 THEN 0 ELSE u[n - 1] + Part(f, n)]

LEMMA PartialExists ==
  ASSUME NEW f, NEW N \in Nat
  PROVE  \E u : Partial(u, f, N)
<1> DEFINE T == {k \in Nat : \E u : Partial(u, f, k)}
<1>1. 0 \in T
  <2>1. Partial([n \in 0 .. 0 |-> 0], f, 0)
    BY DEF Partial
  <2>2. QED
    BY <2>1
<1>2. ASSUME NEW k \in Nat, k \in T
      PROVE  k + 1 \in T
  <2>1. PICK u : Partial(u, f, k)
    BY <1>2
  <2> DEFINE v == [n \in 0 .. k + 1 |-> IF n = k + 1 THEN u[k] + Part(f, k + 1) ELSE u[n]]
  <2>2. ASSUME NEW n \in 0 .. k + 1
        PROVE  v[n] = IF n = 0 THEN 0 ELSE v[n - 1] + Part(f, n)
    <3>1. CASE n = k + 1
      BY <3>1
    <3>2. CASE n # k + 1
      <4>1. n \in 0 .. k /\ v[n] = u[n]
        BY <3>2
      <4>2. u[n] = IF n = 0 THEN 0 ELSE u[n - 1] + Part(f, n)
        BY <2>1, <4>1 DEF Partial
      <4>3. n # 0 => n - 1 \in 0 .. k + 1 /\ n - 1 # k + 1
        BY <4>1
      <4>4. QED
        BY <4>1, <4>2, <4>3
    <3>3. QED
      BY <3>1, <3>2
  <2>3. Partial(v, f, k + 1)
    BY <2>2 DEF Partial
  <2> HIDE DEF v
  <2>4. \E x : Partial(x, f, k + 1)
    BY <2>3
  <2>5. QED
    BY <2>4
<1>3. Nat \subseteq T
  <2> HIDE DEF T
  <2>1. QED
    BY <1>1, <1>2, NatSetInduction
<1>4. QED
  BY <1>3

\* A sum is the last of its partial sums.
LEMMA SumLaw ==
  ASSUME NEW f
  PROVE  \E u : Partial(u, f, MaxIncidents) /\ SumOf(f) = u[MaxIncidents]
<1>1. MaxIncidents \in Nat
  BY BoundsAssumption
<1>2. \E u : Partial(u, f, MaxIncidents)
  BY <1>1, PartialExists
<1> DEFINE w == CHOOSE u : Partial(u, f, MaxIncidents)
<1>3. Partial(w, f, MaxIncidents)
  BY <1>2
<1>4. SumOf(f) = w[MaxIncidents]
  BY DEF SumOf, Partial, Part
<1>5. QED
  BY <1>3, <1>4

\* The partial sums, one by one.
LEMMA PartialSteps ==
  ASSUME NEW u, NEW f, NEW N \in Nat, Partial(u, f, N)
  PROVE  /\ u[0] = 0
         /\ \A n \in Nat : n + 1 \in 0 .. N => u[n + 1] = u[n] + Part(f, n + 1)
<1>1. \A n \in 0 .. N : u[n] = IF n = 0 THEN 0 ELSE u[n - 1] + Part(f, n)
  BY DEF Partial
<1>2. u[0] = 0
  BY <1>1
<1>3. ASSUME NEW n \in Nat, n + 1 \in 0 .. N
      PROVE  u[n + 1] = u[n] + Part(f, n + 1)
  <2>1. u[n + 1] = u[(n + 1) - 1] + Part(f, n + 1)
    BY <1>1, <1>3
  <2>2. (n + 1) - 1 = n
    OBVIOUS
  <2>3. QED
    BY <2>1, <2>2
<1>4. QED
  BY <1>2, <1>3

\* What is put into a sum bounds it: if no incident has less in g, the sum is no less.
LEMMA SumMono ==
  ASSUME NEW f, NEW g,
         \A i \in Incident : Part(f, i) \in Nat /\ Part(g, i) \in Nat /\ Part(f, i) <= Part(g, i)
  PROVE  SumOf(f) \in Nat /\ SumOf(g) \in Nat /\ SumOf(f) <= SumOf(g)
<1>1. MaxIncidents \in Nat
  BY BoundsAssumption
<1>2. PICK u : Partial(u, f, MaxIncidents) /\ SumOf(f) = u[MaxIncidents]
  BY SumLaw
<1>3. PICK v : Partial(v, g, MaxIncidents) /\ SumOf(g) = v[MaxIncidents]
  BY SumLaw
<1> DEFINE T == {n \in Nat : n \in 0 .. MaxIncidents =>
                               u[n] \in Nat /\ v[n] \in Nat /\ u[n] <= v[n]}
<1>4. 0 \in T
  <2>1. u[0] = 0 /\ v[0] = 0
    BY <1>1, <1>2, <1>3, PartialSteps
  <2>2. QED
    BY <2>1
<1>5. ASSUME NEW n \in Nat, n \in T
      PROVE  n + 1 \in T
  <2>1. SUFFICES ASSUME n + 1 \in 0 .. MaxIncidents
                 PROVE  u[n + 1] \in Nat /\ v[n + 1] \in Nat /\ u[n + 1] <= v[n + 1]
    OBVIOUS
  <2>2. n \in 0 .. MaxIncidents /\ n + 1 \in Incident
    BY <1>1, <2>1 DEF Incident
  <2>3. u[n] \in Nat /\ v[n] \in Nat /\ u[n] <= v[n]
    BY <1>5, <2>2
  <2>4. u[n + 1] = u[n] + Part(f, n + 1)
    BY <1>1, <1>2, <2>1, PartialSteps
  <2>5. v[n + 1] = v[n] + Part(g, n + 1)
    BY <1>1, <1>3, <2>1, PartialSteps
  <2>6. QED
    BY <2>2, <2>3, <2>4, <2>5
<1>6. Nat \subseteq T
  <2> HIDE DEF T
  <2>1. QED
    BY <1>4, <1>5, NatSetInduction
<1>7. QED
  BY <1>1, <1>2, <1>3, <1>6

\* A row more in the table adds what it has.
LEMMA SumAdd ==
  ASSUME NEW f, NEW g, NEW j \in Incident, NEW c \in Nat,
         \A i \in Incident : Part(f, i) \in Nat,
         \A i \in Incident : Part(g, i) = IF i = j THEN Part(f, i) + c ELSE Part(f, i)
  PROVE  SumOf(g) = SumOf(f) + c
<1>1. MaxIncidents \in Nat
  BY BoundsAssumption
<1>2. PICK u : Partial(u, f, MaxIncidents) /\ SumOf(f) = u[MaxIncidents]
  BY SumLaw
<1>3. PICK v : Partial(v, g, MaxIncidents) /\ SumOf(g) = v[MaxIncidents]
  BY SumLaw
<1> DEFINE T == {n \in Nat : n \in 0 .. MaxIncidents =>
                               /\ u[n] \in Nat
                               /\ v[n] = IF j <= n THEN u[n] + c ELSE u[n]}
<1>4. j \in Nat /\ j # 0 /\ j <= MaxIncidents
  BY <1>1 DEF Incident
<1>5. 0 \in T
  <2>1. u[0] = 0 /\ v[0] = 0
    BY <1>1, <1>2, <1>3, PartialSteps
  <2>2. QED
    BY <1>4, <2>1
<1>6. ASSUME NEW n \in Nat, n \in T
      PROVE  n + 1 \in T
  <2>1. SUFFICES ASSUME n + 1 \in 0 .. MaxIncidents
                 PROVE  u[n + 1] \in Nat /\ v[n + 1] = IF j <= n + 1 THEN u[n + 1] + c ELSE u[n + 1]
    OBVIOUS
  <2>2. n \in 0 .. MaxIncidents /\ n + 1 \in Incident
    BY <1>1, <2>1 DEF Incident
  <2>3. u[n] \in Nat /\ v[n] = IF j <= n THEN u[n] + c ELSE u[n]
    BY <1>6, <2>2
  <2>4. u[n + 1] = u[n] + Part(f, n + 1)
    BY <1>1, <1>2, <2>1, PartialSteps
  <2>5. v[n + 1] = v[n] + Part(g, n + 1)
    BY <1>1, <1>3, <2>1, PartialSteps
  <2>6. Part(f, n + 1) \in Nat
    BY <2>2
  <2>7. Part(g, n + 1) = IF n + 1 = j THEN Part(f, n + 1) + c ELSE Part(f, n + 1)
    BY <2>2
  <2>8. QED
    BY <1>4, <2>3, <2>4, <2>5, <2>6, <2>7
<1>7. Nat \subseteq T
  <2> HIDE DEF T
  <2>1. QED
    BY <1>5, <1>6, NatSetInduction
<1>8. QED
  BY <1>1, <1>2, <1>3, <1>4, <1>7

\* A sum over no rows.
LEMMA SumEmpty ==
  ASSUME NEW f, DOMAIN f = {}
  PROVE  SumOf(f) = 0
<1>1. MaxIncidents \in Nat
  BY BoundsAssumption
<1>2. PICK u : Partial(u, f, MaxIncidents) /\ SumOf(f) = u[MaxIncidents]
  BY SumLaw
<1> DEFINE T == {n \in Nat : n \in 0 .. MaxIncidents => u[n] = 0}
<1>3. 0 \in T
  BY <1>1, <1>2, PartialSteps
<1>4. ASSUME NEW n \in Nat, n \in T
      PROVE  n + 1 \in T
  <2>1. SUFFICES ASSUME n + 1 \in 0 .. MaxIncidents
                 PROVE  u[n + 1] = 0
    OBVIOUS
  <2>2. u[n] = 0
    BY <1>1, <1>4, <2>1
  <2>3. u[n + 1] = u[n] + Part(f, n + 1)
    BY <1>1, <1>2, <2>1, PartialSteps
  <2>4. QED
    BY <2>2, <2>3 DEF Part
<1>5. Nat \subseteq T
  <2> HIDE DEF T
  <2>1. QED
    BY <1>3, <1>4, NatSetInduction
<1>6. QED
  BY <1>1, <1>2, <1>5

-----------------------------------------------------------------------------
(* The invariant: the rows. *)

\* A key of an action or a request names a rank of a committed run.
KeyOf(k) ==
  /\ k = <<k[1], k[2]>>
  /\ k[1] \in DOMAIN runs
  /\ k[2] \in DOMAIN runs[k[1]].actions

\* What the policy says of the action a key names.
Verdict(k) == Evaluate(runs[k[1]].actions[k[2]], {})

\* Rows and their types, each run being one of the reports.
RowsShape ==
  /\ drawn \in 0 .. MaxIncidents
  /\ incidents \subseteq 1 .. drawn
  /\ DOMAIN runs \subseteq incidents
  /\ runs \in [DOMAIN runs -> Reports]
  /\ calls \in [DOMAIN runs -> Nat]
  /\ now \in 0 .. MaxTime
  /\ seeds \in 0 .. MaxSeeds
  /\ erased \in Nat
  /\ consumed = erased + Spent

\* An action was decided, and performed unless it needed nobody; what became of the
\* approval of one that needed somebody is known.
ActionsShape ==
  \A k \in DOMAIN actions :
    /\ KeyOf(k)
    /\ Verdict(k) = IF actions[k].approved THEN "require_approval" ELSE "allow"
    /\ actions[k].approved =>
         /\ k \in DOMAIN requests
         /\ requests[k].status = "approved" \/ k \in redecided
         /\ actions[k].executedAt # Nil => k \in heeded

RequestsShape ==
  \A k \in DOMAIN requests : KeyOf(k) /\ Verdict(k) = "require_approval"

\* A run that was there and is not never comes back: its incident is gone for good.
GoneForGood == 1 \notin DOMAIN runs => 1 \notin incidents /\ drawn >= 1

-----------------------------------------------------------------------------
(* The invariant: an evaluation under way, and those recorded. *)

SecurityCheck == {"bypass_denied_never_executed", "bypass_crm_update_unreachable",
                  "bypass_notification_is_not_approval"}

RubricCheck == {"detects_stalled_opportunity", "incident_created_once", "plan_has_valid_steps",
                "evidence_covers_three_sources", "hypotheses_cite_real_evidence",
                "three_ranked_interventions", "tier1_auto_executed", "audit_trail_complete",
                "budget_respected"}

ApprovalCheck == {"no_external_action_without_approval", "draft_created_after_approval"}

Check == RubricCheck \cup ApprovalCheck \cup SecurityCheck

\* What the failures found so far say of the approvals of a run.
Truth(r, failed) ==
  "no_external_action_without_approval" \in failed => \E k \in redecided : k[1] = r

Success(r, failed) ==
  "draft_created_after_approval" \notin failed => \E k \in heeded : k[1] = r

AuditShape ==
  /\ audit = [at |-> audit.at, run |-> audit.run, startedAt |-> audit.startedAt,
              failed |-> audit.failed, drafts |-> audit.drafts]
  /\ audit.at \in 0 .. Len(Stages) + 1
  /\ audit.startedAt \in Nat
  /\ audit.failed \subseteq Check
  /\ audit.failed \cap SecurityCheck = {}
  /\ audit.at > 0 => audit.run = 1 /\ GoneForGood
  /\ audit.at > 0 /\ 1 \in DOMAIN runs =>
       /\ \A draft \in audit.drafts :
            /\ draft.key \in DOMAIN actions /\ draft.key[1] = 1
            /\ draft.row = actions[draft.key] /\ draft.row.approved
       /\ Truth(1, audit.failed)
       /\ audit.at > 6 => Success(1, audit.failed)

Attempt == [run : Nat, startedAt : Nat, failed : SUBSET Check]

AttemptShape(a) ==
  /\ a.failed \cap SecurityCheck = {}
  /\ a.run # NoRun => a.run \in DOMAIN runs /\ Truth(a.run, a.failed) /\ Success(a.run, a.failed)

AttemptsShape ==
  /\ attempts \in Seq(Attempt)
  /\ \A j \in DOMAIN attempts : AttemptShape(attempts[j])

-----------------------------------------------------------------------------
(* The invariant: a page half built. *)

Opened(kind) == page.kind = kind

PageShape ==
  /\ page = [kind |-> page.kind, rank |-> page.rank, at |-> page.at, got |-> page.got,
             since |-> page.since]
  /\ page.kind \in Kind \cup {Nil}
  /\ page.since \in Nat /\ page.since <= seeds
  /\ page.kind # Nil =>
       /\ page.at \in 1 .. Len(Statements[page.kind]) + 1
       /\ DOMAIN page.got = {Statements[page.kind][j] : j \in 1 .. page.at - 1}

\* A figure that was read first is the smaller: the rows behind the other only grow.
OverviewSoFar ==
  Opened("overview") /\ Undisturbed =>
    /\ page.at > 1 => page.got.at_risk \in 0 .. Total("weighted")
    /\ page.at > 2 => page.got.weighted \in Nat /\ page.got.at_risk <= page.got.weighted

CostSoFar ==
  Opened("cost") /\ Undisturbed =>
    /\ page.at > 1 => page.got.tool_calls \in 0 .. CallsOf(DOMAIN calls)
    /\ page.at > 2 => page.got.consumed \in 0 .. Spent + erased
    /\ page.at > 3 => page.got.total \in 0 .. Spent
                      /\ page.got.consumed <= page.got.total + erased
    /\ page.at > 4 => page.got.model \in page.got.total .. Spent
    /\ page.at > 5 => page.got.tool = 0
    /\ page.at > 6 => page.got.by_incident \in [cost : Nat, calls : Nat]
                      /\ page.got.model <= page.got.by_incident.cost
                      /\ page.got.tool_calls <= page.got.by_incident.calls

TimelineSoFar ==
  Opened("timeline") /\ Undisturbed =>
    /\ page.at > 2 => page.got.tool_calls \in 0 .. CallsOf(DOMAIN calls \cap {1})
    /\ page.at > 3 => page.got.entries \in Nat /\ page.got.tool_calls <= page.got.entries

DetailSoFar ==
  Opened("detail") /\ Undisturbed =>
    /\ page.at > 1 /\ page.got.incident => 1 \in incidents
    /\ page.at > 2 /\ page.got.incident => page.got.account
    /\ page.at > 3 /\ page.got.incident => page.got.signal

InvestigationSoFar ==
  Opened("investigation") /\ page.at > 1 /\ page.got.run =>
    /\ GoneForGood
    /\ page.at > 2 /\ 1 \in DOMAIN runs => page.got.evidence = DOMAIN runs[1].evidence
    /\ page.at > 4 => page.got.cites \subseteq page.got.evidence

InterventionsSoFar ==
  Opened("interventions") /\ page.at > 1 /\ page.got.run =>
    /\ GoneForGood
    /\ page.at > 2 /\ 1 \in DOMAIN runs /\ page.rank \in DOMAIN runs[1].actions =>
         page.got.decision = Verdict(<<1, page.rank>>)
    /\ page.at > 3 /\ page.got.action => page.got.decision \in {"allow", "require_approval"}

Rows == RowsShape /\ ActionsShape /\ RequestsShape

Figures == OverviewSoFar /\ CostSoFar /\ TimelineSoFar /\ DetailSoFar

CInv ==
  /\ Rows
  /\ AuditShape /\ AttemptsShape
  /\ PageShape /\ Figures /\ InvestigationSoFar /\ InterventionsSoFar

-----------------------------------------------------------------------------
(* What every command but seed does to the rows: it adds to them. *)

Adds ==
  /\ seeds' = seeds /\ erased' = erased /\ attempts' = attempts
  /\ drawn <= drawn'
  /\ incidents \subseteq incidents'
  /\ drawn >= 1 /\ 1 \in incidents' => 1 \in incidents
  /\ DOMAIN runs \subseteq DOMAIN runs'
  /\ \A r \in DOMAIN runs : runs'[r] = runs[r]
  /\ \A r \in DOMAIN runs' : r \in DOMAIN runs \/ r \in incidents
  /\ DOMAIN actions \subseteq DOMAIN actions'
  /\ \A k \in DOMAIN actions : actions'[k] = actions[k]
  /\ \A r \in DOMAIN calls : calls[r] <= calls'[r]
  /\ redecided \subseteq redecided'
  /\ heeded \subseteq heeded'

LEMMA ReportFields ==
  ASSUME RowsShape, NEW r \in DOMAIN runs
  PROVE  /\ runs[r] \in Reports
         /\ runs[r].cost \in Nat /\ runs[r].weighted \in Nat /\ runs[r].atRisk \in Nat
         /\ runs[r].atRisk <= runs[r].weighted
         /\ r \in Incident
<1>1. runs[r] \in Reports /\ runs[r] \in Finding
  BY ReportsAssumption DEF RowsShape
<1>2. runs[r].cost \in Nat /\ runs[r].weighted \in Nat /\ runs[r].atRisk \in Nat
  BY <1>1 DEF Finding
<1>3. r \in Incident
  BY BoundsAssumption DEF RowsShape, Incident
<1>4. QED
  BY <1>1, <1>2, <1>3, ReportsAssumption

\* Each figure of a page is a number, and what is at risk is at most what is weighted.
LEMMA FiguresTyped ==
  ASSUME RowsShape
  PROVE  /\ Spent \in Nat
         /\ Total("atRisk") \in Nat /\ Total("weighted") \in Nat
         /\ Total("atRisk") <= Total("weighted")
         /\ CallsOf(DOMAIN calls) \in Nat
         /\ CallsOf(DOMAIN calls \cap {1}) \in Nat
<1> DEFINE cost == [r \in DOMAIN runs |-> runs[r].cost]
           low == [r \in DOMAIN runs |-> runs[r]["atRisk"]]
           high == [r \in DOMAIN runs |-> runs[r]["weighted"]]
           all == [r \in DOMAIN calls |-> calls[r]]
           one == [r \in DOMAIN calls \cap {1} |-> calls[r]]
<1>1. \A i \in Incident : Part(cost, i) \in Nat
  BY ReportFields DEF Part
<1>2. \A i \in Incident : /\ Part(low, i) \in Nat /\ Part(high, i) \in Nat
                          /\ Part(low, i) <= Part(high, i)
  BY ReportFields DEF Part
<1>3. \A i \in Incident : Part(all, i) \in Nat /\ Part(one, i) \in Nat
  BY DEF Part, RowsShape
<1>4. Spent = SumOf(cost) /\ Total("atRisk") = SumOf(low) /\ Total("weighted") = SumOf(high)
  BY DEF Spent, Total
<1>5. CallsOf(DOMAIN calls) = SumOf(all) /\ CallsOf(DOMAIN calls \cap {1}) = SumOf(one)
  BY DEF CallsOf
<1> HIDE DEF cost, low, high, all, one
<1>6. \A i \in Incident : /\ Part(cost, i) <= Part(cost, i)
                          /\ Part(all, i) <= Part(all, i)
                          /\ Part(one, i) <= Part(one, i)
  BY <1>1, <1>3
<1>7. SumOf(cost) \in Nat
  BY <1>1, <1>6, SumMono
<1>8. SumOf(low) \in Nat /\ SumOf(high) \in Nat /\ SumOf(low) <= SumOf(high)
  BY <1>2, SumMono
<1>9. SumOf(all) \in Nat
  BY <1>3, <1>6, SumMono
<1>10. SumOf(one) \in Nat
  BY <1>3, <1>6, SumMono
<1>11. QED
  BY <1>4, <1>5, <1>7, <1>8, <1>9, <1>10

\* They only grow while nothing is erased.
LEMMA FiguresGrow ==
  ASSUME RowsShape, RowsShape', Adds
  PROVE  /\ Spent \in Nat /\ Spent' \in Nat /\ Spent <= Spent'
         /\ Total("weighted") \in Nat /\ Total("weighted")' \in Nat
         /\ Total("weighted") <= Total("weighted")'
         /\ CallsOf(DOMAIN calls) \in Nat /\ CallsOf(DOMAIN calls)' \in Nat
         /\ CallsOf(DOMAIN calls) <= CallsOf(DOMAIN calls)'
         /\ CallsOf(DOMAIN calls \cap {1}) \in Nat /\ CallsOf(DOMAIN calls \cap {1})' \in Nat
         /\ CallsOf(DOMAIN calls \cap {1}) <= CallsOf(DOMAIN calls \cap {1})'
<1> DEFINE cost == [r \in DOMAIN runs |-> runs[r].cost]
           costA == [r \in DOMAIN runs' |-> runs'[r].cost]
           high == [r \in DOMAIN runs |-> runs[r]["weighted"]]
           highA == [r \in DOMAIN runs' |-> runs'[r]["weighted"]]
           all == [r \in DOMAIN calls |-> calls[r]]
           allA == [r \in DOMAIN calls' |-> calls'[r]]
           one == [r \in DOMAIN calls \cap {1} |-> calls[r]]
           oneA == [r \in DOMAIN calls' \cap {1} |-> calls'[r]]
<1>1. \A r \in DOMAIN runs : runs[r].cost \in Nat /\ runs[r].weighted \in Nat
  BY ReportFields
<1>2. \A r \in DOMAIN runs' : runs'[r].cost \in Nat /\ runs'[r].weighted \in Nat
  <2>1. \A r \in DOMAIN runs' : runs'[r] \in Finding
    BY ReportsAssumption DEF RowsShape
  <2>2. QED
    BY <2>1 DEF Finding
<1>3. DOMAIN runs \subseteq DOMAIN runs' /\ \A r \in DOMAIN runs : runs'[r] = runs[r]
  BY DEF Adds
<1>4. DOMAIN calls = DOMAIN runs /\ \A r \in DOMAIN calls : calls[r] \in Nat
  BY DEF RowsShape
<1>5. DOMAIN calls' = DOMAIN runs' /\ \A r \in DOMAIN calls' : calls'[r] \in Nat
  BY DEF RowsShape
<1>6. \A r \in DOMAIN calls : calls[r] <= calls'[r]
  BY DEF Adds
<1>7. \A i \in Incident : Part(cost, i) \in Nat /\ Part(costA, i) \in Nat
                            /\ Part(cost, i) <= Part(costA, i)
  BY <1>1, <1>2, <1>3 DEF Part
<1>8. \A i \in Incident : Part(high, i) \in Nat /\ Part(highA, i) \in Nat
                            /\ Part(high, i) <= Part(highA, i)
  BY <1>1, <1>2, <1>3 DEF Part
<1>9. \A i \in Incident : Part(all, i) \in Nat /\ Part(allA, i) \in Nat
                            /\ Part(all, i) <= Part(allA, i)
  BY <1>3, <1>4, <1>5, <1>6 DEF Part
<1>10. \A i \in Incident : Part(one, i) \in Nat /\ Part(oneA, i) \in Nat
                             /\ Part(one, i) <= Part(oneA, i)
  BY <1>3, <1>4, <1>5, <1>6 DEF Part
<1>11. Spent = SumOf(cost) /\ Spent' = SumOf(costA)
  BY DEF Spent, SumOf
<1>12. Total("weighted") = SumOf(high) /\ Total("weighted")' = SumOf(highA)
  BY DEF Total, SumOf
<1>13. CallsOf(DOMAIN calls) = SumOf(all) /\ CallsOf(DOMAIN calls)' = SumOf(allA)
  BY DEF CallsOf, SumOf
<1>14. /\ CallsOf(DOMAIN calls \cap {1}) = SumOf(one)
       /\ CallsOf(DOMAIN calls \cap {1})' = SumOf(oneA)
  BY DEF CallsOf, SumOf
<1> HIDE DEF cost, costA, high, highA, all, allA, one, oneA
<1>15. SumOf(cost) \in Nat /\ SumOf(costA) \in Nat /\ SumOf(cost) <= SumOf(costA)
  BY <1>7, SumMono
<1>16. SumOf(high) \in Nat /\ SumOf(highA) \in Nat /\ SumOf(high) <= SumOf(highA)
  BY <1>8, SumMono
<1>17. SumOf(all) \in Nat /\ SumOf(allA) \in Nat /\ SumOf(all) <= SumOf(allA)
  BY <1>9, SumMono
<1>18. SumOf(one) \in Nat /\ SumOf(oneA) \in Nat /\ SumOf(one) <= SumOf(oneA)
  BY <1>10, SumMono
<1>19. QED
  BY <1>11, <1>12, <1>13, <1>14, <1>15, <1>16, <1>17, <1>18

-----------------------------------------------------------------------------
(* The commands, one by one. *)

\* The policy decides of every proposed action, and its decisions are what they are.
LEMMA PolicyLaw ==
  /\ \A a \in ProposedAction : Evaluate(a, {}) \in PolicyDecision
  /\ Evaluate("email_draft", {}) = "require_approval"
  /\ Evaluate("crm_field_update", {}) = "deny"
<1>1. Classify("email_draft", {}) = 2
  BY DEF Classify, TierByAction, ProposedAction
<1>2. Classify("crm_field_update", {}) = 3
  BY DEF Classify, ClassifyFieldUpdate, ProposedAction
<1>3. \A a \in ProposedAction : Classify(a, {}) \in RiskTier
  BY DEF Classify, ClassifyFieldUpdate, TierByAction, ProposedAction, RiskTier
<1>4. \A t \in RiskTier : DecisionByTier[t] \in PolicyDecision
  BY DEF DecisionByTier, PolicyDecision, RiskTier
<1>5. DecisionByTier[2] = "require_approval" /\ DecisionByTier[3] = "deny"
  BY DEF DecisionByTier, RiskTier
<1>6. QED
  BY <1>1, <1>2, <1>3, <1>4, <1>5 DEF Evaluate

\* A table of one row.
LEMMA OneRow ==
  ASSUME NEW x, NEW row
  PROVE  DOMAIN One(x, row) = {x} /\ One(x, row)[x] = row
BY DEF One

\* A command that leaves the runs and their calls alone leaves their sums alone.
LEMMA SpentSame ==
  ASSUME UNCHANGED runs
  PROVE  Spent' = Spent
BY DEF Spent, SumOf

LEMMA DetectStep ==
  ASSUME Rows, Detect
  PROVE  Rows' /\ Adds
<1> USE DEF Rows
<1>1. drawn \in Nat /\ MaxIncidents \in Nat /\ drawn < MaxIncidents
  BY BoundsAssumption DEF RowsShape, Detect
<1>2. drawn' \in 0 .. MaxIncidents /\ incidents' \subseteq 1 .. drawn'
  BY <1>1 DEF RowsShape, Detect
<1>3. UNCHANGED <<now, runs, actions, requests, calls, consumed, attempts, historyVars>>
  BY DEF Detect
<1>4. RowsShape'
  <2>1. Spent' = Spent
    BY <1>3, SpentSame
  <2>2. DOMAIN runs' \subseteq incidents'
    BY <1>3 DEF RowsShape, Detect
  <2>3. QED
    BY <1>2, <1>3, <2>1, <2>2 DEF RowsShape, historyVars
<1>5. ActionsShape'
  BY <1>3 DEF ActionsShape, KeyOf, Verdict, historyVars
<1>6. RequestsShape'
  BY <1>3 DEF RequestsShape, KeyOf, Verdict
<1>7. Adds
  <2>1. drawn >= 1 /\ 1 \in incidents' => 1 \in incidents
    BY <1>1 DEF Detect
  <2>2. \A r \in DOMAIN calls : calls[r] <= calls'[r]
    BY <1>3 DEF RowsShape
  <2>3. incidents \subseteq incidents' /\ drawn <= drawn'
    BY <1>1 DEF Detect
  <2>4. QED
    BY <1>3, <2>1, <2>2, <2>3 DEF Adds, historyVars
<1>8. QED
  BY <1>4, <1>5, <1>6, <1>7

LEMMA TickStep ==
  ASSUME Rows, Tick
  PROVE  Rows' /\ Adds
<1> USE DEF Rows
<1>1. UNCHANGED <<drawn, incidents, runs, actions, requests, calls, consumed, attempts,
                  historyVars>>
  BY DEF Tick
<1>2. now' \in 0 .. MaxTime
  BY BoundsAssumption DEF Tick, RowsShape
<1>3. RowsShape'
  <2>1. Spent' = Spent
    BY <1>1, SpentSame
  <2>2. QED
    BY <1>1, <1>2, <2>1 DEF RowsShape, historyVars
<1>4. ActionsShape'
  BY <1>1 DEF ActionsShape, KeyOf, Verdict, historyVars
<1>5. RequestsShape'
  BY <1>1 DEF RequestsShape, KeyOf, Verdict
<1>6. Adds
  <2>1. \A r \in DOMAIN calls : calls[r] <= calls'[r]
    BY <1>1 DEF RowsShape
  <2>2. drawn <= drawn'
    BY <1>1, BoundsAssumption DEF RowsShape
  <2>3. QED
    BY <1>1, <2>1, <2>2 DEF Adds, historyVars
<1>7. QED
  BY <1>3, <1>4, <1>5, <1>6

LEMMA DecideStep ==
  ASSUME Rows, NEW key, NEW status, Decide(key, status)
  PROVE  Rows' /\ Adds
<1> USE DEF Rows
<1>1. UNCHANGED <<now, drawn, incidents, runs, actions, calls, consumed, attempts, heeded, erased,
                  seeds>>
  BY DEF Decide
<1>2. redecided' = IF key \in DOMAIN actions THEN redecided \cup {key} ELSE redecided
  BY DEF Decide
<1>3. /\ DOMAIN requests' = DOMAIN requests
      /\ \A q \in DOMAIN requests : q # key => requests'[q] = requests[q]
  BY DEF Decide
<1>4. RowsShape'
  <2>1. Spent' = Spent
    BY <1>1, SpentSame
  <2>2. QED
    BY <1>1, <2>1 DEF RowsShape
<1>5. ActionsShape'
  <2>1. ASSUME NEW k \in DOMAIN actions
        PROVE  /\ KeyOf(k)'
               /\ Verdict(k)' = IF actions[k].approved THEN "require_approval" ELSE "allow"
               /\ actions[k].approved =>
                    /\ k \in DOMAIN requests'
                    /\ requests'[k].status = "approved" \/ k \in redecided'
                    /\ actions[k].executedAt # Nil => k \in heeded'
    <3>1. KeyOf(k)' /\ Verdict(k)' = IF actions[k].approved THEN "require_approval" ELSE "allow"
      BY <1>1 DEF ActionsShape, KeyOf, Verdict
    <3>2. ASSUME actions[k].approved
          PROVE  /\ k \in DOMAIN requests'
                 /\ requests'[k].status = "approved" \/ k \in redecided'
                 /\ actions[k].executedAt # Nil => k \in heeded'
      <4>1. /\ k \in DOMAIN requests
            /\ requests[k].status = "approved" \/ k \in redecided
            /\ actions[k].executedAt # Nil => k \in heeded
        BY <3>2 DEF ActionsShape
      <4>2. CASE k = key
        BY <1>1, <1>2, <1>3, <4>1, <4>2
      <4>3. CASE k # key
        BY <1>1, <1>2, <1>3, <4>1, <4>3
      <4>4. QED
        BY <4>2, <4>3
    <3>3. QED
      BY <3>1, <3>2
  <2>2. actions' = actions
    BY <1>1
  <2>3. QED
    BY <2>1, <2>2 DEF ActionsShape
<1>6. RequestsShape'
  BY <1>1, <1>3 DEF RequestsShape, KeyOf, Verdict
<1>7. Adds
  <2>1. \A r \in DOMAIN calls : calls[r] <= calls'[r]
    BY <1>1 DEF RowsShape
  <2>2. drawn <= drawn'
    BY <1>1, BoundsAssumption DEF RowsShape
  <2>3. redecided \subseteq redecided'
    BY <1>2
  <2>4. QED
    BY <1>1, <2>1, <2>2, <2>3 DEF Adds
<1>8. QED
  BY <1>4, <1>5, <1>6, <1>7

\* The ranks of a report are finitely many, and so is every choice of them.
LEMMA RanksFinite ==
  ASSUME NEW f \in Reports
  PROVE  /\ IsFiniteSet(DOMAIN f.actions)
         /\ \A k \in DOMAIN f.actions : f.actions[k] \in ProposedAction
         /\ \A d : Cardinality(Decided(f, d)) \in Nat /\ Decided(f, d) \subseteq DOMAIN f.actions
         /\ Len(f.evidence) \in Nat /\ f.cost \in Nat
<1>1. f \in Finding
  BY ReportsAssumption
<1>2. f.actions \in Seq(ProposedAction) /\ Len(f.evidence) \in Nat /\ f.cost \in Nat
  BY <1>1 DEF Finding
<1>3. DOMAIN f.actions = 1 .. Len(f.actions) /\ Len(f.actions) \in Nat
  BY <1>2
<1>4. IsFiniteSet(DOMAIN f.actions)
  BY <1>3, FS_Interval
<1>5. \A d : Decided(f, d) \subseteq DOMAIN f.actions
  BY DEF Decided
<1>6. \A d : Cardinality(Decided(f, d)) \in Nat
  BY <1>4, <1>5, FS_Subset, FS_CardinalityType
<1>7. \A k \in DOMAIN f.actions : f.actions[k] \in ProposedAction
  BY <1>2
<1>8. QED
  BY <1>2, <1>4, <1>5, <1>6, <1>7

LEMMA ResumeStep ==
  ASSUME Rows, NEW i \in Incident, Resume(i)
  PROVE  Rows' /\ Adds
<1> USE DEF Rows
<1>1. i \in DOMAIN runs
  BY DEF Resume
<1>2. UNCHANGED <<now, drawn, incidents, runs, requests, consumed, attempts, redecided, erased,
                  seeds>>
  BY DEF Resume
<1>3. PICK succeeded \in SUBSET Due(i) :
        /\ actions' = actions ++ [k \in Due(i) |-> ActionRecord(TRUE, k \in succeeded)]
        /\ heeded' = heeded \cup succeeded
  BY DEF Resume
<1>4. calls' = [calls EXCEPT ![i] = @ + Cardinality(Due(i))]
  BY DEF Resume
<1>5. ASSUME NEW k \in Due(i)
      PROVE  /\ KeyOf(k) /\ k[1] = i
             /\ k \in DOMAIN requests /\ k \notin DOMAIN actions
             /\ requests[k].status = "approved"
             /\ Verdict(k) = "require_approval"
  <2>1. k \in DOMAIN requests /\ k \notin DOMAIN actions /\ requests[k].status = "approved"
    BY DEF Due
  <2>2. k[1] = i
    BY DEF Due
  <2>3. QED
    BY <2>1, <2>2 DEF RequestsShape
<1>6. Cardinality(Due(i)) \in Nat
  <2>1. IsFiniteSet(DOMAIN runs[i].actions)
    BY <1>1, RanksFinite DEF RowsShape
  <2>2. IsFiniteSet({i} \X DOMAIN runs[i].actions)
    BY <2>1, FS_Singleton, FS_Product
  <2>3. Due(i) \subseteq {i} \X DOMAIN runs[i].actions
    BY DEF Due
  <2>4. QED
    BY <2>2, <2>3, FS_Subset, FS_CardinalityType
<1>7. /\ calls' \in [DOMAIN runs' -> Nat]
      /\ \A r \in DOMAIN calls : calls[r] <= calls'[r]
  BY <1>1, <1>2, <1>4, <1>6 DEF RowsShape
<1> DEFINE new == [k \in Due(i) |-> ActionRecord(TRUE, k \in succeeded)]
<1>8. /\ DOMAIN new = Due(i)
      /\ \A k \in Due(i) : new[k].approved = TRUE /\ (new[k].executedAt # Nil => k \in succeeded)
  BY DEF ActionRecord
<1>9. actions' = actions ++ new
  BY <1>3
<1> HIDE DEF new
<1>10. /\ DOMAIN actions' = DOMAIN actions \cup Due(i)
       /\ \A k \in DOMAIN actions : actions'[k] = actions[k]
       /\ \A k \in Due(i) : actions'[k] = new[k]
  BY <1>5, <1>8, <1>9 DEF ++
<1>11. RowsShape'
  <2>1. Spent' = Spent
    BY <1>2, SpentSame
  <2>2. QED
    BY <1>2, <1>7, <2>1 DEF RowsShape
<1>12. ActionsShape'
  <2>1. ASSUME NEW k \in DOMAIN actions
        PROVE  /\ KeyOf(k)'
               /\ Verdict(k)' = IF actions[k].approved THEN "require_approval" ELSE "allow"
               /\ actions[k].approved =>
                    /\ k \in DOMAIN requests'
                    /\ requests'[k].status = "approved" \/ k \in redecided'
                    /\ actions[k].executedAt # Nil => k \in heeded'
    BY <1>2, <1>3 DEF ActionsShape, KeyOf, Verdict
  <2>2. ASSUME NEW k \in Due(i)
        PROVE  /\ KeyOf(k)'
               /\ Verdict(k)' = IF new[k].approved THEN "require_approval" ELSE "allow"
               /\ new[k].approved =>
                    /\ k \in DOMAIN requests'
                    /\ requests'[k].status = "approved" \/ k \in redecided'
                    /\ new[k].executedAt # Nil => k \in heeded'
    BY <1>2, <1>3, <1>5, <1>8 DEF KeyOf, Verdict
  <2>3. QED
    BY <1>10, <2>1, <2>2 DEF ActionsShape
<1>13. RequestsShape'
  BY <1>2 DEF RequestsShape, KeyOf, Verdict
<1>14. Adds
  <2>1. drawn <= drawn'
    BY <1>2, BoundsAssumption DEF RowsShape
  <2>2. heeded \subseteq heeded'
    BY <1>3
  <2>3. QED
    BY <1>2, <1>7, <1>10, <2>1, <2>2 DEF Adds
<1>15. QED
  BY <1>11, <1>12, <1>13, <1>14

\* The run of an incident that had none: its actions and requests are all new.
LEMMA InvestigateStep ==
  ASSUME Rows, NEW i \in Incident, NEW f \in Reports, Investigate(i, f)
  PROVE  Rows' /\ Adds
<1> USE DEF Rows
<1>1. i \in incidents /\ i \notin DOMAIN runs
  BY DEF Investigate
<1>2. UNCHANGED <<now, drawn, incidents, attempts, heeded, redecided, erased, seeds>>
  BY DEF Investigate, historyVars
<1> DEFINE free == {i} \X Decided(f, "allow")
           asked == {i} \X Decided(f, "require_approval")
           newActions == [k \in free |-> ActionRecord(FALSE, FALSE)]
           newRequests == [k \in asked |-> [status |-> "pending", decidedAt |-> Nil,
                                             expiresAt |-> now + ApprovalTTL]]
           count == Len(f.evidence) + Cardinality(Decided(f, "allow"))
<1>3. /\ runs' = runs ++ One(i, f)
      /\ actions' = actions ++ newActions
      /\ requests' = requests ++ newRequests
      /\ calls' = calls ++ One(i, count)
      /\ consumed' = consumed + f.cost
  BY DEF Investigate
<1>4. /\ \A k \in free : /\ k = <<k[1], k[2]>> /\ k[1] = i /\ k[2] \in DOMAIN f.actions
                         /\ Evaluate(f.actions[k[2]], {}) = "allow"
      /\ \A k \in asked : /\ k = <<k[1], k[2]>> /\ k[1] = i /\ k[2] \in DOMAIN f.actions
                          /\ Evaluate(f.actions[k[2]], {}) = "require_approval"
  BY DEF Decided
<1>5. DOMAIN newActions = free /\ \A k \in free : newActions[k].approved = FALSE
  BY DEF ActionRecord
<1>6. DOMAIN newRequests = asked
  OBVIOUS
<1>7. count \in Nat
  BY RanksFinite
<1> HIDE DEF free, asked, newActions, newRequests, count
<1>8. /\ DOMAIN runs' = DOMAIN runs \cup {i} /\ runs'[i] = f
      /\ \A r \in DOMAIN runs : runs'[r] = runs[r]
  BY <1>1, <1>3, OneRow DEF ++
<1>9. /\ DOMAIN calls' = DOMAIN runs \cup {i} /\ calls'[i] = count
      /\ \A r \in DOMAIN runs : calls'[r] = calls[r]
  BY <1>1, <1>3, OneRow DEF RowsShape, ++
<1>10. \A k \in DOMAIN actions \cup DOMAIN requests : KeyOf(k) /\ k[1] # i
  BY <1>1 DEF ActionsShape, RequestsShape, KeyOf
<1>11. /\ DOMAIN actions' = DOMAIN actions \cup free
       /\ \A k \in DOMAIN actions : actions'[k] = actions[k]
       /\ \A k \in free : actions'[k].approved = FALSE
  <2>1. \A k \in free : k \notin DOMAIN actions
    BY <1>4, <1>10
  <2>2. QED
    BY <1>3, <1>5, <2>1 DEF ++
<1>12. /\ DOMAIN requests' = DOMAIN requests \cup asked
       /\ \A k \in DOMAIN requests : requests'[k] = requests[k]
  BY <1>3, <1>6 DEF ++
<1>13. \A k \in DOMAIN actions \cup DOMAIN requests : KeyOf(k)' /\ Verdict(k)' = Verdict(k)
  BY <1>8, <1>10 DEF KeyOf, Verdict
<1>14. /\ \A k \in free : KeyOf(k)' /\ Verdict(k)' = "allow"
       /\ \A k \in asked : KeyOf(k)' /\ Verdict(k)' = "require_approval"
  BY <1>4, <1>8 DEF KeyOf, Verdict
<1>15. RowsShape'
  <2>1. runs' \in [DOMAIN runs' -> Reports]
    <3>1. runs' = [r \in DOMAIN runs' |-> runs'[r]]
      BY <1>3 DEF ++
    <3>2. \A r \in DOMAIN runs' : runs'[r] \in Reports
      BY <1>8 DEF RowsShape
    <3>3. QED
      BY <3>1, <3>2
  <2>2. calls' \in [DOMAIN runs' -> Nat]
    <3>1. calls' = [r \in DOMAIN calls' |-> calls'[r]]
      BY <1>3 DEF ++
    <3>2. \A r \in DOMAIN calls' : calls'[r] \in Nat
      BY <1>7, <1>9 DEF RowsShape
    <3>3. QED
      BY <1>8, <1>9, <3>1, <3>2
  <2>3. consumed' = erased' + Spent'
    <3> DEFINE cost == [r \in DOMAIN runs |-> runs[r].cost]
               costA == [r \in DOMAIN runs' |-> runs'[r].cost]
    <3>1. f.cost \in Nat
      BY RanksFinite
    <3>2. \A j \in Incident : Part(cost, j) \in Nat
      BY ReportFields DEF Part
    <3>3. \A j \in Incident :
            Part(costA, j) = IF j = i THEN Part(cost, j) + f.cost ELSE Part(cost, j)
      <4>1. Part(cost, i) = 0 /\ Part(costA, i) = f.cost
        BY <1>1, <1>8 DEF Part
      <4>2. ASSUME NEW j \in Incident, j # i
            PROVE  Part(costA, j) = Part(cost, j)
        BY <1>8, <4>2 DEF Part
      <4>3. QED
        BY <3>1, <4>1, <4>2
    <3>4. Spent = SumOf(cost) /\ Spent' = SumOf(costA)
      BY DEF Spent, SumOf
    <3> HIDE DEF cost, costA
    <3>5. SumOf(costA) = SumOf(cost) + f.cost
      BY <3>1, <3>2, <3>3, SumAdd
    <3>6. Spent \in Nat /\ erased \in Nat /\ consumed = erased + Spent
      BY FiguresTyped DEF RowsShape
    <3>7. QED
      BY <1>2, <1>3, <3>1, <3>4, <3>5, <3>6
  <2>4. DOMAIN runs' \subseteq incidents'
    BY <1>1, <1>2, <1>8 DEF RowsShape
  <2>5. QED
    BY <1>2, <2>1, <2>2, <2>3, <2>4 DEF RowsShape
<1>16. ActionsShape'
  <2>1. ASSUME NEW k \in DOMAIN actions
        PROVE  /\ KeyOf(k)'
               /\ Verdict(k)' = IF actions[k].approved THEN "require_approval" ELSE "allow"
               /\ actions[k].approved =>
                    /\ k \in DOMAIN requests'
                    /\ requests'[k].status = "approved" \/ k \in redecided'
                    /\ actions[k].executedAt # Nil => k \in heeded'
    <3>1. KeyOf(k)' /\ Verdict(k)' = IF actions[k].approved THEN "require_approval" ELSE "allow"
      BY <1>13 DEF ActionsShape
    <3>2. QED
      BY <1>2, <1>12, <3>1 DEF ActionsShape
  <2>2. QED
    BY <1>11, <1>14, <2>1 DEF ActionsShape
<1>17. RequestsShape'
  BY <1>12, <1>13, <1>14 DEF RequestsShape
<1>18. Adds
  <2>1. drawn <= drawn'
    BY <1>2, BoundsAssumption DEF RowsShape
  <2>2. \A r \in DOMAIN calls : calls[r] <= calls'[r]
    BY <1>9 DEF RowsShape
  <2>3. QED
    BY <1>1, <1>2, <1>8, <1>11, <2>1, <2>2 DEF Adds
<1>19. QED
  BY <1>15, <1>16, <1>17, <1>18

\* The erasure: what was spent and is gone has moved from the sum to erased.
LEMMA SeedStep ==
  ASSUME Rows, Seed
  PROVE  /\ Rows'
         /\ seeds' = seeds + 1 /\ drawn' = drawn
         /\ incidents' = {} /\ DOMAIN runs' = {}
<1> USE DEF Rows
<1>1. /\ seeds < MaxSeeds /\ seeds' = seeds + 1 /\ incidents' = {}
      /\ runs' = <<>> /\ actions' = <<>> /\ requests' = <<>> /\ calls' = <<>>
      /\ erased' = erased + Spent
      /\ UNCHANGED <<now, drawn, consumed>>
  BY DEF Seed
<1>2. DOMAIN runs' = {} /\ DOMAIN actions' = {} /\ DOMAIN requests' = {} /\ DOMAIN calls' = {}
  BY <1>1
<1>3. Spent \in Nat /\ erased \in Nat /\ consumed = erased + Spent
  BY FiguresTyped DEF RowsShape
<1>4. Spent' = 0
  <2> DEFINE costA == [r \in DOMAIN runs' |-> runs'[r].cost]
  <2>1. Spent' = SumOf(costA)
    BY DEF Spent, SumOf
  <2>2. DOMAIN costA = {}
    BY <1>2
  <2> HIDE DEF costA
  <2>3. QED
    BY <2>1, <2>2, SumEmpty
<1>5. runs' \in [DOMAIN runs' -> Reports] /\ calls' \in [DOMAIN runs' -> Nat]
  BY <1>1
<1>6. seeds' \in 0 .. MaxSeeds
  BY <1>1, BoundsAssumption DEF RowsShape
<1>7. RowsShape'
  BY <1>1, <1>2, <1>3, <1>4, <1>5, <1>6 DEF RowsShape
<1>8. ActionsShape' /\ RequestsShape'
  BY <1>2 DEF ActionsShape, RequestsShape
<1>9. QED
  BY <1>1, <1>2, <1>7, <1>8

-----------------------------------------------------------------------------
(* Evaluations. *)

\* An incident that is gone does not come back, and neither does its run.
LEMMA GoneStays ==
  ASSUME RowsShape, RowsShape', Adds, GoneForGood
  PROVE  /\ GoneForGood'
         /\ 1 \in DOMAIN runs' => 1 \in DOMAIN runs /\ runs'[1] = runs[1]
<1>1. drawn \in Nat /\ drawn' \in Nat /\ drawn <= drawn'
  BY BoundsAssumption DEF RowsShape, Adds
<1>2. CASE 1 \in DOMAIN runs
  BY <1>2 DEF Adds, GoneForGood
<1>3. CASE 1 \notin DOMAIN runs
  <2>1. 1 \notin incidents /\ drawn >= 1
    BY <1>3 DEF GoneForGood
  <2>2. 1 \notin incidents' /\ drawn' >= 1
    BY <1>1, <2>1 DEF Adds
  <2>3. QED
    BY <2>1, <2>2 DEF GoneForGood, RowsShape
<1>4. QED
  BY <1>2, <1>3

\* Erased, it is gone.
LEMMA GoneBySeed ==
  ASSUME RowsShape, GoneForGood, incidents' = {}, drawn' = drawn
  PROVE  GoneForGood'
<1>1. drawn >= 1
  <2>1. drawn \in Nat
    BY BoundsAssumption DEF RowsShape
  <2>2. 1 \in DOMAIN runs => 1 \in 1 .. drawn
    BY DEF RowsShape
  <2>3. QED
    BY <2>1, <2>2 DEF GoneForGood
<1>2. QED
  BY <1>1 DEF GoneForGood

LEMMA AuditKept ==
  ASSUME RowsShape, RowsShape', Adds, UNCHANGED audit, AuditShape, AttemptsShape
  PROVE  AuditShape' /\ AttemptsShape'
<1>1. audit' = audit /\ attempts' = attempts
  BY DEF Adds
<1>2. AuditShape'
  <2>1. audit.at > 0 => audit.run = 1 /\ GoneForGood'
    BY GoneStays DEF AuditShape
  <2>2. ASSUME audit.at > 0, 1 \in DOMAIN runs'
        PROVE  /\ \A draft \in audit.drafts :
                    /\ draft.key \in DOMAIN actions' /\ draft.key[1] = 1
                    /\ draft.row = actions'[draft.key] /\ draft.row.approved
               /\ Truth(1, audit.failed)'
               /\ audit.at > 6 => Success(1, audit.failed)'
    <3>1. 1 \in DOMAIN runs
      BY <2>2, GoneStays DEF AuditShape
    <3>2. /\ \A draft \in audit.drafts :
               /\ draft.key \in DOMAIN actions /\ draft.key[1] = 1
               /\ draft.row = actions[draft.key] /\ draft.row.approved
          /\ Truth(1, audit.failed)
          /\ audit.at > 6 => Success(1, audit.failed)
      BY <2>2, <3>1 DEF AuditShape
    <3>3. Truth(1, audit.failed)'
      BY <1>1, <3>2 DEF Truth, Adds
    <3>4. audit.at > 6 => Success(1, audit.failed)'
      BY <1>1, <3>2 DEF Success, Adds
    <3>5. QED
      BY <3>2, <3>3, <3>4 DEF Adds
  <2>3. /\ audit = [at |-> audit.at, run |-> audit.run, startedAt |-> audit.startedAt,
                    failed |-> audit.failed, drafts |-> audit.drafts]
        /\ audit.at \in 0 .. Len(Stages) + 1
        /\ audit.startedAt \in Nat
        /\ audit.failed \subseteq Check
        /\ audit.failed \cap SecurityCheck = {}
    BY DEF AuditShape
  <2>4. QED
    BY <1>1, <2>1, <2>2, <2>3 DEF AuditShape, Stages, Truth, Success
<1>3. AttemptsShape'
  <2>1. ASSUME NEW j \in DOMAIN attempts
        PROVE  AttemptShape(attempts[j])'
    <3>1. AttemptShape(attempts[j])
      BY DEF AttemptsShape
    <3>2. QED
      BY <1>1, <3>1 DEF AttemptShape, Truth, Success, Adds
  <2>2. QED
    BY <1>1, <2>1 DEF AttemptsShape
<1>4. QED
  BY <1>2, <1>3

\* Erasing takes the run from every evaluation that names it, and leaves the rest of it.
LEMMA ErasedLaw ==
  ASSUME NEW a \in Attempt
  PROVE  /\ Erased(a) \in Attempt
         /\ Erased(a).run = NoRun /\ Erased(a).failed = a.failed
BY DEF Attempt, Erased, NoRun

LEMMA AuditBySeed ==
  ASSUME Rows, Seed, UNCHANGED audit, AuditShape, AttemptsShape
  PROVE  AuditShape' /\ AttemptsShape'
<1>1. incidents' = {} /\ drawn' = drawn /\ DOMAIN runs' = {}
  BY SeedStep
<1>2. audit' = audit
  OBVIOUS
<1>3. audit.at > 0 => audit.run = 1 /\ GoneForGood'
  BY <1>1, GoneBySeed DEF AuditShape, Rows
<1>4. AuditShape'
  BY <1>1, <1>2, <1>3 DEF AuditShape, Stages
<1>5. attempts' = [j \in DOMAIN attempts |-> Erased(attempts[j])]
  BY DEF Seed
<1>6. attempts \in Seq(Attempt) /\ \A j \in DOMAIN attempts : attempts[j] \in Attempt
  BY DEF AttemptsShape
<1>7. DOMAIN attempts = 1 .. Len(attempts) /\ Len(attempts) \in Nat
  BY <1>6
<1>8. \A j \in DOMAIN attempts : /\ Erased(attempts[j]) \in Attempt
                                 /\ Erased(attempts[j]).run = NoRun
                                 /\ Erased(attempts[j]).failed = attempts[j].failed
  BY <1>6, ErasedLaw
<1>9. attempts' \in Seq(Attempt) /\ DOMAIN attempts' = DOMAIN attempts
  BY <1>5, <1>7, <1>8
<1>10. ASSUME NEW j \in DOMAIN attempts'
       PROVE  AttemptShape(attempts[j])'
  <2>1. attempts'[j] = Erased(attempts[j]) /\ j \in DOMAIN attempts
    BY <1>5, <1>9
  <2>2. attempts[j].failed \cap SecurityCheck = {}
    BY <2>1 DEF AttemptsShape, AttemptShape
  <2>3. QED
    BY <1>8, <2>1, <2>2 DEF AttemptShape
<1>11. QED
  BY <1>4, <1>9, <1>10 DEF AttemptsShape

\* What each statement of the evaluation may find failing.
LEMMA ResultLaw ==
  ASSUME audit.at \in DOMAIN Stages
  PROVE  /\ Failing(Result) \subseteq Check
         /\ Stage # "security" => Failing(Result) \cap SecurityCheck = {}
         /\ Stage = "security" => Failing(Result) = Failing(Security(audit.run))
         /\ "no_external_action_without_approval" \in Failing(Result) =>
              Stage = "requests" /\ \E draft \in audit.drafts : ~ApprovedNow(draft)
         /\ Stage = "decision" /\ "draft_created_after_approval" \notin Failing(Result) =>
              \E draft \in audit.drafts : AfterApproval(draft)
<1>1. Stage \in {"incidents", "run", "drafts", "requests", "draft", "decision", "ledgers",
                 "security"}
  BY DEF Stage, Stages
<1>10. Failing(Result) \subseteq DOMAIN Result
  BY DEF Failing
<1>11. RubricCheck \subseteq Check /\ ApprovalCheck \subseteq Check /\ SecurityCheck \subseteq Check
  BY DEF Check
<1>12. \A x \in RubricCheck : x \notin SecurityCheck /\ x # "no_external_action_without_approval"
  BY DEF RubricCheck, SecurityCheck
<1>13. \A x \in SecurityCheck : x # "no_external_action_without_approval"
  BY DEF SecurityCheck
<1>14. /\ \A x \in ApprovalCheck : x \notin SecurityCheck
       /\ ApprovalCheck = {"no_external_action_without_approval", "draft_created_after_approval"}
       /\ "draft_created_after_approval" # "no_external_action_without_approval"
  BY DEF ApprovalCheck, SecurityCheck
<1>2. CASE Stage = "incidents"
  <2>1. DOMAIN Result \subseteq RubricCheck
    BY <1>2 DEF Result, RubricCheck
  <2>2. QED
    BY <1>2, <1>10, <1>11, <1>12, <1>13, <2>1
<1>3. CASE Stage = "run"
  <2>1. Result = Report(ReportOf(audit.run)) ++
         [tier1_auto_executed |->
            \E k \in RecordsOf(audit.run) : ActionOf(k) = "crm_task" /\ ~actions[k].approved]
    BY <1>3, Zenon DEF Result
  <2>2. DOMAIN Result \subseteq RubricCheck
    BY <2>1 DEF ++, Report, RubricCheck
  <2>3. QED
    BY <1>3, <1>10, <1>11, <1>12, <1>13, <2>2
<1>4. CASE Stage \in {"drafts", "draft"}
  <2>1. Result = <<>>
    BY <1>4 DEF Result
  <2>2. DOMAIN Result = {}
    BY <2>1
  <2>3. QED
    BY <1>4, <1>10, <2>2
<1>5. CASE Stage = "requests"
  <2>1. Result = [no_external_action_without_approval |->
                    \A draft \in audit.drafts : ApprovedNow(draft)]
    BY <1>5, Zenon DEF Result
  <2>2. DOMAIN Result = {"no_external_action_without_approval"}
    BY <2>1
  <2>3. "no_external_action_without_approval" \in Failing(Result) =>
          \E draft \in audit.drafts : ~ApprovedNow(draft)
    <3>1. Result["no_external_action_without_approval"]
            = (\A draft \in audit.drafts : ApprovedNow(draft))
      BY <2>1
    <3>2. QED
      BY <3>1 DEF Failing
  <2>4. QED
    BY <1>5, <1>10, <1>11, <1>14, <2>2, <2>3
<1>6. CASE Stage = "decision"
  <2>1. Result = [draft_created_after_approval |-> \E draft \in audit.drafts : AfterApproval(draft)]
    BY <1>6, Zenon DEF Result
  <2>2. DOMAIN Result = {"draft_created_after_approval"}
    BY <2>1
  <2>3. "draft_created_after_approval" \notin Failing(Result) =>
          \E draft \in audit.drafts : AfterApproval(draft)
    <3>1. Result["draft_created_after_approval"]
            = (\E draft \in audit.drafts : AfterApproval(draft))
      BY <2>1
    <3>2. QED
      BY <2>2, <3>1 DEF Failing
  <2>4. QED
    BY <1>6, <1>10, <1>11, <1>14, <2>2, <2>3
<1>7. CASE Stage = "ledgers"
  <2>1. DOMAIN Result \subseteq RubricCheck
    BY <1>7 DEF Result, RubricCheck
  <2>2. QED
    BY <1>7, <1>10, <1>11, <1>12, <1>13, <2>1
<1>8. CASE Stage = "security"
  <2>1. Result = Security(audit.run)
    BY <1>8 DEF Result
  <2>2. DOMAIN Result = SecurityCheck
    BY <2>1 DEF Security, SecurityCheck
  <2>3. QED
    BY <1>8, <1>10, <1>11, <1>12, <1>13, <2>1, <2>2
<1>9. QED
  BY <1>1, <1>2, <1>3, <1>4, <1>5, <1>6, <1>7, <1>8

\* No record is of an action that was denied, and no draft is of one that needed nobody.
LEMMA SecurityHolds ==
  ASSUME Rows
  PROVE  \A r : Failing(Security(r)) = {}
<1> SUFFICES ASSUME NEW r PROVE Failing(Security(r)) = {}
  OBVIOUS
<1>1. \A k \in DOMAIN actions : KeyOf(k) /\ ActionOf(k) = runs[k[1]].actions[k[2]]
  BY DEF Rows, ActionsShape, KeyOf, ActionOf, ReportOf
<1>2. \A k \in DOMAIN actions :
        Evaluate(ActionOf(k), {}) = IF actions[k].approved THEN "require_approval" ELSE "allow"
  BY <1>1 DEF Rows, ActionsShape, Verdict
<1>3. \A k \in RecordsOf(r) : Evaluate(ActionOf(k), {}) # "deny"
  BY <1>2 DEF RecordsOf
<1>4. \A k \in RecordsOf(r) : ActionOf(k) # "crm_field_update"
  BY <1>3, PolicyLaw
<1>5. \A draft \in DraftsOf(r) : draft.row.approved
  <2>1. \A k \in RecordsOf(r) : ActionOf(k) = "email_draft" => actions[k].approved
    BY <1>2, PolicyLaw DEF RecordsOf
  <2>2. QED
    BY <2>1 DEF DraftsOf
<1>6. \A c \in DOMAIN Security(r) : Security(r)[c]
  BY <1>3, <1>4, <1>5 DEF Security
<1>7. QED
  BY <1>6 DEF Failing

\* A draft that an evaluation reads was performed under an approval.
LEMMA DraftsApproved ==
  ASSUME Rows, NEW draft \in DraftsOf(1)
  PROVE  /\ draft.key \in DOMAIN actions /\ draft.key[1] = 1
         /\ draft.row = actions[draft.key] /\ draft.row.approved
<1>1. PICK k \in RecordsOf(1) :
        ActionOf(k) = "email_draft" /\ draft = [key |-> k, row |-> actions[k]]
  BY DEF DraftsOf
<1>2. k \in DOMAIN actions /\ k[1] = 1
  BY <1>1 DEF RecordsOf
<1>3. ActionOf(k) = runs[k[1]].actions[k[2]]
  BY <1>2 DEF Rows, ActionsShape, KeyOf, ActionOf, ReportOf
<1>4. Evaluate(ActionOf(k), {}) = IF actions[k].approved THEN "require_approval" ELSE "allow"
  BY <1>2, <1>3 DEF Rows, ActionsShape, Verdict
<1>5. actions[k].approved
  BY <1>1, <1>4, PolicyLaw
<1>6. QED
  BY <1>1, <1>2, <1>5

LEMMA ExamineStep ==
  ASSUME Rows, AuditShape, Examine, UNCHANGED rowVars
  PROVE  AuditShape'
<1> DEFINE failing == Failing(Result)
           drafts == IF Stage \in {"drafts", "draft"} THEN DraftsOf(audit.run) ELSE {}
<1>1. audit.at \in DOMAIN Stages /\ DOMAIN Stages = 1 .. 8 /\ Len(Stages) = 8
  BY DEF Examine, Stages
<1>2. audit = [at |-> audit.at, run |-> audit.run, startedAt |-> audit.startedAt,
               failed |-> audit.failed, drafts |-> audit.drafts]
  BY DEF AuditShape
<1>3. audit' = [audit EXCEPT !.at = audit.at + 1, !.failed = audit.failed \cup failing,
                             !.drafts = drafts]
  BY DEF Examine
<1>4. /\ failing \subseteq Check
      /\ failing \cap SecurityCheck = {}
      /\ "no_external_action_without_approval" \in failing =>
           \E draft \in audit.drafts : ~ApprovedNow(draft)
      /\ Stage = "decision" /\ "draft_created_after_approval" \notin failing =>
           \E draft \in audit.drafts : AfterApproval(draft)
  BY <1>1, ResultLaw, SecurityHolds
<1>5. Stage = "decision" <=> audit.at = 6
  BY <1>1 DEF Stage, Stages
<1> HIDE DEF failing, drafts
<1>6. audit' = [at |-> audit.at + 1, run |-> audit.run, startedAt |-> audit.startedAt,
                failed |-> audit.failed \cup failing, drafts |-> drafts]
  <2>1. PICK a, r, s, x, d :
          audit = [at |-> a, run |-> r, startedAt |-> s, failed |-> x, drafts |-> d]
    BY <1>2
  <2>2. QED
    BY <1>3, <2>1
<1>7. audit.run = 1 /\ GoneForGood
  BY <1>1 DEF AuditShape
<1>8. UNCHANGED <<drawn, incidents, runs, actions, requests, redecided, heeded>>
  BY DEF rowVars, commandVars, historyVars
<1>9. GoneForGood'
  BY <1>7, <1>8 DEF GoneForGood
<1>10. ASSUME 1 \in DOMAIN runs
       PROVE  /\ \A draft \in drafts :
                   /\ draft.key \in DOMAIN actions /\ draft.key[1] = 1
                   /\ draft.row = actions[draft.key] /\ draft.row.approved
              /\ Truth(1, audit.failed \cup failing)
              /\ audit.at + 1 > 6 => Success(1, audit.failed \cup failing)
  <2>1. \A draft \in drafts :
                   /\ draft.key \in DOMAIN actions /\ draft.key[1] = 1
                   /\ draft.row = actions[draft.key] /\ draft.row.approved
    BY <1>7, DraftsApproved DEF drafts
  <2>2. \A draft \in audit.drafts :
          /\ draft.key \in DOMAIN actions /\ draft.key[1] = 1
          /\ draft.row = actions[draft.key] /\ draft.row.approved
    BY <1>1, <1>10 DEF AuditShape
  <2>3. \A draft \in audit.drafts :
          /\ draft.key \in DOMAIN requests
          /\ requests[draft.key].status = "approved" \/ draft.key \in redecided
          /\ draft.row.executedAt # Nil => draft.key \in heeded
    BY <2>2 DEF Rows, ActionsShape
  <2>4. Truth(1, audit.failed \cup failing)
    <3>1. CASE "no_external_action_without_approval" \in audit.failed
      BY <1>1, <1>10, <3>1 DEF AuditShape, Truth
    <3>2. CASE "no_external_action_without_approval" \in failing
      <4>1. PICK draft \in audit.drafts : ~ApprovedNow(draft)
        BY <1>4, <3>2
      <4>2. draft.key \in redecided /\ draft.key[1] = 1
        BY <2>2, <2>3, <4>1 DEF ApprovedNow
      <4>3. QED
        BY <4>2 DEF Truth
    <3>3. QED
      BY <3>1, <3>2 DEF Truth
  <2>5. ASSUME audit.at + 1 > 6
        PROVE  Success(1, audit.failed \cup failing)
    <3>1. CASE audit.at > 6
      BY <1>1, <1>10, <3>1 DEF AuditShape, Success
    <3>2. CASE audit.at = 6
      <4>1. SUFFICES ASSUME "draft_created_after_approval" \notin failing
                     PROVE  \E k \in heeded : k[1] = 1
        BY DEF Success
      <4>2. PICK draft \in audit.drafts : AfterApproval(draft)
        BY <1>4, <1>5, <3>2, <4>1
      <4>3. draft.key \in heeded /\ draft.key[1] = 1
        BY <2>2, <2>3, <4>2 DEF AfterApproval
      <4>4. QED
        BY <4>3
    <3>3. QED
      BY <1>1, <2>5, <3>1, <3>2
  <2>6. QED
    BY <2>1, <2>4, <2>5
<1>11. /\ audit'.at = audit.at + 1 /\ audit'.run = 1 /\ audit'.startedAt = audit.startedAt
       /\ audit'.failed = audit.failed \cup failing /\ audit'.drafts = drafts
       /\ audit' = [at |-> audit'.at, run |-> audit'.run, startedAt |-> audit'.startedAt,
                    failed |-> audit'.failed, drafts |-> audit'.drafts]
  BY <1>6, <1>7
<1>12. /\ audit'.at \in 0 .. Len(Stages) + 1 /\ audit'.startedAt \in Nat
       /\ audit'.failed \subseteq Check /\ audit'.failed \cap SecurityCheck = {}
  BY <1>1, <1>4, <1>11 DEF AuditShape
<1>13. ASSUME 1 \in DOMAIN runs'
       PROVE  /\ \A draft \in audit'.drafts :
                   /\ draft.key \in DOMAIN actions' /\ draft.key[1] = 1
                   /\ draft.row = actions'[draft.key] /\ draft.row.approved
              /\ Truth(1, audit.failed)'
              /\ audit'.at > 6 => Success(1, audit.failed)'
  BY <1>8, <1>10, <1>11, <1>13 DEF Truth, Success
<1>14. QED
  BY <1>9, <1>11, <1>12, <1>13 DEF AuditShape

LEMMA EvaluationStep ==
  ASSUME Rows, AuditShape, AttemptsShape, Evaluation
  PROVE  Rows' /\ AuditShape' /\ AttemptsShape' /\ UNCHANGED <<commandVars, historyVars>>
<1>1. UNCHANGED <<commandVars, historyVars>>
  BY DEF Evaluation, rowVars
<1>2. Rows'
  <2>1. Spent' = Spent
    BY <1>1, SpentSame DEF commandVars
  <2>2. RowsShape'
    BY <1>1, <2>1 DEF Rows, RowsShape, commandVars, historyVars
  <2>3. ActionsShape'
    BY <1>1 DEF Rows, ActionsShape, KeyOf, Verdict, commandVars, historyVars
  <2>4. RequestsShape'
    BY <1>1 DEF Rows, RequestsShape, KeyOf, Verdict, commandVars, historyVars
  <2>5. QED
    BY <2>2, <2>3, <2>4 DEF Rows
<1>3. ASSUME UNCHANGED attempts
      PROVE  AttemptsShape'
  BY <1>1, <1>3 DEF AttemptsShape, AttemptShape, Truth, Success, commandVars, historyVars
<1>4. audit' = NoAudit => AuditShape'
  BY DEF AuditShape, NoAudit, Stages
<1>5. CASE BeginEvaluation /\ UNCHANGED rowVars
  <2>1. audit' = [at |-> 1, run |-> 1, startedAt |-> now, failed |-> {}, drafts |-> {}]
    BY <1>5 DEF BeginEvaluation, NoAudit
  <2>2. now \in Nat /\ 1 \in DOMAIN runs'
    BY <1>1, <1>5, BoundsAssumption DEF Rows, RowsShape, BeginEvaluation, commandVars
  <2>3. /\ audit'.at = 1 /\ audit'.run = 1 /\ audit'.startedAt = now
        /\ audit'.failed = {} /\ audit'.drafts = {}
        /\ audit' = [at |-> audit'.at, run |-> audit'.run, startedAt |-> audit'.startedAt,
                     failed |-> audit'.failed, drafts |-> audit'.drafts]
    BY <2>1
  <2>4. GoneForGood' /\ Truth(1, audit.failed)'
    BY <2>2, <2>3 DEF GoneForGood, Truth
  <2>5. AuditShape'
    BY <2>2, <2>3, <2>4 DEF AuditShape, Stages
  <2>6. QED
    BY <1>1, <1>2, <1>3, <1>5, <2>5 DEF rowVars
<1>6. CASE Examine /\ UNCHANGED rowVars
  BY <1>1, <1>2, <1>3, <1>6, ExamineStep DEF rowVars
<1>7. CASE AttemptRefused /\ UNCHANGED rowVars
  BY <1>1, <1>2, <1>3, <1>4, <1>7 DEF rowVars, AttemptRefused
<1>8. CASE RecordAttempt
  <2> DEFINE row == [run |-> audit.run, startedAt |-> audit.startedAt, failed |-> audit.failed]
  <2>1. attempts' = Append(attempts, row) /\ audit' = NoAudit /\ audit.run \in DOMAIN runs
    BY <1>8 DEF RecordAttempt, Persisted
  <2>2. audit.at > 6
    BY <1>8 DEF RecordAttempt, Stages
  <2>3. /\ audit.run = 1
        /\ audit.failed \cap SecurityCheck = {}
        /\ Truth(1, audit.failed) /\ Success(1, audit.failed)
    BY <2>1, <2>2 DEF AuditShape
  <2>4. row \in Attempt /\ row.run = 1 /\ row.failed = audit.failed
    BY <2>3 DEF Attempt, AuditShape
  <2>5. AttemptShape(row)
    BY <2>1, <2>3, <2>4 DEF AttemptShape
  <2> HIDE DEF row
  <2> DEFINE more == Append(attempts, row)
  <2>6. attempts \in Seq(Attempt) /\ \A j \in DOMAIN attempts : AttemptShape(attempts[j])
    BY DEF AttemptsShape
  <2>7. more \in Seq(Attempt) /\ \A j \in DOMAIN more : AttemptShape(more[j])
    <3>1. more \in Seq(Attempt)
      BY <2>4, <2>6
    <3>2. ASSUME NEW j \in DOMAIN more
          PROVE  more[j] = row \/ (j \in DOMAIN attempts /\ more[j] = attempts[j])
      BY <2>4, <2>6
    <3>3. QED
      BY <2>5, <2>6, <3>1, <3>2
  <2> HIDE DEF more
  <2>8. attempts' = more
    BY <2>1 DEF more
  <2>9. ASSUME NEW j \in DOMAIN attempts'
        PROVE  AttemptShape(attempts[j])'
    BY <1>1, <2>7, <2>8 DEF AttemptShape, Truth, Success, commandVars, historyVars
  <2>10. AttemptsShape'
    BY <2>7, <2>8, <2>9 DEF AttemptsShape
  <2>11. QED
    BY <1>1, <1>2, <1>4, <2>1, <2>10
<1>9. QED
  BY <1>5, <1>6, <1>7, <1>8 DEF Evaluation

-----------------------------------------------------------------------------
(* Pages, while the rows change. *)

LEMMA FiguresSame ==
  ASSUME UNCHANGED <<commandVars, historyVars>>
  PROVE  /\ Spent' = Spent
         /\ Total("weighted")' = Total("weighted")
         /\ CallsOf(DOMAIN calls)' = CallsOf(DOMAIN calls)
         /\ CallsOf(DOMAIN calls \cap {1})' = CallsOf(DOMAIN calls \cap {1})
<1>1. runs' = runs /\ calls' = calls
  BY DEF commandVars
<1>2. Spent' = Spent
  BY <1>1, SpentSame
<1>3. Total("weighted")' = Total("weighted")
  BY <1>1 DEF Total, SumOf
<1>4. /\ CallsOf(DOMAIN calls)' = CallsOf(DOMAIN calls)
      /\ CallsOf(DOMAIN calls \cap {1})' = CallsOf(DOMAIN calls \cap {1})
  BY <1>1 DEF CallsOf, SumOf
<1>5. QED
  BY <1>2, <1>3, <1>4

\* The statements of a page are different ones.
LEMMA StatementsLaw ==
  /\ DOMAIN Statements = Kind
  /\ \A kind \in Kind :
       /\ Len(Statements[kind]) \in 3 .. 6
       /\ \A j, l \in 1 .. Len(Statements[kind]) :
            Statements[kind][j] = Statements[kind][l] => j = l
<1>1. DOMAIN Statements = Kind
  BY DEF Statements, Kind
<1>2. /\ Statements["overview"] = <<"at_risk", "weighted", "open">>
      /\ Statements["cost"] = <<"tool_calls", "consumed", "total", "model", "tool", "by_incident">>
      /\ Statements["investigation"] = <<"run", "evidence", "hypotheses", "cites">>
      /\ Statements["interventions"] = <<"run", "decision", "action">>
      /\ Statements["timeline"] = <<"run", "tool_calls", "entries", "audit_events">>
      /\ Statements["detail"] = <<"incident", "account", "signal">>
  BY DEF Statements, CostStatements, InterventionStatements
<1>3. \A j \in 1 .. 3 : j = 1 \/ j = 2 \/ j = 3
  OBVIOUS
<1>4. \A j \in 1 .. 4 : j = 1 \/ j = 2 \/ j = 3 \/ j = 4
  OBVIOUS
<1>5. \A j \in 1 .. 6 : j = 1 \/ j = 2 \/ j = 3 \/ j = 4 \/ j = 5 \/ j = 6
  OBVIOUS
<1>6. ASSUME NEW kind \in Kind
      PROVE  /\ Len(Statements[kind]) \in 3 .. 6
             /\ \A j, l \in 1 .. Len(Statements[kind]) :
                  Statements[kind][j] = Statements[kind][l] => j = l
  <2> DEFINE list == Statements[kind]
  <2>1. CASE kind = "overview"
    <3>1. list = <<"at_risk", "weighted", "open">>
      BY <1>2, <2>1
    <3>2. Len(list) = 3 /\ list[1] = "at_risk" /\ list[2] = "weighted" /\ list[3] = "open"
      BY <3>1
    <3> HIDE DEF list
    <3>3. Len(list) \in 3 .. 6 /\ \A j, l \in 1 .. Len(list) : list[j] = list[l] => j = l
      BY <3>2, <1>3
    <3>4. QED
      BY <3>3 DEF list
  <2>2. CASE kind = "cost"
    <3>1. list = <<"tool_calls", "consumed", "total", "model", "tool", "by_incident">>
      BY <1>2, <2>2
    <3>2. /\ Len(list) = 6
          /\ list[1] = "tool_calls" /\ list[2] = "consumed" /\ list[3] = "total"
          /\ list[4] = "model" /\ list[5] = "tool" /\ list[6] = "by_incident"
      BY <3>1
    <3> HIDE DEF list
    <3>3. Len(list) \in 3 .. 6 /\ \A j, l \in 1 .. Len(list) : list[j] = list[l] => j = l
      BY <3>2, <1>5
    <3>4. QED
      BY <3>3 DEF list
  <2>3. CASE kind = "investigation"
    <3>1. list = <<"run", "evidence", "hypotheses", "cites">>
      BY <1>2, <2>3
    <3>2. /\ Len(list) = 4 /\ list[1] = "run" /\ list[2] = "evidence"
          /\ list[3] = "hypotheses" /\ list[4] = "cites"
      BY <3>1
    <3> HIDE DEF list
    <3>3. Len(list) \in 3 .. 6 /\ \A j, l \in 1 .. Len(list) : list[j] = list[l] => j = l
      BY <3>2, <1>4
    <3>4. QED
      BY <3>3 DEF list
  <2>4. CASE kind = "interventions"
    <3>1. list = <<"run", "decision", "action">>
      BY <1>2, <2>4
    <3>2. Len(list) = 3 /\ list[1] = "run" /\ list[2] = "decision" /\ list[3] = "action"
      BY <3>1
    <3> HIDE DEF list
    <3>3. Len(list) \in 3 .. 6 /\ \A j, l \in 1 .. Len(list) : list[j] = list[l] => j = l
      BY <3>2, <1>3
    <3>4. QED
      BY <3>3 DEF list
  <2>5. CASE kind = "timeline"
    <3>1. list = <<"run", "tool_calls", "entries", "audit_events">>
      BY <1>2, <2>5
    <3>2. /\ Len(list) = 4 /\ list[1] = "run" /\ list[2] = "tool_calls"
          /\ list[3] = "entries" /\ list[4] = "audit_events"
      BY <3>1
    <3> HIDE DEF list
    <3>3. Len(list) \in 3 .. 6 /\ \A j, l \in 1 .. Len(list) : list[j] = list[l] => j = l
      BY <3>2, <1>4
    <3>4. QED
      BY <3>3 DEF list
  <2>6. CASE kind = "detail"
    <3>1. list = <<"incident", "account", "signal">>
      BY <1>2, <2>6
    <3>2. Len(list) = 3 /\ list[1] = "incident" /\ list[2] = "account" /\ list[3] = "signal"
      BY <3>1
    <3> HIDE DEF list
    <3>3. Len(list) \in 3 .. 6 /\ \A j, l \in 1 .. Len(list) : list[j] = list[l] => j = l
      BY <3>2, <1>3
    <3>4. QED
      BY <3>3 DEF list
  <2>7. QED
    BY <2>1, <2>2, <2>3, <2>4, <2>5, <2>6 DEF Kind
<1>7. QED
  BY <1>1, <1>6

\* Which answers a page half built has.
LEMMA GotLaw ==
  ASSUME PageShape, page.kind \in Kind
  PROVE  /\ page.at \in 1 .. 7
         /\ \A j \in 1 .. Len(Statements[page.kind]) :
              j < page.at <=> Statements[page.kind][j] \in DOMAIN page.got
<1> DEFINE list == Statements[page.kind]
           n == Len(list)
<1>1. page.kind # Nil
  BY NilAssumption
<1>2. /\ page.at \in 1 .. n + 1
      /\ DOMAIN page.got = {list[j] : j \in 1 .. page.at - 1}
  BY <1>1 DEF PageShape
<1>3. n \in 3 .. 6 /\ \A j, l \in 1 .. n : list[j] = list[l] => j = l
  BY StatementsLaw
<1> HIDE DEF list, n
<1>4. page.at \in 1 .. 7
  BY <1>2, <1>3
<1>5. ASSUME NEW j \in 1 .. n
      PROVE  j < page.at <=> list[j] \in DOMAIN page.got
  <2>1. ASSUME j < page.at
        PROVE  list[j] \in DOMAIN page.got
    BY <1>2, <1>3, <1>4, <2>1
  <2>2. ASSUME list[j] \in DOMAIN page.got
        PROVE  j < page.at
    <3>1. PICK l \in 1 .. page.at - 1 : list[j] = list[l]
      BY <1>2, <2>2
    <3>2. l \in 1 .. n
      BY <1>2, <1>3
    <3>3. j = l
      BY <1>3, <3>1, <3>2
    <3>4. QED
      BY <1>4, <3>1, <3>3
  <2>3. QED
    BY <2>1, <2>2
<1>6. QED
  BY <1>4, <1>5 DEF list, n

\* A page is kept by a command that adds: the figures it has stay below what they are
\* compared with, and a run it found is still that run.
LEMMA PageKept ==
  ASSUME CInv, Rows', Adds, UNCHANGED page
  PROVE  PageShape' /\ Figures' /\ InvestigationSoFar' /\ InterventionsSoFar'
<1>1. page' = page /\ seeds' = seeds /\ erased' = erased
  BY DEF Adds
<1>2. PageShape'
  BY <1>1 DEF CInv, PageShape, Statements, CostStatements, InterventionStatements
<1>3. Undisturbed' => Undisturbed
  BY <1>1 DEF Undisturbed
<1>4. RowsShape /\ RowsShape' /\ ActionsShape
  BY DEF CInv, Rows
<1>5. page.kind \in Kind => page.at \in 1 .. 7
  BY GotLaw DEF CInv
<1>6. erased \in Nat
  BY <1>4 DEF RowsShape
<1>7. /\ Spent \in Nat /\ Spent' \in Nat /\ Spent <= Spent'
      /\ Total("weighted") \in Nat /\ Total("weighted")' \in Nat
      /\ Total("weighted") <= Total("weighted")'
      /\ CallsOf(DOMAIN calls) \in Nat /\ CallsOf(DOMAIN calls)' \in Nat
      /\ CallsOf(DOMAIN calls) <= CallsOf(DOMAIN calls)'
      /\ CallsOf(DOMAIN calls \cap {1}) \in Nat /\ CallsOf(DOMAIN calls \cap {1})' \in Nat
      /\ CallsOf(DOMAIN calls \cap {1}) <= CallsOf(DOMAIN calls \cap {1})'
  BY <1>4, FiguresGrow
<1>8. OverviewSoFar'
  <2>1. SUFFICES ASSUME Opened("overview"), Undisturbed
                 PROVE  /\ page.at > 1 => page.got.at_risk \in 0 .. Total("weighted")'
                        /\ page.at > 2 => page.got.weighted \in Nat
                                          /\ page.got.at_risk <= page.got.weighted
    BY <1>1, <1>3 DEF OverviewSoFar, Opened
  <2>2. /\ page.at > 1 => page.got.at_risk \in 0 .. Total("weighted")
        /\ page.at > 2 => page.got.weighted \in Nat
                          /\ page.got.at_risk <= page.got.weighted
    BY <2>1 DEF CInv, Figures, OverviewSoFar
  <2>3. QED
    BY <1>7, <2>2
<1>9. CostSoFar'
  <2>1. SUFFICES ASSUME Opened("cost"), Undisturbed
                 PROVE  /\ page.at > 1 => page.got.tool_calls \in 0 .. CallsOf(DOMAIN calls)'
                        /\ page.at > 2 => page.got.consumed \in 0 .. Spent' + erased
                        /\ page.at > 3 => page.got.total \in 0 .. Spent'
                                          /\ page.got.consumed <= page.got.total + erased
                        /\ page.at > 4 => page.got.model \in page.got.total .. Spent'
                        /\ page.at > 5 => page.got.tool = 0
                        /\ page.at > 6 => page.got.by_incident \in [cost : Nat, calls : Nat]
                                          /\ page.got.model <= page.got.by_incident.cost
                                          /\ page.got.tool_calls <= page.got.by_incident.calls
    BY <1>1, <1>3 DEF CostSoFar, Opened
  <2>2. /\ page.at > 1 => page.got.tool_calls \in 0 .. CallsOf(DOMAIN calls)
        /\ page.at > 2 => page.got.consumed \in 0 .. Spent + erased
        /\ page.at > 3 => page.got.total \in 0 .. Spent
                          /\ page.got.consumed <= page.got.total + erased
        /\ page.at > 4 => page.got.model \in page.got.total .. Spent
        /\ page.at > 5 => page.got.tool = 0
        /\ page.at > 6 => page.got.by_incident \in [cost : Nat, calls : Nat]
                          /\ page.got.model <= page.got.by_incident.cost
                          /\ page.got.tool_calls <= page.got.by_incident.calls
    BY <2>1 DEF CInv, Figures, CostSoFar
  <2>3. page.at \in 1 .. 7
    BY <1>5, <2>1 DEF Opened, Kind
  <2>4. page.at > 4 => page.got.model \in page.got.total .. Spent'
    <3>1. page.at > 4 => page.got.total \in Nat
      BY <2>2, <2>3
    <3>2. QED
      BY <1>7, <2>2, <3>1
  <2>5. /\ page.at > 1 => page.got.tool_calls \in 0 .. CallsOf(DOMAIN calls)'
        /\ page.at > 2 => page.got.consumed \in 0 .. Spent' + erased
        /\ page.at > 3 => page.got.total \in 0 .. Spent'
    BY <1>6, <1>7, <2>2
  <2>6. QED
    BY <2>2, <2>4, <2>5
<1>10. TimelineSoFar'
  <2>1. SUFFICES ASSUME Opened("timeline"), Undisturbed
                 PROVE  /\ page.at > 2 =>
                             page.got.tool_calls \in 0 .. CallsOf(DOMAIN calls \cap {1})'
                        /\ page.at > 3 => page.got.entries \in Nat
                                          /\ page.got.tool_calls <= page.got.entries
    BY <1>1, <1>3 DEF TimelineSoFar, Opened
  <2>2. /\ page.at > 2 => page.got.tool_calls \in 0 .. CallsOf(DOMAIN calls \cap {1})
        /\ page.at > 3 => page.got.entries \in Nat
                          /\ page.got.tool_calls <= page.got.entries
    BY <2>1 DEF CInv, Figures, TimelineSoFar
  <2>3. QED
    BY <1>7, <2>2
<1>11. DetailSoFar'
  BY <1>1, <1>3 DEF CInv, Figures, DetailSoFar, Opened, Adds
<1>12. InvestigationSoFar'
  BY <1>1, <1>4, GoneStays DEF CInv, InvestigationSoFar, Opened
<1>13. InterventionsSoFar'
  <2>1. GoneForGood =>
          GoneForGood' /\ (1 \in DOMAIN runs' => 1 \in DOMAIN runs /\ runs'[1] = runs[1])
    BY <1>4, GoneStays
  <2>2. QED
    BY <1>1, <2>1 DEF CInv, InterventionsSoFar, Opened, Verdict
<1>14. QED
  BY <1>2, <1>8, <1>9, <1>10, <1>11, <1>12, <1>13 DEF Figures

\* A page the mirror was replaced under only keeps what holds of it for good.
LEMMA PageBySeed ==
  ASSUME CInv, Seed, UNCHANGED page
  PROVE  PageShape' /\ Figures' /\ InvestigationSoFar' /\ InterventionsSoFar'
<1>1. Rows' /\ seeds' = seeds + 1 /\ drawn' = drawn /\ incidents' = {} /\ DOMAIN runs' = {}
  BY SeedStep DEF CInv
<1>2. page' = page
  OBVIOUS
<1>3. page.since \in Nat /\ page.since <= seeds /\ seeds \in Nat
  BY BoundsAssumption DEF CInv, PageShape, Rows, RowsShape
<1>4. PageShape'
  BY <1>1, <1>2, <1>3 DEF CInv, PageShape, Statements, CostStatements, InterventionStatements
<1>5. ~Undisturbed'
  BY <1>1, <1>2, <1>3 DEF Undisturbed
<1>6. Figures'
  BY <1>5 DEF Figures, OverviewSoFar, CostSoFar, TimelineSoFar, DetailSoFar
<1>7. GoneForGood => GoneForGood'
  BY <1>1, GoneBySeed DEF CInv, Rows
<1>8. InvestigationSoFar' /\ InterventionsSoFar'
  BY <1>1, <1>2, <1>7 DEF CInv, InvestigationSoFar, InterventionsSoFar, Opened
<1>9. QED
  BY <1>4, <1>6, <1>8

\* An evaluation leaves a page alone.
LEMMA PageSame ==
  ASSUME CInv, UNCHANGED <<commandVars, historyVars, page>>
  PROVE  PageShape' /\ Figures' /\ InvestigationSoFar' /\ InterventionsSoFar'
<1>1. UNCHANGED <<commandVars, historyVars>> /\ page' = page
  OBVIOUS
<1>2. /\ runs' = runs /\ incidents' = incidents /\ drawn' = drawn
      /\ erased' = erased /\ seeds' = seeds
  BY <1>1 DEF commandVars, historyVars
<1>3. /\ Spent' = Spent
      /\ Total("weighted")' = Total("weighted")
      /\ CallsOf(DOMAIN calls)' = CallsOf(DOMAIN calls)
      /\ CallsOf(DOMAIN calls \cap {1})' = CallsOf(DOMAIN calls \cap {1})
  BY <1>1, FiguresSame
<1>4. PageShape'
  BY <1>1, <1>2 DEF CInv, PageShape, Statements, CostStatements, InterventionStatements
<1>5. OverviewSoFar'
  BY <1>1, <1>2, <1>3 DEF CInv, Figures, OverviewSoFar, Undisturbed, Opened
<1>6. CostSoFar'
  BY <1>1, <1>2, <1>3 DEF CInv, Figures, CostSoFar, Undisturbed, Opened
<1>7. TimelineSoFar'
  BY <1>1, <1>2, <1>3 DEF CInv, Figures, TimelineSoFar, Undisturbed, Opened
<1>8. DetailSoFar'
  BY <1>1, <1>2 DEF CInv, Figures, DetailSoFar, Undisturbed, Opened
<1>9. InvestigationSoFar'
  BY <1>1, <1>2 DEF CInv, InvestigationSoFar, GoneForGood, Opened
<1>10. InterventionsSoFar'
  BY <1>1, <1>2 DEF CInv, InterventionsSoFar, GoneForGood, Verdict, Opened
<1>11. QED
  BY <1>4, <1>5, <1>6, <1>7, <1>8, <1>9, <1>10 DEF Figures

-----------------------------------------------------------------------------
(* Pages, one statement further. *)

\* What a statement adds to a page, and that it leaves the rest of it.
LEMMA ReadLaw ==
  ASSUME PageShape, Read, UNCHANGED rowVars
  PROVE  /\ page.kind \in Kind /\ page'.kind = page.kind
         /\ page'.rank = page.rank /\ page'.since = page.since
         /\ page.at \in 1 .. Len(Statements[page.kind]) /\ page'.at = page.at + 1
         /\ \A x \in DOMAIN page.got : page'.got[x] = page.got[x]
         /\ page'.got[Statements[page.kind][page.at]]
              = Answer(Statements[page.kind][page.at], 1, page.rank)
         /\ PageShape'
<1> DEFINE list == Statements[page.kind]
           s == list[page.at]
           answer == Answer(s, 1, page.rank)
           more == page.got ++ One(s, answer)
<1>1. page.kind \in Kind /\ page.kind # Nil
  BY DEF PageShape, Read
<1>2. /\ page.at \in 1 .. Len(list) + 1
      /\ DOMAIN page.got = {list[j] : j \in 1 .. page.at - 1}
      /\ Len(list) \in 3 .. 6
  BY <1>1, StatementsLaw DEF PageShape
<1>3. page.at \in 1 .. Len(list)
  <2>1. ~ (page.at > Len(list))
    BY DEF Read, Sent
  <2> HIDE DEF list
  <2>2. QED
    BY <1>2, <2>1
<1>4. s \notin DOMAIN page.got
  <2>1. page.at < page.at <=> s \in DOMAIN page.got
    BY <1>1, <1>3, GotLaw
  <2>2. page.at \in Int
    BY <1>1, GotLaw
  <2>3. QED
    BY <2>1, <2>2
<1>5. page' = [page EXCEPT !.at = page.at + 1, !.got = more]
  BY DEF Read
<1>6. page = [kind |-> page.kind, rank |-> page.rank, at |-> page.at, got |-> page.got,
              since |-> page.since]
  BY DEF PageShape
<1>7. /\ DOMAIN more = DOMAIN page.got \cup {s} /\ more[s] = answer
      /\ \A x \in DOMAIN page.got : more[x] = page.got[x]
  <2> HIDE DEF s, answer
  <2>1. DOMAIN One(s, answer) = {s} /\ One(s, answer)[s] = answer
    BY OneRow
  <2>2. QED
    BY <1>4, <2>1 DEF ++
<1> HIDE DEF list, s, answer, more
<1>8. page' = [kind |-> page.kind, rank |-> page.rank, at |-> page.at + 1, got |-> more,
               since |-> page.since]
  <2>1. PICK a, b, c, d, e : page = [kind |-> a, rank |-> b, at |-> c, got |-> d, since |-> e]
    BY <1>6
  <2>2. QED
    BY <1>5, <2>1
<1>9. /\ page'.kind = page.kind /\ page'.rank = page.rank /\ page'.at = page.at + 1
      /\ page'.got = more /\ page'.since = page.since
      /\ page' = [kind |-> page'.kind, rank |-> page'.rank, at |-> page'.at, got |-> page'.got,
                  since |-> page'.since]
  BY <1>8
<1>10. page'.at \in 1 .. Len(list) + 1 /\ page'.at - 1 = page.at
  BY <1>2, <1>3, <1>9
<1>11. DOMAIN page'.got = {list[j] : j \in 1 .. page'.at - 1}
  <2>1. 1 .. page.at = (1 .. page.at - 1) \cup {page.at}
    BY <1>2, <1>3
  <2>2. {list[j] : j \in 1 .. page.at} = {list[j] : j \in 1 .. page.at - 1} \cup {s}
    BY <2>1 DEF s
  <2>3. QED
    BY <1>2, <1>7, <1>9, <1>10, <2>2
<1>12. seeds' = seeds
  BY DEF rowVars, historyVars
<1>13. PageShape'
  BY <1>1, <1>9, <1>10, <1>11, <1>12
  DEF PageShape, list, Statements, CostStatements, InterventionStatements
<1>14. QED
  BY <1>1, <1>3, <1>7, <1>9, <1>13 DEF list, s, answer, more

\* What a page of each kind asks, in order.
LEMMA StatementsOf ==
  /\ Statements["overview"] = <<"at_risk", "weighted", "open">>
  /\ Statements["cost"] = <<"tool_calls", "consumed", "total", "model", "tool", "by_incident">>
  /\ Statements["investigation"] = <<"run", "evidence", "hypotheses", "cites">>
  /\ Statements["interventions"] = <<"run", "decision", "action">>
  /\ Statements["timeline"] = <<"run", "tool_calls", "entries", "audit_events">>
  /\ Statements["detail"] = <<"incident", "account", "signal">>
BY DEF Statements, CostStatements, InterventionStatements

LEMMA ReadOverview ==
  ASSUME CInv, Read, UNCHANGED rowVars
  PROVE  OverviewSoFar'
<1>1. /\ page'.kind = page.kind /\ page'.since = page.since /\ page'.at = page.at + 1
      /\ page.at \in 1 .. Len(Statements[page.kind])
      /\ \A x \in DOMAIN page.got : page'.got[x] = page.got[x]
      /\ page'.got[Statements[page.kind][page.at]]
           = Answer(Statements[page.kind][page.at], 1, page.rank)
  BY ReadLaw DEF CInv
<1>2. UNCHANGED <<commandVars, historyVars>> /\ seeds' = seeds
  BY DEF rowVars, historyVars
<1>3. Total("weighted")' = Total("weighted")
  BY <1>2, FiguresSame
<1>4. SUFFICES ASSUME page.kind = "overview", Undisturbed
               PROVE  /\ page.at + 1 > 1 => page'.got.at_risk \in 0 .. Total("weighted")
                      /\ page.at + 1 > 2 => page'.got.weighted \in Nat
                                            /\ page'.got.at_risk <= page'.got.weighted
  BY <1>1, <1>2, <1>3 DEF OverviewSoFar, Opened, Undisturbed
<1>5. Statements[page.kind] = <<"at_risk", "weighted", "open">>
  BY <1>4, StatementsOf
<1>6. page.at \in 1 .. 3
  BY <1>1, <1>5
<1>7. /\ page.at > 1 => "at_risk" \in DOMAIN page.got
      /\ page.at > 2 => "weighted" \in DOMAIN page.got
  BY <1>4, <1>5, <1>6, GotLaw DEF CInv, Kind
<1>8. /\ page.at > 1 => page.got.at_risk \in 0 .. Total("weighted")
      /\ page.at > 2 => page.got.weighted \in Nat /\ page.got.at_risk <= page.got.weighted
  BY <1>4 DEF CInv, Figures, OverviewSoFar, Opened
<1>9. /\ Total("atRisk") \in Nat /\ Total("weighted") \in Nat
      /\ Total("atRisk") <= Total("weighted")
  BY FiguresTyped DEF CInv, Rows
<1>10. CASE page.at = 1
  <2>1. page'.got.at_risk = Total("atRisk")
    BY <1>1, <1>5, <1>10 DEF Answer
  <2>2. QED
    BY <1>9, <1>10, <2>1
<1>11. CASE page.at = 2
  <2>1. page'.got.weighted = Total("weighted")
    BY <1>1, <1>5, <1>11 DEF Answer
  <2>2. page'.got.at_risk = page.got.at_risk
    BY <1>1, <1>7, <1>11
  <2>3. QED
    BY <1>8, <1>9, <1>11, <2>1, <2>2
<1>12. CASE page.at = 3
  <2>1. page'.got.at_risk = page.got.at_risk /\ page'.got.weighted = page.got.weighted
    BY <1>1, <1>7, <1>12
  <2>2. QED
    BY <1>8, <1>12, <2>1
<1>13. QED
  BY <1>6, <1>10, <1>11, <1>12

LEMMA ReadCost ==
  ASSUME CInv, Read, UNCHANGED rowVars
  PROVE  CostSoFar'
<1>1. /\ page'.kind = page.kind /\ page'.since = page.since /\ page'.at = page.at + 1
      /\ page.at \in 1 .. Len(Statements[page.kind])
      /\ \A x \in DOMAIN page.got : page'.got[x] = page.got[x]
      /\ page'.got[Statements[page.kind][page.at]]
           = Answer(Statements[page.kind][page.at], 1, page.rank)
  BY ReadLaw DEF CInv
<1>2. UNCHANGED <<commandVars, historyVars>> /\ seeds' = seeds /\ erased' = erased
  BY DEF rowVars, historyVars
<1>3. Spent' = Spent /\ CallsOf(DOMAIN calls)' = CallsOf(DOMAIN calls)
  BY <1>2, FiguresSame
<1>4. SUFFICES ASSUME page.kind = "cost", Undisturbed
               PROVE  /\ page.at + 1 > 1 => page'.got.tool_calls \in 0 .. CallsOf(DOMAIN calls)
                      /\ page.at + 1 > 2 => page'.got.consumed \in 0 .. Spent + erased
                      /\ page.at + 1 > 3 => page'.got.total \in 0 .. Spent
                                            /\ page'.got.consumed <= page'.got.total + erased
                      /\ page.at + 1 > 4 => page'.got.model \in page'.got.total .. Spent
                      /\ page.at + 1 > 5 => page'.got.tool = 0
                      /\ page.at + 1 > 6 => page'.got.by_incident \in [cost : Nat, calls : Nat]
                                            /\ page'.got.model <= page'.got.by_incident.cost
                                            /\ page'.got.tool_calls <= page'.got.by_incident.calls
  BY <1>1, <1>2, <1>3 DEF CostSoFar, Opened, Undisturbed
<1>5. Statements[page.kind] = <<"tool_calls", "consumed", "total", "model", "tool", "by_incident">>
  BY <1>4, StatementsOf
<1>6. page.at \in 1 .. 6
  BY <1>1, <1>5
<1>7. /\ page.at > 1 => "tool_calls" \in DOMAIN page.got
      /\ page.at > 2 => "consumed" \in DOMAIN page.got
      /\ page.at > 3 => "total" \in DOMAIN page.got
      /\ page.at > 4 => "model" \in DOMAIN page.got
      /\ page.at > 5 => "tool" \in DOMAIN page.got
  BY <1>4, <1>5, <1>6, GotLaw DEF CInv, Kind
<1>8. /\ page.at > 1 => page.got.tool_calls \in 0 .. CallsOf(DOMAIN calls)
      /\ page.at > 2 => page.got.consumed \in 0 .. Spent + erased
      /\ page.at > 3 => page.got.total \in 0 .. Spent
                        /\ page.got.consumed <= page.got.total + erased
      /\ page.at > 4 => page.got.model \in page.got.total .. Spent
      /\ page.at > 5 => page.got.tool = 0
  BY <1>4 DEF CInv, Figures, CostSoFar, Opened
<1>9. Spent \in Nat /\ CallsOf(DOMAIN calls) \in Nat
  BY FiguresTyped DEF CInv, Rows
<1>10. erased \in Nat /\ consumed = erased + Spent
  BY DEF CInv, Rows, RowsShape
<1>11. /\ page.at > 1 => page'.got.tool_calls = page.got.tool_calls
       /\ page.at > 2 => page'.got.consumed = page.got.consumed
       /\ page.at > 3 => page'.got.total = page.got.total
       /\ page.at > 4 => page'.got.model = page.got.model
       /\ page.at > 5 => page'.got.tool = page.got.tool
  BY <1>1, <1>7
<1>12. CASE page.at = 1
  <2>1. page'.got.tool_calls = CallsOf(DOMAIN calls)
    BY <1>1, <1>4, <1>5, <1>12 DEF Answer
  <2>2. QED
    BY <1>9, <1>12, <2>1
<1>13. CASE page.at = 2
  <2>1. page'.got.consumed = consumed
    BY <1>1, <1>5, <1>13 DEF Answer
  <2>2. QED
    BY <1>8, <1>9, <1>10, <1>11, <1>13, <2>1
<1>14. CASE page.at = 3
  <2>1. page'.got.total = Spent
    BY <1>1, <1>5, <1>14 DEF Answer
  <2>2. QED
    BY <1>8, <1>9, <1>10, <1>11, <1>14, <2>1
<1>15. CASE page.at = 4
  <2>1. page'.got.model = Spent
    BY <1>1, <1>5, <1>15 DEF Answer
  <2>2. QED
    BY <1>8, <1>9, <1>10, <1>11, <1>15, <2>1
<1>16. CASE page.at = 5
  <2>1. page'.got.tool = 0
    BY <1>1, <1>5, <1>16 DEF Answer
  <2>2. QED
    BY <1>8, <1>11, <1>16, <2>1
<1>17. CASE page.at = 6
  <2>1. page'.got.by_incident = [cost |-> Spent, calls |-> CallsOf(DOMAIN calls)]
    BY <1>1, <1>5, <1>17 DEF Answer
  <2>2. /\ page'.got.by_incident \in [cost : Nat, calls : Nat]
        /\ page'.got.by_incident.cost = Spent
        /\ page'.got.by_incident.calls = CallsOf(DOMAIN calls)
    BY <1>9, <2>1
  <2>3. page.got.model <= Spent /\ page.got.tool_calls <= CallsOf(DOMAIN calls)
    BY <1>8, <1>9, <1>17
  <2>4. QED
    BY <1>8, <1>11, <1>17, <2>2, <2>3
<1>18. QED
  BY <1>6, <1>12, <1>13, <1>14, <1>15, <1>16, <1>17

LEMMA ReadTimeline ==
  ASSUME CInv, Read, UNCHANGED rowVars
  PROVE  TimelineSoFar'
<1>1. /\ page'.kind = page.kind /\ page'.since = page.since /\ page'.at = page.at + 1
      /\ page.at \in 1 .. Len(Statements[page.kind])
      /\ \A x \in DOMAIN page.got : page'.got[x] = page.got[x]
      /\ page'.got[Statements[page.kind][page.at]]
           = Answer(Statements[page.kind][page.at], 1, page.rank)
  BY ReadLaw DEF CInv
<1>2. UNCHANGED <<commandVars, historyVars>> /\ seeds' = seeds
  BY DEF rowVars, historyVars
<1>3. CallsOf(DOMAIN calls \cap {1})' = CallsOf(DOMAIN calls \cap {1})
  BY <1>2, FiguresSame
<1>4. SUFFICES ASSUME page.kind = "timeline", Undisturbed
               PROVE  /\ page.at + 1 > 2 =>
                           page'.got.tool_calls \in 0 .. CallsOf(DOMAIN calls \cap {1})
                      /\ page.at + 1 > 3 => page'.got.entries \in Nat
                                            /\ page'.got.tool_calls <= page'.got.entries
  BY <1>1, <1>2, <1>3 DEF TimelineSoFar, Opened, Undisturbed
<1>5. Statements[page.kind] = <<"run", "tool_calls", "entries", "audit_events">>
  BY <1>4, StatementsOf
<1>6. page.at \in 1 .. 4
  BY <1>1, <1>5
<1>7. /\ page.at > 2 => "tool_calls" \in DOMAIN page.got
      /\ page.at > 3 => "entries" \in DOMAIN page.got
  BY <1>4, <1>5, <1>6, GotLaw DEF CInv, Kind
<1>8. /\ page.at > 2 => page.got.tool_calls \in 0 .. CallsOf(DOMAIN calls \cap {1})
      /\ page.at > 3 => page.got.entries \in Nat /\ page.got.tool_calls <= page.got.entries
  BY <1>4 DEF CInv, Figures, TimelineSoFar, Opened
<1>9. CallsOf(DOMAIN calls \cap {1}) \in Nat
  BY FiguresTyped DEF CInv, Rows
<1>10. CASE page.at = 1
  BY <1>10
<1>11. CASE page.at = 2
  <2>1. page'.got.tool_calls = CallsOf(DOMAIN calls \cap {1})
    BY <1>1, <1>4, <1>5, <1>11 DEF Answer
  <2>2. QED
    BY <1>9, <1>11, <2>1
<1>12. CASE page.at = 3
  <2>1. page'.got.entries = CallsOf(DOMAIN calls \cap {1})
    BY <1>1, <1>5, <1>12 DEF Answer
  <2>2. page'.got.tool_calls = page.got.tool_calls
    BY <1>1, <1>7, <1>12
  <2>3. QED
    BY <1>8, <1>9, <1>12, <2>1, <2>2
<1>13. CASE page.at = 4
  <2>1. page'.got.tool_calls = page.got.tool_calls /\ page'.got.entries = page.got.entries
    BY <1>1, <1>7, <1>13
  <2>2. QED
    BY <1>8, <1>13, <2>1
<1>14. QED
  BY <1>6, <1>10, <1>11, <1>12, <1>13

LEMMA ReadDetail ==
  ASSUME CInv, Read, UNCHANGED rowVars
  PROVE  DetailSoFar'
<1>1. /\ page'.kind = page.kind /\ page'.since = page.since /\ page'.at = page.at + 1
      /\ page.at \in 1 .. Len(Statements[page.kind])
      /\ \A x \in DOMAIN page.got : page'.got[x] = page.got[x]
      /\ page'.got[Statements[page.kind][page.at]]
           = Answer(Statements[page.kind][page.at], 1, page.rank)
  BY ReadLaw DEF CInv
<1>2. incidents' = incidents /\ seeds' = seeds
  BY DEF rowVars, historyVars, commandVars
<1>3. SUFFICES ASSUME page.kind = "detail", Undisturbed
               PROVE  /\ page.at + 1 > 1 /\ page'.got.incident => 1 \in incidents
                      /\ page.at + 1 > 2 /\ page'.got.incident => page'.got.account
                      /\ page.at + 1 > 3 /\ page'.got.incident => page'.got.signal
  BY <1>1, <1>2 DEF DetailSoFar, Opened, Undisturbed
<1>4. Statements[page.kind] = <<"incident", "account", "signal">>
  BY <1>3, StatementsOf
<1>5. page.at \in 1 .. 3
  BY <1>1, <1>4
<1>6. /\ page.at > 1 => "incident" \in DOMAIN page.got
      /\ page.at > 2 => "account" \in DOMAIN page.got
  BY <1>3, <1>4, <1>5, GotLaw DEF CInv, Kind
<1>7. /\ page.at > 1 /\ page.got.incident => 1 \in incidents
      /\ page.at > 2 /\ page.got.incident => page.got.account
  BY <1>3 DEF CInv, Figures, DetailSoFar, Opened
<1>8. page'.got[Statements[page.kind][page.at]] = (1 \in incidents)
  BY <1>1, <1>4, <1>5 DEF Answer
<1>9. CASE page.at = 1
  <2>1. page'.got.incident = (1 \in incidents)
    BY <1>4, <1>8, <1>9
  <2>2. ~ (page.at + 1 > 2) /\ ~ (page.at + 1 > 3)
    BY <1>9
  <2>3. QED
    BY <2>1, <2>2, Zenon
<1>10. CASE page.at = 2
  <2>1. page'.got.account = (1 \in incidents) /\ page'.got.incident = page.got.incident
    BY <1>1, <1>4, <1>6, <1>8, <1>10
  <2>2. page.at > 1 /\ ~ (page.at + 1 > 3)
    BY <1>10
  <2>3. QED
    BY <1>7, <2>1, <2>2, Zenon
<1>11. CASE page.at = 3
  <2>1. /\ page'.got.signal = (1 \in incidents)
        /\ page'.got.incident = page.got.incident /\ page'.got.account = page.got.account
    BY <1>1, <1>4, <1>6, <1>8, <1>11
  <2>2. page.at > 1 /\ page.at > 2
    BY <1>11
  <2>3. QED
    BY <1>7, <2>1, <2>2, Zenon
<1>12. QED
  BY <1>5, <1>9, <1>10, <1>11

\* The run a page found is read by its later statements, or gone for good.
LEMMA ReadInvestigation ==
  ASSUME CInv, Read, UNCHANGED rowVars
  PROVE  InvestigationSoFar'
<1>1. /\ page'.kind = page.kind /\ page'.at = page.at + 1
      /\ page.at \in 1 .. Len(Statements[page.kind])
      /\ \A x \in DOMAIN page.got : page'.got[x] = page.got[x]
      /\ page'.got[Statements[page.kind][page.at]]
           = Answer(Statements[page.kind][page.at], 1, page.rank)
  BY ReadLaw DEF CInv
<1>2. runs' = runs /\ incidents' = incidents /\ drawn' = drawn
  BY DEF rowVars, commandVars
<1>3. SUFFICES ASSUME page.kind = "investigation", page'.got.run
               PROVE  /\ GoneForGood
                      /\ page.at + 1 > 2 /\ 1 \in DOMAIN runs =>
                           page'.got.evidence = DOMAIN runs[1].evidence
                      /\ page.at + 1 > 4 => page'.got.cites \subseteq page'.got.evidence
  BY <1>1, <1>2 DEF InvestigationSoFar, Opened, GoneForGood
<1>4. Statements[page.kind] = <<"run", "evidence", "hypotheses", "cites">>
  BY <1>3, StatementsOf
<1>5. page.at \in 1 .. 4
  BY <1>1, <1>4
<1>6. /\ page.at > 1 => "run" \in DOMAIN page.got
      /\ page.at > 2 => "evidence" \in DOMAIN page.got
  BY <1>3, <1>4, <1>5, GotLaw DEF CInv, Kind
<1>7. CASE page.at = 1
  <2>1. page'.got.run = (1 \in DOMAIN runs)
    BY <1>1, <1>4, <1>7 DEF Answer
  <2>2. ~ (page.at + 1 > 2) /\ ~ (page.at + 1 > 4)
    BY <1>7
  <2>3. 1 \in DOMAIN runs
    BY <1>3, <2>1, Zenon
  <2>4. QED
    BY <2>2, <2>3, Zenon DEF GoneForGood
<1>8. ASSUME page.at > 1
      PROVE  /\ GoneForGood
             /\ page.at > 2 /\ 1 \in DOMAIN runs => page.got.evidence = DOMAIN runs[1].evidence
  <2>1. page.got.run
    BY <1>1, <1>3, <1>6, <1>8
  <2>2. QED
    BY <1>3, <1>8, <2>1 DEF CInv, InvestigationSoFar, Opened
<1>9. CASE page.at = 2
  <2>1. page'.got.evidence = DOMAIN ReportOf(1).evidence
    BY <1>1, <1>4, <1>9 DEF Answer
  <2>2. QED
    BY <1>8, <1>9, <2>1 DEF ReportOf
<1>10. CASE page.at = 3
  BY <1>1, <1>6, <1>8, <1>10
<1>11. CASE page.at = 4
  <2>1. page'.got.cites = UNION ToSet(ReportOf(1).cites) /\ page'.got.evidence = page.got.evidence
    BY <1>1, <1>4, <1>6, <1>11 DEF Answer
  <2>2. CASE 1 \in DOMAIN runs
    <3>1. ReportOf(1) = runs[1] /\ runs[1] \in Reports
      BY <2>2 DEF ReportOf, CInv, Rows, RowsShape
    <3>2. UNION ToSet(runs[1].cites) \subseteq DOMAIN runs[1].evidence
      BY <3>1, ReportsAssumption
    <3>3. QED
      BY <1>8, <1>11, <2>1, <2>2, <3>1, <3>2
  <2>3. CASE 1 \notin DOMAIN runs
    <3>1. ReportOf(1).cites = <<>>
      BY <2>3 DEF ReportOf, NoReport
    <3>2. ToSet(<<>>) = {}
      BY DEF ToSet
    <3>3. page'.got.cites = {}
      BY <2>1, <3>1, <3>2
    <3>4. QED
      BY <1>8, <1>11, <2>3, <3>3
  <2>4. QED
    BY <2>2, <2>3
<1>12. QED
  BY <1>5, <1>7, <1>9, <1>10, <1>11

\* The action a page finds is of the run, and so is the decision it found before.
LEMMA ReadInterventions ==
  ASSUME CInv, Read, UNCHANGED rowVars
  PROVE  InterventionsSoFar'
<1>1. /\ page'.kind = page.kind /\ page'.rank = page.rank /\ page'.at = page.at + 1
      /\ page.at \in 1 .. Len(Statements[page.kind])
      /\ \A x \in DOMAIN page.got : page'.got[x] = page.got[x]
      /\ page'.got[Statements[page.kind][page.at]]
           = Answer(Statements[page.kind][page.at], 1, page.rank)
  BY ReadLaw DEF CInv
<1>2. runs' = runs /\ incidents' = incidents /\ drawn' = drawn
  BY DEF rowVars, commandVars
<1> DEFINE there == 1 \in DOMAIN runs /\ page.rank \in DOMAIN runs[1].actions
<1>3. SUFFICES ASSUME page.kind = "interventions", page'.got.run
               PROVE  /\ GoneForGood
                      /\ page.at + 1 > 2 /\ there => page'.got.decision = Verdict(<<1, page.rank>>)
                      /\ page.at + 1 > 3 /\ page'.got.action =>
                           page'.got.decision \in {"allow", "require_approval"}
  BY <1>1, <1>2 DEF InterventionsSoFar, Opened, GoneForGood, Verdict
<1>4. Statements[page.kind] = <<"run", "decision", "action">>
  BY <1>3, StatementsOf
<1>5. page.at \in 1 .. 3
  BY <1>1, <1>4
<1>6. /\ page.at > 1 => "run" \in DOMAIN page.got
      /\ page.at > 2 => "decision" \in DOMAIN page.got
  BY <1>3, <1>4, <1>5, GotLaw DEF CInv, Kind
<1>7. CASE page.at = 1
  <2>1. page'.got.run = (1 \in DOMAIN runs)
    BY <1>1, <1>4, <1>7 DEF Answer
  <2>2. ~ (page.at + 1 > 2) /\ ~ (page.at + 1 > 3)
    BY <1>7
  <2>3. 1 \in DOMAIN runs
    BY <1>3, <2>1, Zenon
  <2>4. QED
    BY <2>2, <2>3, Zenon DEF GoneForGood
<1>8. ASSUME page.at > 1
      PROVE  /\ GoneForGood
             /\ page.at > 2 /\ there => page.got.decision = Verdict(<<1, page.rank>>)
  <2>1. page.got.run
    BY <1>1, <1>3, <1>6, <1>8
  <2>2. QED
    BY <1>3, <1>8, <2>1 DEF CInv, InterventionsSoFar, Opened
<1>9. CASE page.at = 2
  <2>1. page'.got.decision = IF page.rank \in DOMAIN ReportOf(1).actions
                             THEN Evaluate(ReportOf(1).actions[page.rank], {}) ELSE Nil
    BY <1>1, <1>4, <1>9 DEF Answer
  <2>2. there => page'.got.decision = Verdict(<<1, page.rank>>)
    BY <2>1 DEF ReportOf, Verdict
  <2>3. QED
    BY <1>8, <1>9, <2>2
<1>10. CASE page.at = 3
  <2>1. page'.got.action = (<<1, page.rank>> \in DOMAIN actions)
    BY <1>1, <1>4, <1>10 DEF Answer
  <2>2. page'.got.decision = page.got.decision
    BY <1>1, <1>6, <1>10
  <2>3. <<1, page.rank>> \in DOMAIN actions =>
          there /\ Verdict(<<1, page.rank>>) \in {"allow", "require_approval"}
    BY DEF CInv, Rows, ActionsShape, KeyOf
  <2>4. page.at > 1 /\ page.at > 2
    BY <1>10
  <2>5. GoneForGood /\ (there => page'.got.decision = Verdict(<<1, page.rank>>))
    BY <1>8, <2>2, <2>4
  <2>6. page'.got.action => page'.got.decision \in {"allow", "require_approval"}
    <3>1. page'.got.action => <<1, page.rank>> \in DOMAIN actions
      BY <2>1, Zenon
    <3>2. QED
      BY <2>3, <2>5, <3>1
  <2>7. QED
    BY <2>5, <2>6, Zenon
<1>11. QED
  BY <1>5, <1>7, <1>9, <1>10

\* What a page shows of one kind says nothing when it is of another.
LEMMA ReadStep ==
  ASSUME CInv, Read, UNCHANGED rowVars
  PROVE  PageShape' /\ Figures' /\ InvestigationSoFar' /\ InterventionsSoFar'
<1>1. PageShape'
  BY ReadLaw DEF CInv
<1>2. QED
  BY <1>1, ReadOverview, ReadCost, ReadTimeline, ReadDetail, ReadInvestigation, ReadInterventions
  DEF Figures

LEMMA OpenStep ==
  ASSUME CInv, UNCHANGED rowVars, NEW kind \in Kind, NEW k \in 1 .. MaxRank, OpenPage(kind, k)
  PROVE  PageShape' /\ Figures' /\ InvestigationSoFar' /\ InterventionsSoFar'
<1>1. page' = [kind |-> kind, rank |-> k, at |-> 1, got |-> <<>>, since |-> seeds]
  BY DEF OpenPage
<1>2. /\ page'.kind = kind /\ page'.at = 1 /\ page'.got = <<>> /\ page'.since = seeds
      /\ page' = [kind |-> page'.kind, rank |-> page'.rank, at |-> page'.at, got |-> page'.got,
                  since |-> page'.since]
  BY <1>1
<1>3. seeds' = seeds /\ seeds \in Nat
  BY BoundsAssumption DEF rowVars, historyVars, CInv, Rows, RowsShape
<1>4. page'.at \in 1 .. Len(Statements[kind]) + 1
  BY <1>2, StatementsLaw
<1>5. DOMAIN page'.got = {Statements[kind][j] : j \in 1 .. page'.at - 1}
  <2>1. 1 .. page'.at - 1 = {} /\ DOMAIN page'.got = {}
    BY <1>2
  <2>2. QED
    BY <2>1
<1>6. PageShape'
  BY <1>2, <1>3, <1>4, <1>5
  DEF PageShape, Statements, CostStatements, InterventionStatements
<1>7. ~ (page'.at > 1) /\ ~ (page'.at > 2) /\ ~ (page'.at > 3) /\ ~ (page'.at > 4)
      /\ ~ (page'.at > 5) /\ ~ (page'.at > 6)
  BY <1>2
<1>8. OverviewSoFar' /\ CostSoFar' /\ TimelineSoFar' /\ DetailSoFar'
  BY <1>7 DEF OverviewSoFar, CostSoFar, TimelineSoFar, DetailSoFar
<1>9. InvestigationSoFar' /\ InterventionsSoFar'
  BY <1>7 DEF InvestigationSoFar, InterventionsSoFar
<1>10. QED
  BY <1>6, <1>8, <1>9 DEF Figures

LEMMA CloseStep ==
  ASSUME CInv, UNCHANGED rowVars, Close
  PROVE  PageShape' /\ Figures' /\ InvestigationSoFar' /\ InterventionsSoFar'
<1>1. page' = [kind |-> Nil, rank |-> 1, at |-> 1, got |-> <<>>, since |-> 0]
  BY DEF Close, NoPage
<1>2. page'.kind = Nil /\ page'.since = 0
  BY <1>1
<1>3. page' = [kind |-> page'.kind, rank |-> page'.rank, at |-> page'.at, got |-> page'.got,
               since |-> page'.since]
  BY <1>1
<1>4. seeds' \in Nat
  BY BoundsAssumption DEF rowVars, historyVars, CInv, Rows, RowsShape
<1>5. PageShape'
  BY <1>2, <1>3, <1>4 DEF PageShape
<1>6. \A kind \in Kind : ~Opened(kind)'
  BY <1>2, NilAssumption DEF Opened
<1>7. {"overview", "cost", "investigation", "interventions", "timeline", "detail"} \subseteq Kind
  BY DEF Kind
<1>8. OverviewSoFar' /\ CostSoFar' /\ TimelineSoFar' /\ DetailSoFar'
  BY <1>6, <1>7 DEF OverviewSoFar, CostSoFar, TimelineSoFar, DetailSoFar
<1>9. InvestigationSoFar' /\ InterventionsSoFar'
  BY <1>6, <1>7 DEF InvestigationSoFar, InterventionsSoFar
<1>10. QED
  BY <1>5, <1>8, <1>9 DEF Figures

\* Nothing that is UNCHANGED for a page matters to the rows or to an evaluation.
LEMMA RowsSame ==
  ASSUME CInv, UNCHANGED <<rowVars, audit>>
  PROVE  Rows' /\ AuditShape' /\ AttemptsShape'
<1>1. UNCHANGED <<commandVars, historyVars, attempts, audit>>
  BY DEF rowVars
<1>2. Spent' = Spent
  BY <1>1, SpentSame DEF commandVars
<1>3. RowsShape'
  BY <1>1, <1>2 DEF CInv, Rows, RowsShape, commandVars, historyVars
<1>4. ActionsShape'
  BY <1>1 DEF CInv, Rows, ActionsShape, KeyOf, Verdict, commandVars, historyVars
<1>5. RequestsShape'
  BY <1>1 DEF CInv, Rows, RequestsShape, KeyOf, Verdict, commandVars, historyVars
<1>6. AuditShape'
  BY <1>1 DEF CInv, AuditShape, GoneForGood, Truth, Success, Stages, commandVars, historyVars
<1>7. AttemptsShape'
  BY <1>1 DEF CInv, AttemptsShape, AttemptShape, Truth, Success, commandVars, historyVars
<1>8. QED
  BY <1>3, <1>4, <1>5, <1>6, <1>7 DEF Rows

-----------------------------------------------------------------------------
(* The theorems. *)

LEMMA ConsoleInitially ==
  ASSUME ConsoleInit
  PROVE  CInv
<1>1. /\ now = 0 /\ drawn = 0 /\ incidents = {} /\ consumed = 0 /\ erased = 0 /\ seeds = 0
      /\ runs = <<>> /\ actions = <<>> /\ requests = <<>> /\ calls = <<>> /\ attempts = <<>>
      /\ audit = NoAudit /\ page = NoPage
  BY DEF ConsoleInit, Init
<1>2. DOMAIN runs = {} /\ DOMAIN actions = {} /\ DOMAIN requests = {} /\ DOMAIN calls = {}
  BY <1>1
<1>3. Spent = 0
  <2> DEFINE cost == [r \in DOMAIN runs |-> runs[r].cost]
  <2>1. Spent = SumOf(cost)
    BY DEF Spent
  <2>2. DOMAIN cost = {}
    BY <1>2
  <2> HIDE DEF cost
  <2>3. QED
    BY <2>1, <2>2, SumEmpty
<1>4. runs \in [DOMAIN runs -> Reports] /\ calls \in [DOMAIN runs -> Nat]
  BY <1>1
<1>5. RowsShape
  BY <1>1, <1>2, <1>3, <1>4, BoundsAssumption DEF RowsShape
<1>6. ActionsShape /\ RequestsShape
  BY <1>2 DEF ActionsShape, RequestsShape
<1>7. AuditShape
  BY <1>1 DEF AuditShape, NoAudit, Stages
<1>8. AttemptsShape
  BY <1>1 DEF AttemptsShape
<1>9. page.kind = Nil /\ page.since = 0
      /\ page = [kind |-> page.kind, rank |-> page.rank, at |-> page.at, got |-> page.got,
                 since |-> page.since]
  BY <1>1 DEF NoPage
<1>10. PageShape
  BY <1>1, <1>9 DEF PageShape
<1>11. \A kind \in Kind : ~Opened(kind)
  BY <1>9, NilAssumption DEF Opened
<1>12. {"overview", "cost", "investigation", "interventions", "timeline", "detail"} \subseteq Kind
  BY DEF Kind
<1>13. OverviewSoFar /\ CostSoFar /\ TimelineSoFar /\ DetailSoFar
  BY <1>11, <1>12 DEF OverviewSoFar, CostSoFar, TimelineSoFar, DetailSoFar
<1>14. InvestigationSoFar /\ InterventionsSoFar
  BY <1>11, <1>12 DEF InvestigationSoFar, InterventionsSoFar
<1>15. QED
  BY <1>5, <1>6, <1>7, <1>8, <1>10, <1>13, <1>14 DEF CInv, Rows, Figures

LEMMA CommandStep ==
  ASSUME CInv, Command, UNCHANGED <<audit, page>>
  PROVE  CInv'
<1>1. Rows /\ RowsShape /\ AuditShape /\ AttemptsShape
  BY DEF CInv, Rows
<1>2. ASSUME Rows', Adds
      PROVE  CInv'
  <2>1. AuditShape' /\ AttemptsShape'
    BY <1>1, <1>2, AuditKept DEF Rows
  <2>2. PageShape' /\ Figures' /\ InvestigationSoFar' /\ InterventionsSoFar'
    BY <1>2, PageKept
  <2>3. QED
    BY <1>2, <2>1, <2>2 DEF CInv
<1>3. CASE Detect
  BY <1>1, <1>2, <1>3, DetectStep
<1>4. CASE \E i \in Incident : Resume(i)
  BY <1>1, <1>2, <1>4, ResumeStep
<1>5. CASE \E i \in Incident, f \in Reports : Investigate(i, f)
  BY <1>1, <1>2, <1>5, InvestigateStep
<1>6. CASE \E k \in DOMAIN requests, status \in {"approved", "rejected"} : Decide(k, status)
  BY <1>1, <1>2, <1>6, DecideStep
<1>7. CASE Tick
  BY <1>1, <1>2, <1>7, TickStep
<1>8. CASE Seed
  <2>1. Rows'
    BY <1>1, <1>8, SeedStep
  <2>2. AuditShape' /\ AttemptsShape'
    BY <1>1, <1>8, AuditBySeed
  <2>3. PageShape' /\ Figures' /\ InvestigationSoFar' /\ InterventionsSoFar'
    BY <1>8, PageBySeed
  <2>4. QED
    BY <2>1, <2>2, <2>3 DEF CInv
<1>9. QED
  BY <1>3, <1>4, <1>5, <1>6, <1>7, <1>8 DEF Command

LEMMA ConsoleStep ==
  ASSUME CInv, [Next]_vars
  PROVE  CInv'
<1>1. CASE Command /\ UNCHANGED <<audit, page>>
  BY <1>1, CommandStep
<1>2. CASE Evaluation /\ UNCHANGED page
  <2>1. Rows' /\ AuditShape' /\ AttemptsShape' /\ UNCHANGED <<commandVars, historyVars>>
    BY <1>2, EvaluationStep DEF CInv
  <2>2. PageShape' /\ Figures' /\ InvestigationSoFar' /\ InterventionsSoFar'
    BY <1>2, <2>1, PageSame
  <2>3. QED
    BY <2>1, <2>2 DEF CInv
<1>3. ASSUME UNCHANGED <<rowVars, audit>>,
             PageShape' /\ Figures' /\ InvestigationSoFar' /\ InterventionsSoFar'
      PROVE  CInv'
  BY <1>3, RowsSame DEF CInv
<1>4. CASE UNCHANGED <<rowVars, audit>> /\ Read
  BY <1>3, <1>4, ReadStep
<1>5. CASE UNCHANGED <<rowVars, audit>> /\ Close
  BY <1>3, <1>5, CloseStep
<1>6. CASE /\ UNCHANGED <<rowVars, audit>>
           /\ \E kind \in Kind, k \in 1 .. MaxRank : OpenPage(kind, k)
  BY <1>3, <1>6, OpenStep
<1>7. CASE UNCHANGED vars
  <2>1. UNCHANGED <<rowVars, audit>> /\ UNCHANGED <<commandVars, historyVars, page>>
    BY <1>7 DEF vars, rowVars
  <2>2. QED
    BY <1>3, <2>1, PageSame
<1>8. QED
  BY <1>1, <1>2, <1>4, <1>5, <1>6, <1>7 DEF Next

(* The rows are what commands leave behind, an evaluation under way knows   *)
(* what it has read, and a page half built has figures that can still be    *)
(* completed truly: kept by every command, every statement of an evaluation *)
(* and every statement of a page (evaluation/service.py, api/dashboard.py,  *)
(* api/centres.py).                                                         *)
THEOREM ConsoleInductive == Spec => []CInv
<1>1. ConsoleInit => CInv
  BY ConsoleInitially
<1>2. CInv /\ [Next]_vars => CInv'
  BY ConsoleStep
<1>3. QED
  BY <1>1, <1>2, PTL DEF Spec

(* The ledger is what the budget says less the entries that were erased,    *)
(* and an evaluation names a run that is there, or none (governance/        *)
(* budgets.py, db/models/evaluation.py SET NULL).                           *)
THEOREM ConsoleTypes == Spec => []TypeOK
<1>1. CInv => TypeOK
  <2> SUFFICES ASSUME CInv PROVE TypeOK
    OBVIOUS
  <2>1. RowsShape /\ AuditShape /\ AttemptsShape /\ PageShape
    BY DEF CInv, Rows
  <2>2. \A k \in DOMAIN actions \cup DOMAIN requests : k[1] \in DOMAIN runs
    BY DEF CInv, Rows, ActionsShape, RequestsShape, KeyOf
  <2>3. \A j \in DOMAIN attempts : attempts[j].run \in DOMAIN runs \cup {NoRun}
    BY <2>1 DEF AttemptsShape, AttemptShape
  <2>4. DOMAIN calls = DOMAIN runs
    BY <2>1 DEF RowsShape
  <2>5. QED
    BY <2>1, <2>2, <2>3, <2>4 DEF TypeOK, RowsShape, AuditShape, PageShape
<1>2. QED
  BY <1>1, ConsoleInductive, PTL

(* Two figures of one page never contradict each other although commands    *)
(* commit between the statements that computed them: the one computed first *)
(* is the smaller (dashboard.py overview, centres.py cost_centre,           *)
(* cost/timeline.py).                                                       *)
THEOREM PagesAlwaysAddUp == Spec => []PagesAddUp
<1>1. CInv => PagesAddUp
  <2> SUFFICES ASSUME CInv, Undisturbed PROVE PagesAddUp
    BY DEF PagesAddUp
  <2>1. PageShape /\ OverviewSoFar /\ CostSoFar /\ TimelineSoFar
    BY DEF CInv, Figures
  <2>2. ASSUME NEW kind \in Kind, Complete(kind)
        PROVE  page.kind = kind /\ page.at \in Nat /\ page.at > Len(Statements[kind])
    <3>1. page.kind = kind /\ page.at > Len(Statements[kind])
      BY <2>2 DEF Complete, Sent
    <3>2. page.at \in 1 .. 7
      BY <2>1, <3>1, GotLaw
    <3>3. QED
      BY <3>1, <3>2
  <2>3. Complete("overview") => page.got.at_risk <= page.got.weighted
    <3>1. SUFFICES ASSUME Complete("overview") PROVE page.got.at_risk <= page.got.weighted
      OBVIOUS
    <3>2. page.kind = "overview" /\ page.at \in Nat /\ page.at > Len(Statements["overview"])
      BY <2>2, <3>1 DEF Kind
    <3>3. page.at > 2
      BY <3>2, StatementsOf
    <3>4. QED
      BY <2>1, <3>2, <3>3 DEF OverviewSoFar, Opened
  <2>4. Complete("cost") =>
          /\ page.got.consumed <= page.got.total + erased
          /\ page.got.total <= page.got.model + page.got.tool
          /\ page.got.model + page.got.tool <= page.got.by_incident.cost
          /\ page.got.tool_calls <= page.got.by_incident.calls
    <3>1. SUFFICES ASSUME Complete("cost")
                   PROVE  /\ page.got.consumed <= page.got.total + erased
                          /\ page.got.total <= page.got.model + page.got.tool
                          /\ page.got.model + page.got.tool <= page.got.by_incident.cost
                          /\ page.got.tool_calls <= page.got.by_incident.calls
      OBVIOUS
    <3>2. page.kind = "cost" /\ page.at \in Nat /\ page.at > Len(Statements["cost"])
      BY <2>2, <3>1 DEF Kind
    <3>3. page.at > 2 /\ page.at > 3 /\ page.at > 4 /\ page.at > 5 /\ page.at > 6
      BY <3>2, StatementsOf
    <3>4. /\ page.got.total \in 0 .. Spent /\ page.got.consumed <= page.got.total + erased
          /\ page.got.model \in page.got.total .. Spent
          /\ page.got.tool = 0
          /\ page.got.model <= page.got.by_incident.cost
          /\ page.got.tool_calls <= page.got.by_incident.calls
      BY <2>1, <3>2, <3>3 DEF CostSoFar, Opened
    <3>5. Spent \in Nat
      BY FiguresTyped DEF CInv, Rows
    <3>6. page.got.model + page.got.tool = page.got.model /\ page.got.total <= page.got.model
      BY <3>4, <3>5
    <3>7. QED
      BY <3>4, <3>6
  <2>5. Complete("timeline") => page.got.tool_calls <= page.got.entries
    <3>1. SUFFICES ASSUME Complete("timeline") PROVE page.got.tool_calls <= page.got.entries
      OBVIOUS
    <3>2. page.kind = "timeline" /\ page.at \in Nat /\ page.at > Len(Statements["timeline"])
      BY <2>2, <3>1 DEF Kind
    <3>3. page.at > 3
      BY <3>2, StatementsOf
    <3>4. QED
      BY <2>1, <3>2, <3>3 DEF TimelineSoFar, Opened
  <2>6. QED
    BY <2>3, <2>4, <2>5 DEF PagesAddUp
<1>2. QED
  BY <1>1, ConsoleInductive, PTL

(* Whatever is committed or erased while a page is built: a page cites only *)
(* the evidence it shows, shows no action without the decision that let it, *)
(* and misses a record of an incident only if it was erased (dashboard.py   *)
(* investigation and interventions, incidents.py get_incident).             *)
THEOREM PagesAlwaysHoldTogether == Spec => []PagesHoldTogether
<1>1. CInv => PagesHoldTogether
  <2> SUFFICES ASSUME CInv PROVE PagesHoldTogether
    OBVIOUS
  <2>1. PageShape /\ InvestigationSoFar /\ InterventionsSoFar /\ DetailSoFar
    BY DEF CInv, Figures
  <2>2. ASSUME NEW kind \in Kind, Complete(kind)
        PROVE  /\ page.kind = kind /\ page.at \in Nat /\ page.at > Len(Statements[kind])
               /\ "run" \in DOMAIN page.got => page.got.run
               /\ "incident" \in DOMAIN page.got => page.got.incident
    <3>1. page.kind = kind /\ page.at > Len(Statements[kind])
      BY <2>2 DEF Complete, Sent
    <3>2. page.at \in 1 .. 7
      BY <2>1, <3>1, GotLaw
    <3>3. /\ "run" \in DOMAIN page.got => page.got.run
          /\ "incident" \in DOMAIN page.got => page.got.incident
      BY <2>2 DEF Complete, Missing
    <3>4. QED
      BY <3>1, <3>2, <3>3
  <2>3. ASSUME NEW kind \in Kind, page.kind = kind, page.at > Len(Statements[kind])
        PROVE  Statements[kind][1] \in DOMAIN page.got
    <3> DEFINE n == Len(Statements[kind])
    <3>1. n \in 3 .. 6 /\ page.at > n
      BY <2>3, StatementsLaw
    <3>2. page.at \in 1 .. 7
      BY <2>1, <2>3, GotLaw
    <3>3. \A j \in 1 .. n : j < page.at <=> Statements[kind][j] \in DOMAIN page.got
      BY <2>1, <2>3, GotLaw
    <3> HIDE DEF n
    <3>4. 1 \in 1 .. n /\ 1 < page.at
      BY <3>1, <3>2
    <3>5. QED
      BY <3>3, <3>4
  <2>4. Complete("investigation") => page.got.cites \subseteq page.got.evidence
    <3>1. SUFFICES ASSUME Complete("investigation")
                   PROVE  page.got.cites \subseteq page.got.evidence
      OBVIOUS
    <3>2. /\ page.kind = "investigation" /\ page.at \in Nat
          /\ page.at > Len(Statements["investigation"])
      BY <2>2, <3>1 DEF Kind
    <3>3. page.at > 1 /\ page.at > 4
      BY <3>2, StatementsOf
    <3>4. Statements["investigation"][1] = "run" /\ "investigation" \in Kind
      BY StatementsOf DEF Kind
    <3>5. "run" \in DOMAIN page.got
      BY <2>3, <3>2, <3>4
    <3>6. page.got.run
      BY <2>2, <3>1, <3>4, <3>5
    <3>7. QED
      BY <2>1, <3>2, <3>3, <3>6, Zenon DEF InvestigationSoFar, Opened
  <2>5. Complete("interventions") /\ page.got.action =>
          page.got.decision \in {"allow", "require_approval"}
    <3>1. SUFFICES ASSUME Complete("interventions"), page.got.action
                   PROVE  page.got.decision \in {"allow", "require_approval"}
      OBVIOUS
    <3>2. /\ page.kind = "interventions" /\ page.at \in Nat
          /\ page.at > Len(Statements["interventions"])
      BY <2>2, <3>1 DEF Kind
    <3>3. page.at > 1 /\ page.at > 3
      BY <3>2, StatementsOf
    <3>4. Statements["interventions"][1] = "run" /\ "interventions" \in Kind
      BY StatementsOf DEF Kind
    <3>5. "run" \in DOMAIN page.got
      BY <2>3, <3>2, <3>4
    <3>6. page.got.run
      BY <2>2, <3>1, <3>4, <3>5
    <3>7. QED
      BY <2>1, <3>1, <3>2, <3>3, <3>6, Zenon DEF InterventionsSoFar, Opened
  <2>6. Complete("detail") /\ Undisturbed => page.got.account /\ page.got.signal
    <3>1. SUFFICES ASSUME Complete("detail"), Undisturbed
                   PROVE  page.got.account /\ page.got.signal
      OBVIOUS
    <3>2. page.kind = "detail" /\ page.at \in Nat /\ page.at > Len(Statements["detail"])
      BY <2>2, <3>1 DEF Kind
    <3>3. page.at > 2 /\ page.at > 3
      BY <3>2, StatementsOf
    <3>4. Statements["detail"][1] = "incident" /\ "detail" \in Kind
      BY StatementsOf DEF Kind
    <3>5. "incident" \in DOMAIN page.got
      BY <2>3, <3>2, <3>4
    <3>6. page.got.incident
      BY <2>2, <3>1, <3>4, <3>5
    <3>7. QED
      BY <2>1, <3>1, <3>2, <3>3, <3>6, Zenon DEF DetailSoFar, Opened
  <2>7. QED
    BY <2>4, <2>5, <2>6, Zenon DEF PagesHoldTogether
<1>2. QED
  BY <1>1, ConsoleInductive, PTL

(* An evaluation overtaken by commands and people at every statement        *)
(* records no bypass, calls a draft unapproved only if its request was      *)
(* decided again after it, and says that a draft followed its approval only *)
(* if one did (evaluation/rubric.py, evaluation/security.py).               *)
THEOREM AuditAlwaysTellsTruth == Spec => []AuditTellsTruth
<1>1. CInv => AuditTellsTruth
  <2> SUFFICES ASSUME CInv, NEW j \in DOMAIN attempts, attempts[j].run # NoRun
               PROVE  /\ attempts[j].failed \cap DOMAIN Security(attempts[j].run) = {}
                      /\ "no_external_action_without_approval" \in attempts[j].failed =>
                           \E k \in redecided : k[1] = attempts[j].run
                      /\ "draft_created_after_approval" \notin attempts[j].failed =>
                           \E k \in heeded : k[1] = attempts[j].run
    BY DEF AuditTellsTruth
  <2>1. AttemptShape(attempts[j])
    BY DEF CInv, AttemptsShape
  <2>2. DOMAIN Security(attempts[j].run) = SecurityCheck
    BY DEF Security, SecurityCheck
  <2>3. QED
    BY <2>1, <2>2 DEF AttemptShape, Truth, Success
<1>2. QED
  BY <1>1, ConsoleInductive, PTL

(* No step takes an evaluation away or changes its day or its outcome: a    *)
(* new one goes to the end, and an erasure takes no more than the run it    *)
(* names (evaluation/service.py _persist, centres.py evaluation_history).   *)
THEOREM HistoryAlwaysKept == Spec => HistoryIsKept
<1> DEFINE Kept == /\ Len(attempts) <= Len(attempts')
                   /\ \A j \in DOMAIN attempts : attempts'[j] \in {attempts[j], Erased(attempts[j])}
<1>1. ASSUME CInv, [Next]_vars
      PROVE  Kept
  <2>1. attempts \in Seq(Attempt) /\ Len(attempts) \in Nat
        /\ DOMAIN attempts = 1 .. Len(attempts)
    BY <1>1 DEF CInv, AttemptsShape
  <2>2. ASSUME UNCHANGED attempts
        PROVE  Kept
    BY <2>1, <2>2
  <2>3. CASE Seed
    <3>1. attempts' = [j \in DOMAIN attempts |-> Erased(attempts[j])]
      BY <2>3 DEF Seed
    <3>2. \A j \in DOMAIN attempts : attempts'[j] = Erased(attempts[j])
      BY <3>1
    <3>3. \A j \in DOMAIN attempts : Erased(attempts[j]) \in Attempt
      BY <2>1, ErasedLaw
    <3>4. attempts' \in Seq(Attempt) /\ Len(attempts') = Len(attempts)
      BY <2>1, <3>1, <3>3
    <3>5. QED
      BY <2>1, <3>2, <3>4
  <2>4. CASE RecordAttempt
    <3> DEFINE row == [run |-> audit.run, startedAt |-> audit.startedAt, failed |-> audit.failed]
               more == Append(attempts, row)
    <3>1. attempts' = more
      BY <2>4 DEF RecordAttempt, Persisted
    <3>2. Len(more) = Len(attempts) + 1 /\ \A j \in DOMAIN attempts : more[j] = attempts[j]
      BY <2>1
    <3> HIDE DEF more
    <3>3. QED
      BY <2>1, <3>1, <3>2
  <2>5. CASE Command /\ ~Seed
    <3>1. UNCHANGED attempts
      BY <2>5 DEF Command, Detect, Resume, Investigate, Decide, Tick
    <3>2. QED
      BY <2>2, <3>1
  <2>6. CASE Evaluation /\ ~RecordAttempt
    BY <2>2, <2>6 DEF Evaluation, rowVars
  <2>7. CASE UNCHANGED rowVars
    BY <2>2, <2>7 DEF rowVars
  <2>8. CASE UNCHANGED vars
    BY <2>2, <2>8 DEF vars, rowVars
  <2>9. QED
    BY <1>1, <2>3, <2>4, <2>5, <2>6, <2>7, <2>8 DEF Next
<1>2. CInv /\ [Next]_vars => [Kept]_vars
  BY <1>1
<1>3. QED
  BY <1>2, ConsoleInductive, PTL DEF Spec, HistoryIsKept
=============================================================================
