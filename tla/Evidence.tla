------------------------------ MODULE Evidence ------------------------------
(***************************************************************************)
(* What an agent reads before it reasons: the simulated adapters over the  *)
(* seeded mirror (integrations/simulated), the mapping of their payloads   *)
(* to canonical evidence (orchestration/mcp_evidence_source.py), and the   *)
(* control that reads the same mirror through the repositories             *)
(* (orchestration/evidence_source.py).                                     *)
(*                                                                         *)
(* A mirror m is a record of row sets:                                     *)
(*   accounts     the accounts that exist                                  *)
(*   owner        [opportunity -> account], its domain the opportunities   *)
(*   profiles     the accounts with a company profile                      *)
(*   activities   {[account, at]}                                          *)
(*   usage        {[account, at, until, events]}: weekly rollups           *)
(*   engagement   {[account, at, kind]}                                    *)
(*   issues       {[account, at, status]}                                  *)
(* Free text, names, amounts and references travel with their row.         *)
(***************************************************************************)
EXTENDS Naturals, Sequences, SequencesExt

CONSTANTS
  ActivityLimit,  \* DEFAULT_ACTIVITY_LIMIT, 10 in both sources
  Nil             \* None in a payload

\* The window the evidence source passes where the control applies none.
BeginningOfTime == 0
EarliestPeriod == 0
LatestPeriod == 2999

EngagementKind == {"sent", "opened", "clicked", "meeting_held"}
EmailKind == EngagementKind \ {"meeting_held"}
OpenStatus == {"open", "pending"}

\* The rows of a query, by the instant it orders them by.
OldestFirst(rows) ==
  CHOOSE s \in [1 .. Cardinality(rows) -> rows] :
    \A i, j \in DOMAIN s : i < j => s[i].at < s[j].at

LatestFirst(rows) ==
  CHOOSE s \in [1 .. Cardinality(rows) -> rows] :
    \A i, j \in DOMAIN s : i < j => s[i].at > s[j].at

(* A mirror as the schema and the seed leave it: finite tables, instants    *)
(* after 1970, weeks that end by 2999, the kinds of the enumeration.  No    *)
(* two rows of a table and an account share an instant, so the order a      *)
(* query asks for is total.  The schema guarantees that of usage snapshots  *)
(* only (uq_usage_snapshots_account_period); of activities, engagement and  *)
(* support rows it holds as the fixtures of the seed are.  With a tie the   *)
(* order a query returns is open, and nothing is said of such a mirror.     *)
IsTable(table) ==
  /\ IsFiniteSet(table)
  /\ \A r \in table : r.at \in Nat
  /\ \A r, s \in table : r.account = s.account /\ r.at = s.at => r = s

IsMirror(m) ==
  /\ DOMAIN m = {"accounts", "owner", "profiles", "activities", "usage", "engagement", "issues"}
  /\ IsTable(m.activities) /\ IsTable(m.usage) /\ IsTable(m.engagement) /\ IsTable(m.issues)
  /\ \A r \in m.usage : r.until \in Nat /\ r.until <= LatestPeriod
  /\ \A r \in m.engagement : r.kind \in EngagementKind

FirstFew(rows, limit) == SubSeq(rows, 1, IF Len(rows) < limit THEN Len(rows) ELSE limit)

RowsOf(table, a) == {r \in table : r.account = a}

\* totals_by_event_type: only the kinds that occur have an entry.
Totals(rows) ==
  [kind \in {rows[j].kind : j \in DOMAIN rows} |->
     Cardinality({j \in DOMAIN rows : rows[j].kind = kind})]

TotalOf(totals, kind) == IF kind \in DOMAIN totals THEN totals[kind] ELSE 0

(* week_over_week_growth is undefined from a zero baseline.  The ratio is   *)
(* kept as the pair it is computed from.                                    *)
Growth(earlier, later) == IF earlier = 0 THEN Nil ELSE <<earlier, later>>

\* One period per rollup, each but the first with its growth over the one before.
Periods(rows) ==
  [j \in DOMAIN rows |->
     [at |-> rows[j].at, until |-> rows[j].until, events |-> rows[j].events,
      growth |-> IF j = 1 THEN Nil ELSE Growth(rows[j - 1].events, rows[j].events)]]

-----------------------------------------------------------------------------
(* The adapters. *)

ListAccountActivities(m, a, since, limit) ==
  [rows |-> FirstFew(LatestFirst({r \in RowsOf(m.activities, a) : r.at >= since}), limit)]

UsageSummary(m, a, start, end) ==
  [periods |-> Periods(OldestFirst(
     {r \in RowsOf(m.usage, a) : r.at >= start /\ r.until <= end}))]

\* _activity: the kinds one of the two engagement tools reports.
Engagement(m, a, since, include) ==
  LET rows == OldestFirst({r \in RowsOf(m.engagement, a) : r.at >= since /\ r.kind \in include})
  IN  [totals |-> Totals(rows), events |-> rows]

\* Mutant of EmailActivity: the two engagement tools are not kept apart.
EmailAndMeetings(m, a, since) == Engagement(m, a, since, EngagementKind)

EmailActivity(m, a, since) == Engagement(m, a, since, EmailKind)

OpenIssues(m, a) == [issues |-> OldestFirst({r \in RowsOf(m.issues, a) : r.status \in OpenStatus})]

\* Whether a tool's reference names something; one that names nothing has no payload.
Found(m, tool, ref) ==
  CASE tool = "crm_get_opportunity" -> ref \in DOMAIN m.owner
    [] tool = "enrichment_get_company_profile" -> ref \in m.profiles
    [] OTHER -> ref \in m.accounts

-----------------------------------------------------------------------------
(* The five sources a plan may name, each called over MCP by the tool of    *)
(* the same name.                                                           *)

EvidenceSource == {"crm_get_opportunity", "crm_list_account_activities",
                   "product_get_usage_summary", "engagement_get_email_activity",
                   "support_get_open_issues"}

\* The business reference a source's tool takes.
Subject(m, source, opportunity) ==
  IF source = "crm_get_opportunity" THEN opportunity ELSE m.owner[opportunity]

\* The call McpEvidenceSource makes for a source, and the adapter's answer.
Payload(m, source, ref) ==
  CASE source = "crm_get_opportunity" -> [opportunity |-> ref, account |-> m.owner[ref]]
    [] source = "crm_list_account_activities" ->
         ListAccountActivities(m, ref, BeginningOfTime, ActivityLimit)
    [] source = "product_get_usage_summary" ->
         UsageSummary(m, ref, EarliestPeriod, LatestPeriod)
    [] source = "engagement_get_email_activity" -> EmailActivity(m, ref, BeginningOfTime)
    [] OTHER -> OpenIssues(m, ref)

Record(source, content) == [source |-> source, content |-> content]

\* McpEvidenceSource: routing keys dropped, usage split into one record per week.
Canonical(source, payload) ==
  CASE source = "product_get_usage_summary" ->
         [j \in DOMAIN payload.periods |-> Record(source, payload.periods[j])]
    [] source = "crm_list_account_activities" ->
         <<Record(source, [count |-> Len(payload.rows), rows |-> payload.rows])>>
    [] source = "engagement_get_email_activity" ->
         <<Record(source, [totals |-> payload.totals,
                           meetings |-> TotalOf(payload.totals, "meeting_held"),
                           events |-> payload.events])>>
    [] source = "support_get_open_issues" ->
         <<Record(source, [open |-> Len(payload.issues), issues |-> payload.issues])>>
    [] OTHER -> <<Record(source, payload)>>

-----------------------------------------------------------------------------
(* RepositoryEvidenceSource: the same facts read through the repositories. *)
(* It counts meetings with the emails, which its own header calls a defect.*)

ControlEngagement(rows) ==
  [totals |-> Totals(rows), meetings |-> TotalOf(Totals(rows), "meeting_held"), events |-> rows]

ControlIssues(rows) ==
  LET open == FlattenSeq([j \in DOMAIN rows |->
                            IF rows[j].status \in OpenStatus THEN <<rows[j]>> ELSE <<>>])
  IN  [open |-> Len(open), issues |-> open]

ControlActivities(rows) ==
  LET few == FirstFew(rows, ActivityLimit) IN [count |-> Len(few), rows |-> few]

Control(m, source, opportunity) ==
  LET a == m.owner[opportunity] IN
  CASE source = "crm_get_opportunity" ->
         <<Record(source, [opportunity |-> opportunity, account |-> a])>>
    [] source = "crm_list_account_activities" ->
         <<Record(source, ControlActivities(LatestFirst(RowsOf(m.activities, a))))>>
    [] source = "product_get_usage_summary" ->
         LET weeks == Periods(OldestFirst(RowsOf(m.usage, a)))
         IN  [j \in DOMAIN weeks |-> Record(source, weeks[j])]
    [] source = "engagement_get_email_activity" ->
         <<Record(source, ControlEngagement(OldestFirst(RowsOf(m.engagement, a))))>>
    [] OTHER -> <<Record(source, ControlIssues(OldestFirst(RowsOf(m.issues, a))))>>

WithoutMeetings(m) ==
  [m EXCEPT !.engagement = {r \in @ : r.kind # "meeting_held"}]

\* A whole selection, source after source, as the researcher flattens it.
ControlEvidence(m, selection, opportunity) ==
  FlattenSeq([j \in DOMAIN selection |-> Control(m, selection[j], opportunity)])
=============================================================================
