----------------------------- MODULE Ingestion -----------------------------
(***************************************************************************)
(* Ingestion cycles running at once, with `seed` replacing the mirror      *)
(* tables under them: source rows become raw events, raw events become     *)
(* normalized ones, stalled opportunities become signals, and each new     *)
(* signal an incident (events/pipeline.py, events/ingest.py,               *)
(* events/normalize.py, events/dispatcher.py, incidents/service.py,        *)
(* db/seeding.py).                                                         *)
(*                                                                         *)
(* A cycle is one transaction at READ COMMITTED.  The unique keys are what *)
(* makes it replay-safe: an insert meeting the same key in another         *)
(* transaction waits for that transaction to end.  A signal's foreign keys *)
(* lock its account and its opportunity, in that order, against deletion.  *)
(*                                                                         *)
(* One source event per opportunity stands for all the rows the mirror     *)
(* holds about it, and the opportunity for its account too.  A day is the  *)
(* UTC date of the evaluation timestamp, which never runs backwards from   *)
(* one command to the next.                                                *)
(***************************************************************************)
EXTENDS Naturals, FiniteSets, Sequences

CONSTANTS
  Proc,         \* processes that run cycles, one after the other each
  NumOpp,       \* opportunities of the fixture, in the order of their refs
  Stalled,      \* those the detector fires for on the day they are seeded
  TouchAge,     \* days between the youngest sales touch and the seed; the fixture has 1
  MaxDay,
  MaxSeeds,     \* bound on the commands that seed
  MaxFaults,    \* bound on processes that die
  MaxEvents     \* bound on those, the commands that seed and the changes of day together

ASSUME IngestionAssumption ==
  /\ NumOpp \in Nat /\ TouchAge \in Nat /\ MaxDay \in Nat \ {0}
  /\ MaxSeeds \in Nat /\ MaxFaults \in Nat /\ MaxEvents \in Nat
  /\ Stalled \subseteq 1 .. NumOpp
  /\ IsFiniteSet(Proc)

Opp == 1 .. NumOpp
Day == 1 .. MaxDay

VARIABLES
  \* committed rows
  mirrorDay,     \* the day the mirror was seeded on; 0 while it is empty
  raw,           \* SUBSET Opp: raw_events
  normalized,    \* SUBSET Opp: normalized_events
  signals,       \* set of dedupe keys [opp, day]
  incidents,     \* set of [ref, key]
  trail,         \* set of refs: the audit_events that say an incident was opened
  nextRef,       \* incident_ref_seq; never rolled back
  \* cycles
  pc,            \* [Proc -> step]
  day,           \* [Proc -> its evaluation day]
  batch,         \* [Proc -> source events it read]
  watched,       \* [Proc -> opportunities it evaluates]
  row,           \* [Proc -> position in the list it is working through]
  ownRaw, ownNorm, ownSignals, ownIncidents,  \* uncommitted, per process
  \* the command that seeds
  seeding,       \* the table it is deleting: "no", "opportunities", "accounts"
  cleared,       \* the rows of it that are deleted already
  next,          \* the row it turns to next
  \* the environment
  today, seeds, faults

eventVars == <<raw, normalized>>
caseVars == <<signals, incidents, trail>>
ownVars == <<ownRaw, ownNorm, ownSignals, ownIncidents>>
worldVars == <<today, seeds, faults>>
seedVars == <<seeding, cleared, next>>
vars == <<mirrorDay, eventVars, caseVars, nextRef, pc, day, batch, watched, row, ownVars,
          seedVars, worldVars>>

Init ==
  /\ mirrorDay = 0
  /\ raw = {} /\ normalized = {}
  /\ signals = {} /\ incidents = {} /\ trail = {}
  /\ nextRef = 1
  /\ pc = [p \in Proc |-> "idle"]
  /\ day = [p \in Proc |-> 1]
  /\ batch = [p \in Proc |-> {}]
  /\ watched = [p \in Proc |-> {}]
  /\ row = [p \in Proc |-> 1]
  /\ ownRaw = [p \in Proc |-> {}]
  /\ ownNorm = [p \in Proc |-> {}]
  /\ ownSignals = [p \in Proc |-> {}]
  /\ ownIncidents = [p \in Proc |-> {}]
  /\ seeding = "no" /\ cleared = {} /\ next = 1
  /\ today = 1 /\ seeds = 0 /\ faults = 0

MirrorRows == IF mirrorDay = 0 THEN {} ELSE Opp

\* Waiting on a parent row that the seeding transaction has deleted.
Parked(p) == pc[p] \in {"waits_opportunity", "waits_account"}

\* What may still happen around the cycles.
EventsLeft == seeds + faults + (today - 1) < MaxEvents

AtEnd(p) == row[p] = NumOpp + 1

-----------------------------------------------------------------------------
(* The end of a cycle's transaction. *)

\* The locals of the next cycle start afresh.
Forget(p) ==
  /\ pc' = [pc EXCEPT ![p] = "idle"]
  /\ ownRaw' = [ownRaw EXCEPT ![p] = {}]
  /\ ownNorm' = [ownNorm EXCEPT ![p] = {}]
  /\ ownSignals' = [ownSignals EXCEPT ![p] = {}]
  /\ ownIncidents' = [ownIncidents EXCEPT ![p] = {}]
  /\ day' = [day EXCEPT ![p] = 1]
  /\ watched' = [watched EXCEPT ![p] = {}]
  /\ row' = [row EXCEPT ![p] = 1]
  /\ batch' = [batch EXCEPT ![p] = {}]
  /\ UNCHANGED <<mirrorDay, nextRef, seedVars>>

Rollback(p) == Forget(p) /\ UNCHANGED <<eventVars, caseVars>>

Unopened(p) == ownSignals[p] \ {i.key : i \in ownIncidents[p]}

Commit(p) ==
  /\ pc[p] = "detect" /\ AtEnd(p)
  /\ Unopened(p) = {}
  /\ raw' = raw \cup ownRaw[p]
  /\ normalized' = normalized \cup ownNorm[p]
  /\ signals' = signals \cup ownSignals[p]
  /\ incidents' = incidents \cup ownIncidents[p]
  /\ trail' = trail \cup {i.ref : i \in ownIncidents[p]}
  /\ Forget(p)
  /\ UNCHANGED worldVars

Crash(p) ==
  /\ pc[p] # "idle"
  /\ faults < MaxFaults /\ EventsLeft
  /\ faults' = faults + 1
  /\ Rollback(p)
  /\ UNCHANGED <<today, seeds>>

-----------------------------------------------------------------------------
(* The steps of a cycle. *)

\* run_ingestion_cycle reads the mirror; the evaluation instant is fixed.
Begin(p) ==
  /\ pc[p] = "idle"
  /\ pc' = [pc EXCEPT ![p] = "raw"]
  /\ day' = [day EXCEPT ![p] = today]
  /\ batch' = [batch EXCEPT ![p] = MirrorRows]
  /\ UNCHANGED <<mirrorDay, eventVars, caseVars, nextRef, watched, row, ownVars, seedVars,
                 worldVars>>

\* Mutant of RowAt: the rows are offered in an order of the process's own.
RowAnyOrder(p, k) == IF p = CHOOSE q \in Proc : TRUE THEN k ELSE NumOpp + 1 - k

\* read_source_events sorts: every batch offers its rows in the same order.
RowAt(p, k) == k

\* Mutant of StoreRaw: only committed rows conflict.
StoreRawUnseen(p) ==
  /\ pc[p] = "raw" /\ ~AtEnd(p)
  /\ ownRaw' = [ownRaw EXCEPT ![p] = @ \cup (({RowAt(p, row[p])} \cap batch[p]) \ raw)]
  /\ row' = [row EXCEPT ![p] = @ + 1]
  /\ UNCHANGED <<mirrorDay, eventVars, caseVars, nextRef, pc, day, batch, watched,
                 ownNorm, ownSignals, ownIncidents, seedVars, worldVars>>

(* ingest_source_events: one statement, whose rows are inserted one by one *)
(* and kept from the others at once.                                       *)
StoreRaw(p) ==
  LET e == RowAt(p, row[p]) IN
  /\ pc[p] = "raw" /\ ~AtEnd(p)
  /\ e \in batch[p] => \A q \in Proc \ {p} : e \notin ownRaw[q]
  /\ ownRaw' = [ownRaw EXCEPT ![p] = @ \cup (({e} \cap batch[p]) \ raw)]
  /\ row' = [row EXCEPT ![p] = @ + 1]
  /\ UNCHANGED <<mirrorDay, eventVars, caseVars, nextRef, pc, day, batch, watched,
                 ownNorm, ownSignals, ownIncidents, seedVars, worldVars>>

(* normalize_pending selects by absence and inserts without ON CONFLICT.   *)
(* The list of opportunities run_detectors then loads is read here too:    *)
(* the two statements share no table.                                      *)
Normalize(p) ==
  /\ pc[p] = "raw" /\ AtEnd(p)
  /\ ownNorm' = [ownNorm EXCEPT ![p] = (raw \cup ownRaw[p]) \ normalized]
  /\ watched' = [watched EXCEPT ![p] = MirrorRows]
  /\ row' = [row EXCEPT ![p] = 1]
  /\ pc' = [pc EXCEPT ![p] = "detect"]
  /\ batch' = [batch EXCEPT ![p] = {}]
  /\ UNCHANGED <<mirrorDay, eventVars, caseVars, nextRef, day,
                 ownRaw, ownSignals, ownIncidents, seedVars, worldVars>>

\* The mirror was seeded so long after the cycle's own day that a sales
\* touch lies in the cycle's future.
ClockBehind(p) == mirrorDay > day[p] + TouchAge

(* StalledOpportunityDetector.evaluate.  The silence of a stalled          *)
(* opportunity is just long enough on the day of the seed, so a mirror     *)
(* seeded after the cycle began does not fire.                             *)
Fires(p, o) == o \in Stalled /\ mirrorDay <= day[p]

\* dedupe_key: the window starts a fixed number of days before the evaluation.
KeyOf(p, o) == [opp |-> o, day |-> day[p]]

Evaluating(p) == pc[p] = "detect" /\ ~AtEnd(p)

Skip(p) ==
  /\ pc' = [pc EXCEPT ![p] = "detect"]
  /\ row' = [row EXCEPT ![p] = @ + 1]
  /\ UNCHANGED <<mirrorDay, eventVars, caseVars, nextRef, day, batch, watched, ownVars,
                 seedVars, worldVars>>

\* Mutant of Quiet: the end of the list is an opportunity like the others.
QuietPastEnd(p) ==
  /\ pc[p] = "detect"
  /\ row[p] \in watched[p] => ~ClockBehind(p) /\ ~Fires(p, row[p])
  /\ Skip(p)

\* The detector has nothing to report.
Quiet(p) ==
  /\ Evaluating(p)
  /\ row[p] \in watched[p] => ~ClockBehind(p) /\ ~Fires(p, row[p])
  /\ Skip(p)

\* days_since_last_sales_touch raises: the whole cycle fails.
FutureTouch(p) ==
  /\ Evaluating(p)
  /\ row[p] \in watched[p]
  /\ ClockBehind(p)
  /\ Rollback(p)
  /\ UNCHANGED worldVars

\* The detector returns a candidate, which is persisted whatever a seed
\* does to the rows it was computed from.
Detect(p) ==
  /\ Evaluating(p)
  /\ row[p] \in watched[p]
  /\ ~ClockBehind(p)
  /\ Fires(p, row[p])
  /\ pc' = [pc EXCEPT ![p] = "persist"]
  /\ UNCHANGED <<mirrorDay, eventVars, caseVars, nextRef, day, batch, watched, row, ownVars,
                 seedVars, worldVars>>

\* The deletion cascades when the last opportunity is gone.
SignalsDeleted == seeding = "accounts" \/ (seeding = "opportunities" /\ cleared = Opp)

(* persist_candidate meets a committed signal with the key and skips it.   *)
(* One that the seeding transaction has deleted is waited for.             *)
Deduplicate(p) ==
  /\ pc[p] = "persist"
  /\ KeyOf(p, row[p]) \in signals
  /\ ~SignalsDeleted
  /\ Skip(p)

\* Mutant of NewKey: only committed signals conflict.
NewKeyUnseen(p) == KeyOf(p, row[p]) \notin signals

\* No transaction, committed or not, holds the key.
NewKey(p) ==
  /\ KeyOf(p, row[p]) \notin signals
  /\ \A q \in Proc \ {p} : KeyOf(p, row[p]) \notin ownSignals[q]

\* Where the foreign keys of a new signal of o leave the cycle.
AfterInsert(o) ==
  CASE seeding = "accounts" /\ o \in cleared -> "waits_account"
    [] seeding = "accounts" \/ o \in cleared -> "waits_opportunity"
    [] OTHER -> "detect"

(* persist_candidate inserts the signal, and its foreign keys take their   *)
(* share of the account row and then of the opportunity row.               *)
Report(p) ==
  /\ pc[p] = "persist"
  /\ NewKey(p)
  /\ ownSignals' = [ownSignals EXCEPT ![p] = @ \cup {KeyOf(p, row[p])}]
  /\ pc' = [pc EXCEPT ![p] = AfterInsert(row[p])]
  /\ row' = [row EXCEPT ![p] = @ + 1]
  /\ UNCHANGED <<mirrorDay, eventVars, caseVars, nextRef, day, batch, watched,
                 ownRaw, ownNorm, ownIncidents, seedVars, worldVars>>

\* Mutant of AllocateRef: count(*) + 1.
CountPlusOne(p) == Cardinality(incidents) + Cardinality(ownIncidents[p]) + 1

\* allocate_incident_ref.
AllocateRef(p) == nextRef

(* open_incident_for_signal: the incident, at DETECTED and then TRIAGED,   *)
(* and the two audit rows that say so, for the first signal without one.   *)
Open(p) ==
  /\ pc[p] = "detect" /\ AtEnd(p)
  /\ \E k \in Unopened(p) :
       /\ \A l \in Unopened(p) : k.opp <= l.opp
       /\ ownIncidents' = [ownIncidents EXCEPT ![p] = @ \cup {[ref |-> AllocateRef(p), key |-> k]}]
  /\ nextRef' = nextRef + 1
  /\ UNCHANGED <<mirrorDay, eventVars, caseVars, pc, day, batch, watched, row,
                 ownRaw, ownNorm, ownSignals, seedVars, worldVars>>

\* The parent row is gone: the foreign key check fails the cycle.
ParentGone(p) ==
  /\ pc[p] = "parent_gone"
  /\ Rollback(p)
  /\ UNCHANGED worldVars

-----------------------------------------------------------------------------
(* seed_database, one transaction of its own. *)

(* A DELETE begins.  An empty mirror has no row to delete, and in which    *)
(* order it comes to the others nothing says.                              *)
SeedDeletes(table) ==
  /\ seeding' = table
  /\ cleared' = Opp \ MirrorRows
  /\ next' \in IF cleared' = Opp THEN {1} ELSE Opp
  /\ UNCHANGED <<mirrorDay, eventVars, caseVars, nextRef, pc, day, batch, watched, row, ownVars,
                 today, faults>>

SeedBegin ==
  /\ seeding = "no"
  /\ seeds < MaxSeeds /\ EventsLeft
  /\ seeds' = seeds + 1
  /\ SeedDeletes("opportunities")

\* p has a signal of o, and its share of the account and, unless it waits for
\* that one, of the opportunity.
Holds(p, o) == \E k \in ownSignals[p] : k.opp = o

(* Each row is locked and deleted in turn, once every cycle that holds its *)
(* share of it has ended.                                                  *)
SeedRow ==
  /\ seeding # "no"
  /\ cleared # Opp
  /\ \A p \in Proc : ~Holds(p, next)
  /\ cleared' = cleared \cup {next}
  /\ next' \in IF cleared' = Opp THEN {1} ELSE Opp \ cleared'
  /\ UNCHANGED <<mirrorDay, eventVars, caseVars, nextRef, pc, day, batch, watched, row, ownVars,
                 seeding, worldVars>>

SeedAccounts ==
  /\ seeding = "opportunities"
  /\ cleared = Opp
  /\ SeedDeletes("accounts")
  /\ UNCHANGED seeds

SeedEnds ==
  /\ seeding' = "no" /\ cleared' = {} /\ next' = 1
  /\ UNCHANGED <<eventVars, nextRef, day, batch, watched, row, ownVars>>

(* The fixture rows are inserted and everything is committed.  The         *)
(* deletion cascades from accounts and opportunities to signals, from      *)
(* those to incidents, and from those to their audit events.               *)
SeedCommit ==
  /\ seeding = "accounts" /\ cleared = Opp
  /\ SeedEnds
  /\ mirrorDay' = today
  /\ signals' = {} /\ incidents' = {} /\ trail' = {}
  /\ pc' = [p \in Proc |-> IF Parked(p) THEN "parent_gone" ELSE pc[p]]
  /\ UNCHANGED worldVars

SeedRollback ==
  /\ SeedEnds
  /\ pc' = [p \in Proc |-> IF Parked(p) THEN "detect" ELSE pc[p]]
  /\ UNCHANGED <<mirrorDay, caseVars>>

SeedCrash ==
  /\ seeding # "no"
  /\ faults < MaxFaults /\ EventsLeft
  /\ faults' = faults + 1
  /\ SeedRollback
  /\ UNCHANGED <<today, seeds>>

\* The seeding transaction waits for p: for its share of the row that is next.
SeedWaitsFor(p) == seeding # "no" /\ cleared # Opp /\ Holds(p, next)

\* p waits for the transaction of q to let go of a key.
WaitsForKey(p, q) == p # q /\ pc[p] = "persist" /\ KeyOf(p, row[p]) \in ownSignals[q]

(* The cycles of a closed circle of waiting: the seeding transaction waits *)
(* for the first of them, each for the next one's key, and the last for a  *)
(* row that the seeding transaction has deleted.                           *)
Circle(c) ==
  /\ SeedWaitsFor(c[1])
  /\ \A j \in 1 .. Len(c) - 1 : WaitsForKey(c[j], c[j + 1])
  /\ Parked(c[Len(c)])

\* PostgreSQL fails one of the circle: p, or the seeding transaction.
BreakDeadlock(p) ==
  /\ \E n \in 1 .. Cardinality(Proc) : \E c \in [1 .. n -> Proc] :
       Circle(c) /\ \E j \in 1 .. n : c[j] = p
  /\ Rollback(p) \/ SeedRollback
  /\ UNCHANGED worldVars

-----------------------------------------------------------------------------
Tick ==
  /\ today < MaxDay /\ EventsLeft
  /\ today' = today + 1
  /\ UNCHANGED <<mirrorDay, eventVars, caseVars, nextRef, pc, day, batch, watched, row, ownVars,
                 seedVars, seeds, faults>>

Cycle(p) ==
  \/ StoreRaw(p) \/ Normalize(p) \/ Quiet(p) \/ FutureTouch(p) \/ Detect(p)
  \/ Deduplicate(p) \/ Report(p) \/ Open(p) \/ Commit(p) \/ ParentGone(p)

SeedStep == SeedRow \/ SeedAccounts \/ SeedCommit

Next ==
  \/ \E p \in Proc : Begin(p) \/ Cycle(p) \/ BreakDeadlock(p) \/ Crash(p)
  \/ SeedBegin \/ SeedStep \/ SeedCrash
  \/ Tick

Spec == Init /\ [][Next]_vars

(* Once started a command waits for the database only, which looks for a   *)
(* deadlock around every transaction that waits, and wakes the one that    *)
(* waits for a row before a later command can take it.                     *)
FairSpec ==
  /\ Spec
  /\ SF_vars(SeedStep)
  /\ \A p \in Proc : SF_vars(Cycle(p) \/ BreakDeadlock(p))

-----------------------------------------------------------------------------
(* Properties. *)

Key == [opp : Opp, day : Day]
Ref == Nat \ {0}

TypeOK ==
  /\ mirrorDay \in 0 .. MaxDay
  /\ raw \subseteq Opp /\ normalized \subseteq Opp
  /\ signals \subseteq Key
  /\ incidents \subseteq [ref : Ref, key : Key]
  /\ trail \subseteq Ref
  /\ nextRef \in Ref
  /\ pc \in [Proc -> {"idle", "raw", "detect", "persist", "waits_opportunity", "waits_account",
                      "parent_gone"}]
  /\ day \in [Proc -> Day]
  /\ batch \in [Proc -> SUBSET Opp]
  /\ watched \in [Proc -> SUBSET Opp]
  /\ row \in [Proc -> 1 .. NumOpp + 1]
  /\ ownRaw \in [Proc -> SUBSET Opp]
  /\ ownNorm \in [Proc -> SUBSET Opp]
  /\ ownSignals \in [Proc -> SUBSET Key]
  /\ ownIncidents \in [Proc -> SUBSET [ref : Ref, key : Key]]
  /\ seeding \in {"no", "opportunities", "accounts"}
  /\ cleared \subseteq Opp
  /\ next \in Opp \cup {1}
  /\ today \in Day
  /\ seeds \in 0 .. MaxSeeds
  /\ faults \in 0 .. MaxFaults

(* Nothing stops between the stages: every committed raw event has been    *)
(* normalized, and no event is normalized by two transactions, although    *)
(* normalize_pending looks before it inserts and has no ON CONFLICT to     *)
(* fall back on (events/normalize.py).                                     *)
EventsNormalizedOnce ==
  /\ raw = normalized
  /\ \A p \in Proc :
       /\ ownNorm[p] \cap normalized = {}
       /\ \A q \in Proc \ {p} : ownNorm[p] \cap ownNorm[q] = {}

(* Every committed signal has exactly one incident, and no incident is     *)
(* without its signal, whatever cycles race, die or are overtaken by a     *)
(* seed (events/pipeline.py, the three levels of replay safety).           *)
SignalsAreOpened ==
  /\ signals = {i.key : i \in incidents}
  /\ \A i, j \in incidents : i.key = j.key => i = j

(* An incident reference stands for one incident, among all that are       *)
(* visible or in flight (incidents/service.py, allocate_incident_ref).     *)
RefsAreUnique ==
  LET opened == incidents \cup UNION {ownIncidents[p] : p \in Proc} IN
  \A i, j \in opened : i.ref = j.ref => i = j

(* A cycle that began ends: the rows it waits for are always taken in the  *)
(* same order, and a circle with the command that seeds is broken.         *)
CyclesEnd == \A p \in Proc : (pc[p] # "idle") ~> (pc[p] = "idle")

(* db/seeding.py:139, clear_seed_data: "It does not touch incidents,       *)
(* workflow runs, or the audit trail".  No step loses an audit row.        *)
RecordIsKept == [][trail \subseteq trail']_vars
=============================================================================
