-------------------------- MODULE IngestionProofs --------------------------
(***************************************************************************)
(* Theorems about Ingestion, for any number of processes, opportunities,   *)
(* days, seeds and faults.                                                 *)
(*                                                                         *)
(* The argument.  A unique key is held by one transaction at a time, and   *)
(* what a transaction adds behind that key - the normalized event, the     *)
(* incident - inherits the exclusion although it has no key to wait for.   *)
(***************************************************************************)
EXTENDS Ingestion, TLAPS

\* A candidate that waits to be persisted is one of an opportunity.
RowShape == \A p \in Proc : pc[p] = "persist" => ~AtEnd(p)

(* Raw events are kept from each other by their key, and a cycle past      *)
(* normalization has normalized exactly those it inserted.                 *)
EventShape ==
  /\ raw = normalized
  /\ \A p \in Proc :
       /\ ownRaw[p] \cap raw = {}
       /\ pc[p] \in {"idle", "raw"} => ownNorm[p] = {}
       /\ pc[p] \notin {"idle", "raw"} => ownNorm[p] = ownRaw[p]
       /\ \A q \in Proc \ {p} : ownRaw[p] \cap ownRaw[q] = {}

(* Signals are kept from each other by their key, and a cycle opens one    *)
(* incident at most for each of its own.                                   *)
CaseShape ==
  /\ SignalsAreOpened
  /\ \A p \in Proc :
       /\ ownSignals[p] \cap signals = {}
       /\ \A q \in Proc \ {p} : ownSignals[p] \cap ownSignals[q] = {}
       /\ \A i \in ownIncidents[p] : i.key \in ownSignals[p]
       /\ \A i, j \in ownIncidents[p] : i.key = j.key => i = j

Opened == incidents \cup UNION {ownIncidents[p] : p \in Proc}

\* The sequence is ahead of every reference that was handed out.
RefShape ==
  /\ RefsAreUnique
  /\ \A i \in Opened : i.ref < nextRef

IInv == TypeOK /\ RowShape /\ EventShape /\ CaseShape /\ RefShape

LEMMA IInvInit == Init => IInv
<1> SUFFICES ASSUME Init PROVE IInv
  OBVIOUS
<1>1. TypeOK
  BY IngestionAssumption DEF Init, TypeOK, Opp, Day, Key, Ref
<1>2. RowShape /\ EventShape /\ CaseShape
  BY DEF Init, RowShape, EventShape, CaseShape, SignalsAreOpened
<1>3. RefShape
  BY DEF Init, RefShape, RefsAreUnique, Opened
<1> QED
  BY <1>1, <1>2, <1>3 DEF IInv

-----------------------------------------------------------------------------
(* Each part of the invariant, step by step. *)

LEMMA RollbackTypes ==
  ASSUME TypeOK, NEW p \in Proc, Rollback(p), UNCHANGED <<today, seeds>>,
         faults' \in 0 .. MaxFaults
  PROVE  TypeOK'
  BY IngestionAssumption
     DEF TypeOK, Rollback, Forget, eventVars, caseVars, seedVars, Opp, Day

LEMMA CycleTypes ==
  ASSUME TypeOK, RowShape, NEW p \in Proc, Cycle(p)
  PROVE  TypeOK'
<1> USE IngestionAssumption DEF TypeOK, eventVars, caseVars, ownVars, seedVars, worldVars
<1>1. CASE StoreRaw(p)
  BY <1>1 DEF StoreRaw, RowAt, AtEnd, Opp
<1>2. CASE Normalize(p)
  <2>1. (raw \cup ownRaw[p]) \ normalized \in SUBSET Opp /\ MirrorRows \in SUBSET Opp
    BY DEF MirrorRows
  <2>2. ownNorm' \in [Proc -> SUBSET Opp] /\ watched' \in [Proc -> SUBSET Opp]
    BY <1>2, <2>1 DEF Normalize
  <2>3. row' \in [Proc -> 1 .. NumOpp + 1] /\ batch' \in [Proc -> SUBSET Opp]
    BY <1>2 DEF Normalize
  <2> QED
    BY <1>2, <2>2, <2>3 DEF Normalize
<1>3. CASE Quiet(p)
  BY <1>3 DEF Quiet, Skip, Evaluating, AtEnd
<1>4. CASE FutureTouch(p) \/ ParentGone(p)
  BY <1>4, RollbackTypes DEF FutureTouch, ParentGone
<1>5. CASE Detect(p)
  BY <1>5 DEF Detect
<1>6. CASE Deduplicate(p)
  BY <1>6 DEF Deduplicate, Skip, RowShape, AtEnd
<1>7. CASE Report(p)
  <2>1. row[p] \in Opp /\ KeyOf(p, row[p]) \in Key
    BY <1>7 DEF Report, RowShape, AtEnd, Opp, Key, KeyOf
  <2>2. pc' \in [Proc -> {"idle", "raw", "detect", "persist", "waits_opportunity",
                         "waits_account", "parent_gone"}]
    BY <1>7 DEF Report, AfterInsert
  <2>3. row' \in [Proc -> 1 .. NumOpp + 1]
    BY <1>7, <2>1 DEF Report, Opp
  <2>4. ownSignals' \in [Proc -> SUBSET Key]
    BY <1>7, <2>1 DEF Report
  <2> QED
    BY <1>7, <2>2, <2>3, <2>4 DEF Report
<1>8. CASE Open(p)
  BY <1>8 DEF Open, Unopened, AllocateRef, Ref
<1>9. CASE Commit(p)
  <2>1. raw' \subseteq Opp /\ normalized' \subseteq Opp /\ signals' \subseteq Key
    BY <1>9 DEF Commit
  <2>2. incidents' \subseteq [ref : Ref, key : Key] /\ trail' \subseteq Ref
    BY <1>9 DEF Commit
  <2> QED
    BY <1>9, <2>1, <2>2 DEF Commit, Forget, Opp, Day
<1> QED
  BY <1>1, <1>2, <1>3, <1>4, <1>5, <1>6, <1>7, <1>8, <1>9 DEF Cycle

LEMMA NextTypes ==
  ASSUME TypeOK, RowShape, [Next]_vars
  PROVE  TypeOK'
<1> USE IngestionAssumption DEF TypeOK, eventVars, caseVars, ownVars, seedVars, worldVars
<1>1. ASSUME NEW p \in Proc, Begin(p) PROVE TypeOK'
  BY <1>1 DEF Begin, MirrorRows, Opp
<1>2. ASSUME NEW p \in Proc, BreakDeadlock(p) PROVE TypeOK'
  <2>1. CASE Rollback(p)
    BY <1>2, <2>1, RollbackTypes DEF BreakDeadlock
  <2>2. CASE SeedRollback
    BY <1>2, <2>2 DEF BreakDeadlock, SeedRollback, SeedEnds
  <2> QED
    BY <1>2, <2>1, <2>2 DEF BreakDeadlock
<1>3. ASSUME NEW p \in Proc, Crash(p) PROVE TypeOK'
  BY <1>3, RollbackTypes DEF Crash
<1>4. ASSUME NEW table \in {"opportunities", "accounts"}, SeedDeletes(table),
             seeds' \in 0 .. MaxSeeds
      PROVE  TypeOK'
  BY <1>4 DEF SeedDeletes, Opp
<1>5. CASE SeedRow
  <2>1. PICK o \in Opp : o \notin cleared
    BY <1>5 DEF SeedRow
  <2>2. 1 \in Opp
    BY <2>1 DEF Opp
  <2>3. cleared' \subseteq Opp /\ next' \in Opp \cup {1}
    BY <1>5, <2>2 DEF SeedRow
  <2> QED
    BY <1>5, <2>3 DEF SeedRow
<1>6. CASE SeedCommit
  BY <1>6 DEF SeedCommit, SeedEnds, Day
<1>7. CASE SeedCrash
  BY <1>7 DEF SeedCrash, SeedRollback, SeedEnds
<1>8. CASE Tick
  BY <1>8 DEF Tick, Day
<1>9. CASE UNCHANGED vars
  BY <1>9 DEF vars, seedVars
<1> QED
  BY <1>1, <1>2, <1>3, <1>4, <1>5, <1>6, <1>7, <1>8, <1>9, CycleTypes
     DEF Next, SeedStep, SeedBegin, SeedAccounts

LEMMA RowsPreserved ==
  ASSUME TypeOK, RowShape, [Next]_vars
  PROVE  RowShape'
<1> USE DEF RowShape, AtEnd, TypeOK
<1>1. ASSUME NEW p \in Proc, Begin(p) PROVE RowShape'
  BY <1>1 DEF Begin
<1>2. ASSUME NEW p \in Proc, Rollback(p) \/ Commit(p) PROVE RowShape'
  BY <1>2 DEF Rollback, Commit, Forget
<1>3. ASSUME NEW p \in Proc, StoreRaw(p) \/ Normalize(p) \/ Detect(p) \/ Open(p)
      PROVE  RowShape'
  BY <1>3 DEF StoreRaw, Normalize, Detect, Evaluating, Open
<1>4. ASSUME NEW p \in Proc, Quiet(p) \/ Deduplicate(p) \/ Report(p) PROVE RowShape'
  BY <1>4 DEF Quiet, Skip, Deduplicate, Report, AfterInsert
<1>5. ASSUME SeedRollback PROVE RowShape'
  BY <1>5 DEF SeedRollback, SeedEnds
<1>6. CASE SeedBegin \/ SeedRow \/ SeedAccounts \/ SeedCommit \/ Tick \/ UNCHANGED vars
  BY <1>6 DEF SeedBegin, SeedDeletes, SeedRow, SeedAccounts, SeedCommit, SeedEnds, Tick, vars
<1> QED
  BY <1>1, <1>2, <1>3, <1>4, <1>5, <1>6
     DEF Next, SeedStep, Cycle, FutureTouch, ParentGone, BreakDeadlock, Crash, SeedCrash

LEMMA EventsPreserved ==
  ASSUME TypeOK, EventShape, [Next]_vars
  PROVE  EventShape'
<1> USE DEF EventShape, TypeOK, eventVars, ownVars
<1>1. ASSUME NEW p \in Proc, Begin(p) PROVE EventShape'
  BY <1>1 DEF Begin
<1>2. ASSUME NEW p \in Proc, StoreRaw(p) PROVE EventShape'
  BY <1>2 DEF StoreRaw
<1>3. ASSUME NEW p \in Proc, Normalize(p) PROVE EventShape'
  BY <1>3 DEF Normalize
<1>4. ASSUME NEW p \in Proc, Rollback(p) PROVE EventShape'
  BY <1>4 DEF Rollback, Forget
<1>5. ASSUME NEW p \in Proc, Commit(p) PROVE EventShape'
  BY <1>5 DEF Commit, Forget
<1>6. ASSUME NEW p \in Proc, Quiet(p) \/ Detect(p) \/ Deduplicate(p) \/ Report(p) \/ Open(p)
      PROVE  EventShape'
  BY <1>6 DEF Quiet, Evaluating, Skip, Detect, Deduplicate, Report, AfterInsert, Open
<1>7. ASSUME SeedRollback PROVE EventShape'
  BY <1>7 DEF SeedRollback, SeedEnds, Parked
<1>8. CASE SeedBegin \/ SeedRow \/ SeedAccounts \/ SeedCommit \/ Tick \/ UNCHANGED vars
  BY <1>8 DEF SeedBegin, SeedDeletes, SeedRow, SeedAccounts, SeedCommit, SeedEnds, Tick,
             Parked, vars
<1> QED
  BY <1>1, <1>2, <1>3, <1>4, <1>5, <1>6, <1>7, <1>8
     DEF Next, SeedStep, Cycle, FutureTouch, ParentGone, BreakDeadlock, Crash, SeedCrash

LEMMA CasesPreserved ==
  ASSUME TypeOK, CaseShape, [Next]_vars
  PROVE  CaseShape'
<1> USE DEF CaseShape, SignalsAreOpened, TypeOK, caseVars, ownVars
<1>1. ASSUME NEW p \in Proc, Report(p) PROVE CaseShape'
  BY <1>1 DEF Report, NewKey
<1>2. ASSUME NEW p \in Proc, Open(p) PROVE CaseShape'
  BY <1>2 DEF Open, Unopened
<1>3. ASSUME NEW p \in Proc, Rollback(p) PROVE CaseShape'
  BY <1>3 DEF Rollback, Forget
<1>4. ASSUME NEW p \in Proc, Commit(p) PROVE CaseShape'
  <2>1. ownSignals[p] = {i.key : i \in ownIncidents[p]}
    BY <1>4 DEF Commit, Unopened
  <2>2. SignalsAreOpened'
    BY <1>4, <2>1 DEF Commit
  <2> QED
    BY <1>4, <2>2 DEF Commit, Forget
<1>5. CASE SeedCommit
  BY <1>5 DEF SeedCommit, SeedEnds
<1>6. ASSUME NEW p \in Proc, \/ Begin(p) \/ StoreRaw(p) \/ Normalize(p) \/ Quiet(p)
                             \/ Detect(p) \/ Deduplicate(p)
      PROVE  CaseShape'
  BY <1>6 DEF Begin, StoreRaw, Normalize, Quiet, Skip, Detect, Deduplicate
<1>7. CASE SeedBegin \/ SeedRow \/ SeedAccounts \/ SeedRollback \/ Tick \/ UNCHANGED vars
  BY <1>7 DEF SeedBegin, SeedDeletes, SeedRow, SeedAccounts, SeedRollback, SeedEnds, Tick, vars
<1> QED
  BY <1>1, <1>2, <1>3, <1>4, <1>5, <1>6, <1>7
     DEF Next, SeedStep, Cycle, FutureTouch, ParentGone, BreakDeadlock, Crash, SeedCrash

\* A step that opens no incident: nothing is added to those in existence.
LEMMA NoneOpened ==
  ASSUME RefShape, Opened' \subseteq Opened, nextRef' = nextRef
  PROVE  RefShape'
  BY DEF RefShape, RefsAreUnique, Opened

LEMMA RefsPreserved ==
  ASSUME TypeOK, RefShape, [Next]_vars
  PROVE  RefShape'
<1> USE DEF TypeOK, caseVars, ownVars
<1>1. ASSUME NEW p \in Proc, Open(p) PROVE RefShape'
  <2>1. PICK k \in Unopened(p) :
          ownIncidents' = [ownIncidents EXCEPT ![p] = @ \cup {[ref |-> nextRef, key |-> k]}]
    BY <1>1 DEF Open, AllocateRef
  <2>2. Opened' \subseteq Opened \cup {[ref |-> nextRef, key |-> k]}
    BY <1>1, <2>1 DEF Open, Opened
  <2>3. Opened \subseteq [ref : Ref, key : Key] /\ nextRef' = nextRef + 1
    BY <1>1 DEF Open, Opened
  <2>4. \A i, j \in Opened : i.ref = j.ref => i = j
    BY DEF RefShape, RefsAreUnique, Opened
  <2>5. \A i, j \in Opened' : i.ref = j.ref => i = j
    BY <2>2, <2>3, <2>4 DEF RefShape, Ref
  <2>6. \A i \in Opened' : i.ref < nextRef'
    BY <2>2, <2>3 DEF RefShape, Ref
  <2> QED
    BY <2>5, <2>6 DEF RefShape, RefsAreUnique, Opened
<1>2. ASSUME NEW p \in Proc, Rollback(p) PROVE RefShape'
  BY <1>2, NoneOpened DEF Rollback, Forget, Opened
<1>3. ASSUME NEW p \in Proc, Commit(p) PROVE RefShape'
  BY <1>3, NoneOpened DEF Commit, Forget, Opened
<1>4. CASE SeedCommit
  BY <1>4, NoneOpened DEF SeedCommit, SeedEnds, Opened
<1>5. ASSUME NEW p \in Proc, \/ Begin(p) \/ StoreRaw(p) \/ Normalize(p) \/ Quiet(p)
                             \/ Detect(p) \/ Deduplicate(p) \/ Report(p)
      PROVE  RefShape'
  BY <1>5, NoneOpened
     DEF Begin, StoreRaw, Normalize, Quiet, Skip, Detect, Deduplicate, Report, Opened
<1>6. CASE SeedBegin \/ SeedRow \/ SeedAccounts \/ SeedRollback \/ Tick \/ UNCHANGED vars
  BY <1>6, NoneOpened
     DEF SeedBegin, SeedDeletes, SeedRow, SeedAccounts, SeedRollback, SeedEnds, Tick, vars, Opened
<1> QED
  BY <1>1, <1>2, <1>3, <1>4, <1>5, <1>6
     DEF Next, SeedStep, Cycle, FutureTouch, ParentGone, BreakDeadlock, Crash, SeedCrash

-----------------------------------------------------------------------------
(* The theorems. *)

\* The invariant above holds in every state of every behaviour.
THEOREM IngestionInductive == Spec => []IInv
<1>1. IInv /\ [Next]_vars => IInv'
  BY NextTypes, RowsPreserved, EventsPreserved, CasesPreserved, RefsPreserved DEF IInv
<1> QED
  BY IInvInit, <1>1, PTL DEF Spec

\* Type correctness: no cycle leaves its list of rows.
THEOREM IngestionTypes == Spec => []TypeOK
<1>1. IInv => TypeOK
  BY DEF IInv
<1> QED
  BY <1>1, IngestionInductive, PTL

(* Every committed raw event is normalized, and by one transaction         *)
(* (events/normalize.py normalize_pending, which has no ON CONFLICT).      *)
THEOREM EventsAlwaysNormalizedOnce == Spec => []EventsNormalizedOnce
<1>1. EventShape => EventsNormalizedOnce
  BY DEF EventShape, EventsNormalizedOnce
<1> QED
  BY <1>1, IngestionInductive, PTL DEF IInv

(* Committed signals and incidents correspond one to one                   *)
(* (events/dispatcher.py persist_candidate, events/pipeline.py).           *)
THEOREM SignalsAlwaysOpened == Spec => []SignalsAreOpened
<1>1. IInv => SignalsAreOpened
  BY DEF IInv, CaseShape
<1> QED
  BY <1>1, IngestionInductive, PTL

(* No two incidents, committed or in flight, share a reference             *)
(* (incidents/service.py allocate_incident_ref).                           *)
THEOREM RefsAlwaysUnique == Spec => []RefsAreUnique
<1>1. IInv => RefsAreUnique
  BY DEF IInv, RefShape
<1> QED
  BY <1>1, IngestionInductive, PTL
=============================================================================
