------------------------- MODULE InvestigationProofs -------------------------
(***************************************************************************)
(* Theorems about Investigation, for any number of runs and incidents and  *)
(* any limits.                                                             *)
(*                                                                         *)
(* The argument.  The first two nodes of the graph both call a model, and  *)
(* a call costs something, so a run past the first node holds the budget   *)
(* row and sees its newest version: from its second call on it is admitted *)
(* on an exact figure.  A run that was admitted on a stale one at its      *)
(* first call is either refused at the second, and rolled back, or within  *)
(* the limit after all.                                                    *)
(***************************************************************************)
EXTENDS Investigation, FiniteSetTheorems, TLAPS

Working(r) == pc[r] \in {"node", "call", "charge"}

(* Where a run is: it calls models only at the nodes that do, it holds the *)
(* budget row exactly from its first charge on, and it has booked nothing  *)
(* while it does not hold it.                                              *)
RunShape ==
  \A r \in Run :
    /\ pc[r] \in {"idle", "open"} => pos[r] = 1
    /\ pc[r] \in {"call", "charge"} => pos[r] # GraphEnd /\ NodeAt(r) \in LlmNode
    /\ budgetLock = r => Working(r)
    /\ Working(r) /\ pos[r] > 1 => budgetLock = r
    /\ pc[r] # "done" /\ budgetLock # r => own[r] = 0

\* What admission has established, from the second model call on.
AdmissionShape ==
  \A r \in Run :
    /\ pc[r] = "node" /\ pos[r] > 2 => written <= GlobalLimit + Excess
    /\ pc[r] = "call" /\ pos[r] > 1 => written + Reserve[NodeAt(r)] <= GlobalLimit
    /\ pc[r] = "charge" /\ pos[r] > 1 => written + owed[r] <= GlobalLimit + Excess

IInv ==
  /\ TypeOK
  /\ RunShape
  /\ AdmissionShape
  /\ LedgerReconciles
  /\ GlobalBudgetHolds

LEMMA SequenceFacts ==
  /\ GraphEnd = 7
  /\ NodeSequence[1] \in LlmNode /\ NodeSequence[2] \in LlmNode
  BY DEF GraphEnd, NodeSequence, LlmNode

LEMMA IInvInit == Init => IInv
<1> SUFFICES ASSUME Init PROVE IInv
  OBVIOUS
<1>1. TypeOK
  BY RunAssumption, LimitAssumption, SequenceFacts DEF Init, TypeOK
<1>2. RunShape /\ AdmissionShape
  BY RunAssumption DEF Init, RunShape, AdmissionShape, Working
<1>3. LedgerReconciles /\ GlobalBudgetHolds
  BY RunAssumption, LimitAssumption, CostAssumption DEF Init, LedgerReconciles, GlobalBudgetHolds
<1> QED
  BY <1>1, <1>2, <1>3 DEF IInv

-----------------------------------------------------------------------------
(* The steps. *)

\* A step that changes no figure and no lock of the budget, and moves r alone.
LEMMA MovePreserves ==
  ASSUME IInv, NEW r \in Run,
         TypeOK',
         UNCHANGED <<consumed, ledger, budgetLock, written, own>>,
         \A q \in Run \ {r} : UNCHANGED <<pc[q], pos[q], owed[q]>>,
         pc'[r] # "done",
         pc'[r] = "open" => pos'[r] = 1,
         pc'[r] # "idle",
         pc'[r] \in {"call", "charge"} => pos'[r] # GraphEnd /\ NodeAt(r)' \in LlmNode,
         Working(r) => Working(r)',
         Working(r)' /\ pos'[r] > 1 => budgetLock = r,
         pc[r] # "done",
         pc'[r] = "node" /\ pos'[r] > 2 => written <= GlobalLimit + Excess,
         pc'[r] = "call" /\ pos'[r] > 1 => written + Reserve[NodeAt(r)'] <= GlobalLimit,
         pc'[r] = "charge" /\ pos'[r] > 1 => written + owed'[r] <= GlobalLimit + Excess
  PROVE  IInv'
<1>1. RunShape'
  BY DEF IInv, RunShape, Working, NodeAt
<1>2. AdmissionShape'
  BY DEF IInv, AdmissionShape, NodeAt
<1>3. LedgerReconciles' /\ GlobalBudgetHolds'
  BY DEF IInv, LedgerReconciles, GlobalBudgetHolds
<1> QED
  BY <1>1, <1>2, <1>3 DEF IInv

\* The end of a transaction: what is committed has been established before.
LEMMA EndPreserves ==
  ASSUME IInv, NEW r \in Run,
         TypeOK',
         Release(r),
         UNCHANGED <<written, pos, owed>>,
         \A q \in Run \ {r} : UNCHANGED own[q],
         consumed' = ledger',
         consumed' <= GlobalLimit + Excess,
         budgetLock # r => consumed' = consumed
  PROVE  IInv'
<1>1. RunShape'
  BY RunAssumption DEF IInv, RunShape, Working, NodeAt, Release, TypeOK
<1>2. AdmissionShape'
  BY DEF IInv, AdmissionShape, NodeAt, Release, TypeOK
<1>3. LedgerReconciles' /\ GlobalBudgetHolds'
  BY RunAssumption DEF IInv, LedgerReconciles, GlobalBudgetHolds, Release
<1> QED
  BY <1>1, <1>2, <1>3 DEF IInv

LEMMA RollbackPreserves ==
  ASSUME IInv, NEW r \in Run, Rollback(r), invoice' \in Nat, faults' \in 0 .. MaxFaults
  PROVE  IInv'
<1>1. TypeOK'
  BY DEF IInv, TypeOK, Rollback, Release, rowVars
<1>2. \A q \in Run \ {r} : UNCHANGED own[q]
  BY DEF IInv, TypeOK, Rollback
<1>3. consumed' = ledger' /\ consumed' = consumed /\ consumed' <= GlobalLimit + Excess
  BY DEF IInv, LedgerReconciles, GlobalBudgetHolds, Rollback, rowVars
<1> QED
  BY <1>1, <1>2, <1>3, EndPreserves DEF Rollback

LEMMA FinishPreserves ==
  ASSUME IInv, NEW r \in Run, Finish(r)
  PROVE  IInv'
<1>1. budgetLock = r /\ written <= GlobalLimit + Excess /\ written = ledger + own[r]
  BY SequenceFacts
     DEF IInv, Finish, RunShape, AdmissionShape, LedgerReconciles, Working
<1>2. TypeOK'
  BY <1>1 DEF IInv, TypeOK, Finish, Release
<1>3. consumed' = ledger' /\ consumed' <= GlobalLimit + Excess
  BY <1>1 DEF Finish
<1> QED
  BY <1>1, <1>2, <1>3, EndPreserves DEF Finish

LEMMA BeginPreserves == ASSUME IInv, NEW r \in Run, Begin(r) PROVE IInv'
<1>1. TypeOK'
  BY DEF IInv, TypeOK, Begin, rowVars, lockVars
<1> QED
  BY <1>1, MovePreserves
     DEF Begin, rowVars, lockVars, IInv, TypeOK, RunShape, Working, NodeAt

LEMMA OpenPreserves == ASSUME IInv, NEW r \in Run, Open(r) PROVE IInv'
<1>1. TypeOK'
  BY DEF IInv, TypeOK, Open, rowVars
<1> QED
  BY <1>1, MovePreserves DEF Open, rowVars, IInv, TypeOK, RunShape, Working, NodeAt

LEMMA ComputePreserves == ASSUME IInv, NEW r \in Run, Compute(r) PROVE IInv'
<1>1. TypeOK'
  BY SequenceFacts DEF IInv, TypeOK, Compute, rowVars, lockVars
<1>2. pos[r] > 2
  BY SequenceFacts DEF IInv, TypeOK, Compute, NodeAt
<1>3. budgetLock = r /\ written <= GlobalLimit + Excess
  BY <1>2 DEF IInv, TypeOK, Compute, RunShape, AdmissionShape, Working
<1> QED
  BY <1>1, <1>2, <1>3, MovePreserves
     DEF Compute, rowVars, lockVars, IInv, TypeOK, RunShape, Working, NodeAt

LEMMA AdmitPreserves == ASSUME IInv, NEW r \in Run, Admit(r) PROVE IInv'
<1>1. TypeOK'
  BY DEF IInv, TypeOK, Admit, AtModelCall, rowVars, lockVars
<1>2. pos[r] > 1 => budgetLock = r /\ written + Reserve[NodeAt(r)] <= GlobalLimit
  BY DEF IInv, Admit, AtModelCall, Affordable, Figure, RunShape, Working
<1> QED
  BY <1>1, <1>2, MovePreserves
     DEF Admit, AtModelCall, rowVars, lockVars, IInv, TypeOK, RunShape, Working, NodeAt

LEMMA AnswerPreserves == ASSUME IInv, NEW r \in Run, Answer(r) PROVE IInv'
<1>1. NodeAt(r) \in LlmNode
  BY DEF IInv, Answer, RunShape
<1>2. PICK c \in CostsOf[NodeAt(r)] : invoice' = invoice + c /\ owed' = [owed EXCEPT ![r] = c]
  BY DEF Answer
<1>3. c \in Nat /\ c <= Reserve[NodeAt(r)] + Excess /\ Reserve[NodeAt(r)] \in Nat
  BY <1>1, <1>2, CostAssumption
<1>4. PICK t \in Nat : toolCalls' = [toolCalls EXCEPT ![r] = @ + t]
  BY LimitAssumption DEF Answer
<1>5. TypeOK'
  BY <1>2, <1>3, <1>4 DEF IInv, TypeOK, Answer, rowVars, lockVars
<1>6. pos[r] > 1 => written + owed'[r] <= GlobalLimit + Excess
  BY <1>2, <1>3, CostAssumption, LimitAssumption DEF IInv, TypeOK, AdmissionShape, Answer
<1> QED
  BY <1>1, <1>2, <1>5, <1>6, MovePreserves
     DEF Answer, rowVars, lockVars, IInv, TypeOK, RunShape, Working, NodeAt

LEMMA BadAnswerPreserves == ASSUME IInv, NEW r \in Run, BadAnswer(r) PROVE IInv'
<1>1. NodeAt(r) \in LlmNode
  BY DEF IInv, BadAnswer, RunShape
<1>2. invoice' \in Nat
  BY <1>1, CostAssumption DEF IInv, TypeOK, BadAnswer
<1>3. faults' \in 0 .. MaxFaults
  BY LimitAssumption DEF IInv, TypeOK, BadAnswer
<1> QED
  BY <1>2, <1>3, RollbackPreserves DEF BadAnswer

LEMMA ChargePreserves == ASSUME IInv, NEW r \in Run, Charge(r) PROVE IInv'
<1> USE DEF rowVars
<1>1. pos[r] \in 1 .. 6 /\ GraphEnd = 7
  BY SequenceFacts DEF IInv, TypeOK, RunShape, Charge
<1>2. TypeOK'
  BY <1>1 DEF IInv, TypeOK, Charge, Figure
<1>3. \A q \in Run \ {r} : ~(Working(q) /\ pos[q] > 1) /\ budgetLock # q
  BY RunAssumption DEF IInv, RunShape, Charge
<1>4. \A q \in Run \ {r} : UNCHANGED <<pc[q], pos[q], own[q], owed[q]>>
  BY DEF IInv, TypeOK, Charge
<1>5. pc'[r] = "node" /\ pos'[r] = pos[r] + 1 /\ own'[r] = own[r] + owed[r] /\ budgetLock' = r
  BY DEF IInv, TypeOK, Charge
<1>6. RunShape'
  BY <1>1, <1>3, <1>4, <1>5 DEF IInv, TypeOK, RunShape, Working, NodeAt
<1>7. AdmissionShape'
  <2>1. pos'[r] > 2 => written' <= GlobalLimit + Excess
    BY <1>1, <1>5 DEF IInv, TypeOK, RunShape, AdmissionShape, Working, Charge, Figure
  <2> QED
    BY <2>1, <1>3, <1>4, <1>5, <1>1 DEF IInv, TypeOK, AdmissionShape, Working
<1>8. LedgerReconciles'
  <2>1. Figure(r) = ledger + own[r]
    BY DEF IInv, TypeOK, RunShape, LedgerReconciles, Figure, Charge
  <2> QED
    BY <2>1, <1>5 DEF IInv, TypeOK, LedgerReconciles, Charge
<1>9. GlobalBudgetHolds'
  BY DEF IInv, GlobalBudgetHolds, Charge
<1> QED
  BY <1>2, <1>6, <1>7, <1>8, <1>9 DEF IInv

LEMMA IInvNext == IInv /\ [Next]_vars => IInv'
<1> SUFFICES ASSUME IInv, [Next]_vars PROVE IInv'
  OBVIOUS
<1>1. CASE UNCHANGED vars
  BY <1>1 DEF IInv, TypeOK, RunShape, AdmissionShape, LedgerReconciles, GlobalBudgetHolds,
     Working, NodeAt, vars, rowVars, lockVars
<1>2. ASSUME NEW r \in Run, Refuse(r) PROVE IInv'
  BY <1>2, RollbackPreserves DEF Refuse, IInv, TypeOK
<1>3. ASSUME NEW r \in Run, Crash(r) PROVE IInv'
  <2>1. faults' \in 0 .. MaxFaults
    BY <1>3, LimitAssumption DEF IInv, TypeOK, Crash
  <2> QED
    BY <1>3, <2>1, RollbackPreserves DEF Crash, IInv, TypeOK
<1> QED
  BY <1>1, <1>2, <1>3, BeginPreserves, OpenPreserves, ComputePreserves, AdmitPreserves,
     AnswerPreserves, BadAnswerPreserves, ChargePreserves, FinishPreserves DEF Next, Step

-----------------------------------------------------------------------------
(* The theorems. *)

\* The invariant above holds in every state of every behaviour.
THEOREM BudgetInductive == Spec => []IInv
<1> QED
  BY IInvInit, IInvNext, PTL DEF Spec

\* Type correctness.
THEOREM BudgetTypes == Spec => []TypeOK
<1>1. IInv => TypeOK
  BY DEF IInv
<1> QED
  BY <1>1, BudgetInductive, PTL

(* The budget's figure is the sum of the cost entries, committed and in    *)
(* the transaction that holds the row (cost/ledger.py _consume).           *)
THEOREM LedgerAlwaysReconciles == Spec => []LedgerReconciles
<1>1. IInv => LedgerReconciles
  BY DEF IInv
<1> QED
  BY <1>1, BudgetInductive, PTL

(* The figure of the GLOBAL budget passes its limit by at most the excess  *)
(* of one call over its reservation, whatever races (cost/governor.py      *)
(* check_affordable).                                                      *)
THEOREM GlobalBudgetAlwaysHolds == Spec => []GlobalBudgetHolds
<1>1. IInv => GlobalBudgetHolds
  BY DEF IInv
<1> QED
  BY <1>1, BudgetInductive, PTL

-----------------------------------------------------------------------------
(* The ceilings.  Evidence is gathered at the second of three nodes in a   *)
(* row that call a model, so a run whose tools passed the ceiling there    *)
(* meets the check once more before anything else.                         *)

CeilingShape ==
  \A r \in Run :
    /\ ModelCalls(r) <= MaxModelCalls
    /\ pc[r] \in {"call", "charge"} => ModelCalls(r) < MaxModelCalls
    /\ toolCalls[r] >= MaxToolCalls =>
         pos[r] <= 3 /\ pc[r] # "call" /\ (pc[r] = "charge" => pos[r] = 2)

LEMMA GraphFacts ==
  ASSUME NEW n \in 1 .. 6
  PROVE  /\ n <= 3 => NodeSequence[n] \in LlmNode
         /\ NodeSequence[n] = "collect_evidence" => n = 2
<1>1. n = 1 \/ n = 2 \/ n = 3 \/ n = 4 \/ n = 5 \/ n = 6
  OBVIOUS
<1> QED
  BY <1>1 DEF NodeSequence, LlmNode

LlmNodesBefore(n) == {j \in 1 .. n - 1 : NodeSequence[j] \in LlmNode}

\* One node further a run has made one model call more, if the node makes one.
LEMMA OneNodeFurther ==
  ASSUME NEW n \in Nat \ {0}
  PROVE  /\ Cardinality(LlmNodesBefore(n)) \in Nat
         /\ Cardinality(LlmNodesBefore(n + 1)) =
              IF NodeSequence[n] \in LlmNode THEN Cardinality(LlmNodesBefore(n)) + 1
              ELSE Cardinality(LlmNodesBefore(n))
<1>1. IsFiniteSet(1 .. n - 1) /\ LlmNodesBefore(n) \subseteq 1 .. n - 1
  BY FS_Interval DEF LlmNodesBefore
<1>2. IsFiniteSet(LlmNodesBefore(n)) /\ n \notin LlmNodesBefore(n)
  BY <1>1, FS_Subset DEF LlmNodesBefore
<1>3. Cardinality(LlmNodesBefore(n)) \in Nat
  BY <1>2, FS_CardinalityType
<1>4. CASE NodeSequence[n] \in LlmNode
  <2>1. LlmNodesBefore(n + 1) = LlmNodesBefore(n) \cup {n}
    BY <1>4 DEF LlmNodesBefore
  <2> QED
    BY <1>2, <1>3, <1>4, <2>1, FS_AddElement
<1>5. CASE NodeSequence[n] \notin LlmNode
  <2>1. LlmNodesBefore(n + 1) = LlmNodesBefore(n)
    BY <1>5 DEF LlmNodesBefore
  <2> QED
    BY <1>3, <1>5, <2>1
<1> QED
  BY <1>3, <1>4, <1>5

LEMMA ModelCallsByPosition ==
  ASSUME NEW r
  PROVE  ModelCalls(r) = Cardinality(LlmNodesBefore(pos[r]))
BY DEF ModelCalls, LlmNodesBefore

LEMMA CeilingNext ==
  ASSUME IInv, CeilingShape, [Next]_vars
  PROVE  CeilingShape'
<1> USE DEF IInv, TypeOK, rowVars, lockVars
<1> DEFINE Within(q) ==
      /\ ModelCalls(q)' <= MaxModelCalls
      /\ pc'[q] \in {"call", "charge"} => ModelCalls(q)' < MaxModelCalls
      /\ toolCalls'[q] >= MaxToolCalls =>
           pos'[q] <= 3 /\ pc'[q] # "call" /\ (pc'[q] = "charge" => pos'[q] = 2)
<1> SUFFICES ASSUME NEW q \in Run PROVE Within(q)
  BY DEF CeilingShape
<1>1. ASSUME UNCHANGED <<pos[q], toolCalls[q]>>, pc'[q] \notin {"call", "charge"} \/ pc'[q] = pc[q]
      PROVE  Within(q)
  <2>1. ModelCalls(q)' = ModelCalls(q)
    BY <1>1 DEF ModelCalls
  <2> QED
    BY <1>1, <2>1 DEF CeilingShape
<1>2. ASSUME NEW r \in Run,
             \/ Begin(r) \/ Open(r) \/ Refuse(r)
             \/ BadAnswer(r) \/ Crash(r) \/ Finish(r)
      PROVE  Within(q)
  BY <1>1, <1>2 DEF Begin, Open, Refuse, BadAnswer, Crash, Rollback, Finish, Release
<1>3. ASSUME NEW r \in Run, Compute(r) PROVE Within(q)
  <2>1. CASE q # r
    BY <1>1, <1>3, <2>1 DEF Compute
  <2>2. CASE q = r
    <3>1. /\ pos[r] \in 1 .. 6 /\ pos'[r] = pos[r] + 1 /\ NodeSequence[pos[r]] \notin LlmNode
          /\ pc'[r] = "node" /\ toolCalls' = toolCalls
      BY <1>3, SequenceFacts DEF Compute, NodeAt
    <3>2. ModelCalls(r)' = ModelCalls(r)
      BY <3>1, OneNodeFurther DEF ModelCalls, LlmNodesBefore
    <3>3. pos[r] > 3
      BY <3>1, GraphFacts
    <3> QED
      BY <2>2, <3>1, <3>2, <3>3, LimitAssumption DEF CeilingShape
  <2> QED
    BY <2>1, <2>2
<1>4. ASSUME NEW r \in Run, Admit(r) PROVE Within(q)
  <2>1. CASE q # r
    BY <1>1, <1>4, <2>1 DEF Admit
  <2>2. CASE q = r
    <3>1. ModelCalls(r)' = ModelCalls(r)
      BY <1>4 DEF Admit, ModelCalls
    <3>2. ~(ModelCalls(r) >= MaxModelCalls) /\ ~(toolCalls[r] >= MaxToolCalls)
      BY <1>4 DEF Admit, CeilingReached
    <3>3. ModelCalls(r) \in Nat
      BY OneNodeFurther, ModelCallsByPosition
    <3>4. ModelCalls(r) < MaxModelCalls
      BY <3>2, <3>3, LimitAssumption
    <3> QED
      BY <1>4, <2>2, <3>1, <3>2, <3>4 DEF Admit, CeilingShape
  <2> QED
    BY <2>1, <2>2
<1>5. ASSUME NEW r \in Run, Answer(r) PROVE Within(q)
  <2>1. CASE q # r
    BY <1>1, <1>5, <2>1 DEF Answer
  <2>2. CASE q = r
    <3>1. PICK t \in IF NodeAt(r) = "collect_evidence" THEN EvidenceCalls ELSE {0} :
            toolCalls' = [toolCalls EXCEPT ![r] = @ + t]
      BY <1>5 DEF Answer
    <3>2. pc[r] = "call" /\ pc'[r] = "charge" /\ pos' = pos /\ toolCalls'[r] = toolCalls[r] + t
      BY <1>5, <3>1 DEF Answer
    <3>3. ModelCalls(r)' = ModelCalls(r)
      BY <3>2 DEF ModelCalls
    <3>4. toolCalls'[r] >= MaxToolCalls => pos[r] = 2
      <4>1. ~(toolCalls[r] >= MaxToolCalls)
        BY <3>2 DEF CeilingShape
      <4>2. pos[r] \in 1 .. 6
        BY <3>2, SequenceFacts DEF RunShape
      <4>3. CASE NodeAt(r) = "collect_evidence"
        BY <4>2, <4>3, GraphFacts DEF NodeAt
      <4>4. CASE NodeAt(r) # "collect_evidence"
        BY <3>1, <3>2, <4>1, <4>4
      <4> QED
        BY <4>3, <4>4
    <3> QED
      BY <2>2, <3>2, <3>3, <3>4 DEF CeilingShape
  <2> QED
    BY <2>1, <2>2
<1>6. ASSUME NEW r \in Run, Charge(r) PROVE Within(q)
  <2>1. CASE q # r
    BY <1>1, <1>6, <2>1 DEF Charge
  <2>2. CASE q = r
    <3>1. /\ pc[r] = "charge" /\ pos[r] \in 1 .. 6 /\ pos'[r] = pos[r] + 1
          /\ pc'[r] = "node" /\ toolCalls' = toolCalls
      BY <1>6, SequenceFacts DEF Charge, RunShape
    <3>2. ModelCalls(r) = Cardinality(LlmNodesBefore(pos[r]))
      BY ModelCallsByPosition
    <3>3. ModelCalls(r)' = Cardinality(LlmNodesBefore(pos[r] + 1))
      BY <3>1 DEF ModelCalls, LlmNodesBefore
    <3>4. pos[r] \in Nat \ {0}
      BY <3>1
    <3>5. /\ Cardinality(LlmNodesBefore(pos[r])) \in Nat
          /\ Cardinality(LlmNodesBefore(pos[r] + 1)) =
               IF NodeSequence[pos[r]] \in LlmNode
               THEN Cardinality(LlmNodesBefore(pos[r])) + 1
               ELSE Cardinality(LlmNodesBefore(pos[r]))
      BY <3>4, OneNodeFurther
    <3>6. /\ ModelCalls(r) \in Nat
          /\ ModelCalls(r)' = ModelCalls(r) + 1 \/ ModelCalls(r)' = ModelCalls(r)
      BY <3>2, <3>3, <3>5
    <3>7. ModelCalls(r) < MaxModelCalls
      BY <3>1 DEF CeilingShape
    <3>8. ModelCalls(r)' <= MaxModelCalls
      BY <3>6, <3>7, LimitAssumption
    <3> QED
      BY <2>2, <3>1, <3>8 DEF CeilingShape
  <2> QED
    BY <2>1, <2>2
<1>7. CASE UNCHANGED vars
  BY <1>1, <1>7 DEF vars
<1> QED
  BY <1>2, <1>3, <1>4, <1>5, <1>6, <1>7 DEF Next, Step

(* A run at a ceiling makes no further model call and never completes, for *)
(* every pair of ceilings (cost/governor.py check_call_ceilings).          *)
THEOREM CeilingsAlwaysHold == Spec => []CeilingsHold
<1>1. Init => CeilingShape
  <2> SUFFICES ASSUME Init, NEW r \in Run
               PROVE  /\ ModelCalls(r) = 0 /\ pos[r] = 1 /\ pc[r] = "idle"
                      /\ MaxModelCalls \in Nat
    BY DEF CeilingShape
  <2>1. pos[r] = 1 /\ pc[r] = "idle"
    BY DEF Init
  <2>2. {j \in 1 .. pos[r] - 1 : NodeSequence[j] \in LlmNode} = {}
    BY <2>1
  <2> QED
    BY <2>1, <2>2, FS_EmptySet, LimitAssumption DEF ModelCalls
<1>2. CeilingShape => CeilingsHold
  BY SequenceFacts DEF CeilingShape, CeilingsHold
<1> QED
  BY <1>1, <1>2, CeilingNext, BudgetInductive, PTL DEF Spec
=============================================================================
