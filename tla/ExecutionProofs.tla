-------------------------- MODULE ExecutionProofs --------------------------
(***************************************************************************)
(* Proofs about Execution for every set of processes, every list of        *)
(* interventions, every bound and every interleaving.                      *)
(*                                                                         *)
(* The inductive invariant adds to the properties that matter what a       *)
(* command holds at each of its steps (CommandShape) and that no row is    *)
(* ever INDETERMINATE.  Claims are exclusive because Claim needs an absent *)
(* row: from that, only the claimant changes a row, so a rollback takes    *)
(* back exactly the effects of the command that rolls back.                *)
(***************************************************************************)
EXTENDS Execution, SequenceTheorems, TLAPS

CommandShape ==
  \A p \in Proc :
    /\ pc[p] \in {"open", "pass", "claim", "call"} => target[p] \in Proc
    /\ pc[p] \in {"claim", "call"} => cursor[p] \in Item

NeverIndeterminate == \A k \in Key : action[k] # "indeterminate"

IInv ==
  /\ TypeOK
  /\ CommandShape
  /\ ClaimsAreHeld
  /\ NeverIndeterminate
  /\ CommittedRowsAreSettled
  /\ EffectsAccountedFor

-----------------------------------------------------------------------------
(* Lemmas about the operators. *)

LEMMA KeyOfType == ASSUME NEW i \in Item, NEW t \in Time PROVE KeyOf(i, t) \in Key
BY TimeAssumption DEF KeyOf, Key, KeyDate, NoDate, DueDate

LEMMA CurrentKeyType ==
  ASSUME NEW p \in Proc, now[p] \in Time, cursor[p] \in Item
  PROVE  CurrentKey(p) \in Key
BY KeyOfType DEF CurrentKey

\* A walk is a non-empty path of statuses.
LEMMA WalkType ==
  ASSUME NEW p \in Proc, seen[p] \in IncidentStatus
  PROVE  Walk(p) \in Seq(IncidentStatus) /\ Len(Walk(p)) > 0
<1>1. CASE ~Investigating(p)
  BY <1>1 DEF Walk, IncidentStatus
<1>2. CASE Investigating(p)
  <2> DEFINE head == <<seen[p], "investigating", "analyzed", "strategized">>
             tail == IF waiting[p] THEN <<"awaiting_approval">> ELSE <<"executing", "completed">>
  <2>1. head \in Seq(IncidentStatus) /\ Len(head) = 4
    BY DEF IncidentStatus
  <2>2. tail \in Seq(IncidentStatus) /\ Len(tail) \in Nat
    <3>1. CASE waiting[p]
      BY <3>1 DEF IncidentStatus
    <3>2. CASE ~waiting[p]
      BY <3>2 DEF IncidentStatus
    <3>3. QED
      BY <3>1, <3>2
  <2>3. Walk(p) = head \o tail
    BY <1>2 DEF Walk
  <2> HIDE DEF head, tail
  <2>4. head \o tail \in Seq(IncidentStatus) /\ Len(head \o tail) = Len(head) + Len(tail)
    BY <2>1, <2>2, ConcatProperties
  <2>5. QED
    BY <2>1, <2>2, <2>3, <2>4
<1>3. QED
  BY <1>1, <1>2

LEMMA HopsType ==
  ASSUME NEW path \in Seq(IncidentStatus), Len(path) > 0
  PROVE  Hops(path) \in Seq(IncidentStatus \X IncidentStatus)
<1>1. Len(path) - 1 \in Nat
  OBVIOUS
<1>2. \A j \in 1 .. Len(path) - 1 : path[j] \in IncidentStatus /\ path[j + 1] \in IncidentStatus
  BY <1>1
<1>3. Hops(path) \in [1 .. Len(path) - 1 -> IncidentStatus \X IncidentStatus]
  BY <1>2 DEF Hops
<1>4. QED
  BY <1>1, <1>3, SeqDef

-----------------------------------------------------------------------------
(* Type correctness. *)

\* The initial state has the types.
LEMMA TypeInit == Init => TypeOK
<1> SUFFICES ASSUME Init PROVE TypeOK
  OBVIOUS
<1>1. <<>> \in Seq(IncidentStatus \X IncidentStatus)
  OBVIOUS
<1>2. 0 \in Time /\ 0 \in 0 .. MaxAttempts /\ 0 \in 0 .. MaxCrashes /\ 1 \in 1 .. NItems + 1
  BY TimeAssumption, AttemptsAssumption, BoundAssumption, ItemAssumption DEF Time
<1>3. QED
  BY <1>1, <1>2 DEF Init, TypeOK, IncidentStatus, RunStatus, ApprovalStatus, ActionStatus

\* The end of a transaction keeps the types of what it releases.
LEMMA ReleaseType ==
  ASSUME TypeOK, NEW p \in Proc, Release(p)
  PROVE  /\ incidentLock' \in Proc \cup {NoProc}
         /\ pc' \in [Proc -> {"idle", "open", "load", "pass", "claim", "call", "done"}]
         /\ claimant' \in [Key -> Proc \cup {NoProc}]
         /\ granted' \in [Proc -> SUBSET Item]
BY DEF TypeOK, Release

\* A rollback keeps the types, whatever the step does with crashes.
LEMMA RollbackType ==
  ASSUME TypeOK, NEW p \in Proc, Rollback(p), crashes' \in 0 .. MaxCrashes
  PROVE  TypeOK'
<1>1. action' \in [Key -> ActionStatus] /\ attempts' \in [Key -> 0 .. MaxAttempts]
  BY AttemptsAssumption DEF TypeOK, Rollback, ActionStatus
<1>2. lost' \in [Key -> Nat]
  BY DEF TypeOK, Rollback
<1>3. approval' \in [Proc -> [Item -> ApprovalStatus]]
  BY DEF TypeOK, Rollback, ApprovalStatus
<1>4. Release(p)
  BY DEF Rollback
<1>5. QED
  BY <1>1, <1>2, <1>3, <1>4, ReleaseType DEF TypeOK, Rollback, cmdVars

\* Every step of a command keeps the types.
LEMMA TypeStep ==
  ASSUME TypeOK, CommandShape, ClaimsAreHeld, NEW p \in Proc, Step(p)
  PROVE  TypeOK'
<1> USE DEF TypeOK, dbVars, rowVars, cmdVars, historyVars
<1>1. CASE OpenRun(p)
  BY <1>1 DEF OpenRun, ApprovalStatus
<1>2. CASE LoadRun(p)
  <2>1. granted' \in [Proc -> SUBSET Item]
    BY <1>2 DEF LoadRun
  <2>2. QED
    BY <1>2, <2>1 DEF LoadRun, LatestRuns
<1>3. CASE NoRunToResume(p)
  BY <1>3 DEF NoRunToResume
<1>4. CASE Grant(p)
  BY <1>4 DEF Grant
<1>5. CASE Refuse(p)
  <2>1. cursor[p] + 1 \in 1 .. NItems + 1
    BY <1>5, ItemAssumption DEF Refuse, Item
  <2>2. (waiting[p] \/ ApprovalMissing(target[p], cursor[p])) \in BOOLEAN
    OBVIOUS
  <2>3. QED
    BY <1>5, <2>1, <2>2 DEF Refuse
<1>6. CASE Claim(p)
  <2>1. action' \in [Key -> ActionStatus] /\ attempts' \in [Key -> 0 .. MaxAttempts]
    <3>1. /\ action' = [action EXCEPT ![CurrentKey(p)] = "executing"]
          /\ attempts' = [attempts EXCEPT ![CurrentKey(p)] = 0]
      BY <1>6 DEF Claim
    <3>2. "executing" \in ActionStatus /\ 0 \in 0 .. MaxAttempts
      BY AttemptsAssumption DEF ActionStatus
    <3>3. QED
      BY <3>1, <3>2
  <2>2. claimant' \in [Key -> Proc \cup {NoProc}]
    BY <1>6 DEF Claim
  <2>3. QED
    BY <1>6, <2>1, <2>2 DEF Claim
<1>7. CASE ResolveExisting(p)
  <2>1. cursor[p] + 1 \in 1 .. NItems + 1
    BY <1>7, ItemAssumption DEF ResolveExisting, CommandShape, Item
  <2>2. QED
    BY <1>7, <2>1 DEF ResolveExisting, ActionStatus
<1>8. ASSUME pc[p] = "call", NEW status \in ActionStatus, Settle(p, CurrentKey(p), status),
             effects' \in [Key -> Nat]
      PROVE  TypeOK'
  <2>1. cursor[p] + 1 \in 1 .. NItems + 1
    BY <1>8, ItemAssumption DEF CommandShape, Item
  <2>2. CurrentKey(p) \in Key
    BY <1>8, CurrentKeyType DEF CommandShape
  <2>3. attempts[CurrentKey(p)] + 1 \in 0 .. MaxAttempts
    BY <1>8, <2>2, AttemptsAssumption DEF ClaimsAreHeld
  <2>4. QED
    BY <1>8, <2>1, <2>2, <2>3 DEF Settle
<1>9. CASE CallSucceeds(p)
  <2>1. pc[p] = "call" /\ Settle(p, CurrentKey(p), "succeeded") /\ "succeeded" \in ActionStatus
    BY <1>9 DEF CallSucceeds, ActionStatus
  <2>2. CurrentKey(p) \in Key
    BY <2>1, CurrentKeyType DEF CommandShape
  <2>3. effects' = [effects EXCEPT ![CurrentKey(p)] = effects[CurrentKey(p)] + 1]
    BY <1>9 DEF CallSucceeds
  <2>4. effects[CurrentKey(p)] + 1 \in Nat
    BY <2>2
  <2>5. effects' \in [Key -> Nat]
    BY <2>3, <2>4
  <2>6. QED
    BY <1>8, <2>1, <2>5
<1>10. CASE CallFails(p)
  BY <1>8, <1>10 DEF CallFails, ActionStatus
<1>11. CASE CallRetries(p)
  <2>1. CurrentKey(p) \in Key
    BY <1>11, CurrentKeyType DEF CommandShape, CallRetries
  <2>2. attempts[CurrentKey(p)] + 1 \in 0 .. MaxAttempts
    BY <1>11, <2>1, AttemptsAssumption DEF CallRetries
  <2>3. attempts' \in [Key -> 0 .. MaxAttempts]
    BY <1>11, <2>2 DEF CallRetries
  <2>4. QED
    BY <1>11, <2>3 DEF CallRetries
<1>12. CASE Commit(p)
  <2>1. Walk(p) \in Seq(IncidentStatus) /\ Len(Walk(p)) > 0
    BY WalkType
  <2>2. Walk(p)[Len(Walk(p))] \in IncidentStatus
    BY <2>1
  <2>3. Hops(Walk(p)) \in Seq(IncidentStatus \X IncidentStatus)
    BY <2>1, HopsType
  <2>4. trail \o Hops(Walk(p)) \in Seq(IncidentStatus \X IncidentStatus)
    BY <2>3, ConcatProperties
  <2>5. Release(p)
    BY <1>12 DEF Commit
  <2>6. /\ incident' \in IncidentStatus
        /\ run' \in [Proc -> RunStatus]
        /\ trail' \in Seq(IncidentStatus \X IncidentStatus)
    BY <1>12, <2>2, <2>4 DEF Commit, RunStatus
  <2>7. QED
    BY <1>12, <2>5, <2>6, ReleaseType DEF Commit
<1>13. CASE IllegalTransition(p)
  BY <1>13, RollbackType DEF IllegalTransition
<1>14. CASE DeadlockVictim(p)
  BY <1>14, RollbackType DEF DeadlockVictim
<1>15. QED
  BY <1>1, <1>2, <1>3, <1>4, <1>5, <1>6, <1>7, <1>9, <1>10, <1>11, <1>12, <1>13, <1>14
  DEF Step

\* Starting a command, deciding a request and moving the clock keep the types.
LEMMA TypeNext ==
  ASSUME TypeOK, CommandShape, ClaimsAreHeld, [Next]_vars
  PROVE  TypeOK'
<1> USE DEF TypeOK, dbVars, rowVars, cmdVars, historyVars
<1>1. ASSUME NEW p \in Proc, BeginInvestigate(p) PROVE TypeOK'
  BY <1>1 DEF BeginInvestigate
<1>2. ASSUME NEW p \in Proc, BeginResume(p) PROVE TypeOK'
  BY <1>2 DEF BeginResume
<1>3. ASSUME NEW p \in Proc, Step(p) PROVE TypeOK'
  BY <1>3, TypeStep
<1>4. ASSUME NEW p \in Proc, Crash(p) PROVE TypeOK'
  <2>1. crashes' \in 0 .. MaxCrashes
    BY <1>4, BoundAssumption DEF Crash
  <2>2. QED
    BY <1>4, <2>1, RollbackType DEF Crash
<1>5. ASSUME NEW r \in Proc, NEW i \in Item, NEW v \in {"approved", "rejected"}, Decide(r, i, v)
      PROVE  TypeOK'
  <2>1. approval' \in [Proc -> [Item -> ApprovalStatus]]
    BY <1>5 DEF Decide, ApprovalStatus
  <2>2. granted' \in [Proc -> SUBSET Item]
    BY <1>5 DEF Decide
  <2>3. QED
    BY <1>5, <2>1, <2>2 DEF Decide
<1>6. CASE Tick
  <2>1. clock' \in Time
    BY <1>6, TimeAssumption DEF Tick, Time
  <2>2. QED
    BY <1>6, <2>1 DEF Tick
<1>7. CASE UNCHANGED vars
  BY <1>7 DEF vars
<1>8. QED
  BY <1>1, <1>2, <1>3, <1>4, <1>5, <1>6, <1>7 DEF Next

-----------------------------------------------------------------------------
(* What a command holds at each of its steps. *)

LEMMA ShapeNext ==
  ASSUME TypeOK, CommandShape, [Next]_vars
  PROVE  CommandShape'
<1> SUFFICES ASSUME NEW q \in Proc
             PROVE  /\ pc'[q] \in {"open", "pass", "claim", "call"} => target'[q] \in Proc
                    /\ pc'[q] \in {"claim", "call"} => cursor'[q] \in Item
  BY DEF CommandShape
<1> USE DEF TypeOK, CommandShape, cmdVars
<1>1. ASSUME NEW p \in Proc, BeginInvestigate(p) \/ BeginResume(p)
      PROVE  /\ pc'[q] \in {"open", "pass", "claim", "call"} => target'[q] \in Proc
             /\ pc'[q] \in {"claim", "call"} => cursor'[q] \in Item
  BY <1>1 DEF BeginInvestigate, BeginResume
<1>2. ASSUME NEW p \in Proc, OpenRun(p) \/ LoadRun(p) \/ NoRunToResume(p)
      PROVE  /\ pc'[q] \in {"open", "pass", "claim", "call"} => target'[q] \in Proc
             /\ pc'[q] \in {"claim", "call"} => cursor'[q] \in Item
  BY <1>2 DEF OpenRun, LoadRun, NoRunToResume, LatestRuns
<1>3. ASSUME NEW p \in Proc, Grant(p) \/ Refuse(p) \/ Claim(p) \/ ResolveExisting(p)
      PROVE  /\ pc'[q] \in {"open", "pass", "claim", "call"} => target'[q] \in Proc
             /\ pc'[q] \in {"claim", "call"} => cursor'[q] \in Item
  BY <1>3 DEF Grant, Refuse, Claim, ResolveExisting
<1>4. ASSUME NEW p \in Proc, CallSucceeds(p) \/ CallFails(p) \/ CallRetries(p)
      PROVE  /\ pc'[q] \in {"open", "pass", "claim", "call"} => target'[q] \in Proc
             /\ pc'[q] \in {"claim", "call"} => cursor'[q] \in Item
  BY <1>4 DEF CallSucceeds, CallFails, CallRetries, Settle
<1>5. ASSUME NEW p \in Proc, Commit(p) \/ Rollback(p)
      PROVE  /\ pc'[q] \in {"open", "pass", "claim", "call"} => target'[q] \in Proc
             /\ pc'[q] \in {"claim", "call"} => cursor'[q] \in Item
  BY <1>5 DEF Commit, Rollback, Release
<1>6. ASSUME NEW r \in Proc, NEW i \in Item, NEW v \in {"approved", "rejected"}, Decide(r, i, v)
      PROVE  /\ pc'[q] \in {"open", "pass", "claim", "call"} => target'[q] \in Proc
             /\ pc'[q] \in {"claim", "call"} => cursor'[q] \in Item
  BY <1>6 DEF Decide
<1>7. CASE Tick \/ UNCHANGED vars
  BY <1>7 DEF Tick, vars
<1>8. QED
  BY <1>1, <1>2, <1>3, <1>4, <1>5, <1>6, <1>7
  DEF Next, Step, Crash, IllegalTransition, DeadlockVictim

-----------------------------------------------------------------------------
(* Rows: who may change them, and what they then say. *)

Quiet(p) ==
  \/ BeginInvestigate(p) \/ BeginResume(p) \/ OpenRun(p) \/ LoadRun(p)
  \/ NoRunToResume(p) \/ Grant(p) \/ Refuse(p)

\* The step of p leaves the other commands where they are.
OthersStay(p) ==
  \A q \in Proc \ {p} : pc'[q] = pc[q] /\ CurrentKey(q)' = CurrentKey(q)

\* A quiet step touches no row and no effect, and is not inside a call.
LEMMA QuietStep ==
  ASSUME TypeOK, NEW p \in Proc, Quiet(p)
  PROVE  /\ UNCHANGED <<action, attempts, claimant, effects, lost>>
         /\ pc'[p] # "call"
         /\ pc[p] \in {"pass", "claim", "call"} => pc'[p] \in {"pass", "claim", "call"}
         /\ OthersStay(p)
<1> USE DEF TypeOK, rowVars, historyVars, cmdVars
<1>1. CASE BeginInvestigate(p) \/ BeginResume(p)
  BY <1>1 DEF BeginInvestigate, BeginResume, CanStart, OthersStay, CurrentKey
<1>2. CASE OpenRun(p) \/ LoadRun(p) \/ NoRunToResume(p)
  BY <1>2 DEF OpenRun, LoadRun, NoRunToResume, OthersStay, CurrentKey
<1>3. CASE Grant(p) \/ Refuse(p)
  BY <1>3 DEF Grant, Refuse, OthersStay, CurrentKey
<1>4. QED
  BY <1>1, <1>2, <1>3 DEF Quiet

\* Nobody ever finds a row to turn INDETERMINATE.
LEMMA ResolveChangesNothing ==
  ASSUME IInv, NEW p \in Proc, ResolveExisting(p)
  PROVE  /\ UNCHANGED <<action, attempts, claimant, effects, lost>>
         /\ pc[p] = "claim" /\ pc'[p] = "pass"
         /\ OthersStay(p)
<1>1. CurrentKey(p) \in Key /\ claimant[CurrentKey(p)] = NoProc
  BY CurrentKeyType DEF IInv, TypeOK, CommandShape, ResolveExisting, Committed
<1>2. action[CurrentKey(p)] # "executing"
  BY <1>1 DEF IInv, CommittedRowsAreSettled
<1>3. action' = action
  BY <1>1, <1>2 DEF IInv, TypeOK, ResolveExisting
<1>4. OthersStay(p)
  BY DEF IInv, TypeOK, ResolveExisting, OthersStay, CurrentKey
<1>5. pc[p] = "claim" /\ pc'[p] = "pass"
  BY DEF IInv, TypeOK, ResolveExisting
<1>6. UNCHANGED <<attempts, claimant, effects, lost>>
  BY DEF ResolveExisting, historyVars
<1>7. QED
  BY <1>3, <1>4, <1>5, <1>6

\* What Claim does to the row, which nobody held.
LEMMA ClaimTakes ==
  ASSUME IInv, NEW p \in Proc, Claim(p)
  PROVE  LET k == CurrentKey(p) IN
         /\ k \in Key /\ claimant[k] = NoProc /\ action[k] = "absent"
         /\ action' = [action EXCEPT ![k] = "executing"]
         /\ attempts' = [attempts EXCEPT ![k] = 0]
         /\ claimant' = [claimant EXCEPT ![k] = p]
         /\ UNCHANGED <<effects, lost>>
         /\ pc[p] = "claim" /\ pc'[p] = "call" /\ CurrentKey(p)' = CurrentKey(p)
         /\ OthersStay(p)
<1>1. CurrentKey(p) \in Key
  BY CurrentKeyType DEF IInv, TypeOK, CommandShape, Claim
<1>2. claimant[CurrentKey(p)] = NoProc
  BY <1>1 DEF IInv, TypeOK, ClaimsAreHeld, Claim
<1>3. OthersStay(p) /\ pc'[p] = "call" /\ CurrentKey(p)' = CurrentKey(p)
  BY DEF IInv, TypeOK, Claim, OthersStay, CurrentKey, cmdVars
<1>4. QED
  BY <1>1, <1>2, <1>3 DEF Claim, historyVars

\* What the two ends of a call do to the row, which the caller held.
LEMMA SettleSettles ==
  ASSUME IInv, NEW p \in Proc, NEW status, pc[p] = "call", Settle(p, CurrentKey(p), status)
  PROVE  LET k == CurrentKey(p) IN
         /\ k \in Key /\ claimant[k] = p /\ action[k] = "executing"
         /\ action' = [action EXCEPT ![k] = status]
         /\ attempts' = [attempts EXCEPT ![k] = attempts[k] + 1]
         /\ UNCHANGED <<claimant, lost>>
         /\ pc'[p] = "pass"
         /\ OthersStay(p)
<1>1. CurrentKey(p) \in Key
  BY CurrentKeyType DEF IInv, TypeOK, CommandShape
<1>2. claimant[CurrentKey(p)] = p /\ action[CurrentKey(p)] = "executing"
  BY <1>1 DEF IInv, ClaimsAreHeld
<1>3. OthersStay(p) /\ pc'[p] = "pass"
  BY DEF IInv, TypeOK, Settle, OthersStay, CurrentKey
<1>4. QED
  BY <1>1, <1>2, <1>3 DEF Settle

\* What the end of a transaction leaves of the commands.
LEMMA ReleaseFrees ==
  ASSUME TypeOK, NEW p \in Proc, Release(p), UNCHANGED cmdVars
  PROVE  /\ claimant' = [k \in Key |-> IF claimant[k] = p THEN NoProc ELSE claimant[k]]
         /\ pc'[p] = "done"
         /\ OthersStay(p)
BY DEF TypeOK, Release, OthersStay, CurrentKey, cmdVars

-----------------------------------------------------------------------------
(* The invariants about rows and effects, preserved by each kind of step. *)

RowInv == ClaimsAreHeld /\ NeverIndeterminate /\ CommittedRowsAreSettled /\ EffectsAccountedFor

\* Steps that touch no row and leave every call where it is.
LEMMA FramePreserves ==
  ASSUME IInv, TypeOK', UNCHANGED <<action, attempts, claimant, effects, lost>>,
         \A q \in Proc : /\ pc'[q] = "call" => pc[q] = "call"
                         /\ pc[q] = "call" => pc'[q] = "call" /\ CurrentKey(q)' = CurrentKey(q)
                         /\ pc[q] \in {"pass", "claim", "call"} =>
                              pc'[q] \in {"pass", "claim", "call"}
  PROVE  RowInv'
<1>1. NeverIndeterminate' /\ CommittedRowsAreSettled' /\ EffectsAccountedFor'
  BY DEF IInv, NeverIndeterminate, CommittedRowsAreSettled, EffectsAccountedFor
<1>2. ASSUME NEW q \in Proc, pc'[q] = "call"
      PROVE  LET k == CurrentKey(q)' IN
               claimant'[k] = q /\ action'[k] = "executing" /\ attempts'[k] < MaxAttempts
  BY <1>2 DEF IInv, ClaimsAreHeld
<1>3. ASSUME NEW k \in Key, claimant'[k] # NoProc
      PROVE  /\ pc'[claimant'[k]] \in {"pass", "claim", "call"}
             /\ action'[k] # "absent"
             /\ action'[k] = "executing" =>
                  pc'[claimant'[k]] = "call" /\ k = CurrentKey(claimant[k])'
  <2>1. claimant[k] \in Proc /\ claimant'[k] = claimant[k]
    BY <1>3 DEF IInv, TypeOK
  <2>2. QED
    BY <1>3, <2>1 DEF IInv, ClaimsAreHeld
<1>4. ClaimsAreHeld'
  BY <1>2, <1>3 DEF ClaimsAreHeld
<1>5. QED
  BY <1>1, <1>4 DEF RowInv

\* Claim: the row was absent, and is now the claimant's to perform.
LEMMA ClaimPreserves ==
  ASSUME IInv, TypeOK', NEW p \in Proc, Claim(p)
  PROVE  RowInv'
<1> DEFINE k0 == CurrentKey(p)
<1>1. /\ k0 \in Key /\ claimant[k0] = NoProc /\ action[k0] = "absent"
      /\ action' = [action EXCEPT ![k0] = "executing"]
      /\ attempts' = [attempts EXCEPT ![k0] = 0]
      /\ claimant' = [claimant EXCEPT ![k0] = p]
      /\ UNCHANGED <<effects, lost>>
      /\ pc[p] = "claim" /\ pc'[p] = "call" /\ CurrentKey(p)' = k0
      /\ OthersStay(p)
  BY ClaimTakes
<1> HIDE DEF k0
<1>2. /\ action'[k0] = "executing" /\ attempts'[k0] = 0 /\ claimant'[k0] = p
      /\ \A k \in Key \ {k0} : /\ action'[k] = action[k]
                               /\ attempts'[k] = attempts[k]
                               /\ claimant'[k] = claimant[k]
  BY <1>1 DEF IInv, TypeOK
<1>3. NeverIndeterminate' /\ CommittedRowsAreSettled' /\ EffectsAccountedFor'
  <2>1. p # NoProc
    BY ProcAssumption
  <2>2. EffectsAccountedFor'
    BY <1>1, <1>2 DEF IInv, TypeOK, EffectsAccountedFor
  <2>3. QED
    BY <1>1, <1>2, <2>1, <2>2 DEF IInv, NeverIndeterminate, CommittedRowsAreSettled
<1>4. ASSUME NEW q \in Proc, pc'[q] = "call"
      PROVE  LET k == CurrentKey(q)' IN
               claimant'[k] = q /\ action'[k] = "executing" /\ attempts'[k] < MaxAttempts
  <2>1. CASE q = p
    BY <1>1, <1>2, <2>1, AttemptsAssumption
  <2>2. CASE q # p
    <3>1. pc[q] = "call" /\ CurrentKey(q)' = CurrentKey(q)
      BY <1>1, <1>4, <2>2 DEF OthersStay
    <3>2. CurrentKey(q) \in Key
      BY <3>1, CurrentKeyType DEF IInv, TypeOK, CommandShape
    <3>3. /\ claimant[CurrentKey(q)] = q /\ action[CurrentKey(q)] = "executing"
          /\ attempts[CurrentKey(q)] < MaxAttempts
      BY <3>1 DEF IInv, ClaimsAreHeld
    <3>4. QED
      BY <1>1, <1>2, <3>1, <3>2, <3>3
  <2>3. QED
    BY <2>1, <2>2
<1>5. ASSUME NEW k \in Key, claimant'[k] # NoProc
      PROVE  /\ pc'[claimant'[k]] \in {"pass", "claim", "call"}
             /\ action'[k] # "absent"
             /\ action'[k] = "executing" =>
                  pc'[claimant'[k]] = "call" /\ k = KeyOf(cursor'[claimant'[k]], now'[claimant'[k]])
  <2>1. CASE k = k0
    BY <1>1, <1>2, <2>1 DEF CurrentKey
  <2>2. CASE k # k0
    <3>1. /\ claimant[k] \in Proc /\ claimant'[k] = claimant[k] /\ action'[k] = action[k]
      BY <1>2, <1>5, <2>2 DEF IInv, TypeOK
    <3>2. /\ pc[claimant[k]] \in {"pass", "claim", "call"}
          /\ action[k] # "absent"
          /\ action[k] = "executing" => pc[claimant[k]] = "call" /\ k = CurrentKey(claimant[k])
      BY <1>5, <3>1 DEF IInv, ClaimsAreHeld
    <3>3. CASE claimant[k] = p
      BY <1>1, <3>1, <3>2, <3>3
    <3>4. CASE claimant[k] # p
      BY <1>1, <3>1, <3>2, <3>4 DEF OthersStay, CurrentKey
    <3>5. QED
      BY <3>3, <3>4
  <2>3. QED
    BY <2>1, <2>2
<1>6. ClaimsAreHeld'
  BY <1>4, <1>5 DEF ClaimsAreHeld, CurrentKey
<1>7. QED
  BY <1>3, <1>6 DEF RowInv

\* A call that changes only its own row: it settles it, or uses up an attempt.
LEMMA OwnRowPreserves ==
  ASSUME IInv, TypeOK', NEW p \in Proc, pc[p] = "call", OthersStay(p),
         CurrentKey(p) \in Key, UNCHANGED <<claimant, lost>>,
         \A k \in Key \ {CurrentKey(p)} : action'[k] = action[k] /\ attempts'[k] = attempts[k]
                                          /\ effects'[k] = effects[k],
         \/ /\ pc'[p] = "pass" /\ action'[CurrentKey(p)] = "succeeded"
            /\ effects'[CurrentKey(p)] = effects[CurrentKey(p)] + 1
         \/ /\ pc'[p] = "pass" /\ action'[CurrentKey(p)] = "failed"
            /\ effects'[CurrentKey(p)] = effects[CurrentKey(p)]
         \/ /\ pc'[p] = "call" /\ CurrentKey(p)' = CurrentKey(p)
            /\ action'[CurrentKey(p)] = action[CurrentKey(p)]
            /\ attempts'[CurrentKey(p)] < MaxAttempts
            /\ effects'[CurrentKey(p)] = effects[CurrentKey(p)]
  PROVE  RowInv'
<1> DEFINE k0 == CurrentKey(p)
<1>1. k0 \in Key /\ claimant[k0] = p /\ claimant'[k0] = p /\ action[k0] = "executing" /\ p # NoProc
  BY ProcAssumption DEF IInv, ClaimsAreHeld
<1>2. effects[k0] = lost[k0] /\ lost[k0] \in Nat
  BY <1>1 DEF IInv, TypeOK, EffectsAccountedFor
<1>3. NeverIndeterminate' /\ CommittedRowsAreSettled'
  <2>1. ASSUME NEW k \in Key
        PROVE  /\ action'[k] # "indeterminate"
               /\ claimant'[k] = NoProc => action'[k] \in {"absent", "succeeded", "failed"}
    <3>1. CASE k = k0
      BY <1>1, <3>1
    <3>2. CASE k # k0
      BY <3>2 DEF IInv, NeverIndeterminate, CommittedRowsAreSettled
    <3>3. QED
      BY <3>1, <3>2
  <2>2. QED
    BY <2>1 DEF NeverIndeterminate, CommittedRowsAreSettled
<1>4. EffectsAccountedFor'
  <2>1. ASSUME NEW k \in Key
        PROVE  effects'[k] = lost'[k] + (IF action'[k] = "succeeded" THEN 1 ELSE 0)
    <3>1. CASE k = k0
      BY <1>1, <1>2, <3>1
    <3>2. CASE k # k0
      BY <3>2 DEF IInv, EffectsAccountedFor
    <3>3. QED
      BY <3>1, <3>2
  <2>2. QED
    BY <2>1 DEF EffectsAccountedFor
<1>5. ASSUME NEW q \in Proc, pc'[q] = "call"
      PROVE  LET k == CurrentKey(q)' IN
               claimant'[k] = q /\ action'[k] = "executing" /\ attempts'[k] < MaxAttempts
  <2>1. CASE q = p
    BY <1>1, <1>5, <2>1
  <2>2. CASE q # p
    <3>1. pc[q] = "call" /\ CurrentKey(q)' = CurrentKey(q)
      BY <1>5, <2>2 DEF OthersStay
    <3>2. CurrentKey(q) \in Key
      BY <3>1, CurrentKeyType DEF IInv, TypeOK, CommandShape
    <3>3. /\ claimant[CurrentKey(q)] = q /\ action[CurrentKey(q)] = "executing"
          /\ attempts[CurrentKey(q)] < MaxAttempts
      BY <3>1 DEF IInv, ClaimsAreHeld
    <3>4. CurrentKey(q) # k0
      BY <1>1, <2>2, <3>3
    <3>5. QED
      BY <3>1, <3>2, <3>3, <3>4
  <2>3. QED
    BY <2>1, <2>2
<1>6. ASSUME NEW k \in Key, claimant'[k] # NoProc
      PROVE  /\ pc'[claimant'[k]] \in {"pass", "claim", "call"}
             /\ action'[k] # "absent"
             /\ action'[k] = "executing" =>
                  pc'[claimant'[k]] = "call" /\ k = KeyOf(cursor'[claimant'[k]], now'[claimant'[k]])
  <2>1. /\ claimant[k] \in Proc /\ claimant'[k] = claimant[k]
        /\ pc[claimant[k]] \in {"pass", "claim", "call"}
        /\ action[k] # "absent"
        /\ action[k] = "executing" => pc[claimant[k]] = "call" /\ k = CurrentKey(claimant[k])
    <3>1. claimant[k] \in Proc /\ claimant'[k] = claimant[k]
      BY <1>6 DEF IInv, TypeOK
    <3>2. QED
      BY <1>6, <3>1 DEF IInv, ClaimsAreHeld
  <2>2. CASE k = k0
    BY <1>1, <2>2 DEF CurrentKey
  <2>3. CASE k # k0 /\ claimant[k] = p
    BY <2>1, <2>3
  <2>4. CASE k # k0 /\ claimant[k] # p
    BY <2>1, <2>4 DEF OthersStay, CurrentKey
  <2>5. QED
    BY <2>2, <2>3, <2>4
<1>7. ClaimsAreHeld'
  BY <1>5, <1>6 DEF ClaimsAreHeld, CurrentKey
<1>8. QED
  BY <1>3, <1>4, <1>7 DEF RowInv

\* The end of a transaction: its rows are published as they are, or gone, with
\* the effects they recorded counted as lost.
LEMMA EndPreserves ==
  ASSUME IInv, TypeOK', NEW p \in Proc, pc[p] # "call" \/ Rollback(p), UNCHANGED effects,
         Release(p), UNCHANGED cmdVars,
         \/ UNCHANGED <<action, attempts, lost>>
         \/ Rollback(p)
  PROVE  RowInv'
<1>1. /\ claimant' = [k \in Key |-> IF claimant[k] = p THEN NoProc ELSE claimant[k]]
      /\ pc'[p] = "done"
      /\ OthersStay(p)
  BY ReleaseFrees DEF IInv
<1>2. \A k \in Key : claimant[k] # p =>
         /\ claimant'[k] = claimant[k]
         /\ action'[k] = action[k] /\ attempts'[k] = attempts[k] /\ lost'[k] = lost[k]
  BY <1>1 DEF Rollback
<1>3. \A k \in Key : claimant[k] = p =>
         /\ claimant'[k] = NoProc
         /\ \/ /\ action[k] \in {"succeeded", "failed"} /\ action'[k] = action[k]
               /\ lost'[k] = lost[k]
            \/ /\ action'[k] = "absent"
               /\ lost'[k] = IF action[k] = "succeeded" THEN lost[k] + 1 ELSE lost[k]
  <2>1. CASE Rollback(p)
    BY <1>1, <2>1 DEF Rollback
  <2>2. CASE UNCHANGED <<action, attempts, lost>> /\ pc[p] # "call"
    <3>1. \A k \in Key : claimant[k] = p => action[k] \in {"succeeded", "failed"}
      <4>1. ASSUME NEW k \in Key, claimant[k] = p
            PROVE  action[k] \in ActionStatus \ {"absent", "executing", "indeterminate"}
        <5>1. action[k] \in ActionStatus /\ claimant[k] # NoProc
          BY <4>1, ProcAssumption DEF IInv, TypeOK
        <5>2. action[k] # "absent" /\ action[k] # "executing"
          BY <2>2, <4>1, <5>1 DEF IInv, ClaimsAreHeld
        <5>3. QED
          BY <5>1, <5>2 DEF IInv, NeverIndeterminate
      <4>2. QED
        BY <4>1 DEF ActionStatus
    <3>2. QED
      BY <1>1, <2>2, <3>1
  <2>3. QED
    BY <2>1, <2>2
<1>4. NeverIndeterminate' /\ CommittedRowsAreSettled'
  BY <1>2, <1>3 DEF IInv, NeverIndeterminate, CommittedRowsAreSettled
<1>5. EffectsAccountedFor'
  <2>1. ASSUME NEW k \in Key
        PROVE  effects'[k] = lost'[k] + (IF action'[k] = "succeeded" THEN 1 ELSE 0)
    <3>1. lost[k] \in Nat /\ effects'[k] = lost[k] + (IF action[k] = "succeeded" THEN 1 ELSE 0)
      BY DEF IInv, TypeOK, EffectsAccountedFor
    <3>2. QED
      BY <1>2, <1>3, <3>1
  <2>2. QED
    BY <2>1 DEF EffectsAccountedFor
<1>6. ASSUME NEW q \in Proc, pc'[q] = "call"
      PROVE  LET k == CurrentKey(q)' IN
               claimant'[k] = q /\ action'[k] = "executing" /\ attempts'[k] < MaxAttempts
  <2>1. q # p /\ pc[q] = "call" /\ CurrentKey(q)' = CurrentKey(q)
    BY <1>1, <1>6 DEF OthersStay
  <2>2. CurrentKey(q) \in Key
    BY <2>1, CurrentKeyType DEF IInv, TypeOK, CommandShape
  <2>3. /\ claimant[CurrentKey(q)] = q /\ action[CurrentKey(q)] = "executing"
        /\ attempts[CurrentKey(q)] < MaxAttempts
    BY <2>1 DEF IInv, ClaimsAreHeld
  <2>4. QED
    BY <1>2, <2>1, <2>2, <2>3
<1>7. ASSUME NEW k \in Key, claimant'[k] # NoProc
      PROVE  /\ pc'[claimant'[k]] \in {"pass", "claim", "call"}
             /\ action'[k] # "absent"
             /\ action'[k] = "executing" =>
                  pc'[claimant'[k]] = "call" /\ k = KeyOf(cursor'[claimant'[k]], now'[claimant'[k]])
  <2>1. claimant[k] # p /\ claimant'[k] = claimant[k] /\ action'[k] = action[k]
    BY <1>2, <1>3, <1>7
  <2>2. /\ claimant[k] \in Proc
        /\ pc[claimant[k]] \in {"pass", "claim", "call"}
        /\ action[k] # "absent"
        /\ action[k] = "executing" => pc[claimant[k]] = "call" /\ k = CurrentKey(claimant[k])
    <3>1. claimant[k] \in Proc
      BY <1>7, <2>1 DEF IInv, TypeOK
    <3>2. QED
      BY <1>7, <2>1, <3>1 DEF IInv, ClaimsAreHeld
  <2>3. QED
    BY <1>1, <2>1, <2>2 DEF OthersStay, CurrentKey
<1>8. ClaimsAreHeld'
  BY <1>6, <1>7 DEF ClaimsAreHeld, CurrentKey
<1>9. QED
  BY <1>4, <1>5, <1>8 DEF RowInv

LEMMA CallPreserves ==
  ASSUME IInv, TypeOK', NEW p \in Proc, CallSucceeds(p) \/ CallFails(p) \/ CallRetries(p)
  PROVE  RowInv'
<1>1. CASE CallSucceeds(p)
  <2>1. pc[p] = "call" /\ Settle(p, CurrentKey(p), "succeeded")
        /\ effects' = [effects EXCEPT ![CurrentKey(p)] = effects[CurrentKey(p)] + 1]
    BY <1>1 DEF CallSucceeds
  <2>2. /\ CurrentKey(p) \in Key
        /\ action' = [action EXCEPT ![CurrentKey(p)] = "succeeded"]
        /\ attempts' = [attempts EXCEPT ![CurrentKey(p)] = attempts[CurrentKey(p)] + 1]
        /\ UNCHANGED <<claimant, lost>> /\ pc'[p] = "pass" /\ OthersStay(p)
    BY <2>1, SettleSettles
  <2>3. /\ action'[CurrentKey(p)] = "succeeded"
        /\ effects'[CurrentKey(p)] = effects[CurrentKey(p)] + 1
        /\ \A k \in Key \ {CurrentKey(p)} : /\ action'[k] = action[k]
                                            /\ attempts'[k] = attempts[k]
                                            /\ effects'[k] = effects[k]
    BY <2>1, <2>2 DEF IInv, TypeOK
  <2>4. QED
    BY <2>1, <2>2, <2>3, OwnRowPreserves
<1>2. CASE CallFails(p)
  <2>1. pc[p] = "call" /\ Settle(p, CurrentKey(p), "failed") /\ UNCHANGED effects
    BY <1>2 DEF CallFails
  <2>2. /\ CurrentKey(p) \in Key
        /\ action' = [action EXCEPT ![CurrentKey(p)] = "failed"]
        /\ attempts' = [attempts EXCEPT ![CurrentKey(p)] = attempts[CurrentKey(p)] + 1]
        /\ UNCHANGED <<claimant, lost>> /\ pc'[p] = "pass" /\ OthersStay(p)
    BY <2>1, SettleSettles
  <2>3. /\ action'[CurrentKey(p)] = "failed"
        /\ effects'[CurrentKey(p)] = effects[CurrentKey(p)]
        /\ \A k \in Key \ {CurrentKey(p)} : /\ action'[k] = action[k]
                                            /\ attempts'[k] = attempts[k]
                                            /\ effects'[k] = effects[k]
    BY <2>1, <2>2 DEF IInv, TypeOK
  <2>4. QED
    BY <2>1, <2>2, <2>3, OwnRowPreserves
<1>3. CASE CallRetries(p)
  <2>1. CurrentKey(p) \in Key
    BY <1>3, CurrentKeyType DEF IInv, TypeOK, CommandShape, CallRetries
  <2>2. /\ pc[p] = "call" /\ pc'[p] = "call" /\ CurrentKey(p)' = CurrentKey(p) /\ OthersStay(p)
        /\ UNCHANGED <<action, claimant, effects, lost>>
        /\ attempts' = [attempts EXCEPT ![CurrentKey(p)] = attempts[CurrentKey(p)] + 1]
        /\ attempts[CurrentKey(p)] + 1 < MaxAttempts
    BY <1>3 DEF CallRetries, OthersStay, CurrentKey, cmdVars, historyVars
  <2>3. QED
    BY <2>1, <2>2, OwnRowPreserves DEF IInv, TypeOK
<1>4. QED
  BY <1>1, <1>2, <1>3

LEMMA IInvInit == Init => IInv
<1> SUFFICES ASSUME Init PROVE IInv
  OBVIOUS
<1>1. TypeOK
  BY TypeInit
<1>2. CommandShape /\ NeverIndeterminate /\ CommittedRowsAreSettled /\ EffectsAccountedFor
  BY DEF Init, CommandShape, NeverIndeterminate, CommittedRowsAreSettled, EffectsAccountedFor
<1>3. ClaimsAreHeld
  BY DEF Init, ClaimsAreHeld
<1>4. QED
  BY <1>1, <1>2, <1>3 DEF IInv

LEMMA IInvNext ==
  ASSUME IInv, [Next]_vars
  PROVE  IInv'
<1>1. TypeOK' /\ CommandShape'
  BY TypeNext, ShapeNext DEF IInv
<1>2. ASSUME NEW p \in Proc, Quiet(p) PROVE RowInv'
  <2>1. /\ UNCHANGED <<action, attempts, claimant, effects, lost>>
        /\ pc'[p] # "call"
        /\ pc[p] \in {"pass", "claim", "call"} => pc'[p] \in {"pass", "claim", "call"}
        /\ OthersStay(p)
    BY <1>2, QuietStep DEF IInv
  <2>2. pc[p] # "call"
    BY <1>2 DEF Quiet, BeginInvestigate, BeginResume, CanStart, OpenRun, LoadRun, NoRunToResume,
                Grant, Refuse
  <2>3. QED
    BY <1>1, <2>1, <2>2, FramePreserves DEF OthersStay
<1>3. ASSUME NEW p \in Proc, Claim(p) PROVE RowInv'
  BY <1>1, <1>3, ClaimPreserves
<1>4. ASSUME NEW p \in Proc, ResolveExisting(p) PROVE RowInv'
  BY <1>1, <1>4, ResolveChangesNothing, FramePreserves DEF OthersStay
<1>5. ASSUME NEW p \in Proc, CallSucceeds(p) \/ CallFails(p) \/ CallRetries(p) PROVE RowInv'
  BY <1>1, <1>5, CallPreserves
<1>6. ASSUME NEW p \in Proc, Commit(p) PROVE RowInv'
  <2>1. /\ pc[p] # "call" /\ Release(p)
        /\ UNCHANGED <<action, attempts, lost, effects, cmdVars>>
    BY <1>6 DEF Commit, PassDone, historyVars
  <2>2. QED
    BY <1>1, <2>1, EndPreserves
<1>7. ASSUME NEW p \in Proc, Rollback(p) PROVE RowInv'
  <2>1. Release(p) /\ UNCHANGED <<effects, cmdVars>>
    BY <1>7 DEF Rollback
  <2>2. QED
    BY <1>1, <1>7, <2>1, EndPreserves
<1>8. ASSUME \/ \E r \in Proc, i \in Item, v \in {"approved", "rejected"} : Decide(r, i, v)
             \/ Tick
             \/ UNCHANGED vars
      PROVE  RowInv'
  <2>1. UNCHANGED <<pc, action, attempts, claimant, effects, lost, cmdVars>>
    BY <1>8 DEF Decide, Tick, vars, rowVars, historyVars
  <2>2. \A q \in Proc : CurrentKey(q)' = CurrentKey(q)
    BY <2>1 DEF CurrentKey, cmdVars
  <2>3. QED
    BY <1>1, <2>1, <2>2, FramePreserves
<1>9. RowInv'
  BY <1>2, <1>3, <1>4, <1>5, <1>6, <1>7, <1>8
  DEF Next, Step, Quiet, Crash, IllegalTransition, DeadlockVictim
<1>10. QED
  BY <1>1, <1>9 DEF IInv, RowInv

(***************************************************************************)
(* The theorems.                                                           *)
(***************************************************************************)

\* The invariant that carries all the others holds of every behaviour.
THEOREM Inductive == Spec => []IInv
<1>1. Init => IInv
  BY IInvInit
<1>2. IInv /\ [Next]_vars => IInv'
  BY IInvNext
<1>3. QED
  BY <1>1, <1>2, PTL DEF Spec

\* Every variable keeps its type, under any number of overlapping commands.
THEOREM TypesHold == Spec => []TypeOK
<1>1. IInv => TypeOK
  BY DEF IInv
<1>2. QED
  BY <1>1, Inductive, PTL

\* No two commands are ever inside the same effect (executor.py _claim).
THEOREM ClaimsHold == Spec => []ClaimsAreHeld
<1>1. IInv => ClaimsAreHeld
  BY DEF IInv
<1>2. QED
  BY <1>1, Inductive, PTL

\* No committed action record is ever EXECUTING or INDETERMINATE: with one
\* commit per command, reconciliation never finds work (db/session.py).
THEOREM CommittedRowsSettled == Spec => []CommittedRowsAreSettled
<1>1. IInv => CommittedRowsAreSettled
  BY DEF IInv
<1>2. QED
  BY <1>1, Inductive, PTL

\* Every effect performed is recorded once or was lost with a rollback.
THEOREM EffectsAccounted == Spec => []EffectsAccountedFor
<1>1. IInv => EffectsAccountedFor
  BY DEF IInv
<1>2. QED
  BY <1>1, Inductive, PTL

-----------------------------------------------------------------------------
(* Authority: while a command is in its pass, every approval the request   *)
(* of its run has is in granted, and past Grant what it works on is        *)
(* covered by an unchanged decision and, where that asks for a person, by  *)
(* one of those approvals.                                                 *)

InPass(p) == pc[p] \in {"pass", "claim", "call"}

Covered(i, approved) ==
  /\ FreshDecision(i) = StoredDecision(i)
  /\ \/ StoredDecision(i) = "allow"
     \/ StoredDecision(i) = "require_approval" /\ i \in approved

ApprovalsKnown(p) ==
  InPass(p) => \A i \in Item : approval[target[p]][i] = "approved" => i \in granted[p]

AuthInv ==
  \A p \in Proc :
    /\ pc[p] = "open" => target[p] = p
    /\ ApprovalsKnown(p)
    /\ pc[p] \in {"claim", "call"} => Covered(cursor[p], granted[p])

\* What a command may still count on, it could count on before: nothing but
\* a decision adds to the approvals of a run that is not its own.
LEMMA ApprovalsNext ==
  ASSUME IInv, AuthInv, [Next]_vars, NEW q \in Proc
  PROVE  ApprovalsKnown(q)'
<1> SUFFICES ASSUME InPass(q)', NEW i \in Item, approval'[target'[q]][i] = "approved"
             PROVE  i \in granted'[q]
  BY DEF ApprovalsKnown
<1> USE DEF TypeOK, IInv, dbVars, rowVars, cmdVars, historyVars, InPass
<1>1. ASSUME NEW p \in Proc, LoadRun(p) PROVE i \in granted'[q]
  <2>1. PICK r \in LatestRuns :
          /\ target' = [target EXCEPT ![p] = r]
          /\ granted' = [granted EXCEPT ![p] = {j \in Item : approval[r][j] = "approved"}]
    BY <1>1 DEF LoadRun
  <2>2. approval' = approval /\ r \in Proc /\ pc' = [pc EXCEPT ![p] = "pass"]
    BY <1>1 DEF LoadRun, LatestRuns
  <2>3. CASE q = p
    BY <2>1, <2>2, <2>3
  <2>4. CASE q # p
    BY <2>1, <2>2, <2>4 DEF AuthInv, ApprovalsKnown
  <2>5. QED
    BY <2>3, <2>4
<1>2. ASSUME NEW p \in Proc, OpenRun(p) PROVE i \in granted'[q]
  <2>1. /\ approval' = [approval EXCEPT ![p] =
                          [j \in Item |-> IF NeedsApproval(j) THEN "pending" ELSE "none"]]
        /\ pc[p] = "open" /\ pc' = [pc EXCEPT ![p] = "pass"]
        /\ target' = target /\ granted' = granted
    BY <1>2 DEF OpenRun
  <2>2. target[p] = p
    BY <2>1 DEF AuthInv
  <2>3. CASE q = p
    BY <2>1, <2>2, <2>3
  <2>4. CASE q # p
    <3>1. InPass(q) /\ target[q] \in Proc
      BY <2>1, <2>4 DEF CommandShape
    <3>2. CASE target[q] = p
      BY <2>1, <3>2
    <3>3. CASE target[q] # p
      BY <2>1, <3>1, <3>3 DEF AuthInv, ApprovalsKnown
    <3>4. QED
      BY <3>2, <3>3
  <2>5. QED
    BY <2>3, <2>4
<1>3. ASSUME NEW p \in Proc, Rollback(p) \/ Commit(p) PROVE i \in granted'[q]
  <2>1. Release(p) /\ target' = target
    BY <1>3 DEF Rollback, Commit
  <2>2. q # p /\ InPass(q) /\ granted'[q] = granted[q] /\ target[q] \in Proc
    BY <2>1 DEF Release, CommandShape
  <2>3. \/ approval' = [approval EXCEPT ![p] = [j \in Item |-> "none"]]
        \/ approval' = approval
    BY <1>3 DEF Rollback, Commit
  <2>4. approval[target[q]][i] = "approved"
    <3>1. approval'[target[q]][i] = "approved"
      BY <2>1
    <3>2. CASE approval' = [approval EXCEPT ![p] = [j \in Item |-> "none"]]
      <4>1. target[q] # p
        BY <2>2, <3>1, <3>2
      <4>2. QED
        BY <2>2, <3>1, <3>2, <4>1
    <3>3. CASE approval' = approval
      BY <3>1, <3>3
    <3>4. QED
      BY <2>3, <3>2, <3>3
  <2>5. QED
    BY <2>2, <2>4 DEF AuthInv, ApprovalsKnown
<1>4. ASSUME NEW r \in Proc, NEW j \in Item, NEW v \in {"approved", "rejected"}, Decide(r, j, v)
      PROVE  i \in granted'[q]
  <2>1. /\ approval' = [approval EXCEPT ![r][j] = v]
        /\ granted' = [p \in Proc |-> IF v = "approved" /\ Active(p) /\ target[p] = r
                                     THEN granted[p] \cup {j} ELSE granted[p]]
        /\ pc' = pc /\ target' = target
    BY <1>4 DEF Decide
  <2>2. InPass(q) /\ Active(q) /\ target[q] \in Proc
    BY <2>1 DEF Active, CommandShape
  <2>3. granted[q] \subseteq granted'[q]
    BY <2>1
  <2>4. CASE approval[target[q]][i] = "approved"
    BY <2>2, <2>3, <2>4 DEF AuthInv, ApprovalsKnown
  <2>5. CASE approval[target[q]][i] # "approved"
    <3>1. target[q] = r /\ i = j /\ v = "approved"
      BY <2>1, <2>2, <2>5
    <3>2. QED
      BY <2>1, <2>2, <3>1
  <2>6. QED
    BY <2>4, <2>5
<1>5. ASSUME InPass(q), UNCHANGED <<approval, target, granted>> PROVE i \in granted'[q]
  BY <1>5 DEF AuthInv, ApprovalsKnown
<1>6. ASSUME NEW p \in Proc, BeginInvestigate(p) \/ BeginResume(p) PROVE i \in granted'[q]
  <2>1. UNCHANGED <<approval, granted>> /\ q # p /\ pc'[q] = pc[q] /\ target'[q] = target[q]
    BY <1>6 DEF BeginInvestigate, BeginResume
  <2>2. QED
    BY <2>1 DEF AuthInv, ApprovalsKnown
<1>7. ASSUME NEW p \in Proc, NoRunToResume(p) \/ Grant(p) \/ Refuse(p) \/ Claim(p)
                             \/ ResolveExisting(p) \/ CallRetries(p)
      PROVE  i \in granted'[q]
  BY <1>5, <1>7 DEF NoRunToResume, Grant, Refuse, Claim, ResolveExisting, CallRetries
<1>8. ASSUME NEW p \in Proc, CallSucceeds(p) \/ CallFails(p) PROVE i \in granted'[q]
  BY <1>5, <1>8 DEF CallSucceeds, CallFails, Settle
<1>9. CASE Tick \/ UNCHANGED vars
  BY <1>5, <1>9 DEF Tick, vars
<1>10. QED
  BY <1>1, <1>2, <1>3, <1>4, <1>6, <1>7, <1>8, <1>9
  DEF Next, Step, Crash, IllegalTransition, DeadlockVictim

\* A command past Grant keeps its place in the ranking and what it was granted on.
LEMMA CoverNext ==
  ASSUME IInv, AuthInv, [Next]_vars, NEW q \in Proc, pc'[q] \in {"claim", "call"}
  PROVE  Covered(cursor'[q], granted'[q])
<1> USE DEF TypeOK, IInv, dbVars, rowVars, cmdVars, historyVars
<1> DEFINE Keeps(r) == cursor'[r] = cursor[r] /\ granted[r] \subseteq granted'[r]
<1>1. ASSUME pc[q] \in {"claim", "call"}, Keeps(q)
      PROVE  Covered(cursor'[q], granted'[q])
  BY <1>1 DEF AuthInv, Covered
<1>2. ASSUME NEW p \in Proc, Grant(p) PROVE Covered(cursor'[q], granted'[q])
  <2>1. /\ cursor' = cursor /\ granted' = granted /\ pc' = [pc EXCEPT ![p] = "claim"]
        /\ pc[p] = "pass" /\ cursor[p] \in Item /\ Authorised(target[p], cursor[p])
    BY <1>2 DEF Grant
  <2>2. Covered(cursor[p], granted[p])
    BY <2>1 DEF Authorised, HasApproval, Covered, AuthInv, ApprovalsKnown, InPass
  <2>3. CASE q = p
    BY <2>1, <2>2, <2>3
  <2>4. CASE q # p
    BY <1>1, <2>1, <2>4
  <2>5. QED
    BY <2>3, <2>4
<1>3. ASSUME NEW p \in Proc, BeginInvestigate(p) \/ BeginResume(p) \/ OpenRun(p)
                             \/ LoadRun(p) \/ NoRunToResume(p) \/ Refuse(p)
      PROVE  pc[q] \in {"claim", "call"} /\ Keeps(q)
  BY <1>3 DEF BeginInvestigate, BeginResume, OpenRun, LoadRun, NoRunToResume, Refuse
<1>4. ASSUME NEW p \in Proc, Claim(p) \/ ResolveExisting(p) \/ CallSucceeds(p)
                             \/ CallFails(p) \/ CallRetries(p)
      PROVE  pc[q] \in {"claim", "call"} /\ Keeps(q)
  BY <1>4 DEF Claim, ResolveExisting, CallSucceeds, CallFails, CallRetries, Settle
<1>5. ASSUME NEW p \in Proc, Commit(p) \/ Rollback(p)
      PROVE  pc[q] \in {"claim", "call"} /\ Keeps(q)
  BY <1>5 DEF Commit, Rollback, Release
<1>6. ASSUME \/ \E r \in Proc, i \in Item, v \in {"approved", "rejected"} : Decide(r, i, v)
             \/ Tick \/ UNCHANGED vars
      PROVE  pc[q] \in {"claim", "call"} /\ Keeps(q)
  BY <1>6 DEF Decide, Tick, vars
<1>7. QED
  BY <1>1, <1>2, <1>3, <1>4, <1>5, <1>6
  DEF Next, Step, Crash, IllegalTransition, DeadlockVictim

LEMMA AuthNext ==
  ASSUME IInv, AuthInv, [Next]_vars
  PROVE  AuthInv'
<1>1. ASSUME NEW p \in Proc, NEW q \in Proc, Commit(p) \/ Rollback(p), pc'[q] = "open"
      PROVE  target'[q] = q
  BY <1>1 DEF Commit, Rollback, Release, cmdVars, AuthInv, IInv, TypeOK
<1>2. ASSUME NEW q \in Proc, pc'[q] = "open" PROVE target'[q] = q
  BY <1>1, <1>2
  DEF AuthInv, IInv, TypeOK, cmdVars, Next, Step, BeginInvestigate, BeginResume, OpenRun, LoadRun,
      NoRunToResume, Grant, Refuse, Claim, ResolveExisting, CallSucceeds, CallFails, CallRetries,
      Settle, Crash, IllegalTransition, DeadlockVictim, Decide, Tick, vars
<1>3. QED
  BY <1>2, ApprovalsNext, CoverNext DEF AuthInv, Covered, FreshDecision, StoredDecision

\* An effect is that of a command inside its call, on an intervention it is covered for.
LEMMA EffectCovered ==
  ASSUME IInv, AuthInv, [Next]_vars, NEW k \in Key, effects'[k] # effects[k]
  PROVE  \E p \in Proc : pc[p] = "call" /\ CurrentKey(p) = k /\ Covered(k[1], granted[p])
<1>1. PICK p \in Proc : CallSucceeds(p)
  BY DEF Next, Step, BeginInvestigate, BeginResume, OpenRun, LoadRun, NoRunToResume, Grant,
         Refuse, Claim, ResolveExisting, CallFails, CallRetries, Settle, Commit,
         IllegalTransition, DeadlockVictim, Crash, Rollback, Decide, Tick, vars, historyVars
<1>2. pc[p] = "call" /\ effects' = [effects EXCEPT ![CurrentKey(p)] = effects[CurrentKey(p)] + 1]
  BY <1>1 DEF CallSucceeds
<1>3. CurrentKey(p) = k
  BY <1>2 DEF IInv, TypeOK
<1>4. k[1] = cursor[p]
  BY <1>3 DEF CurrentKey, KeyOf
<1>5. QED
  BY <1>2, <1>3, <1>4 DEF AuthInv

(* Nothing denied or drifted is ever performed, and what needs a person    *)
(* only with an approval of this run that was in force since the command   *)
(* loaded it, for every policy, every field set and every interleaving     *)
(* (authorization.py authorize_execution).                                 *)
THEOREM EffectsAuthorised == Spec => EffectsWereAuthorised
<1>1. Init => AuthInv
  BY DEF Init, AuthInv, ApprovalsKnown, InPass
<1>2. IInv /\ AuthInv /\ [Next]_vars => AuthInv'
  BY AuthNext
<1>3. IInv /\ AuthInv /\ [Next]_vars =>
        [\A k \in Key : effects'[k] # effects[k] =>
           /\ FreshDecision(k[1]) = StoredDecision(k[1])
           /\ \E p \in Proc :
                /\ pc[p] = "call" /\ CurrentKey(p) = k
                /\ \/ StoredDecision(k[1]) = "allow"
                   \/ StoredDecision(k[1]) = "require_approval" /\ k[1] \in granted[p]]_vars
  BY EffectCovered DEF Covered
<1>4. QED
  BY <1>1, <1>2, <1>3, Inductive, PTL DEF Spec, EffectsWereAuthorised

-----------------------------------------------------------------------------
(* Refinement: with uncommitted rows hidden, a call that succeeds is a      *)
(* delivery, a commit is a publication, and every other step is a stutter.  *)

LEMMA LedgerStep ==
  ASSUME IInv, [Next]_vars
  PROVE  [Ledger!LedgerNext]_(Ledger!ledgerVars)
<1> USE DEF TypeOK
<1>1. ASSUME UNCHANGED <<action, claimant, effects>>
      PROVE  UNCHANGED Ledger!ledgerVars
  BY <1>1 DEF Ledger!ledgerVars, PublishedOutcome
<1>2. ASSUME NEW p \in Proc, Quiet(p) \/ ResolveExisting(p)
      PROVE  UNCHANGED Ledger!ledgerVars
  BY <1>1, <1>2, QuietStep, ResolveChangesNothing DEF IInv
<1>3. ASSUME NEW p \in Proc, Claim(p)
      PROVE  UNCHANGED Ledger!ledgerVars
  <2>1. LET k == CurrentKey(p) IN
        /\ k \in Key /\ claimant[k] = NoProc /\ action[k] = "absent"
        /\ action' = [action EXCEPT ![k] = "executing"]
        /\ claimant' = [claimant EXCEPT ![k] = p]
        /\ UNCHANGED effects
    BY <1>3, ClaimTakes
  <2>2. ASSUME NEW k \in Key
        PROVE  (IF claimant'[k] = NoProc THEN action'[k] ELSE "absent")
                 = (IF claimant[k] = NoProc THEN action[k] ELSE "absent")
    BY <2>1, ProcAssumption DEF IInv
  <2>3. QED
    BY <2>1, <2>2 DEF Ledger!ledgerVars, PublishedOutcome
<1>4. ASSUME NEW p \in Proc, NEW status, pc[p] = "call", Settle(p, CurrentKey(p), status)
      PROVE  /\ CurrentKey(p) \in Key /\ PublishedOutcome[CurrentKey(p)] = "absent"
             /\ UNCHANGED PublishedOutcome
  <2>1. /\ CurrentKey(p) \in Key /\ claimant[CurrentKey(p)] = p
        /\ action' = [action EXCEPT ![CurrentKey(p)] = status]
        /\ claimant' = claimant
    BY <1>4, SettleSettles
  <2>2. ASSUME NEW k \in Key
        PROVE  (IF claimant'[k] = NoProc THEN action'[k] ELSE "absent")
                 = (IF claimant[k] = NoProc THEN action[k] ELSE "absent")
    BY <2>1, ProcAssumption DEF IInv
  <2>3. QED
    BY <2>1, <2>2, ProcAssumption DEF PublishedOutcome
<1>5. ASSUME NEW p \in Proc, CallSucceeds(p)
      PROVE  Ledger!LedgerNext
  <2>1. /\ pc[p] = "call" /\ Settle(p, CurrentKey(p), "succeeded")
        /\ effects' = [effects EXCEPT ![CurrentKey(p)] = effects[CurrentKey(p)] + 1]
    BY <1>5 DEF CallSucceeds
  <2>2. CurrentKey(p) \in Key /\ Ledger!Deliver(CurrentKey(p))
    BY <1>4, <2>1 DEF Ledger!Deliver
  <2>3. QED
    BY <2>2 DEF Ledger!LedgerNext
<1>6. ASSUME NEW p \in Proc, CallFails(p)
      PROVE  UNCHANGED Ledger!ledgerVars
  <2>1. pc[p] = "call" /\ Settle(p, CurrentKey(p), "failed") /\ UNCHANGED effects
    BY <1>6 DEF CallFails
  <2>2. QED
    BY <1>4, <2>1 DEF Ledger!ledgerVars
<1>7. ASSUME NEW p \in Proc, CallRetries(p)
      PROVE  UNCHANGED Ledger!ledgerVars
  BY <1>1, <1>7 DEF CallRetries, historyVars
<1>8. ASSUME NEW p \in Proc, Commit(p)
      PROVE  Ledger!LedgerNext
  <2>1. /\ pc[p] # "call" /\ UNCHANGED <<action, effects>>
        /\ claimant' = [k \in Key |-> IF claimant[k] = p THEN NoProc ELSE claimant[k]]
    BY <1>8 DEF Commit, PassDone, Release, historyVars
  <2>2. ASSUME NEW k \in Key, claimant[k] = p
        PROVE  action[k] \in {"succeeded", "failed"}
    <3>1. action[k] \in ActionStatus /\ claimant[k] # NoProc
      BY <2>2, ProcAssumption DEF IInv
    <3>2. action[k] # "absent" /\ action[k] # "executing" /\ action[k] # "indeterminate"
      BY <2>1, <2>2, <3>1 DEF IInv, ClaimsAreHeld, NeverIndeterminate
    <3>3. QED
      BY <3>1, <3>2 DEF ActionStatus
  <2>3. ASSUME NEW k \in Key, action[k] = "succeeded"
        PROVE  effects[k] > 0
    BY <2>3 DEF IInv, EffectsAccountedFor
  <2>4. PublishedOutcome' \in [Key -> {"absent", "succeeded", "failed"}]
    <3>1. ASSUME NEW k \in Key
          PROVE  (IF claimant'[k] = NoProc THEN action'[k] ELSE "absent")
                   \in {"absent", "succeeded", "failed"}
      BY <2>1, <2>2, ProcAssumption DEF IInv, CommittedRowsAreSettled
    <3>2. QED
      BY <3>1 DEF PublishedOutcome
  <2>5. ASSUME NEW k \in Key, PublishedOutcome'[k] # PublishedOutcome[k]
        PROVE  /\ PublishedOutcome[k] = "absent"
               /\ PublishedOutcome'[k] = "succeeded" => effects[k] > 0
    BY <2>1, <2>3, <2>5, ProcAssumption DEF PublishedOutcome
  <2>6. Ledger!Publish
    BY <2>1, <2>4, <2>5 DEF Ledger!Publish
  <2>7. QED
    BY <2>6 DEF Ledger!LedgerNext
<1>9. ASSUME NEW p \in Proc, Rollback(p)
      PROVE  UNCHANGED Ledger!ledgerVars
  <2>1. /\ action' = [k \in Key |-> IF claimant[k] = p THEN "absent" ELSE action[k]]
        /\ claimant' = [k \in Key |-> IF claimant[k] = p THEN NoProc ELSE claimant[k]]
        /\ UNCHANGED effects
    BY <1>9 DEF Rollback, Release
  <2>2. ASSUME NEW k \in Key
        PROVE  (IF claimant'[k] = NoProc THEN action'[k] ELSE "absent")
                 = (IF claimant[k] = NoProc THEN action[k] ELSE "absent")
    BY <2>1, ProcAssumption DEF IInv
  <2>3. QED
    BY <2>1, <2>2 DEF Ledger!ledgerVars, PublishedOutcome
<1>10. ASSUME \/ \E r \in Proc, i \in Item, v \in {"approved", "rejected"} : Decide(r, i, v)
              \/ Tick
              \/ UNCHANGED vars
       PROVE  UNCHANGED Ledger!ledgerVars
  <2>1. UNCHANGED <<action, claimant, effects>>
    BY <1>10 DEF Decide, Tick, vars, rowVars, historyVars
  <2>2. QED
    BY <1>1, <2>1
<1>11. QED
  BY <1>2, <1>3, <1>5, <1>6, <1>7, <1>8, <1>9, <1>10
  DEF Next, Step, Quiet, Crash, IllegalTransition, DeadlockVictim

\* The execution layer implements the write-once ledger: one published outcome
\* per key, never rewritten, and no delivery once it is published.
THEOREM ImplementsLedger == Spec => LedgerSafety
<1>1. Init => Ledger!LedgerInit
  BY DEF Init, Ledger!LedgerInit, PublishedOutcome
<1>2. IInv /\ [Next]_vars => [Ledger!LedgerNext]_(Ledger!ledgerVars)
  BY LedgerStep
<1>3. QED
  BY <1>1, <1>2, Inductive, PTL DEF Spec, LedgerSafety, Ledger!LedgerSpec

=============================================================================
