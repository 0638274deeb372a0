--------------------------- MODULE IncidentProofs ---------------------------
(***************************************************************************)
(* What a run of Execution tells its reader: proofs about the rows of the  *)
(* incident and of its runs, on top of those about effects.                *)
(*                                                                         *)
(* That a completed run is settled holds however commands overlap: a       *)
(* command that refuses nothing it could have been granted has a row of    *)
(* its own, or a committed one, behind every rank it has passed.  That the *)
(* trail is one path and that the incident mirrors its run holds of        *)
(* commands that take turns; two that overlap may both walk from the       *)
(* status they both loaded.  Of those that overlap it still holds that     *)
(* each hop leaves a status the incident had come to, that its status has  *)
(* a run to show for it, and that no closed run is reopened.               *)
(***************************************************************************)
EXTENDS ExecutionProofs, FiniteSetTheorems

\* Authorised by a fresh evaluation, or by it and a person.
MayRun(i) == FreshDecision(i) = StoredDecision(i) /\ FreshDecision(i) # "deny"

\* There is a row, and it cannot be taken from p.
Held(p, k) == action[k] # "absent" /\ claimant[k] \in {NoProc, p}

(* A pass starts at the first rank, and what it passed it settled, unless  *)
(* it found something to wait for.                                         *)
PassShape ==
  \A p \in Proc :
    /\ pc[p] \in {"idle", "open", "load"} => cursor[p] = 1
    /\ pc[p] \in {"pass", "claim", "call"} /\ ~waiting[p] =>
         \A i \in 1 .. cursor[p] - 1 : MayRun(i) => \E d \in KeyDate : Held(p, <<i, d>>)

SettledInv == PassShape /\ CompletedRunsAreSettled

-----------------------------------------------------------------------------
(* Completed runs are settled. *)

\* A fresh evaluation names no field and comes to one of three decisions.
LEMMA FreshDecisionType ==
  ASSUME NEW i \in Item
  PROVE  FreshDecision(i) \in {"allow", "require_approval", "deny"}
<1>1. ActionOf[i] \in ProposedAction
  BY ActionAssumption
<1>2. Classify(ActionOf[i], {}) \in 0 .. 3
  <2>1. CASE ActionOf[i] = "crm_field_update"
    BY <1>1, <2>1 DEF Classify, ClassifyFieldUpdate
  <2>2. CASE ActionOf[i] # "crm_field_update"
    <3>1. Classify(ActionOf[i], {}) = TierByAction[ActionOf[i]]
      BY <1>1, <2>2 DEF Classify
    <3>2. TierByAction[ActionOf[i]] \in {1, 2, 3}
      BY <1>1, <2>2 DEF TierByAction
    <3>3. QED
      BY <3>1, <3>2
  <2>3. QED
    BY <2>1, <2>2
<1>3. QED
  BY <1>2 DEF FreshDecision, Evaluate, DecisionByTier, RiskTier

\* What is held stays held by a step that leaves rows alone or adds to them.
LEMMA HeldStays ==
  ASSUME NEW p \in Proc, NEW k \in Key, Held(p, k),
         action[k] # "absent" => action'[k] # "absent",
         claimant'[k] \in {NoProc, claimant[k]}
  PROVE  Held(p, k)'
BY DEF Held

\* The rank a refusal passes asked for nothing, or waits for a person.
LEMMA RefusedOrWaiting ==
  ASSUME NEW p \in Proc, cursor[p] \in Item, MayRun(cursor[p]),
         ~Authorised(target[p], cursor[p])
  PROVE  ApprovalMissing(target[p], cursor[p])
BY FreshDecisionType DEF MayRun, Authorised, ApprovalMissing

\* Of a step of p: where it may leave the others, and what it may not do to a row.
Gentle(p) ==
  /\ \A q \in Proc \ {p} : UNCHANGED <<pc[q], cursor[q], waiting[q]>>
  /\ \A k \in Key :
       \/ action[k] # "absent" => action'[k] # "absent"
       \/ claimant[k] = p /\ pc'[p] = "done"
  /\ \A k \in Key : \/ claimant'[k] \in {NoProc, claimant[k]}
                    \/ action[k] = "absent"

\* A gentle step of p leaves the shape of every other command.
LEMMA OthersShape ==
  ASSUME IInv, PassShape, NEW p \in Proc, Gentle(p), NEW q \in Proc, q # p
  PROVE  /\ pc'[q] \in {"idle", "open", "load"} => cursor'[q] = 1
         /\ pc'[q] \in {"pass", "claim", "call"} /\ ~waiting'[q] =>
              \A i \in 1 .. cursor'[q] - 1 :
                MayRun(i) => \E d \in KeyDate : Held(q, <<i, d>>)'
<1>1. UNCHANGED <<pc[q], cursor[q], waiting[q]>>
  BY DEF Gentle
<1>2. cursor[q] \in 1 .. NItems + 1
  BY DEF IInv, TypeOK
<1>3. ASSUME NEW i \in Item, NEW d \in KeyDate, Held(q, <<i, d>>)
      PROVE  Held(q, <<i, d>>)'
  <2>1. <<i, d>> \in Key
    BY DEF Key
  <2>2. claimant[<<i, d>>] # p
    BY <1>3, ProcAssumption DEF Held
  <2>3. QED
    BY <1>3, <2>1, <2>2 DEF Gentle, Held
<1>4. \A i \in 1 .. cursor[q] - 1 : i \in Item
  BY <1>2, ItemAssumption DEF Item
<1>5. QED
  BY <1>1, <1>3, <1>4 DEF PassShape

\* Committed records stay committed by a gentle step.
LEMMA CommittedStays ==
  ASSUME IInv, NEW p \in Proc, Gentle(p), NEW k \in Key, Committed(k)
  PROVE  Committed(k)'
BY ProcAssumption DEF Gentle, Committed

\* Every step of a process, and its start and its death, is gentle.
LEMMA StepsAreGentle ==
  ASSUME IInv, NEW p \in Proc,
         \/ BeginInvestigate(p) \/ BeginResume(p) \/ Step(p) \/ Crash(p)
  PROVE  Gentle(p)
<1> USE DEF Gentle, cmdVars, rowVars
<1>1. TypeOK
  BY DEF IInv
<1>2. CASE Quiet(p)
  <2>1. UNCHANGED <<action, claimant>>
    BY <1>1, <1>2, QuietStep
  <2>2. \A q \in Proc \ {p} : UNCHANGED <<pc[q], cursor[q], waiting[q]>>
    <3>1. CASE BeginInvestigate(p) \/ BeginResume(p)
      BY <1>1, <3>1 DEF TypeOK, BeginInvestigate, BeginResume
    <3>2. CASE OpenRun(p) \/ LoadRun(p) \/ NoRunToResume(p)
      BY <1>1, <3>2 DEF TypeOK, OpenRun, LoadRun, NoRunToResume
    <3>3. CASE Grant(p) \/ Refuse(p)
      BY <1>1, <3>3 DEF TypeOK, Grant, Refuse
    <3>4. QED
      BY <1>2, <3>1, <3>2, <3>3 DEF Quiet
  <2>3. QED
    BY <2>1, <2>2
<1>3. CASE Claim(p)
  <2>1. /\ action' = [action EXCEPT ![CurrentKey(p)] = "executing"]
        /\ claimant' = [claimant EXCEPT ![CurrentKey(p)] = p]
        /\ action[CurrentKey(p)] = "absent"
    BY <1>3 DEF Claim
  <2>2. \A q \in Proc \ {p} : UNCHANGED <<pc[q], cursor[q], waiting[q]>>
    BY <1>1, <1>3 DEF TypeOK, Claim
  <2>3. QED
    BY <1>1, <2>1, <2>2 DEF TypeOK
<1>4. CASE ResolveExisting(p)
  <2>1. UNCHANGED <<action, claimant>>
    BY <1>4, ResolveChangesNothing
  <2>2. \A q \in Proc \ {p} : UNCHANGED <<pc[q], cursor[q], waiting[q]>>
    BY <1>1, <1>4 DEF TypeOK, ResolveExisting
  <2>3. QED
    BY <2>1, <2>2
<1>5. CASE CallSucceeds(p) \/ CallFails(p)
  <2>1. PICK status \in {"succeeded", "failed"} : Settle(p, CurrentKey(p), status)
    BY <1>5 DEF CallSucceeds, CallFails
  <2>2. action' = [action EXCEPT ![CurrentKey(p)] = status] /\ UNCHANGED claimant
    BY <2>1 DEF Settle
  <2>3. \A q \in Proc \ {p} : UNCHANGED <<pc[q], cursor[q], waiting[q]>>
    BY <1>1, <2>1 DEF TypeOK, Settle
  <2>4. QED
    BY <1>1, <2>2, <2>3 DEF TypeOK
<1>6. CASE CallRetries(p)
  BY <1>6 DEF CallRetries
<1>7. CASE Commit(p) \/ Rollback(p)
  <2>1. /\ pc' = [pc EXCEPT ![p] = "done"]
        /\ claimant' = [k \in Key |-> IF claimant[k] = p THEN NoProc ELSE claimant[k]]
        /\ UNCHANGED <<cursor, waiting>>
    BY <1>7 DEF Commit, Rollback, Release
  <2>2. \A k \in Key : action'[k] = action[k] \/ claimant[k] = p
    BY <1>7 DEF Commit, Rollback
  <2>3. QED
    BY <1>1, <2>1, <2>2 DEF TypeOK
<1>8. QED
  BY <1>2, <1>3, <1>4, <1>5, <1>6, <1>7
  DEF Step, Quiet, Crash, IllegalTransition, DeadlockVictim

\* What p itself has passed after a step of its own.
LEMMA OwnShape ==
  ASSUME IInv, PassShape, NEW p \in Proc,
         \/ BeginInvestigate(p) \/ BeginResume(p) \/ Step(p) \/ Crash(p)
  PROVE  /\ pc'[p] \in {"idle", "open", "load"} => cursor'[p] = 1
         /\ pc'[p] \in {"pass", "claim", "call"} /\ ~waiting'[p] =>
              \A i \in 1 .. cursor'[p] - 1 :
                MayRun(i) => \E d \in KeyDate : Held(p, <<i, d>>)'
<1> USE DEF cmdVars, rowVars
<1>1. TypeOK /\ CommandShape
  BY DEF IInv
<1>2. Gentle(p)
  BY StepsAreGentle
<1>3. ASSUME NEW i \in Item, NEW d \in KeyDate, Held(p, <<i, d>>), pc'[p] # "done"
      PROVE  Held(p, <<i, d>>)'
  <2>1. <<i, d>> \in Key
    BY DEF Key
  <2>2. QED
    BY <1>2, <1>3, <2>1 DEF Gentle, Held
<1>4. cursor[p] \in 1 .. NItems + 1 /\ \A i \in 1 .. cursor[p] - 1 : i \in Item
  BY <1>1, ItemAssumption DEF TypeOK, Item
<1> PICK c \in 1 .. NItems + 1 : c = cursor[p]
  BY <1>4
\* A step past the rank, which is then settled or is waited for.
<1>5. ASSUME pc[p] \in {"pass", "claim", "call"}, pc'[p] = "pass", cursor'[p] = c + 1,
             waiting[p] => waiting'[p],
             MayRun(c) /\ ~waiting'[p] => \E d \in KeyDate : Held(p, <<c, d>>)'
      PROVE  /\ pc'[p] \in {"idle", "open", "load"} => cursor'[p] = 1
             /\ pc'[p] \in {"pass", "claim", "call"} /\ ~waiting'[p] =>
                  \A i \in 1 .. cursor'[p] - 1 :
                    MayRun(i) => \E d \in KeyDate : Held(p, <<i, d>>)'
  <2>1. \A i \in 1 .. cursor'[p] - 1 : i \in 1 .. cursor[p] - 1 \/ i = c
    BY <1>4, <1>5, ItemAssumption
  <2>2. ASSUME ~waiting'[p], NEW i \in 1 .. cursor'[p] - 1, MayRun(i)
        PROVE  \E d \in KeyDate : Held(p, <<i, d>>)'
    <3>1. CASE i = c
      BY <1>5, <2>2, <3>1
    <3>2. CASE i # c
      <4>1. i \in 1 .. cursor[p] - 1 /\ i \in Item
        BY <1>4, <2>1, <3>2
      <4>2. PICK d \in KeyDate : Held(p, <<i, d>>)
        BY <1>5, <2>2, <4>1 DEF PassShape
      <4>3. QED
        BY <1>3, <1>5, <4>1, <4>2
    <3>3. QED
      BY <3>1, <3>2
  <2>3. QED
    BY <1>5, <2>2
<1>6. ASSUME pc[p] \in {"pass", "claim", "call"}, pc'[p] \in {"pass", "claim", "call"},
             UNCHANGED <<cursor[p], waiting[p]>>
      PROVE  /\ pc'[p] \in {"idle", "open", "load"} => cursor'[p] = 1
             /\ pc'[p] \in {"pass", "claim", "call"} /\ ~waiting'[p] =>
                  \A i \in 1 .. cursor'[p] - 1 :
                    MayRun(i) => \E d \in KeyDate : Held(p, <<i, d>>)'
  BY <1>3, <1>4, <1>6 DEF PassShape
<1>7. CASE BeginInvestigate(p) \/ BeginResume(p) \/ OpenRun(p) \/ LoadRun(p)
  <2>1. pc[p] \in {"idle", "open", "load"} /\ UNCHANGED cursor
    BY <1>7 DEF BeginInvestigate, BeginResume, CanStart, OpenRun, LoadRun
  <2>2. QED
    BY <2>1 DEF PassShape
<1>8. CASE NoRunToResume(p) \/ Commit(p) \/ Rollback(p)
  BY <1>1, <1>8 DEF TypeOK, NoRunToResume, Commit, Rollback, Release
<1>9. CASE Grant(p) \/ CallRetries(p) \/ Claim(p)
  BY <1>1, <1>6, <1>9 DEF TypeOK, Grant, CallRetries, Claim
<1>10. CASE Refuse(p)
  <2>1. /\ pc[p] = "pass" /\ pc'[p] = "pass" /\ cursor[p] \in Item /\ cursor'[p] = c + 1
        /\ waiting'[p] = (waiting[p] \/ ApprovalMissing(target[p], cursor[p]))
        /\ ~Authorised(target[p], cursor[p])
    BY <1>1, <1>10 DEF TypeOK, Refuse
  <2>2. QED
    BY <1>5, <2>1, RefusedOrWaiting
<1>11. CASE ResolveExisting(p)
  <2>1. /\ pc[p] = "claim" /\ pc'[p] = "pass" /\ cursor[p] \in Item
        /\ cursor'[p] = c + 1 /\ UNCHANGED waiting
        /\ Committed(CurrentKey(p))
    BY <1>1, <1>11 DEF TypeOK, CommandShape, ResolveExisting
  <2>2. UNCHANGED <<action, claimant>>
    BY <1>11, ResolveChangesNothing
  <2>3. PICK d \in KeyDate : CurrentKey(p) = <<c, d>>
    BY <1>1 DEF TypeOK, CurrentKey, KeyOf, KeyDate
  <2>4. Held(p, <<c, d>>)'
    BY <2>1, <2>2, <2>3 DEF Committed, Held
  <2>5. QED
    BY <1>5, <2>1, <2>4
<1>12. CASE CallSucceeds(p) \/ CallFails(p)
  <2>1. PICK status \in {"succeeded", "failed"} :
          pc[p] = "call" /\ Settle(p, CurrentKey(p), status)
    BY <1>12 DEF CallSucceeds, CallFails
  <2>2. /\ CurrentKey(p) \in Key /\ claimant[CurrentKey(p)] = p /\ UNCHANGED claimant
        /\ action' = [action EXCEPT ![CurrentKey(p)] = status]
    BY <2>1, SettleSettles
  <2>3. /\ pc'[p] = "pass" /\ cursor[p] \in Item
        /\ cursor'[p] = c + 1 /\ UNCHANGED waiting
    BY <1>1, <2>1 DEF TypeOK, CommandShape, Settle
  <2>4. PICK d \in KeyDate : CurrentKey(p) = <<c, d>>
    BY <1>1 DEF TypeOK, CurrentKey, KeyOf, KeyDate
  <2>5. Held(p, <<c, d>>)'
    BY <1>1, <2>2, <2>4 DEF TypeOK, Held
  <2>6. QED
    BY <1>5, <2>1, <2>3, <2>5
<1>13. QED
  BY <1>7, <1>8, <1>9, <1>10, <1>11, <1>12 DEF Step, Crash, IllegalTransition, DeadlockVictim

\* The commit that completes a run has passed every rank and waits for none.
LEMMA CommitCompletes ==
  ASSUME IInv, SettledInv, NEW p \in Proc, Commit(p)
  PROVE  CompletedRunsAreSettled'
<1>1. Gentle(p)
  BY StepsAreGentle DEF Step
<1>2. ASSUME NEW r \in Proc, NEW i \in Item, run[r] = "completed", MayRun(i)
      PROVE  \E d \in KeyDate : Committed(<<i, d>>)'
  <2>1. PICK d \in KeyDate : Committed(<<i, d>>)
    BY <1>2 DEF SettledInv, CompletedRunsAreSettled, MayRun
  <2>2. QED
    BY <1>1, <2>1, CommittedStays DEF Key
<1>3. ASSUME NEW i \in Item, ~waiting[p], MayRun(i)
      PROVE  \E d \in KeyDate : Committed(<<i, d>>)'
  <2>1. pc[p] = "pass" /\ cursor[p] = NItems + 1
    <3>1. pc[p] = "pass" /\ cursor[p] \notin Item
      BY DEF Commit, PassDone
    <3>2. cursor[p] \in 1 .. NItems + 1
      BY DEF IInv, TypeOK
    <3>3. QED
      BY <3>1, <3>2, ItemAssumption DEF Item
  <2>2. i \in 1 .. cursor[p] - 1
    BY <2>1, ItemAssumption DEF Item
  <2>3. PICK d \in KeyDate : Held(p, <<i, d>>)
    BY <1>3, <2>1, <2>2 DEF SettledInv, PassShape
  <2>4. /\ UNCHANGED action
        /\ claimant' = [k \in Key |-> IF claimant[k] = p THEN NoProc ELSE claimant[k]]
    BY DEF Commit, Release
  <2>5. QED
    BY <2>3, <2>4, ProcAssumption DEF Held, Committed, Key
<1>4. ASSUME NEW r \in Proc, run'[r] = "completed", run[r] # "completed"
      PROVE  ~waiting[p]
  BY <1>4 DEF IInv, TypeOK, Commit
<1>5. QED
  BY <1>2, <1>3, <1>4 DEF CompletedRunsAreSettled, MayRun, FreshDecision, StoredDecision

LEMMA SettledNext == IInv /\ SettledInv /\ [Next]_vars => SettledInv'
<1> SUFFICES ASSUME IInv, SettledInv, [Next]_vars PROVE SettledInv'
  OBVIOUS
<1>1. ASSUME NEW p \in Proc, BeginInvestigate(p) \/ BeginResume(p) \/ Step(p) \/ Crash(p)
      PROVE  SettledInv'
  <2>1. Gentle(p) /\ PassShape
    BY <1>1, StepsAreGentle DEF SettledInv
  <2>2. PassShape'
    <3>1. ASSUME NEW q \in Proc
          PROVE  /\ pc'[q] \in {"idle", "open", "load"} => cursor'[q] = 1
                 /\ pc'[q] \in {"pass", "claim", "call"} /\ ~waiting'[q] =>
                      \A i \in 1 .. cursor'[q] - 1 :
                        MayRun(i) => \E d \in KeyDate : Held(q, <<i, d>>)'
      <4>1. CASE q = p
        BY <1>1, <2>1, <4>1, OwnShape
      <4>2. CASE q # p
        BY <2>1, <4>2, OthersShape
      <4>3. QED
        BY <4>1, <4>2
    <3>2. QED
      BY <3>1 DEF PassShape, MayRun, FreshDecision, StoredDecision
  <2>3. CompletedRunsAreSettled'
    <3>1. CASE Commit(p)
      BY <3>1, CommitCompletes
    <3>2. CASE UNCHANGED run
      BY <2>1, <3>2, CommittedStays
      DEF SettledInv, CompletedRunsAreSettled, Key, FreshDecision, StoredDecision
    <3>3. Commit(p) \/ UNCHANGED run
      BY <1>1 DEF Step, BeginInvestigate, BeginResume, OpenRun, LoadRun, NoRunToResume, Grant,
           Refuse, Claim, ResolveExisting, CallSucceeds, CallFails, CallRetries, Settle,
           Crash, IllegalTransition, DeadlockVictim, Rollback, dbVars
    <3>4. QED
      BY <3>1, <3>2, <3>3
  <2>4. QED
    BY <2>2, <2>3 DEF SettledInv
<1>2. CASE \/ \E r \in Proc, i \in Item, v \in {"approved", "rejected"} : Decide(r, i, v)
           \/ Tick
           \/ UNCHANGED vars
  <2>1. UNCHANGED <<run, action, claimant, pc, cursor, waiting>>
    BY <1>2 DEF Decide, Tick, vars, dbVars, rowVars, cmdVars
  <2>2. QED
    BY <2>1 DEF SettledInv, PassShape, CompletedRunsAreSettled, Held, Committed, MayRun,
         FreshDecision, StoredDecision
<1>3. QED
  BY <1>1, <1>2 DEF Next

\* However commands overlap, a run is recorded as completed only when every action
\* that may run has a committed record (service.py, runner.py).
THEOREM CompletedRunsSettled == Spec => []CompletedRunsAreSettled
<1>1. Init => SettledInv
  BY DEF Init, SettledInv, PassShape, CompletedRunsAreSettled
<1>2. IInv /\ SettledInv /\ [Next]_vars => SettledInv'
  BY SettledNext
<1>3. SettledInv => CompletedRunsAreSettled
  BY DEF SettledInv
<1>4. QED
  BY <1>1, <1>2, <1>3, Inductive, PTL DEF Spec

-----------------------------------------------------------------------------
(* Commands that take turns. *)

OneAtATime == \A p, q \in Proc : Active(p) /\ Active(q) => p = q

\* The incident has at most one run, recorded by a process that is done.
RunShape ==
  /\ \A p \in Proc : run[p] # "none" => pc[p] = "done"
  /\ \A p, q \in Proc : run[p] # "none" /\ run[q] # "none" => p = q

\* Between commands the incident is at one of three statuses.
IncidentShape ==
  /\ incident \in {"triaged", "awaiting_approval", "completed"}
  /\ incident = "triaged" <=> \A r \in Proc : run[r] = "none"

\* The command is about a run of its own, or about the incident's as it stands.
AboutRun(p) ==
  \/ target[p] = p /\ incident = "triaged"
  \/ /\ run[target[p]] # "none"
     /\ seenCompleted[p] <=> run[target[p]] = "completed"

\* Nothing it loaded is stale.
LoadShape ==
  \A p \in Proc :
    /\ Active(p) => seen[p] = incident
    /\ pc[p] = "open" => target[p] = p /\ incident = "triaged"
    /\ pc[p] \in {"pass", "claim", "call"} => AboutRun(p)

SerialInv ==
  /\ OneAtATime
  /\ RunShape
  /\ IncidentShape
  /\ LoadShape
  /\ IncidentMirrorsRun
  /\ TrailIsOnePath

\* The hops of a path are appended one by one, after those that were there.
LEMMA HopsAppended ==
  ASSUME trail \in Seq(IncidentStatus \X IncidentStatus),
         NEW path \in Seq(IncidentStatus), Len(path) > 1, trail' = trail \o Hops(path)
  PROVE  /\ trail' \in Seq(IncidentStatus \X IncidentStatus)
         /\ Len(trail) \in Nat /\ Len(path) - 1 \in Nat /\ Len(path) - 1 > 0
         /\ Len(trail') = Len(trail) + (Len(path) - 1)
         /\ \A j \in 1 .. Len(trail) : trail'[j] = trail[j]
         /\ \A j \in 1 .. Len(path) - 1 : trail'[Len(trail) + j] = <<path[j], path[j + 1]>>
         /\ \A j \in 1 .. Len(trail') :
              j \in 1 .. Len(trail) \/ \E n \in 1 .. Len(path) - 1 : j = Len(trail) + n
<1> DEFINE H == Hops(path)
<1>1. H \in Seq(IncidentStatus \X IncidentStatus)
  BY HopsType
<1>2. Len(H) = Len(path) - 1 /\ \A j \in 1 .. Len(path) - 1 : H[j] = <<path[j], path[j + 1]>>
  BY Len(path) - 1 \in Nat DEF Hops
<1> HIDE DEF H
<1>3. /\ trail' \in Seq(IncidentStatus \X IncidentStatus)
      /\ Len(trail') = Len(trail) + Len(H)
      /\ \A j \in 1 .. Len(trail) : trail'[j] = trail[j]
      /\ \A j \in 1 .. Len(H) : trail'[Len(trail) + j] = H[j]
  BY <1>1, ConcatProperties DEF H
<1>4. Len(trail) \in Nat /\ Len(path) - 1 \in Nat /\ Len(path) - 1 > 0
  <2>1. Len(trail) \in Nat /\ Len(path) \in Nat
    BY LenProperties
  <2>2. QED
    BY <2>1
<1>5. ASSUME NEW j \in 1 .. Len(trail')
      PROVE  j \in 1 .. Len(trail) \/ \E n \in 1 .. Len(path) - 1 : j = Len(trail) + n
  <2>1. CASE j > Len(trail)
    <3>1. j - Len(trail) \in 1 .. Len(path) - 1 /\ j = Len(trail) + (j - Len(trail))
      BY <1>2, <1>3, <1>4, <2>1
    <3>2. QED
      BY <3>1
  <2>2. QED
    BY <1>4, <2>1
<1>6. \A j \in 1 .. Len(path) - 1 : trail'[Len(trail) + j] = <<path[j], path[j + 1]>>
  BY <1>2, <1>3
<1>7. QED
  BY <1>2, <1>3, <1>4, <1>5, <1>6

\* A path that starts where the trail ends prolongs it to its own end.
LEMMA TrailExtends ==
  ASSUME trail \in Seq(IncidentStatus \X IncidentStatus), TrailIsOnePath,
         NEW path \in Seq(IncidentStatus), Len(path) > 1, path[1] = incident, LegalWalk(path),
         trail' = trail \o Hops(path), incident' = path[Len(path)]
  PROVE  TrailIsOnePath'
<1> DEFINE H == Hops(path)
<1>1. H \in Seq(IncidentStatus \X IncidentStatus)
  BY HopsType
<1>2. Len(H) = Len(path) - 1 /\ \A j \in 1 .. Len(path) - 1 : H[j] = <<path[j], path[j + 1]>>
  BY Len(path) - 1 \in Nat DEF Hops
<1>3. \A j \in 1 .. Len(path) - 1 : H[j] \in LegalTransition
  BY <1>2 DEF LegalWalk
<1>4. \A j \in 1 .. Len(path) - 2 : H[j][2] = H[j + 1][1]
  <2>1. ASSUME NEW j \in 1 .. Len(path) - 2 PROVE H[j][2] = H[j + 1][1]
    <3>1. j \in 1 .. Len(path) - 1 /\ j + 1 \in 1 .. Len(path) - 1
      OBVIOUS
    <3>2. QED
      BY <1>2, <3>1
  <2>2. QED
    BY <2>1
<1>5. H[1][1] = incident /\ H[Len(H)][2] = path[Len(path)]
  BY <1>2
<1> HIDE DEF H
<1>6. /\ trail' \in Seq(IncidentStatus \X IncidentStatus)
      /\ Len(trail') = Len(trail) + Len(H)
      /\ \A j \in 1 .. Len(trail) : trail'[j] = trail[j]
      /\ \A j \in 1 .. Len(H) : trail'[Len(trail) + j] = H[j]
  BY <1>2, HopsAppended
<1>7. Len(H) \in Nat /\ Len(H) >= 1 /\ Len(trail) \in Nat
  BY <1>1, <1>2
<1>8. \A j \in 1 .. Len(trail') :
        j \in 1 .. Len(trail) \/ \E n \in 1 .. Len(H) : j = Len(trail) + n
  BY <1>2, HopsAppended
<1>9. ASSUME NEW j \in 1 .. Len(trail')
      PROVE  trail'[j] \in LegalTransition
  <2>1. CASE j \in 1 .. Len(trail)
    BY <1>6, <2>1 DEF TrailIsOnePath
  <2>2. ASSUME NEW n \in 1 .. Len(H), j = Len(trail) + n
        PROVE  trail'[j] \in LegalTransition
    BY <1>2, <1>3, <1>6, <2>2
  <2>3. QED
    BY <1>8, <2>1, <2>2
<1>10. ASSUME NEW j \in 1 .. Len(trail') - 1
       PROVE  trail'[j][2] = trail'[j + 1][1]
  <2>1. CASE j < Len(trail)
    <3>1. j \in 1 .. Len(trail) - 1 /\ j \in 1 .. Len(trail) /\ j + 1 \in 1 .. Len(trail)
      BY <1>7, <2>1
    <3>2. QED
      BY <1>6, <3>1 DEF TrailIsOnePath
  <2>2. CASE j = Len(trail)
    <3>1. trail # <<>> /\ trail[Len(trail)][2] = incident
      BY <2>2 DEF TrailIsOnePath
    <3>2. trail'[j] = trail[Len(trail)] /\ trail'[j + 1] = H[1]
      BY <1>6, <1>7, <2>2
    <3>3. QED
      BY <1>5, <3>1, <3>2
  <2>3. CASE j > Len(trail)
    <3>1. PICK n \in 1 .. Len(H) - 1 : j = Len(trail) + n
      <4>1. j - Len(trail) \in 1 .. Len(H) - 1 /\ j = Len(trail) + (j - Len(trail))
        BY <1>6, <1>7, <2>3
      <4>2. QED
        BY <4>1
    <3>2. n \in 1 .. Len(H) /\ n + 1 \in 1 .. Len(H) /\ j + 1 = Len(trail) + (n + 1)
      BY <1>7, <3>1
    <3>3. trail'[j] = H[n] /\ trail'[j + 1] = H[n + 1]
      BY <1>6, <3>1, <3>2
    <3>4. QED
      BY <1>2, <1>4, <3>1, <3>3
  <2>4. QED
    BY <1>7, <2>1, <2>2, <2>3
<1>11. trail' # <<>> /\ incident' = trail'[Len(trail')][2]
  <2>1. trail'[Len(trail')] = H[Len(H)]
    BY <1>6, <1>7
  <2>2. Len(trail') # 0
    BY <1>6, <1>7
  <2>3. QED
    BY <1>5, <2>1, <2>2
<1>12. trail'[1][1] = "triaged"
  <2>1. CASE trail = <<>>
    <3>1. trail'[1] = H[1] /\ incident = "triaged"
      BY <1>6, <1>7, <2>1 DEF TrailIsOnePath
    <3>2. QED
      BY <1>5, <3>1
  <2>2. CASE trail # <<>>
    <3>1. 1 \in 1 .. Len(trail)
      BY <1>7, <2>2
    <3>2. QED
      BY <1>6, <2>2, <3>1 DEF TrailIsOnePath
  <2>3. QED
    BY <2>1, <2>2
<1>13. QED
  BY <1>9, <1>10, <1>11, <1>12 DEF TrailIsOnePath

\* With one command at a time, a command starts when none is under way.
LEMMA StartsAlone ==
  ASSUME MaxActive <= 1, OneAtATime, NEW p \in Proc, CanStart(p)
  PROVE  \A q \in Proc : ~Active(q)
<1> SUFFICES ASSUME NEW q \in Proc, Active(q) PROVE FALSE
  OBVIOUS
<1>1. {r \in Proc : Active(r)} = {q}
  BY DEF OneAtATime
<1>2. Cardinality({q}) = 1
  BY FS_Singleton
<1>3. QED
  BY <1>1, <1>2, BoundAssumption DEF CanStart

\* A step of the only command that records nothing: it goes on, or is over.
LEMMA SerialFrame ==
  ASSUME SerialInv, NEW p \in Proc, UNCHANGED <<incident, run, trail>>,
         \A q \in Proc \ {p} : ~Active(q) /\ UNCHANGED <<pc[q], seen[q]>>,
         run[p] = "none",
         \/ pc'[p] = "done"
         \/ /\ pc'[p] \in {"open", "load", "pass", "claim", "call"} /\ seen'[p] = incident
            /\ pc'[p] = "open" => target'[p] = p /\ incident = "triaged"
            /\ pc'[p] \in {"pass", "claim", "call"} => AboutRun(p)'
  PROVE  SerialInv'
<1>1. \A q \in Proc \ {p} : pc'[q] \in {"idle", "done"}
  BY DEF Active
<1>2. OneAtATime'
  BY <1>1 DEF OneAtATime, Active
<1>3. RunShape'
  BY DEF SerialInv, RunShape
<1>4. IncidentShape' /\ IncidentMirrorsRun' /\ TrailIsOnePath'
  BY DEF SerialInv, IncidentShape, IncidentMirrorsRun, TrailIsOnePath
<1>5. LoadShape'
  BY <1>1 DEF LoadShape, Active
<1>6. QED
  BY <1>2, <1>3, <1>4, <1>5 DEF SerialInv

\* The walk of a command that moves: its path, from the status that was loaded.
LEMMA WalkOfMove ==
  ASSUME NEW p \in Proc, seen[p] \in IncidentStatus
  PROVE  /\ Walk(p) \in Seq(IncidentStatus) /\ Len(Walk(p)) > 1 /\ Walk(p)[1] = seen[p]
         /\ Investigating(p) =>
              Walk(p)[Len(Walk(p))] = IF waiting[p] THEN "awaiting_approval" ELSE "completed"
         /\ ~Investigating(p) => Walk(p)[Len(Walk(p))] = "completed"
<1>1. Walk(p) \in Seq(IncidentStatus)
  BY WalkType
<1>2. CASE ~Investigating(p)
  <2>1. Walk(p) = <<seen[p], "executing", "completed">>
    BY <1>2 DEF Walk
  <2>2. QED
    BY <1>1, <1>2, <2>1
<1>3. CASE Investigating(p)
  <2> DEFINE four == <<seen[p], "investigating", "analyzed", "strategized">>
             tail == IF waiting[p] THEN <<"awaiting_approval">> ELSE <<"executing", "completed">>
  <2>1. four \in Seq(IncidentStatus) /\ Len(four) = 4 /\ four[1] = seen[p]
    BY DEF IncidentStatus
  <2>2. /\ tail \in Seq(IncidentStatus) /\ Len(tail) > 0
        /\ tail[Len(tail)] = IF waiting[p] THEN "awaiting_approval" ELSE "completed"
    <3>1. CASE waiting[p]
      BY <3>1 DEF IncidentStatus
    <3>2. CASE ~waiting[p]
      BY <3>2 DEF IncidentStatus
    <3>3. QED
      BY <3>1, <3>2
  <2>3. Walk(p) = four \o tail
    BY <1>3 DEF Walk
  <2> HIDE DEF four, tail
  <2>4. /\ Len(four \o tail) = 4 + Len(tail) /\ (four \o tail)[1] = four[1]
        /\ (four \o tail)[4 + Len(tail)] = tail[Len(tail)]
    <3>1. /\ Len(four \o tail) = Len(four) + Len(tail)
          /\ \A i \in 1 .. Len(four) + Len(tail) :
               (four \o tail)[i] = IF i <= Len(four) THEN four[i] ELSE tail[i - Len(four)]
      BY <2>1, <2>2, ConcatProperties
    <3>2. Len(tail) \in Nat \ {0}
      BY <2>2
    <3>3. 1 \in 1 .. 4 + Len(tail) /\ 4 + Len(tail) \in 1 .. 4 + Len(tail)
      BY <3>2
    <3>4. ~(4 + Len(tail) <= 4) /\ (4 + Len(tail)) - 4 = Len(tail)
      BY <3>2
    <3>5. (four \o tail)[1] = four[1]
      BY <2>1, <3>1, <3>3
    <3>6. (four \o tail)[4 + Len(tail)] = tail[Len(tail)]
      BY <2>1, <3>1, <3>3, <3>4
    <3>7. QED
      BY <2>1, <3>1, <3>5, <3>6
  <2>5. QED
    BY <1>1, <1>3, <2>1, <2>2, <2>3, <2>4
<1>4. QED
  BY <1>2, <1>3

\* A commit that moves the incident records its one run at the status it moves to.
LEMMA SerialMove ==
  ASSUME IInv, SerialInv, NEW p \in Proc, Commit(p), Moves(p)
  PROVE  SerialInv'
<1> USE DEF cmdVars
<1>1. /\ pc[p] = "pass" /\ LegalWalk(Walk(p)) /\ pc' = [pc EXCEPT ![p] = "done"]
      /\ incident' = Walk(p)[Len(Walk(p))]
      /\ run' = [run EXCEPT ![target[p]] = IF waiting[p] THEN "interrupted" ELSE "completed"]
      /\ trail' = trail \o Hops(Walk(p))
  BY DEF Commit, PassDone, Release
<1>2. TypeOK /\ target[p] \in Proc /\ Active(p) /\ seen[p] = incident /\ AboutRun(p)
  BY <1>1 DEF IInv, CommandShape, SerialInv, LoadShape, Active
<1>3. /\ Walk(p) \in Seq(IncidentStatus) /\ Len(Walk(p)) > 1 /\ Walk(p)[1] = incident
      /\ Investigating(p) =>
           Walk(p)[Len(Walk(p))] = IF waiting[p] THEN "awaiting_approval" ELSE "completed"
      /\ ~Investigating(p) => Walk(p)[Len(Walk(p))] = "completed"
  BY <1>2, WalkOfMove DEF TypeOK
<1>4. TrailIsOnePath'
  BY <1>1, <1>2, <1>3, TrailExtends DEF SerialInv, TypeOK
<1>5. \A q \in Proc : pc'[q] \in {"idle", "done"}
  BY <1>1, <1>2 DEF SerialInv, OneAtATime, Active, TypeOK
<1>6. OneAtATime' /\ LoadShape'
  BY <1>5 DEF OneAtATime, LoadShape, Active
<1>7. run[p] = "none"
  BY <1>1 DEF SerialInv, RunShape
<1>8. CASE Investigating(p)
  <2>1. target[p] = p /\ \A q \in Proc : run[q] = "none"
    BY <1>2, <1>7, <1>8 DEF Investigating, AboutRun, SerialInv, IncidentShape
  <2>2. /\ incident' = IF waiting[p] THEN "awaiting_approval" ELSE "completed"
        /\ run'[p] = IF waiting[p] THEN "interrupted" ELSE "completed"
        /\ \A q \in Proc \ {p} : run'[q] = "none"
    BY <1>1, <1>2, <1>3, <1>8, <2>1 DEF TypeOK
  <2>3. RunShape'
    BY <1>1, <1>2, <2>2 DEF RunShape, TypeOK
  <2>4. IncidentShape' /\ IncidentMirrorsRun'
    BY <2>2 DEF IncidentShape, IncidentMirrorsRun
  <2>5. QED
    BY <1>4, <1>6, <2>3, <2>4 DEF SerialInv
<1>9. CASE ~Investigating(p)
  <2>1. ~waiting[p] /\ ~seenCompleted[p]
    BY <1>9 DEF Moves
  <2>2. run[target[p]] # "none"
    BY <1>2, <1>9 DEF AboutRun, Investigating
  <2>3. \A q \in Proc \ {target[p]} : run[q] = "none"
    BY <1>2, <2>2 DEF SerialInv, RunShape
  <2>4. /\ incident' = "completed" /\ run'[target[p]] = "completed"
        /\ \A q \in Proc \ {target[p]} : run'[q] = "none"
    BY <1>1, <1>2, <1>3, <1>9, <2>1, <2>3 DEF TypeOK
  <2>5. RunShape'
    BY <1>1, <1>2, <2>2, <2>4 DEF SerialInv, RunShape, TypeOK
  <2>6. IncidentShape' /\ IncidentMirrorsRun'
    BY <1>2, <2>4 DEF IncidentShape, IncidentMirrorsRun
  <2>7. QED
    BY <1>4, <1>6, <2>5, <2>6 DEF SerialInv
<1>10. QED
  BY <1>8, <1>9

\* A command that takes a step is under way.
LEMMA StepIsActive ==
  ASSUME TypeOK, NEW p \in Proc, Step(p) \/ Crash(p)
  PROVE  Active(p)
<1>1. CASE DeadlockVictim(p)
  <2>1. PICK S \in SUBSET Proc : p \in S /\ Circular(S)
    BY <1>1 DEF DeadlockVictim
  <2>2. \A q \in S : WaitsFor(q) \in S
    BY <2>1 DEF Circular
  <2>3. WaitsFor(p) # NoProc
    BY <2>1, <2>2, ProcAssumption
  <2>4. QED
    BY <2>3 DEF WaitsFor, PassDone, Active
<1>2. CASE ~DeadlockVictim(p)
  BY <1>2 DEF Step, Crash, Active, OpenRun, LoadRun, NoRunToResume, Grant, Refuse,
       Claim, ResolveExisting, CallSucceeds, CallFails, CallRetries, Commit,
       IllegalTransition, PassDone
<1>3. QED
  BY <1>1, <1>2

LEMMA SerialNext ==
  ASSUME MaxActive <= 1, IInv, SerialInv, [Next]_vars
  PROVE  SerialInv'
<1> USE DEF cmdVars, dbVars
<1>1. TypeOK /\ CommandShape
  BY DEF IInv
<1>2. ASSUME NEW p \in Proc, BeginInvestigate(p) \/ BeginResume(p) PROVE SerialInv'
  <2>1. pc[p] = "idle" /\ \A q \in Proc : ~Active(q)
    BY <1>2, StartsAlone DEF SerialInv, BeginInvestigate, BeginResume, CanStart
  <2>2. run[p] = "none"
    BY <2>1 DEF SerialInv, RunShape
  <2>3. CASE BeginInvestigate(p)
    BY <1>1, <2>1, <2>2, <2>3, SerialFrame DEF BeginInvestigate, TypeOK
  <2>4. CASE BeginResume(p)
    BY <1>1, <2>1, <2>2, <2>4, SerialFrame DEF BeginResume, TypeOK
  <2>5. QED
    BY <1>2, <2>3, <2>4
<1>3. ASSUME NEW p \in Proc, Step(p) \/ Crash(p) PROVE SerialInv'
  <2>1. Active(p)
    BY <1>1, <1>3, StepIsActive
  <2>2. \A q \in Proc \ {p} : ~Active(q)
    BY <2>1 DEF SerialInv, OneAtATime
  <2>3. run[p] = "none" /\ seen[p] = incident
    BY <2>1 DEF SerialInv, RunShape, LoadShape, Active
  <2>4. CASE OpenRun(p)
    <3>1. target[p] = p /\ incident = "triaged"
      BY <2>4 DEF OpenRun, SerialInv, LoadShape
    <3>2. QED
      BY <1>1, <2>2, <2>3, <2>4, <3>1, SerialFrame DEF OpenRun, AboutRun, TypeOK
  <2>5. CASE LoadRun(p)
    <3>1. PICK r \in LatestRuns :
            /\ target' = [target EXCEPT ![p] = r]
            /\ seenCompleted' = [seenCompleted EXCEPT ![p] = run[r] = "completed"]
      BY <2>5 DEF LoadRun
    <3>2. AboutRun(p)'
      BY <1>1, <2>5, <3>1 DEF LoadRun, LatestRuns, AboutRun, TypeOK
    <3>3. QED
      BY <1>1, <2>2, <2>3, <2>5, <3>2, SerialFrame DEF LoadRun, TypeOK
  <2>6. CASE NoRunToResume(p)
    BY <1>1, <2>2, <2>3, <2>6, SerialFrame DEF NoRunToResume, TypeOK
  <2>7. CASE Grant(p) \/ Refuse(p) \/ Claim(p) \/ ResolveExisting(p) \/ CallSucceeds(p)
             \/ CallFails(p) \/ CallRetries(p)
    <3>1. /\ pc[p] \in {"pass", "claim", "call"} /\ pc'[p] \in {"pass", "claim", "call"}
          /\ \A q \in Proc \ {p} : pc'[q] = pc[q]
          /\ UNCHANGED <<incident, run, trail, seen, target, seenCompleted>>
      BY <1>1, <2>7 DEF TypeOK, Grant, Refuse, Claim, ResolveExisting, CallSucceeds, CallFails,
                        CallRetries, Settle
    <3>2. AboutRun(p)'
      BY <3>1 DEF SerialInv, LoadShape, AboutRun
    <3>3. QED
      BY <2>2, <2>3, <3>1, <3>2, SerialFrame
  <2>8. CASE Rollback(p) \/ (Commit(p) /\ ~Moves(p))
    <3>1. /\ pc'[p] = "done" /\ \A q \in Proc \ {p} : pc'[q] = pc[q]
          /\ UNCHANGED <<incident, run, trail, seen>>
      BY <1>1, <2>8 DEF TypeOK, Rollback, Commit, Release
    <3>2. QED
      BY <2>2, <2>3, <3>1, SerialFrame
  <2>9. CASE Commit(p) /\ Moves(p)
    BY <2>9, SerialMove
  <2>10. QED
    BY <1>3, <2>4, <2>5, <2>6, <2>7, <2>8, <2>9
    DEF Step, Crash, IllegalTransition, DeadlockVictim
<1>4. CASE \/ \E r \in Proc, i \in Item, v \in {"approved", "rejected"} : Decide(r, i, v)
           \/ Tick
           \/ UNCHANGED vars
  <2>1. UNCHANGED <<incident, run, trail, pc, cmdVars>>
    BY <1>4 DEF Decide, Tick, vars
  <2>2. QED
    BY <2>1 DEF SerialInv, OneAtATime, Active, RunShape, IncidentShape, LoadShape, AboutRun,
         IncidentMirrorsRun, TrailIsOnePath
<1>5. QED
  BY <1>2, <1>3, <1>4 DEF Next

\* What commands that take turns leave, at every step of each.
THEOREM SerialInductive ==
  ASSUME MaxActive <= 1
  PROVE  Spec => []SerialInv
<1>1. Init => SerialInv
  <2>1. Init => TrailIsOnePath
    BY DEF Init, TrailIsOnePath
  <2>2. Init => OneAtATime /\ RunShape /\ IncidentShape /\ LoadShape /\ IncidentMirrorsRun
    BY DEF Init, OneAtATime, Active, RunShape, IncidentShape, LoadShape, IncidentMirrorsRun
  <2>3. QED
    BY <2>1, <2>2 DEF SerialInv
<1>2. IInv /\ SerialInv /\ [Next]_vars => SerialInv'
  BY SerialNext
<1>3. QED
  BY <1>1, <1>2, Inductive, PTL DEF Spec

\* One command at a time, the audit trail of an incident is one unbroken legal path
\* from TRIAGED to its status (incidents/service.py transition_incident).
THEOREM SerialTrailIsOnePath ==
  ASSUME MaxActive <= 1
  PROVE  Spec => []TrailIsOnePath
<1>1. SerialInv => TrailIsOnePath
  BY DEF SerialInv
<1>2. QED
  BY <1>1, SerialInductive, PTL

\* One command at a time, the incident is closed exactly when its run is COMPLETED and
\* paused exactly when it is INTERRUPTED (runner.py _record_execution_outcome).
THEOREM SerialIncidentMirrorsRun ==
  ASSUME MaxActive <= 1
  PROVE  Spec => []IncidentMirrorsRun
<1>1. SerialInv => IncidentMirrorsRun
  BY DEF SerialInv
<1>2. QED
  BY <1>1, SerialInductive, PTL

-----------------------------------------------------------------------------
(* Commands that overlap. *)

\* The command is about a run of its own, or about one that is recorded.
TargetShape(p) ==
  /\ pc[p] = "open" => target[p] = p
  /\ pc[p] \in {"pass", "claim", "call"} => target[p] = p \/ run[target[p]] # "none"

(* What a command loaded the incident had come to, and a run is recorded   *)
(* by the end of the command that made it.                                 *)
AccountInv ==
  /\ StatusIsAccountedFor
  /\ \A p \in Proc :
       /\ Active(p) => seen[p] \in ReachedBy(Len(trail))
       /\ run[p] # "none" => pc[p] = "done"
       /\ TargetShape(p)

RunsStayClosed == \A r \in Proc : run[r] = "completed" => run'[r] = "completed"

\* The status on the row is one that the hops have come to.
LEMMA IncidentReached ==
  ASSUME trail \in Seq(IncidentStatus \X IncidentStatus), StatusIsAccountedFor
  PROVE  incident \in ReachedBy(Len(trail))
<1>1. CASE trail = <<>>
  BY <1>1 DEF StatusIsAccountedFor, ReachedBy
<1>2. CASE trail # <<>>
  <2>1. Len(trail) \in 1 .. Len(trail)
    BY <1>2
  <2>2. QED
    BY <1>2, <2>1 DEF StatusIsAccountedFor, ReachedBy
<1>3. QED
  BY <1>1, <1>2

(* A legal path from any status the incident had come to: what was reached *)
(* stays reached, its end is reached, and each of its hops leaves a status *)
(* that was.                                                               *)
LEMMA AccountExtends ==
  ASSUME trail \in Seq(IncidentStatus \X IncidentStatus), StatusIsAccountedFor,
         NEW path \in Seq(IncidentStatus), Len(path) > 1, path[1] \in ReachedBy(Len(trail)),
         LegalWalk(path), trail' = trail \o Hops(path)
  PROVE  /\ ReachedBy(Len(trail)) \subseteq ReachedBy(Len(trail))'
         /\ path[Len(path)] \in ReachedBy(Len(trail))'
         /\ trail' # <<>> /\ trail'[Len(trail')][2] = path[Len(path)]
         /\ \A j \in 1 .. Len(trail') :
              trail'[j] \in LegalTransition /\ trail'[j][1] \in ReachedBy(j - 1)'
<1> DEFINE L == Len(trail)
           n == Len(path) - 1
<1>1. /\ trail' \in Seq(IncidentStatus \X IncidentStatus)
      /\ L \in Nat /\ n \in Nat /\ n > 0 /\ Len(trail') = L + n
      /\ \A j \in 1 .. L : trail'[j] = trail[j]
      /\ \A j \in 1 .. n : trail'[L + j] = <<path[j], path[j + 1]>>
      /\ \A j \in 1 .. Len(trail') : j \in 1 .. L \/ \E m \in 1 .. n : j = L + m
  BY HopsAppended
<1>2. \A j \in 1 .. n : <<path[j], path[j + 1]>> \in LegalTransition
  BY DEF LegalWalk
<1>3. Len(path) = n + 1
  OBVIOUS
<1>4. path[1] \in {"triaged"} \cup {trail[m][2] : m \in 1 .. L}
  BY DEF ReachedBy
<1> HIDE DEF L, n
<1>5. ASSUME NEW j \in 1 .. Len(trail'), NEW s \in {"triaged"} \cup {trail[m][2] : m \in 1 .. L}
      PROVE  j > L => s \in ReachedBy(j - 1)'
  <2> SUFFICES ASSUME j > L, s # "triaged"
               PROVE  s \in {trail'[m][2] : m \in 1 .. j - 1}
    BY DEF ReachedBy
  <2>1. PICK m \in 1 .. L : s = trail[m][2]
    OBVIOUS
  <2>2. m \in 1 .. j - 1 /\ trail'[m] = trail[m]
    BY <1>1
  <2>3. QED
    BY <2>1, <2>2
<1>6. ASSUME NEW s \in {"triaged"} \cup {trail[m][2] : m \in 1 .. L}
      PROVE  s \in ReachedBy(Len(trail))'
  <2> SUFFICES ASSUME s # "triaged"
               PROVE  s \in {trail'[m][2] : m \in 1 .. Len(trail')}
    BY DEF ReachedBy
  <2>1. PICK m \in 1 .. L : s = trail[m][2]
    OBVIOUS
  <2>2. m \in 1 .. Len(trail') /\ trail'[m] = trail[m]
    BY <1>1
  <2>3. QED
    BY <2>1, <2>2
<1>7. ReachedBy(Len(trail)) \subseteq ReachedBy(Len(trail))'
  BY <1>6 DEF ReachedBy, L
<1>8. trail'[Len(trail')] = <<path[n], path[n + 1]>> /\ Len(trail') \in 1 .. Len(trail')
  <2>1. n \in 1 .. n /\ L + n \in 1 .. L + n
    BY <1>1
  <2>2. trail'[L + n] = <<path[n], path[n + 1]>>
    BY <1>1, <2>1
  <2>3. QED
    BY <1>1, <2>1, <2>2
<1>9. trail' # <<>> /\ trail'[Len(trail')][2] = path[Len(path)]
  BY <1>3, <1>8
<1>10. path[Len(path)] \in ReachedBy(Len(trail))'
  BY <1>8, <1>9 DEF ReachedBy
<1>11. ASSUME NEW j \in 1 .. L
       PROVE  trail'[j] \in LegalTransition /\ trail'[j][1] \in ReachedBy(j - 1)'
  <2>1. trail'[j] = trail[j] /\ \A m \in 1 .. j - 1 : trail'[m] = trail[m]
    BY <1>1
  <2>2. trail[j] \in LegalTransition /\ trail[j][1] \in ReachedBy(j - 1)
    BY DEF StatusIsAccountedFor, L
  <2>3. QED
    BY <2>1, <2>2 DEF ReachedBy
<1>12. ASSUME NEW j \in 1 .. Len(trail'), NEW m \in 1 .. n, j = L + m
       PROVE  trail'[j] \in LegalTransition /\ trail'[j][1] \in ReachedBy(j - 1)'
  <2>1. trail'[j] = <<path[m], path[m + 1]>>
    BY <1>1, <1>12
  <2>2. CASE m = 1
    <3>1. j > L
      BY <1>1, <1>12
    <3>2. path[m] \in ReachedBy(j - 1)'
      BY <1>4, <1>5, <2>2, <3>1
    <3>3. QED
      BY <1>2, <2>1, <3>2
  <2>3. CASE m # 1
    <3>1. m - 1 \in 1 .. n /\ j - 1 = L + (m - 1) /\ (m - 1) + 1 = m /\ j - 1 \in 1 .. j - 1
      BY <1>1, <1>12, <2>3
    <3>2. trail'[L + (m - 1)] = <<path[m - 1], path[m]>>
      BY <1>1, <3>1
    <3>3. trail'[j - 1][2] = path[m]
      BY <3>1, <3>2
    <3>4. path[m] \in ReachedBy(j - 1)'
      BY <3>1, <3>3 DEF ReachedBy
    <3>5. QED
      BY <1>2, <2>1, <3>4
  <2>4. QED
    BY <2>2, <2>3
<1>13. ASSUME NEW j \in 1 .. Len(trail')
       PROVE  trail'[j] \in LegalTransition /\ trail'[j][1] \in ReachedBy(j - 1)'
  <2>1. CASE j \in 1 .. L
    BY <1>11, <2>1
  <2>2. CASE \E m \in 1 .. n : j = L + m
    BY <1>12, <2>2
  <2>3. QED
    BY <1>1, <2>1, <2>2
<1>14. QED
  BY <1>7, <1>9, <1>10, <1>13

\* A step of p that records nothing: what it loads is what is there.
LEMMA AccountFrame ==
  ASSUME AccountInv, trail \in Seq(IncidentStatus \X IncidentStatus),
         UNCHANGED <<incident, run, trail>>, NEW p \in Proc, run[p] = "none",
         \A q \in Proc \ {p} : UNCHANGED <<pc[q], seen[q], target[q]>>,
         TargetShape(p)',
         pc'[p] = "done" \/ seen'[p] = incident \/ (seen'[p] = seen[p] /\ Active(p))
  PROVE  AccountInv' /\ RunsStayClosed
<1>1. StatusIsAccountedFor' /\ ReachedBy(Len(trail))' = ReachedBy(Len(trail))
  BY DEF AccountInv, StatusIsAccountedFor, ReachedBy
<1>2. ASSUME NEW q \in Proc, Active(q)'
      PROVE  seen'[q] \in ReachedBy(Len(trail))
  <2>1. CASE q = p
    BY <1>2, <2>1, IncidentReached DEF AccountInv, Active
  <2>2. CASE q # p
    BY <1>2, <2>2 DEF AccountInv, Active
  <2>3. QED
    BY <2>1, <2>2
<1>3. \A q \in Proc : run'[q] # "none" => pc'[q] = "done"
  BY DEF AccountInv
<1>4. \A q \in Proc : TargetShape(q)'
  BY DEF AccountInv, TargetShape
<1>5. QED
  BY <1>1, <1>2, <1>3, <1>4 DEF AccountInv, RunsStayClosed

\* A commit that moves the incident: it comes to be where its run is recorded to be.
LEMMA AccountMove ==
  ASSUME IInv, AccountInv, NEW p \in Proc, Commit(p), Moves(p)
  PROVE  AccountInv' /\ RunsStayClosed
<1> USE DEF cmdVars
<1>1. /\ pc[p] = "pass" /\ LegalWalk(Walk(p)) /\ pc' = [pc EXCEPT ![p] = "done"]
      /\ incident' = Walk(p)[Len(Walk(p))]
      /\ run' = [run EXCEPT ![target[p]] = IF waiting[p] THEN "interrupted" ELSE "completed"]
      /\ trail' = trail \o Hops(Walk(p)) /\ seen' = seen
  BY DEF Commit, PassDone, Release
<1>2. /\ TypeOK /\ target[p] \in Proc /\ Active(p) /\ run[p] = "none"
      /\ seen[p] \in ReachedBy(Len(trail))
  BY <1>1 DEF IInv, CommandShape, AccountInv, Active
<1>3. /\ Walk(p) \in Seq(IncidentStatus) /\ Len(Walk(p)) > 1 /\ Walk(p)[1] = seen[p]
      /\ Investigating(p) =>
           Walk(p)[Len(Walk(p))] = IF waiting[p] THEN "awaiting_approval" ELSE "completed"
      /\ ~Investigating(p) => Walk(p)[Len(Walk(p))] = "completed"
  BY <1>2, WalkOfMove DEF TypeOK
<1>4. /\ ReachedBy(Len(trail)) \subseteq ReachedBy(Len(trail))'
      /\ incident' \in ReachedBy(Len(trail))'
      /\ trail' # <<>> /\ trail'[Len(trail')][2] = incident'
      /\ \A j \in 1 .. Len(trail') :
           trail'[j] \in LegalTransition /\ trail'[j][1] \in ReachedBy(j - 1)'
  BY <1>1, <1>2, <1>3, AccountExtends DEF AccountInv, TypeOK
<1>5. ~Investigating(p) => ~waiting[p]
  BY DEF Moves
<1>6. /\ run'[target[p]] = IF waiting[p] THEN "interrupted" ELSE "completed"
      /\ incident' = IF waiting[p] THEN "awaiting_approval" ELSE "completed"
      /\ \A q \in Proc \ {target[p]} : run'[q] = run[q]
  BY <1>1, <1>2, <1>3, <1>5 DEF TypeOK
<1>7. \A r \in Proc :
        /\ run'[r] = "completed" => "completed" \in ReachedBy(Len(trail))'
        /\ run'[r] = "interrupted" => "awaiting_approval" \in ReachedBy(Len(trail))'
  BY <1>4, <1>6 DEF AccountInv, StatusIsAccountedFor
<1>8. /\ incident' = "completed" => \E r \in Proc : run'[r] = "completed"
      /\ incident' = "awaiting_approval" => \E r \in Proc : run'[r] = "interrupted"
  BY <1>2, <1>6
<1>9. StatusIsAccountedFor'
  BY <1>4, <1>7, <1>8 DEF StatusIsAccountedFor
<1>10. \A q \in Proc : Active(q)' => seen'[q] \in ReachedBy(Len(trail))'
  BY <1>1, <1>2, <1>4 DEF AccountInv, Active, TypeOK
<1>11. RunsStayClosed
  BY <1>2, <1>5, <1>6 DEF RunsStayClosed, Investigating
<1>12. ASSUME NEW q \in Proc, run'[q] # "none"
       PROVE  pc'[q] = "done"
  <2>1. CASE q = p
    BY <1>1, <1>2, <2>1 DEF TypeOK
  <2>2. CASE q # p /\ run[q] # "none"
    BY <1>1, <1>2, <2>2 DEF AccountInv, TypeOK
  <2>3. CASE q # p /\ run[q] = "none"
    <3>1. q = target[p] /\ target[p] # p
      BY <1>6, <1>12, <2>3
    <3>2. QED
      BY <1>1, <2>3, <3>1 DEF AccountInv, TargetShape
  <2>4. QED
    BY <2>1, <2>2, <2>3
<1>13. ASSUME NEW q \in Proc
       PROVE  TargetShape(q)'
  <2>1. pc'[q] = "done" \/ (pc'[q] = pc[q] /\ target'[q] = target[q])
    BY <1>1, <1>2 DEF TypeOK, Commit
  <2>2. \A r \in Proc : run[r] # "none" => run'[r] # "none"
    BY <1>6
  <2>3. pc[q] \in {"pass", "claim", "call"} => target[q] \in Proc
    BY DEF IInv, CommandShape
  <2>4. QED
    BY <2>1, <2>2, <2>3 DEF AccountInv, TargetShape
<1>14. QED
  BY <1>9, <1>10, <1>11, <1>12, <1>13 DEF AccountInv

LEMMA AccountNext ==
  ASSUME IInv, AccountInv, [Next]_vars
  PROVE  AccountInv' /\ RunsStayClosed
<1> USE DEF cmdVars, dbVars
<1>1. TypeOK /\ CommandShape /\ trail \in Seq(IncidentStatus \X IncidentStatus)
  BY DEF IInv, TypeOK
<1>2. ASSUME NEW p \in Proc, BeginInvestigate(p) \/ BeginResume(p)
      PROVE  AccountInv' /\ RunsStayClosed
  <2>1. pc[p] = "idle" /\ run[p] = "none"
    BY <1>2 DEF AccountInv, BeginInvestigate, BeginResume, CanStart
  <2>2. /\ UNCHANGED <<incident, run, trail>> /\ seen'[p] = incident
        /\ \A q \in Proc \ {p} : UNCHANGED <<pc[q], seen[q], target[q]>>
        /\ TargetShape(p)'
    BY <1>1, <1>2 DEF BeginInvestigate, BeginResume, TargetShape, TypeOK
  <2>3. QED
    BY <1>1, <2>1, <2>2, AccountFrame
<1>3. ASSUME NEW p \in Proc, Step(p) \/ Crash(p)
      PROVE  AccountInv' /\ RunsStayClosed
  <2>1. Active(p)
    BY <1>1, <1>3, StepIsActive
  <2>2. run[p] = "none" /\ TargetShape(p)
    BY <2>1 DEF AccountInv, Active
  <2>3. CASE Commit(p) /\ Moves(p)
    BY <2>3, AccountMove
  <2>4. CASE LoadRun(p)
    <3>1. PICK r \in LatestRuns : target' = [target EXCEPT ![p] = r]
      BY <2>4 DEF LoadRun
    <3>2. TargetShape(p)'
      BY <1>1, <2>4, <3>1 DEF LoadRun, LatestRuns, TargetShape, TypeOK
    <3>3. QED
      BY <1>1, <2>1, <2>2, <2>4, <3>2, AccountFrame DEF LoadRun, TypeOK
  <2>5. CASE \/ OpenRun(p) \/ NoRunToResume(p) \/ Grant(p) \/ Refuse(p) \/ Claim(p)
             \/ ResolveExisting(p) \/ CallSucceeds(p) \/ CallFails(p) \/ CallRetries(p)
             \/ Rollback(p) \/ (Commit(p) /\ ~Moves(p))
    <3>1. /\ UNCHANGED <<incident, run, trail, seen, target>>
          /\ \A q \in Proc \ {p} : UNCHANGED pc[q]
          /\ \/ pc'[p] = "done"
             \/ pc[p] = "open" /\ pc'[p] = "pass"
             \/ {pc[p], pc'[p]} \subseteq {"pass", "claim", "call"}
      BY <1>1, <2>5 DEF TypeOK, OpenRun, NoRunToResume, Grant, Refuse, Claim, ResolveExisting,
           CallSucceeds, CallFails, CallRetries, Settle, Rollback, Commit, Release
    <3>2. TargetShape(p)'
      BY <2>2, <3>1 DEF TargetShape
    <3>3. QED
      BY <1>1, <2>1, <2>2, <3>1, <3>2, AccountFrame
  <2>6. QED
    BY <1>3, <2>3, <2>4, <2>5 DEF Step, Crash, IllegalTransition, DeadlockVictim
<1>4. CASE \/ \E r \in Proc, i \in Item, v \in {"approved", "rejected"} : Decide(r, i, v)
           \/ Tick
           \/ UNCHANGED vars
  <2>1. UNCHANGED <<incident, run, trail, pc, seen, target>>
    BY <1>4 DEF Decide, Tick, vars
  <2>2. QED
    BY <2>1 DEF AccountInv, StatusIsAccountedFor, ReachedBy, Active, TargetShape,
         RunsStayClosed
<1>5. QED
  BY <1>2, <1>3, <1>4 DEF Next

\* What commands leave of the incident and its runs, however they overlap.
THEOREM AccountInductive == Spec => []AccountInv
<1>1. Init => AccountInv
  BY DEF Init, AccountInv, StatusIsAccountedFor, TargetShape, Active
<1>2. IInv /\ AccountInv /\ [Next]_vars => AccountInv'
  BY AccountNext
<1>3. QED
  BY <1>1, <1>2, Inductive, PTL DEF Spec

(* However commands overlap, an incident is at no status without a legal   *)
(* way there: no hop leaves a status it had not come to, and a closed or   *)
(* paused incident has a closed or paused run (runner.py                   *)
(* resume_investigation, incidents/service.py transition_incident).        *)
THEOREM StatusAlwaysAccountedFor == Spec => []StatusIsAccountedFor
<1>1. AccountInv => StatusIsAccountedFor
  BY DEF AccountInv
<1>2. QED
  BY <1>1, AccountInductive, PTL

(* A COMPLETED run stays so, whatever the commands that finish after it    *)
(* had read before (runner.py _record_resume_outcome).                     *)
THEOREM RunsAlwaysStayClosed == Spec => ClosedRunsStayClosed
<1>1. IInv /\ AccountInv /\ [Next]_vars =>
        [\A r \in Proc : run[r] = "completed" => run'[r] = "completed"]_vars
  BY AccountNext DEF RunsStayClosed
<1>2. QED
  BY <1>1, Inductive, AccountInductive, PTL DEF Spec, ClosedRunsStayClosed
=============================================================================
