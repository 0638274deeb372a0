-------------------------- MODULE MigrationsProofs --------------------------
(***************************************************************************)
(* Theorems about a database that goes up and down its revisions while the *)
(* program writes: no finding is lost or altered, references stay unique   *)
(* and ahead of the sequence is free, and clearing the mirror is never     *)
(* refused - for any number of proposals, whatever they record, and any    *)
(* order of commands, upgrades and downgrades.  And about its catalogue:   *)
(* it is the same at a revision whichever way the database came there, it  *)
(* matches the models at the head, and every revision finds what it needs. *)
(***************************************************************************)
EXTENDS Migrations, FiniteSetTheorems, FunctionTheorems, NatSets, TLAPS

-----------------------------------------------------------------------------
(* The rows. *)

\* A request and a record belong to a proposal that is there.
Attached == \A p \in Proposal : approval[p] # Nil \/ action[p] # Nil => intervention[p] # Nil

\* A sequence is there from the revision on that creates it.
Counted ==
  /\ counters.incident = 0 <=> rev < 2
  /\ counters.approval = 0 <=> rev < 5

\* From revision 5 on a note is what a person wrote.
NotesAreNotes == rev >= 5 => \A p \in Rows(approval) : approval[p].note # Legacy

\* FindingsSurvive at every revision, in the form the rows have there.
Carried ==
  /\ consumed = spent
  /\ \A p \in Proposal : finding[p] = IF intervention[p] = Nil THEN Nil ELSE Record(p)

RowsInv ==
  /\ TypeOK
  /\ Attached
  /\ Counted
  /\ NotesAreNotes
  /\ ApprovalRefsStayUsable
  /\ Carried

(* A step of the program on the rows of one proposal, everything else      *)
(* about the database staying as it is but for the numbers drawn.          *)
LEMMA CommandKeeps ==
  ASSUME RowsInv, NEW p \in Proposal,
         UNCHANGED <<rev, catalogue, consumed, incidents, spent>>,
         intervention' = [intervention EXCEPT ![p] = intervention'[p]],
         approval' = [approval EXCEPT ![p] = approval'[p]],
         action' = [action EXCEPT ![p] = action'[p]],
         intervention'[p] \in Intervention, intervention'[p].target = Nil <=> rev < 6,
         approval'[p] # Nil => /\ approval'[p] \in Approval
                               /\ approval'[p].requester = Nil <=> rev < 5
                               /\ approval'[p].ref = 0 <=> rev < 5
                               /\ rev >= 5 => approval'[p].note # Legacy,
         action'[p] \in Action \cup {Nil},
         counters' \in [incident : Nat, approval : Nat],
         counters'.incident = counters.incident,
         counters'.approval = 0 <=> counters.approval = 0,
         ApprovalRefsStayUsable',
         finding' = [finding EXCEPT ![p] = Record(p)']
  PROVE  RowsInv'
<1> USE DEF RowsInv
<1>1. intervention'[p] # Nil
  BY NilAssumption
<1>2. \A q \in Proposal \ {p} : /\ intervention'[q] = intervention[q]
                                /\ approval'[q] = approval[q] /\ action'[q] = action[q]
  BY DEF TypeOK
<1>3. \A q \in Proposal \ {p} : Record(q)' = Record(q)
  BY <1>2 DEF Record
<1>4. /\ intervention' \in [Proposal -> Intervention \cup {Nil}]
      /\ approval' \in [Proposal -> Approval \cup {Nil}]
      /\ action' \in [Proposal -> Action \cup {Nil}]
  BY <1>2 DEF TypeOK
<1>5. \A q \in Rows(intervention)' : intervention'[q].target = Nil <=> rev < 6
  BY <1>2 DEF TypeOK, Rows
<1>6. \A q \in Rows(approval)' : /\ approval'[q].requester = Nil <=> rev < 5
                                 /\ approval'[q].ref = 0 <=> rev < 5
  BY <1>2 DEF TypeOK, Rows
<1> DEFINE TypeButFinding ==
      /\ rev \in 0 .. HeadRev
      /\ DOMAIN catalogue = {"tables", "types"}
      /\ consumed \in Nat /\ spent \in Nat
      /\ incidents \subseteq 1 .. MaxIncidents
<1>7. TypeButFinding'
  BY DEF TypeOK
<1>8. Record(p)' \in Finding
  <2>1. /\ intervention'[p].kind \in Kind
        /\ approval'[p] # Nil => approval'[p] \in Approval
        /\ action'[p] # Nil => action'[p] \in Action
    BY DEF Intervention
  <2>2. (IF approval'[p] = Nil \/ approval'[p].note = Legacy THEN Nil ELSE approval'[p].note)
          \in {Nil, "note"}
    BY <2>1 DEF Approval
  <2>3. (IF approval'[p] = Nil THEN Nil
         ELSE IF approval'[p].note = Legacy THEN Requester
         ELSE IF approval'[p].requester = Nil THEN Unknown ELSE approval'[p].requester)
          \in {Nil, Unknown, Requester}
    BY <2>1 DEF Approval
  <2>4. (IF action'[p] = Nil THEN Nil ELSE action'[p].status)
          \in {Nil, "succeeded", "failed", "indeterminate"}
    BY <2>1 DEF Action
  <2>5. (action'[p] # Nil /\ action'[p].attested) \in BOOLEAN
    BY <2>1 DEF Action
  <2>6. QED
    BY <2>1, <2>2, <2>3, <2>4, <2>5 DEF Record, Finding
<1>9. finding' \in [Proposal -> Finding \cup {Nil}]
  BY <1>8 DEF TypeOK
<1>10. TypeOK'
  BY <1>4, <1>5, <1>6, <1>7, <1>9 DEF TypeOK
<1>11. Attached'
  BY <1>1, <1>2 DEF Attached
<1>12. Counted'
  BY DEF Counted
<1>13. NotesAreNotes'
  BY <1>2 DEF NotesAreNotes, Rows
<1>14. Carried'
  BY <1>1, <1>2, <1>3 DEF Carried, TypeOK
<1>15. QED
  BY <1>10, <1>11, <1>12, <1>13, <1>14

\* References as they are, or one more with the number that was next.
LEMMA RefsStay ==
  ASSUME TypeOK, ApprovalRefsStayUsable, NEW p \in Proposal,
         \A q \in Proposal \ {p} : approval'[q] = approval[q],
         counters' = counters, approval'[p] # Nil => approval[p] # Nil,
         approval'[p] # Nil => approval'[p].ref = approval[p].ref
  PROVE  ApprovalRefsStayUsable'
<1>1. \A q \in Rows(approval)' : q \in Rows(approval) /\ approval'[q].ref = approval[q].ref
  BY DEF Rows
<1>2. QED
  BY <1>1 DEF ApprovalRefsStayUsable

LEMMA ProposeKeeps ==
  ASSUME RowsInv, NEW p \in Proposal, NEW kind \in Kind, Propose(p, kind)
  PROVE  RowsInv'
<1>1. /\ rev = 9 /\ UNCHANGED <<rev, catalogue, action, consumed, incidents, spent>>
      /\ intervention[p] = Nil /\ action[p] = Nil /\ approval[p] = Nil
      /\ intervention' = [intervention EXCEPT ![p] = [kind |-> kind, target |-> "opportunity"]]
      /\ finding' = [finding EXCEPT ![p] = Record(p)']
  BY DEF Propose, Running, RowsInv, Attached, HeadRev
<1>2. /\ intervention \in [Proposal -> Intervention \cup {Nil}]
      /\ approval \in [Proposal -> Approval \cup {Nil}]
      /\ action \in [Proposal -> Action \cup {Nil}]
      /\ counters \in [incident : Nat, approval : Nat] /\ counters.approval # 0
  BY <1>1 DEF RowsInv, TypeOK, Counted
<1>3. /\ intervention' = [intervention EXCEPT ![p] = intervention'[p]]
      /\ intervention'[p] = [kind |-> kind, target |-> "opportunity"]
      /\ action' = [action EXCEPT ![p] = action'[p]] /\ action'[p] \in Action \cup {Nil}
  BY <1>1, <1>2
<1>4. intervention'[p] \in Intervention /\ ~(intervention'[p].target = Nil) /\ ~(rev < 6)
  BY <1>1, <1>3, NilAssumption DEF Intervention
<1>5. CASE kind = "email_draft"
  <2> DEFINE row == [approved |-> FALSE, note |-> Nil, requester |-> Requester,
                     ref |-> counters.approval]
  <2>1. /\ counters' = [counters EXCEPT !.approval = @ + 1]
        /\ approval' = [approval EXCEPT ![p] = row]
    BY <1>5 DEF Propose
  <2>2. row \in Approval /\ row.ref # 0 /\ row.requester # Nil /\ row.note # Legacy
    BY <1>2, NilAssumption DEF Approval
  <2>3. approval'[p] = row /\ approval' = [approval EXCEPT ![p] = approval'[p]]
    BY <1>2, <2>1
  <2>4. /\ counters' \in [incident : Nat, approval : Nat]
        /\ counters'.incident = counters.incident
        /\ counters'.approval = counters.approval + 1 /\ counters'.approval # 0
    BY <1>2, <2>1
  <2>5. ApprovalRefsStayUsable'
    <3>1. \A q \in Rows(approval) : approval[q].ref \in 1 .. counters.approval - 1
      BY <1>2 DEF RowsInv, ApprovalRefsStayUsable
    <3>2. \A q \in Rows(approval)' : q # p => q \in Rows(approval) /\ approval'[q] = approval[q]
      BY <1>2, <2>1 DEF Rows
    <3>3. \A q \in Rows(approval)' : approval'[q].ref \in 1 .. counters'.approval - 1
      BY <1>2, <2>3, <2>4, <3>1, <3>2
    <3>4. \A q, r \in Rows(approval)' : approval'[q].ref = approval'[r].ref => q = r
      BY <1>2, <2>3, <3>1, <3>2 DEF RowsInv, ApprovalRefsStayUsable
    <3>5. QED
      BY <3>3, <3>4 DEF ApprovalRefsStayUsable
  <2>6. approval'[p] # Nil => /\ approval'[p] \in Approval
                              /\ approval'[p].requester = Nil <=> rev < 5
                              /\ approval'[p].ref = 0 <=> rev < 5
                              /\ rev >= 5 => approval'[p].note # Legacy
    BY <1>1, <2>2, <2>3
  <2> HIDE DEF row
  <2>7. QED
    BY <1>1, <1>2, <1>3, <1>4, <2>3, <2>4, <2>5, <2>6, CommandKeeps
<1>6. CASE kind # "email_draft"
  <2>1. counters' = counters /\ approval' = approval /\ approval'[p] = Nil
    BY <1>1, <1>6 DEF Propose
  <2>2. approval' = [approval EXCEPT ![p] = approval'[p]]
    BY <1>2, <2>1
  <2>3. ApprovalRefsStayUsable'
    BY <2>1, RefsStay DEF RowsInv
  <2>4. QED
    BY <1>1, <1>2, <1>3, <1>4, <2>1, <2>2, <2>3, CommandKeeps
<1>7. QED
  BY <1>5, <1>6

LEMMA DecidedRow ==
  ASSUME NEW row \in Approval, NEW note \in {Nil, Legacy, "note"}, NEW decided,
         decided = [row EXCEPT !.approved = TRUE, !.note = note]
  PROVE  /\ decided \in Approval /\ decided.requester = row.requester
         /\ decided.ref = row.ref /\ decided.note = note
BY DEF Approval

\* A decision, of this program or of the one before revision 5.
LEMMA ApproveKeeps ==
  ASSUME RowsInv, NEW p \in Proposal, NEW note \in {Nil, "note"}, rev \in {4, 9},
         approval[p] # Nil,
         approval' = [approval EXCEPT ![p].approved = TRUE, ![p].note = note],
         UNCHANGED <<rev, catalogue, intervention, action, consumed, incidents, counters, spent>>,
         finding' = [finding EXCEPT ![p] = Record(p)']
  PROVE  RowsInv'
<1>1. /\ intervention \in [Proposal -> Intervention \cup {Nil}]
      /\ approval \in [Proposal -> Approval \cup {Nil}]
      /\ action \in [Proposal -> Action \cup {Nil}]
      /\ counters \in [incident : Nat, approval : Nat]
      /\ intervention[p] # Nil
      /\ intervention[p].target = Nil <=> rev < 6
      /\ approval[p].requester = Nil <=> rev < 5
      /\ approval[p].ref = 0 <=> rev < 5
  BY DEF RowsInv, TypeOK, Attached, Rows
<1>2. approval[p] \in Approval /\ approval'[p] = [approval[p] EXCEPT !.approved = TRUE, !.note = note]
  BY <1>1
<1>3. /\ approval'[p] \in Approval /\ approval'[p].requester = approval[p].requester
      /\ approval'[p].ref = approval[p].ref /\ approval'[p].note = note
  <2>1. note \in {Nil, Legacy, "note"}
    OBVIOUS
  <2>2. QED
    BY <1>2, <2>1, DecidedRow, Zenon
<1>4. /\ intervention' = [intervention EXCEPT ![p] = intervention'[p]]
      /\ approval' = [approval EXCEPT ![p] = approval'[p]]
      /\ action' = [action EXCEPT ![p] = action'[p]]
      /\ intervention'[p] \in Intervention /\ action'[p] \in Action \cup {Nil}
  BY <1>1
<1>5. ApprovalRefsStayUsable'
  BY <1>1, <1>3, RefsStay DEF RowsInv
<1>6. note # Legacy
  BY NilAssumption DEF Legacy
<1>7. QED
  BY <1>1, <1>3, <1>4, <1>5, <1>6, CommandKeeps

\* The executor's record of an effect, or the operator's attestation of one.
LEMMA ActionKeeps ==
  ASSUME RowsInv, NEW p \in Proposal, rev = HeadRev, intervention[p] # Nil, NEW row \in Action,
         action' = [action EXCEPT ![p] = row],
         UNCHANGED <<rev, catalogue, intervention, approval, consumed, incidents, counters, spent>>,
         finding' = [finding EXCEPT ![p] = Record(p)']
  PROVE  RowsInv'
<1>1. /\ intervention \in [Proposal -> Intervention \cup {Nil}]
      /\ approval \in [Proposal -> Approval \cup {Nil}]
      /\ action \in [Proposal -> Action \cup {Nil}]
      /\ counters \in [incident : Nat, approval : Nat]
      /\ intervention[p].target = Nil <=> rev < 6
      /\ approval[p] # Nil => /\ approval[p].requester = Nil <=> rev < 5
                              /\ approval[p].ref = 0 <=> rev < 5
                              /\ rev >= 5 => approval[p].note # Legacy
  BY DEF RowsInv, TypeOK, Rows, NotesAreNotes
<1>2. /\ intervention' = [intervention EXCEPT ![p] = intervention'[p]]
      /\ approval' = [approval EXCEPT ![p] = approval'[p]]
      /\ action' = [action EXCEPT ![p] = action'[p]] /\ action'[p] = row
      /\ intervention'[p] \in Intervention /\ approval'[p] # Nil => approval'[p] \in Approval
  BY <1>1
<1>3. ApprovalRefsStayUsable'
  BY <1>1, RefsStay DEF RowsInv
<1>4. QED
  BY <1>1, <1>2, <1>3, CommandKeeps

\* A request of the program before revision 5: no number, the requester in the note.
LEMMA LegacyRequestKeeps ==
  ASSUME RowsInv, NEW p \in Proposal, LegacyRequest(p)
  PROVE  RowsInv'
<1> DEFINE row == [approved |-> FALSE, note |-> Legacy, requester |-> Nil, ref |-> 0]
<1>1. /\ rev = 4 /\ UNCHANGED <<rev, catalogue, action, consumed, incidents, counters, spent>>
      /\ intervention[p] = Nil /\ action[p] = Nil
      /\ intervention' = [intervention EXCEPT ![p] = [kind |-> "email_draft", target |-> Nil]]
      /\ approval' = [approval EXCEPT ![p] = row]
      /\ finding' = [finding EXCEPT ![p] = Record(p)']
  BY DEF LegacyRequest, RowsInv, Attached
<1>2. /\ intervention \in [Proposal -> Intervention \cup {Nil}]
      /\ approval \in [Proposal -> Approval \cup {Nil}]
      /\ action \in [Proposal -> Action \cup {Nil}]
      /\ counters \in [incident : Nat, approval : Nat] /\ counters.approval = 0
  BY <1>1 DEF RowsInv, TypeOK, Counted
<1>3. row \in Approval /\ row.requester = Nil /\ row.ref = 0
  BY DEF Approval
<1>4. /\ approval'[p] = row /\ approval' = [approval EXCEPT ![p] = approval'[p]]
      /\ intervention' = [intervention EXCEPT ![p] = intervention'[p]]
      /\ intervention'[p] \in Intervention /\ intervention'[p].target = Nil
      /\ action' = [action EXCEPT ![p] = action'[p]] /\ action'[p] \in Action \cup {Nil}
  BY <1>1, <1>2 DEF Intervention, Kind
<1>5. ApprovalRefsStayUsable'
  BY <1>1, <1>2 DEF ApprovalRefsStayUsable
<1>6. /\ approval'[p] # Nil => /\ approval'[p] \in Approval
                               /\ approval'[p].requester = Nil <=> rev < 5
                               /\ approval'[p].ref = 0 <=> rev < 5
                               /\ rev >= 5 => approval'[p].note # Legacy
      /\ intervention'[p].target = Nil <=> rev < 6
      /\ counters' \in [incident : Nat, approval : Nat] /\ counters'.incident = counters.incident
      /\ counters'.approval = 0 <=> counters.approval = 0
  BY <1>1, <1>2, <1>3, <1>4
<1> HIDE DEF row
<1>7. QED
  BY <1>1, <1>2, <1>4, <1>5, <1>6, CommandKeeps

LEMMA OpenIncidentKeeps ==
  ASSUME RowsInv, OpenIncident
  PROVE  RowsInv'
<1>1. /\ rev = 9 /\ counters.incident <= MaxIncidents
      /\ incidents' = incidents \cup {counters.incident}
      /\ counters' = [counters EXCEPT !.incident = @ + 1]
      /\ UNCHANGED <<rev, catalogue, intervention, approval, action, consumed, history>>
  BY DEF OpenIncident, Running, HeadRev
<1>2. counters \in [incident : Nat, approval : Nat] /\ counters.incident # 0
  BY <1>1 DEF RowsInv, TypeOK, Counted
<1>3. /\ counters' \in [incident : Nat, approval : Nat] /\ counters'.incident # 0
      /\ counters'.approval = counters.approval
  BY <1>1, <1>2
<1>4. incidents' \subseteq 1 .. MaxIncidents
  BY <1>1, <1>2, BoundsAssumption DEF RowsInv, TypeOK
<1>5. TypeOK'
  BY <1>1, <1>3, <1>4 DEF RowsInv, TypeOK, history, Rows
<1>6. Attached' /\ Counted' /\ NotesAreNotes'
  BY <1>1, <1>3 DEF RowsInv, Attached, Counted, NotesAreNotes, Rows
<1>7. ApprovalRefsStayUsable'
  BY <1>1, <1>3 DEF RowsInv, ApprovalRefsStayUsable, Rows
<1>8. Carried'
  BY <1>1 DEF RowsInv, Carried, Record, history
<1>9. QED
  BY <1>5, <1>6, <1>7, <1>8 DEF RowsInv

LEMMA SpendKeeps ==
  ASSUME RowsInv, NEW amount \in Charge, Spend(amount)
  PROVE  RowsInv'
<1>1. /\ amount \in Nat /\ consumed' = consumed + amount /\ spent' = spent + amount
      /\ UNCHANGED <<rev, catalogue, intervention, approval, action, incidents, counters, finding>>
  BY BoundsAssumption DEF Spend, Running
<1>2. TypeOK'
  BY <1>1 DEF RowsInv, TypeOK, Rows
<1>3. Attached' /\ Counted' /\ NotesAreNotes' /\ ApprovalRefsStayUsable'
  BY <1>1 DEF RowsInv, Attached, Counted, NotesAreNotes, ApprovalRefsStayUsable, Rows
<1>4. Carried'
  BY <1>1 DEF RowsInv, Carried, Record
<1>5. QED
  BY <1>2, <1>3, <1>4 DEF RowsInv

\* No rows are left, and what was found in them is forgotten with them.
LEMMA NoRowsKeep ==
  ASSUME RowsInv, intervention' = NoRows, approval' = NoRows, action' = NoRows,
         finding' = NoRows, incidents' = {}, rev' \in 0 .. HeadRev,
         DOMAIN catalogue' = {"tables", "types"}, consumed' \in Nat, consumed' = spent',
         counters' = counters, rev' < 2 <=> rev < 2, rev' < 5 <=> rev < 5
  PROVE  RowsInv'
<1>1. \A p \in Proposal : NoRows[p] = Nil
  BY DEF NoRows
<1>2. NoRows \in [Proposal -> Intervention \cup {Nil}]
  BY DEF NoRows
<1>3. NoRows \in [Proposal -> Approval \cup {Nil}]
  BY DEF NoRows
<1>4. NoRows \in [Proposal -> Action \cup {Nil}]
  BY DEF NoRows
<1>5. NoRows \in [Proposal -> Finding \cup {Nil}]
  BY DEF NoRows
<1> HIDE DEF NoRows
<1>6. Rows(intervention)' = {} /\ Rows(approval)' = {}
  BY <1>1 DEF Rows
<1>7. TypeOK'
  BY <1>2, <1>3, <1>4, <1>5, <1>6 DEF RowsInv, TypeOK
<1>8. Attached' /\ Counted' /\ NotesAreNotes' /\ ApprovalRefsStayUsable'
  BY <1>1, <1>6 DEF RowsInv, Attached, Counted, NotesAreNotes, ApprovalRefsStayUsable
<1>9. Carried'
  BY <1>1 DEF Carried
<1>10. QED
  BY <1>7, <1>8, <1>9 DEF RowsInv

-----------------------------------------------------------------------------
(* The revisions. *)

(* A revision keeps the rows it finds and what they say, whatever it does  *)
(* to the form in which they say it.                                       *)
LEMMA RevisionKeeps ==
  ASSUME RowsInv, rev' \in 0 .. HeadRev, DOMAIN catalogue' = {"tables", "types"},
         UNCHANGED <<consumed, incidents, finding, spent>>,
         counters' \in [incident : Nat, approval : Nat], Counted',
         intervention' \in [Proposal -> Intervention \cup {Nil}],
         approval' \in [Proposal -> Approval \cup {Nil}],
         action' \in [Proposal -> Action \cup {Nil}],
         \A p \in Proposal :
           /\ intervention'[p] = Nil <=> intervention[p] = Nil
           /\ approval'[p] = Nil <=> approval[p] = Nil
           /\ action'[p] = Nil <=> action[p] = Nil,
         \A p \in Rows(intervention) : /\ intervention'[p].kind = intervention[p].kind
                                       /\ intervention'[p].target = Nil <=> rev' < 6,
         \A p \in Rows(approval) : /\ approval'[p].requester = Nil <=> rev' < 5
                                   /\ approval'[p].ref = 0 <=> rev' < 5,
         \A p \in Rows(action) : /\ action'[p].status = action[p].status
                                 /\ action'[p].attested = action[p].attested,
         \A p \in Rows(approval) : Record(p)'.note = Record(p).note
                                   /\ Record(p)'.requester = Record(p).requester,
         NotesAreNotes', ApprovalRefsStayUsable'
  PROVE  RowsInv'
<1>1. /\ Rows(intervention)' = Rows(intervention) /\ Rows(approval)' = Rows(approval)
      /\ Rows(action)' = Rows(action)
  BY DEF Rows
<1>2. TypeOK'
  BY <1>1 DEF RowsInv, TypeOK
<1>3. Attached'
  BY DEF RowsInv, Attached
<1>4. Carried'
  <2>1. ASSUME NEW p \in Proposal, intervention[p] # Nil
        PROVE  Record(p)' = Record(p)
    <3>1. Record(p)'.kind = Record(p).kind
      BY <2>1 DEF Record, Rows
    <3>2. Record(p)'.note = Record(p).note /\ Record(p)'.requester = Record(p).requester
      <4>1. CASE approval[p] = Nil
        BY <4>1 DEF Record
      <4>2. CASE approval[p] # Nil
        BY <4>2 DEF Rows
      <4>3. QED
        BY <4>1, <4>2
    <3>3. Record(p)'.status = Record(p).status
      BY DEF Record, Rows
    <3>4. Record(p)'.attested = Record(p).attested
      BY DEF Record, Rows
    <3>5. QED
      BY <3>1, <3>2, <3>3, <3>4 DEF Record
  <2>2. QED
    BY <2>1 DEF RowsInv, Carried
<1>5. QED
  BY <1>2, <1>3, <1>4 DEF RowsInv

\* A revision that changes the catalogue alone.
LEMMA CatalogueOnly ==
  ASSUME RowsInv, rev' \in 0 .. HeadRev, DOMAIN catalogue' = {"tables", "types"},
         UNCHANGED <<intervention, approval, action, consumed, incidents, finding, spent>>,
         counters' \in [incident : Nat, approval : Nat], counters'.approval = counters.approval,
         counters'.incident = 0 <=> rev' < 2,
         rev' < 5 <=> rev < 5, rev' < 6 <=> rev < 6
  PROVE  RowsInv'
<1>1. TypeOK'
  BY DEF RowsInv, TypeOK, Rows
<1>2. Attached' /\ Counted' /\ NotesAreNotes' /\ ApprovalRefsStayUsable'
  BY DEF RowsInv, TypeOK, Attached, Counted, NotesAreNotes, ApprovalRefsStayUsable, Rows
<1>3. Carried'
  BY DEF RowsInv, Carried, Record
<1>4. QED
  BY <1>1, <1>2, <1>3 DEF RowsInv

\* A catalogue has tables and types after every revision.
LEMMA CatalogueShape ==
  ASSUME DOMAIN catalogue = {"tables", "types"}, Upgrade \/ Downgrade
  PROVE  DOMAIN catalogue' = {"tables", "types"}
<1>1. CASE Upgrade
  <2>1. CASE Up0001 \/ Up0002 \/ Up0003 \/ Up0007 \/ Up0008
    BY <2>1 DEF Up0001, Up0002, Up0003, Up0007, Up0008
  <2>2. CASE Up0004 \/ Up0005 \/ Up0006 \/ Up0009
    BY <2>2 DEF Up0004, Up0005, Up0006, Up0009
  <2>3. QED
    BY <1>1, <2>1, <2>2 DEF Upgrade
<1>2. CASE Downgrade
  <2>1. CASE Down0009 \/ Down0008 \/ Down0007 \/ Down0003 \/ Down0002 \/ Down0001
    BY <2>1 DEF Down0009, Down0008, Down0007, Down0003, Down0002, Down0001
  <2>2. CASE Down0006 \/ Down0005 \/ Down0004
    BY <2>2 DEF Down0006, Down0005, Down0004
  <2>3. QED
    BY <1>2, <2>1, <2>2 DEF Downgrade
<1>3. QED
  BY <1>1, <1>2

\* What a table or a column is added to keeps its rows; 0002 creates the sequence.
LEMMA CatalogueRevisions ==
  ASSUME RowsInv,
         \/ Upgrade /\ (Up0001 \/ Up0002 \/ Up0003 \/ Up0004 \/ Up0007 \/ Up0008 \/ Up0009)
         \/ Downgrade /\ (Down0008 \/ Down0004 \/ Down0003 \/ Down0002)
  PROVE  RowsInv'
<1>1. DOMAIN catalogue' = {"tables", "types"}
  BY CatalogueShape DEF RowsInv, TypeOK
<1>2. counters \in [incident : Nat, approval : Nat] /\ (counters.incident = 0 <=> rev < 2)
  BY DEF RowsInv, TypeOK, Counted
<1>3. CASE Upgrade /\ (Up0001 \/ Up0003 \/ Up0004 \/ Up0007 \/ Up0008 \/ Up0009)
  <2>1. rev \in {0, 2, 3, 6, 7, 8} /\ rev' = rev + 1 /\ UNCHANGED <<rowVars, history>>
    BY <1>3 DEF Upgrade, Up0001, Up0003, Up0004, Up0007, Up0008, Up0009
  <2>2. QED
    BY <1>1, <1>2, <2>1, CatalogueOnly DEF rowVars, history, HeadRev
<1>4. CASE Upgrade /\ Up0002
  <2>1. /\ rev = 1 /\ rev' = rev + 1 /\ counters' = [counters EXCEPT !.incident = 1]
        /\ UNCHANGED <<intervention, approval, action, consumed, incidents, history>>
    BY <1>4 DEF Upgrade, Up0002
  <2>2. /\ counters' \in [incident : Nat, approval : Nat] /\ counters'.incident = 1
        /\ counters'.approval = counters.approval
    BY <1>2, <2>1
  <2>3. QED
    BY <1>1, <2>1, <2>2, CatalogueOnly DEF history, HeadRev
<1>5. CASE Downgrade /\ (Down0008 \/ Down0004 \/ Down0003)
  <2>1. rev \in {8, 4, 3} /\ rev' = rev - 1 /\ UNCHANGED <<rowVars, history>>
    BY <1>5 DEF Downgrade, Down0008, Down0004, Down0003, history
  <2>2. QED
    BY <1>1, <1>2, <2>1, CatalogueOnly DEF rowVars, history, HeadRev
<1>6. CASE Downgrade /\ Down0002
  <2>1. /\ rev = 2 /\ rev' = rev - 1 /\ counters' = [counters EXCEPT !.incident = 0]
        /\ UNCHANGED <<intervention, approval, action, consumed, incidents, history>>
    BY <1>6 DEF Downgrade, Down0002, history
  <2>2. /\ counters' \in [incident : Nat, approval : Nat] /\ counters'.incident = 0
        /\ counters'.approval = counters.approval
    BY <1>2, <2>1
  <2>3. QED
    BY <1>1, <2>1, <2>2, CatalogueOnly DEF history, HeadRev
<1>7. QED
  BY <1>3, <1>4, <1>5, <1>6

\* Up0005 numbers the requests and takes the requester out of the note.
LEMMA Up0005Keeps ==
  ASSUME RowsInv, Upgrade, Up0005
  PROVE  RowsInv'
<1>1. /\ rev = 4 /\ rev' = 5 /\ DOMAIN catalogue' = {"tables", "types"}
      /\ counters' = [counters EXCEPT !.approval = NextApproval]
      /\ UNCHANGED <<intervention, action, consumed, incidents, finding, spent>>
  <2>1. DOMAIN catalogue' = {"tables", "types"}
    BY CatalogueShape DEF RowsInv, TypeOK
  <2>2. rev = 4 /\ rev' = 5 /\ UNCHANGED <<finding, spent>>
    <3>1. rev = 4
      BY DEF Up0005
    <3>2. QED
      BY <3>1 DEF Upgrade, history
  <2>3. /\ counters' = [counters EXCEPT !.approval = NextApproval]
        /\ UNCHANGED <<intervention, action, consumed, incidents>>
    BY DEF Up0005
  <2>4. QED
    BY <2>1, <2>2, <2>3
<1>2. PICK number \in [Rows(approval) -> 1 .. Cardinality(Rows(approval))] :
        /\ \A p, q \in Rows(approval) : p # q => number[p] # number[q]
        /\ approval' = [p \in Proposal |-> IF approval[p] = Nil THEN Nil ELSE
             [approval[p] EXCEPT !.requester = Recovered(approval[p]), !.ref = number[p],
                                 !.note = IF @ = Legacy THEN Nil ELSE @]]
  BY DEF Up0005
<1>3. Cardinality(Rows(approval)) \in Nat
  <2>1. Rows(approval) \subseteq Proposal
    BY DEF Rows
  <2>2. QED
    BY <2>1, ProposalAssumption, FS_Subset, FS_CardinalityType
<1> DEFINE C == Cardinality(Rows(approval))
<1>4. \A p \in Rows(approval) : number[p] \in 1 .. C /\ number[p] \in Nat \ {0}
  BY <1>3
<1>5. \A p, q \in Rows(approval) : number[p] = number[q] => p = q
  BY <1>2
<1>6. /\ counters' \in [incident : Nat, approval : Nat]
      /\ counters'.approval = C + 1
      /\ counters'.incident = counters.incident
  BY <1>1, <1>3 DEF NextApproval, RowsInv, TypeOK
<1>7. ASSUME NEW p \in Rows(approval)
      PROVE  /\ approval'[p] \in Approval
             /\ approval'[p].requester = IF approval[p].note = Legacy THEN Requester ELSE Unknown
             /\ approval'[p].note = IF approval[p].note = Legacy THEN Nil ELSE approval[p].note
             /\ approval'[p].ref = number[p]
  <2>1. approval[p] \in Approval /\ p \in Proposal /\ number[p] \in Nat
    <3>1. p \in Proposal /\ approval[p] # Nil
      BY <1>7 DEF Rows
    <3>2. QED
      BY <1>4, <1>7, <3>1 DEF RowsInv, TypeOK
  <2>2. approval'[p] = [approval[p] EXCEPT !.requester = Recovered(approval[p]), !.ref = number[p],
                          !.note = IF @ = Legacy THEN Nil ELSE @]
    BY <1>2, <1>7 DEF Rows
  <2>3. QED
    BY <2>1, <2>2 DEF Approval, Recovered
<1>8. \A p \in Proposal : approval[p] = Nil => approval'[p] = Nil
  BY <1>2
<1>9. /\ approval' \in [Proposal -> Approval \cup {Nil}]
      /\ \A p \in Proposal : approval'[p] = Nil <=> approval[p] = Nil
  <2>1. \A p \in Proposal : approval[p] # Nil => approval'[p] \in Approval /\ approval'[p] # Nil
    BY <1>7, NilAssumption DEF Rows
  <2>2. approval' = [p \in Proposal |-> approval'[p]]
    BY <1>2
  <2>3. QED
    BY <1>8, <2>1, <2>2
<1>10. Rows(approval)' = Rows(approval)
  BY <1>9 DEF Rows
<1>11. NotesAreNotes'
  BY <1>7, <1>10, NilAssumption DEF NotesAreNotes
<1>12. ApprovalRefsStayUsable'
  <2>1. \A p \in Rows(approval) : approval'[p].ref = number[p] /\ number[p] \in 1 .. counters'.approval - 1
    <3>1. counters'.approval - 1 = C
      BY <1>3, <1>6
    <3>2. QED
      BY <1>4, <1>7, <3>1
  <2>2. QED
    BY <1>5, <1>10, <2>1 DEF ApprovalRefsStayUsable
<1>13. \A p \in Rows(approval) : Record(p)'.note = Record(p).note
                                 /\ Record(p)'.requester = Record(p).requester
  <2>1. ASSUME NEW p \in Rows(approval)
        PROVE  /\ Record(p)'.note = Record(p).note
               /\ Record(p)'.requester = Record(p).requester
    <3>1. approval[p] # Nil /\ approval'[p] # Nil /\ approval[p].requester = Nil
      BY <1>1, <1>10 DEF Rows, RowsInv, TypeOK
    <3>2. approval'[p].note # Legacy /\ approval'[p].requester # Nil
      BY <1>7, NilAssumption
    <3>3. QED
      BY <1>7, <3>1, <3>2 DEF Record
  <2>2. QED
    BY <2>1
<1>14. Counted'
  BY <1>1, <1>3, <1>6 DEF RowsInv, Counted
<1>15. \A p \in Rows(approval) : /\ approval'[p].requester = Nil <=> rev' < 5
                                 /\ approval'[p].ref = 0 <=> rev' < 5
  BY <1>1, <1>4, <1>7, NilAssumption
<1>16. QED
  BY <1>1, <1>6, <1>9, <1>11, <1>12, <1>13, <1>14, <1>15, RevisionKeeps
  DEF RowsInv, TypeOK, HeadRev, Rows

\* Up0006 and Down0006 write the target column, the second forgets the authorisation.
LEMMA TargetKeeps ==
  ASSUME RowsInv, \/ Upgrade /\ Up0006
                  \/ Downgrade /\ Down0006
  PROVE  RowsInv'
<1>1. \E target \in {Nil, NoTarget} :
        /\ target = Nil <=> rev' < 6
        /\ rev' \in {5, 6} /\ rev \in {5, 6}
        /\ UNCHANGED <<approval, consumed, incidents, counters, finding, spent>>
        /\ intervention' = [p \in Proposal |-> IF intervention[p] = Nil THEN Nil
                              ELSE [intervention[p] EXCEPT !.target = target]]
        /\ \/ action' = action
           \/ action' = [p \in Proposal |-> IF action[p] = Nil THEN Nil
                           ELSE [action[p] EXCEPT !.approval = Nil]]
  <2>1. CASE Upgrade /\ Up0006
    <3>1. rev = 5 /\ action' = action /\ UNCHANGED <<approval, consumed, incidents, counters>>
      BY <2>1 DEF Up0006
    <3>2. rev' = 6 /\ UNCHANGED <<finding, spent>>
      BY <2>1, <3>1 DEF Upgrade, history
    <3>3. intervention' = [p \in Proposal |-> IF intervention[p] = Nil THEN Nil
                             ELSE [intervention[p] EXCEPT !.target = NoTarget]]
      BY <2>1 DEF Up0006
    <3>4. NoTarget # Nil
      BY NilAssumption
    <3>5. QED
      BY <3>1, <3>2, <3>3, <3>4
  <2>2. CASE Downgrade /\ Down0006
    <3>1. rev = 6 /\ UNCHANGED <<approval, consumed, incidents, counters>>
      BY <2>2 DEF Down0006
    <3>2. rev' = 5 /\ UNCHANGED <<finding, spent>>
      BY <2>2, <3>1 DEF Downgrade
    <3>3. /\ intervention' = [p \in Proposal |-> IF intervention[p] = Nil THEN Nil
                                ELSE [intervention[p] EXCEPT !.target = Nil]]
          /\ action' = [p \in Proposal |-> IF action[p] = Nil THEN Nil
                          ELSE [action[p] EXCEPT !.approval = Nil]]
      BY <2>2 DEF Down0006
    <3>4. QED
      BY <3>1, <3>2, <3>3
  <2>3. QED
    BY <2>1, <2>2
<1>2. PICK target \in {Nil, NoTarget} :
        /\ target = Nil <=> rev' < 6
        /\ rev' \in {5, 6} /\ rev \in {5, 6}
        /\ UNCHANGED <<approval, consumed, incidents, counters, finding, spent>>
        /\ intervention' = [p \in Proposal |-> IF intervention[p] = Nil THEN Nil
                              ELSE [intervention[p] EXCEPT !.target = target]]
        /\ \/ action' = action
           \/ action' = [p \in Proposal |-> IF action[p] = Nil THEN Nil
                           ELSE [action[p] EXCEPT !.approval = Nil]]
  BY <1>1
<1>3. DOMAIN catalogue' = {"tables", "types"}
  BY CatalogueShape DEF RowsInv, TypeOK
<1>4. /\ intervention \in [Proposal -> Intervention \cup {Nil}]
      /\ approval \in [Proposal -> Approval \cup {Nil}]
      /\ action \in [Proposal -> Action \cup {Nil}]
      /\ counters \in [incident : Nat, approval : Nat]
      /\ \A p \in Rows(approval) : /\ approval[p].requester = Nil <=> rev < 5
                                   /\ approval[p].ref = 0 <=> rev < 5
  BY DEF RowsInv, TypeOK
<1>5. ASSUME NEW p \in Proposal, intervention[p] # Nil
      PROVE  /\ intervention'[p] \in Intervention /\ intervention'[p] # Nil
             /\ intervention'[p].kind = intervention[p].kind /\ intervention'[p].target = target
  <2>1. intervention[p] \in Intervention
    BY <1>4, <1>5
  <2>2. intervention'[p] = [intervention[p] EXCEPT !.target = target]
    BY <1>2, <1>5
  <2>3. QED
    BY <2>1, <2>2, NilAssumption DEF Intervention
<1>6. ASSUME NEW p \in Proposal, action[p] # Nil
      PROVE  /\ action'[p] \in Action /\ action'[p] # Nil
             /\ action'[p].status = action[p].status /\ action'[p].attested = action[p].attested
  <2>1. action[p] \in Action
    BY <1>4, <1>6
  <2>2. action'[p] = action[p] \/ action'[p] = [action[p] EXCEPT !.approval = Nil]
    BY <1>2, <1>6
  <2>3. QED
    BY <2>1, <2>2, NilAssumption DEF Action
<1>7. /\ intervention' \in [Proposal -> Intervention \cup {Nil}]
      /\ \A p \in Proposal : intervention'[p] = Nil <=> intervention[p] = Nil
  <2>1. \A p \in Proposal : intervention[p] = Nil => intervention'[p] = Nil
    BY <1>2
  <2>2. intervention' = [p \in Proposal |-> intervention'[p]]
    BY <1>2
  <2>3. QED
    BY <1>5, <2>1, <2>2
<1>8. /\ action' \in [Proposal -> Action \cup {Nil}]
      /\ \A p \in Proposal : action'[p] = Nil <=> action[p] = Nil
  <2>1. \A p \in Proposal : action[p] = Nil => action'[p] = Nil
    BY <1>2
  <2>2. action' = [p \in Proposal |-> action'[p]]
    BY <1>2, <1>4
  <2>3. QED
    BY <1>6, <2>1, <2>2
<1>9. /\ Counted' /\ NotesAreNotes' /\ ApprovalRefsStayUsable'
  BY <1>2 DEF RowsInv, Counted, NotesAreNotes, ApprovalRefsStayUsable, Rows
<1>10. \A p \in Rows(approval) : Record(p)'.note = Record(p).note
                                 /\ Record(p)'.requester = Record(p).requester
  BY <1>2 DEF Record
<1>11. \A p \in Rows(intervention) : /\ intervention'[p].kind = intervention[p].kind
                                     /\ intervention'[p].target = Nil <=> rev' < 6
  BY <1>2, <1>5 DEF Rows
<1>12. \A p \in Rows(action) : /\ action'[p].status = action[p].status
                               /\ action'[p].attested = action[p].attested
  BY <1>6 DEF Rows
<1>13. \A p \in Rows(approval) : /\ approval'[p].requester = Nil <=> rev' < 5
                                 /\ approval'[p].ref = 0 <=> rev' < 5
  BY <1>2, <1>4
<1>14. rev' \in 0 .. HeadRev /\ approval' = approval /\ counters' = counters
  BY <1>2 DEF HeadRev
<1>15. UNCHANGED <<consumed, incidents, finding, spent>>
  BY <1>2
<1>16. QED
  BY <1>3, <1>4, <1>7, <1>8, <1>9, <1>10, <1>11, <1>12, <1>13, <1>14, <1>15, RevisionKeeps

\* Down0005 puts the requester back where the earlier program kept it.
LEMMA Down0005Keeps ==
  ASSUME RowsInv, Downgrade, Down0005
  PROVE  RowsInv'
<1>1. /\ rev = 5 /\ rev' = 4 /\ DOMAIN catalogue' = {"tables", "types"}
      /\ UNCHANGED <<intervention, action, consumed, incidents, finding, spent>>
  <2>1. rev = 5 /\ UNCHANGED <<intervention, action, consumed, incidents>>
    BY DEF Down0005
  <2>2. rev' = 4 /\ UNCHANGED <<finding, spent>>
    BY <2>1 DEF Downgrade
  <2>3. QED
    BY <2>1, <2>2, CatalogueShape DEF RowsInv, TypeOK
<1>2. ~Conflicting /\ counters' = [counters EXCEPT !.approval = 0]
  BY DEF Down0005
<1>3. approval' = [p \in Proposal |-> IF approval[p] = Nil THEN Nil ELSE
       [approval[p] EXCEPT !.note = IF approval[p].requester # Unknown THEN Legacy ELSE @,
                           !.requester = Nil, !.ref = 0]]
  BY DEF Down0005
<1>4. /\ approval \in [Proposal -> Approval \cup {Nil}]
      /\ counters \in [incident : Nat, approval : Nat]
  BY DEF RowsInv, TypeOK
<1>5. ASSUME NEW p \in Rows(approval)
      PROVE  /\ approval[p] \in Approval /\ approval[p].requester \in {Unknown, Requester}
             /\ approval[p].note # Legacy
             /\ approval[p].note # Nil => approval[p].requester = Unknown
  <2>1. approval[p] \in Approval /\ approval[p].requester # Nil
    BY <1>1, <1>4 DEF Rows, RowsInv, TypeOK
  <2>2. QED
    BY <1>1, <1>2, <2>1 DEF Approval, Conflicting, RowsInv, NotesAreNotes
<1>6. ASSUME NEW p \in Rows(approval)
      PROVE  /\ approval'[p] \in Approval /\ approval'[p].requester = Nil /\ approval'[p].ref = 0
             /\ approval'[p].note = IF approval[p].requester # Unknown THEN Legacy
                                    ELSE approval[p].note
  <2>1. p \in Proposal /\ approval[p] # Nil
    BY DEF Rows
  <2>2. approval'[p] = [approval[p] EXCEPT
          !.note = IF approval[p].requester # Unknown THEN Legacy ELSE @,
          !.requester = Nil, !.ref = 0]
    BY <1>3, <2>1
  <2> DEFINE note == IF approval[p].requester # Unknown THEN Legacy ELSE approval[p].note
  <2>3. note \in {Nil, Legacy, "note"}
    BY <1>5 DEF Approval
  <2>4. approval'[p] = [approval[p] EXCEPT !.note = note, !.requester = Nil, !.ref = 0]
    BY <2>2
  <2> HIDE DEF note
  <2>5. approval[p] \in Approval
    BY <1>5
  <2>6. /\ approval'[p] \in Approval /\ approval'[p].requester = Nil /\ approval'[p].ref = 0
        /\ approval'[p].note = note
    <3> DEFINE row == approval[p]
               restored == approval'[p]
    <3> HIDE DEF row, restored
    <3>1. /\ row \in Approval /\ restored = [row EXCEPT !.note = note, !.requester = Nil, !.ref = 0]
      BY <2>4, <2>5 DEF row, restored
    <3>2. /\ restored \in Approval /\ restored.requester = Nil
          /\ restored.ref = 0 /\ restored.note = note
      BY <2>3, <3>1 DEF Approval
    <3>3. QED
      BY <3>2 DEF restored
  <2>7. QED
    BY <2>6 DEF note
<1>7. /\ approval' \in [Proposal -> Approval \cup {Nil}]
      /\ \A p \in Proposal : approval'[p] = Nil <=> approval[p] = Nil
  <2>1. \A p \in Proposal : approval[p] = Nil => approval'[p] = Nil
    BY <1>3
  <2>2. \A p \in Proposal : approval[p] # Nil => approval'[p] \in Approval /\ approval'[p] # Nil
    BY <1>6, NilAssumption DEF Rows
  <2>3. approval' = [p \in Proposal |-> approval'[p]]
    BY <1>3
  <2>4. QED
    BY <2>1, <2>2, <2>3
<1>8. /\ counters' \in [incident : Nat, approval : Nat] /\ counters'.approval = 0
      /\ counters'.incident = counters.incident
  BY <1>2, <1>4
<1>9. Counted' /\ NotesAreNotes' /\ ApprovalRefsStayUsable'
  BY <1>1, <1>8 DEF RowsInv, Counted, NotesAreNotes, ApprovalRefsStayUsable
<1>10. \A p \in Rows(approval) : Record(p)'.note = Record(p).note
                                 /\ Record(p)'.requester = Record(p).requester
  <2>1. ASSUME NEW p \in Rows(approval)
        PROVE  /\ Record(p)'.note = Record(p).note
               /\ Record(p)'.requester = Record(p).requester
    <3>1. approval[p] # Nil /\ approval'[p] # Nil
      BY <1>7 DEF Rows
    <3>2. Unknown # Nil /\ Requester # Nil /\ Unknown # Requester
      BY NilAssumption DEF Unknown, Requester
    <3>3. QED
      BY <1>5, <1>6, <3>1, <3>2 DEF Record
  <2>2. QED
    BY <2>1
<1>11. \A p \in Rows(intervention) : /\ intervention'[p].kind = intervention[p].kind
                                     /\ intervention'[p].target = Nil <=> rev' < 6
  BY <1>1 DEF RowsInv, TypeOK
<1>12. \A p \in Rows(approval) : /\ approval'[p].requester = Nil <=> rev' < 5
                                 /\ approval'[p].ref = 0 <=> rev' < 5
  BY <1>1, <1>6
<1>13. /\ intervention' \in [Proposal -> Intervention \cup {Nil}]
       /\ action' \in [Proposal -> Action \cup {Nil}] /\ rev' \in 0 .. HeadRev
  BY <1>1 DEF RowsInv, TypeOK, HeadRev
<1>14. QED
  BY <1>1, <1>7, <1>8, <1>9, <1>10, <1>11, <1>12, <1>13, RevisionKeeps

\* A number between two multiples of k that are next to each other is none.
LEMMA NoMultiple ==
  ASSUME NEW a \in Int, NEW k \in Nat \ {0}, k * a < k, k * a > -k
  PROVE  a = 0
<1>1. CASE a >= 1
  <2>1. k * a >= k
    BY <1>1
  <2>2. QED
    BY <2>1
<1>2. CASE a <= -1
  <2>1. k * a <= -k
    BY <1>2
  <2>2. QED
    BY <2>1
<1>3. QED
  BY <1>1, <1>2

\* Rounding to whole cents leaves whole cents alone.
LEMMA WholeCents ==
  ASSUME NEW c \in Nat, NEW k \in Nat \ {0}, c % k = 0
  PROVE  ((c + k \div 2) \div k) * k = c
<1> DEFINE q == c \div k
           h == k \div 2
           d == (c + h) \div k
           r == (c + h) % k
<1>1. q \in Int /\ c = k * q
  OBVIOUS
<1>2. h \in Nat /\ h < k
  OBVIOUS
<1> HIDE DEF h
<1>3. d \in Int /\ r \in 0 .. k - 1 /\ c + h = k * d + r
  BY <1>2
<1> HIDE DEF q, d, r
<1>4. k * (d - q) = h - r
  <2>1. k * (d - q) = k * d - k * q
    BY <1>1, <1>3
  <2>2. k * d \in Int
    BY <1>3
  <2>3. QED
    BY <1>1, <1>2, <1>3, <2>1, <2>2
<1>5. h - r < k /\ h - r > -k
  BY <1>2, <1>3
<1>6. d - q = 0
  BY <1>1, <1>3, <1>4, <1>5, NoMultiple
<1>7. d = q
  BY <1>1, <1>3, <1>6
<1>8. d * k = c
  BY <1>1, <1>7
<1>9. QED
  BY <1>8 DEF d, h

\* Down0007 rounds a spend that it has seen to be in whole cents.
LEMMA Down0007Keeps ==
  ASSUME RowsInv, Downgrade, Down0007
  PROVE  RowsInv'
<1>1. /\ rev = 7 /\ rev' = 6
      /\ UNCHANGED <<intervention, approval, action, incidents, counters, finding, spent>>
  <2>1. rev = 7 /\ UNCHANGED <<intervention, approval, action, incidents, counters>>
    BY DEF Down0007
  <2>2. QED
    BY <2>1 DEF Downgrade
<1>2. DOMAIN catalogue' = {"tables", "types"}
  BY CatalogueShape DEF RowsInv, TypeOK
<1>3. consumed' = consumed
  <2>1. ~SubCent /\ consumed' = ((consumed + Cent \div 2) \div Cent) * Cent
    BY DEF Down0007
  <2>2. consumed \in Nat /\ Cent \in Nat \ {0} /\ consumed % Cent = 0
    BY <2>1, BoundsAssumption DEF SubCent, RowsInv, TypeOK
  <2>3. QED
    BY <2>1, <2>2, WholeCents
<1>4. QED
  BY <1>1, <1>2, <1>3, CatalogueOnly DEF RowsInv, TypeOK, Counted, HeadRev

\* Down0009 drops the attestations, of which it has seen that there are none.
LEMMA Down0009Keeps ==
  ASSUME RowsInv, Downgrade, Down0009
  PROVE  RowsInv'
<1>1. /\ rev = 9 /\ rev' = 8
      /\ UNCHANGED <<intervention, approval, consumed, incidents, counters, finding, spent>>
  <2>1. rev = 9 /\ UNCHANGED <<intervention, approval, consumed, incidents, counters>>
    BY DEF Down0009
  <2>2. QED
    BY <2>1 DEF Downgrade
<1>2. DOMAIN catalogue' = {"tables", "types"}
  BY CatalogueShape DEF RowsInv, TypeOK
<1>3. action' = action
  <2>1. action \in [Proposal -> Action \cup {Nil}]
    BY DEF RowsInv, TypeOK
  <2>2. ASSUME NEW p \in Proposal, action[p] # Nil
        PROVE  [action[p] EXCEPT !.attested = FALSE] = action[p]
    <3>1. action[p] \in Action /\ action[p].attested = FALSE
      BY <2>1, <2>2 DEF Down0009, Attested, Rows, Action
    <3>2. QED
      BY <3>1 DEF Action
  <2>3. action' = [p \in Proposal |-> IF action[p] = Nil THEN Nil
                    ELSE [action[p] EXCEPT !.attested = FALSE]]
    BY DEF Down0009
  <2>4. action' = [p \in Proposal |-> action[p]]
    BY <2>2, <2>3, Zenon
  <2>5. QED
    BY <2>1, <2>4
<1>4. QED
  BY <1>1, <1>2, <1>3, CatalogueOnly DEF RowsInv, TypeOK, Counted, HeadRev

\* Clearing the mirror, and going down to base, leave no rows.
LEMMA ErasureKeeps ==
  ASSUME RowsInv, Seed \/ (Downgrade /\ Down0001)
  PROVE  RowsInv'
<1>1. CASE Seed
  BY <1>1, NoRowsKeep DEF Seed, RowsInv, TypeOK, Carried
<1>2. CASE Downgrade /\ Down0001
  <2>1. /\ rev = 1 /\ rev' = 0 /\ finding' = NoRows /\ spent' = 0
        /\ intervention' = NoRows /\ approval' = NoRows /\ action' = NoRows
        /\ consumed' = 0 /\ incidents' = {} /\ counters' = counters
    <3>1. /\ rev = 1 /\ intervention' = NoRows /\ approval' = NoRows /\ action' = NoRows
          /\ consumed' = 0 /\ incidents' = {} /\ counters' = counters
      BY <1>2 DEF Down0001
    <3>2. QED
      BY <1>2, <3>1 DEF Downgrade
  <2>2. DOMAIN catalogue' = {"tables", "types"}
    BY <1>2, CatalogueShape DEF RowsInv, TypeOK
  <2>3. QED
    BY <2>1, <2>2, NoRowsKeep DEF HeadRev
<1>3. QED
  BY <1>1, <1>2

LEMMA RowsNext == RowsInv /\ [Next]_vars => RowsInv'
<1> SUFFICES ASSUME RowsInv, [Next]_vars PROVE RowsInv'
  OBVIOUS
<1>1. CASE OpenIncident
  BY <1>1, OpenIncidentKeeps
<1>2. ASSUME NEW p \in Proposal, NEW kind \in Kind, Propose(p, kind) PROVE RowsInv'
  BY <1>2, ProposeKeeps
<1>3. ASSUME NEW p \in Proposal, NEW note \in {Nil, "note"}, Approve(p, note) PROVE RowsInv'
  BY <1>3, ApproveKeeps DEF Approve, Running, HeadRev
<1>4. ASSUME NEW p \in Proposal, NEW status \in {"succeeded", "indeterminate"}, Act(p, status)
      PROVE  RowsInv'
  <2> DEFINE row == [status |-> status, attested |-> FALSE,
                     approval |-> IF approval[p] = Nil THEN Nil ELSE p]
  <2>1. row \in Action
    BY DEF Action
  <2>2. /\ rev = HeadRev /\ intervention[p] # Nil /\ action' = [action EXCEPT ![p] = row]
        /\ UNCHANGED <<rev, catalogue, intervention, approval, consumed, incidents, counters, spent>>
        /\ finding' = [finding EXCEPT ![p] = Record(p)']
    BY <1>4 DEF Act, Running
  <2> HIDE DEF row
  <2>3. QED
    BY <2>1, <2>2, ActionKeeps
<1>5. ASSUME NEW p \in Proposal, NEW status \in {"succeeded", "failed"}, Reconcile(p, status)
      PROVE  RowsInv'
  <2> DEFINE row == [action[p] EXCEPT !.status = status, !.attested = TRUE]
  <2>1. action \in [Proposal -> Action \cup {Nil}] /\ action[p] \in Action /\ intervention[p] # Nil
    BY <1>5 DEF Reconcile, RowsInv, TypeOK, Attached
  <2>2. row \in Action
    BY <2>1 DEF Action
  <2>3. action' = [action EXCEPT ![p] = row]
    BY <1>5, <2>1 DEF Reconcile
  <2>4. /\ rev = HeadRev
        /\ UNCHANGED <<rev, catalogue, intervention, approval, consumed, incidents, counters, spent>>
        /\ finding' = [finding EXCEPT ![p] = Record(p)']
    BY <1>5 DEF Reconcile, Running
  <2> HIDE DEF row
  <2>5. QED
    BY <2>1, <2>2, <2>3, <2>4, ActionKeeps
<1>6. ASSUME NEW p \in Proposal, LegacyRequest(p) PROVE RowsInv'
  BY <1>6, LegacyRequestKeeps
<1>7. ASSUME NEW p \in Proposal, LegacyApprove(p) PROVE RowsInv'
  BY <1>7, ApproveKeeps DEF LegacyApprove
<1>8. ASSUME NEW amount \in Charge, Spend(amount) PROVE RowsInv'
  BY <1>8, SpendKeeps
<1>9. CASE Seed
  BY <1>9, ErasureKeeps
<1>10. CASE Upgrade
  BY <1>10, CatalogueRevisions, Up0005Keeps, TargetKeeps DEF Upgrade
<1>11. CASE Downgrade
  BY <1>11, CatalogueRevisions, Down0009Keeps, Down0007Keeps, TargetKeeps, Down0005Keeps,
     ErasureKeeps DEF Downgrade
<1>12. CASE UNCHANGED vars
  <2>1. UNCHANGED <<rev, catalogue, intervention, approval, action, consumed, incidents, counters,
                    finding, spent>>
    BY <1>12 DEF vars, rowVars, history
  <2>2. QED
    BY <2>1, CatalogueOnly DEF RowsInv, TypeOK, Counted
<1>13. QED
  BY <1>1, <1>2, <1>3, <1>4, <1>5, <1>6, <1>7, <1>8, <1>9, <1>10, <1>11, <1>12
  DEF Next, Command

LEMMA RowsInit == Init => RowsInv
<1> SUFFICES ASSUME Init PROVE RowsInv
  OBVIOUS
<1>1. /\ rev = 0 /\ intervention = NoRows /\ approval = NoRows /\ action = NoRows
      /\ consumed = 0 /\ incidents = {} /\ finding = NoRows /\ spent = 0
      /\ counters = [incident |-> 0, approval |-> 0]
      /\ DOMAIN catalogue = {"tables", "types"}
  BY DEF Init, EmptyCatalogue
<1>2. /\ \A p \in Proposal : NoRows[p] = Nil
      /\ \A S : NoRows \in [Proposal -> S \cup {Nil}]
  BY DEF NoRows
<1>3. Rows(intervention) = {} /\ Rows(approval) = {}
  BY <1>1, <1>2 DEF Rows
<1> HIDE DEF NoRows
<1>4. TypeOK
  BY <1>1, <1>2, <1>3 DEF TypeOK, HeadRev
<1>5. Attached /\ Counted /\ NotesAreNotes /\ ApprovalRefsStayUsable /\ Carried
  BY <1>1, <1>2, <1>3 DEF Attached, Counted, NotesAreNotes, ApprovalRefsStayUsable, Carried
<1>6. QED
  BY <1>4, <1>5 DEF RowsInv

\* What every revision, in both directions, and every command keep of the rows.
THEOREM RowsInductive == Spec => []RowsInv
<1>1. QED
  BY RowsInit, RowsNext, PTL DEF Spec

\* Every column holds a value of its kind, and is NULL only where the revision at hand
\* has no such column (alembic/versions/0005, 0006).
THEOREM RowsAreTyped == Spec => []TypeOK
<1>1. RowsInv => TypeOK
  BY DEF RowsInv
<1>2. QED
  BY <1>1, RowsInductive, PTL

\* No downgrade followed by an upgrade, in any order and number and with any rows, loses
\* or alters a finding, the spend included (alembic/versions/0004 to 0009, downgrade).
THEOREM FindingsAlwaysSurvive == Spec => []FindingsSurvive
<1>1. RowsInv => FindingsSurvive
  BY DEF RowsInv, Carried, FindingsSurvive
<1>2. QED
  BY <1>1, RowsInductive, PTL

\* A reference names one request, and the next one to be drawn is free, after any round
\* trip and whatever the order of the numbering (alembic/versions/0005_approval_requested_by.py).
THEOREM RefsAlwaysUsable == Spec => []ApprovalRefsStayUsable
<1>1. RowsInv => ApprovalRefsStayUsable
  BY DEF RowsInv
<1>2. QED
  BY <1>1, RowsInductive, PTL

-----------------------------------------------------------------------------
(* Clearing the mirror. *)

(* The keys of table t that matter to an erasure.  The only RESTRICT keys  *)
(* hold an action record to its authorisation, and each way to lose an     *)
(* authorisation is a way to lose the record: the rows of a request and of *)
(* a decision go with others only, and those take the record as well.      *)
Authorisations == {"policy_evaluations", "approval_requests"}

KeysOf(t, fk) ==
  /\ \A c \in DOMAIN fk :
       /\ fk[c].on = "restrict" => t = "action_records" /\ fk[c].to \in Authorisations
       /\ t = "policy_evaluations" /\ fk[c].on = "cascade" => fk[c].to = "interventions"
       /\ t = "approval_requests" /\ fk[c].on = "cascade"
            => fk[c].to \in {"policy_evaluations", "workflow_runs"}
  /\ t = "action_records" =>
       /\ {"intervention_id", "run_id"} \subseteq DOMAIN fk
       /\ fk["intervention_id"] = [to |-> "interventions", on |-> "cascade"]
       /\ fk["run_id"] = [to |-> "workflow_runs", on |-> "cascade"]

Keyed(tables) == \A t \in DOMAIN tables : "fk" \in DOMAIN tables[t] /\ KeysOf(t, tables[t].fk)

KeysInv ==
  /\ DOMAIN catalogue = {"tables", "types"}
  /\ IsFiniteSet(DOMAIN catalogue.tables)
  /\ Keyed(catalogue.tables)
  /\ DOMAIN catalogue.tables \cap Authorisations # {}
       => "action_records" \in DOMAIN catalogue.tables

\* One wave of an erasure, and all of them.
Wave(tables, last) ==
  LET Keys(t, rule) == {c \in DOMAIN tables[t].fk : tables[t].fk[c].on = rule}
      Hit(t, rule) == \E c \in Keys(t, rule) : tables[t].fk[c].to \in last.gone
  IN  [gone |-> last.gone \cup {t \in DOMAIN tables : Hit(t, "cascade")},
       refused |-> last.refused \/ \E t \in DOMAIN tables \ last.gone : Hit(t, "restrict")]

AllWaves(w, tables, root, N) ==
  w = [n \in 0 .. N |-> IF n = 0 THEN [gone |-> {root}, refused |-> FALSE]
                        ELSE Wave(tables, w[n - 1])]

LEMMA WavesExist ==
  ASSUME NEW tables, NEW root, NEW N \in Nat
  PROVE  \E w : AllWaves(w, tables, root, N)
<1> DEFINE T == {k \in Nat : \E w : AllWaves(w, tables, root, k)}
<1>1. 0 \in T
  <2>1. AllWaves([n \in 0 .. 0 |-> [gone |-> {root}, refused |-> FALSE]], tables, root, 0)
    BY DEF AllWaves
  <2>2. QED
    BY <2>1
<1>2. ASSUME NEW k \in Nat, k \in T
      PROVE  k + 1 \in T
  <2>1. PICK u : AllWaves(u, tables, root, k)
    BY <1>2
  <2> DEFINE v == [n \in 0 .. k + 1 |-> IF n = k + 1 THEN Wave(tables, u[k]) ELSE u[n]]
  <2>2. ASSUME NEW n \in 0 .. k + 1
        PROVE  v[n] = IF n = 0 THEN [gone |-> {root}, refused |-> FALSE]
                      ELSE Wave(tables, v[n - 1])
    <3>1. CASE n = k + 1
      BY <3>1
    <3>2. CASE n # k + 1
      <4>1. n \in 0 .. k /\ v[n] = u[n]
        BY <3>2
      <4>2. u[n] = IF n = 0 THEN [gone |-> {root}, refused |-> FALSE] ELSE Wave(tables, u[n - 1])
        BY <2>1, <4>1 DEF AllWaves
      <4>3. n # 0 => n - 1 \in 0 .. k + 1 /\ n - 1 # k + 1
        BY <4>1
      <4>4. QED
        BY <4>1, <4>2, <4>3
    <3>3. QED
      BY <3>1, <3>2
  <2>3. AllWaves(v, tables, root, k + 1)
    BY <2>2 DEF AllWaves
  <2> HIDE DEF v
  <2>4. \E x : AllWaves(x, tables, root, k + 1)
    BY <2>3
  <2>5. QED
    BY <2>4
<1>3. Nat \subseteq T
  <2> HIDE DEF T
  <2>1. QED
    BY <1>1, <1>2, NatSetInduction
<1>4. QED
  BY <1>3

\* An erasure is the last of its waves.
LEMMA WavesLaw ==
  ASSUME NEW tables, NEW root, Cardinality(DOMAIN tables) \in Nat
  PROVE  \E w : /\ AllWaves(w, tables, root, Cardinality(DOMAIN tables))
                /\ Waves(tables, root) = w[Cardinality(DOMAIN tables)]
<1> DEFINE v == CHOOSE w : AllWaves(w, tables, root, Cardinality(DOMAIN tables))
<1>1. AllWaves(v, tables, root, Cardinality(DOMAIN tables))
  BY WavesExist
<1>2. Waves(tables, root) = v[Cardinality(DOMAIN tables)]
  BY DEF Waves, AllWaves, Wave
<1> HIDE DEF v
<1>3. QED
  BY <1>1, <1>2

(* Whenever an authorisation has gone the action records have gone, in     *)
(* that wave or an earlier one; so no wave is refused.                     *)
LEMMA KeyedErasure ==
  ASSUME NEW tables, Keyed(tables), Cardinality(DOMAIN tables) \in Nat,
         DOMAIN tables \cap Authorisations # {} => "action_records" \in DOMAIN tables,
         NEW root, root \notin Authorisations
  PROVE  ~ DeletionRefused(tables, root)
<1> DEFINE N == Cardinality(DOMAIN tables)
<1>1. PICK w : AllWaves(w, tables, root, N) /\ Waves(tables, root) = w[N]
  BY WavesLaw
<1> HIDE DEF N
<1> DEFINE Good(r) == /\ r.gone \subseteq DOMAIN tables \cup {root}
                      /\ r.gone \cap Authorisations # {} => "action_records" \in r.gone
                      /\ ~ r.refused
           T == {k \in Nat : k \in 0 .. N => Good(w[k])}
<1>2. 0 \in T
  BY <1>1 DEF AllWaves
<1>3. ASSUME NEW k \in Nat, k \in T
      PROVE  k + 1 \in T
  <2>1. SUFFICES ASSUME k + 1 \in 0 .. N
                 PROVE  Good(w[k + 1])
    OBVIOUS
  <2>2. N \in Nat /\ k \in 0 .. N /\ Good(w[k])
    BY <1>3, <2>1 DEF N
  <2>3. w[k + 1] = Wave(tables, w[k])
    <3>1. w[k + 1] = IF k + 1 = 0 THEN [gone |-> {root}, refused |-> FALSE]
                     ELSE Wave(tables, w[(k + 1) - 1])
      BY <1>1, <2>1 DEF AllWaves
    <3>2. k + 1 # 0 /\ (k + 1) - 1 = k
      OBVIOUS
    <3>3. QED
      BY <3>1, <3>2
  <2> DEFINE last == w[k]
             Keys(t, rule) == {c \in DOMAIN tables[t].fk : tables[t].fk[c].on = rule}
             Hit(t, rule) == \E c \in Keys(t, rule) : tables[t].fk[c].to \in last.gone
  <2>4. w[k + 1] =
          [gone |-> last.gone \cup {t \in DOMAIN tables : Hit(t, "cascade")},
           refused |-> last.refused \/ \E t \in DOMAIN tables \ last.gone : Hit(t, "restrict")]
    BY <2>3, Zenon DEF Wave
  <2>5. /\ w[k + 1].gone = last.gone \cup {t \in DOMAIN tables : Hit(t, "cascade")}
        /\ w[k + 1].refused <=>
             last.refused \/ \E t \in DOMAIN tables \ last.gone : Hit(t, "restrict")
    <3> DEFINE gone == last.gone \cup {t \in DOMAIN tables : Hit(t, "cascade")}
               refused == last.refused \/ \E t \in DOMAIN tables \ last.gone : Hit(t, "restrict")
    <3>1. w[k + 1] = [gone |-> gone, refused |-> refused]
      BY <2>4, Zenon
    <3> HIDE DEF gone, refused
    <3>2. w[k + 1].gone = gone /\ w[k + 1].refused = refused
      BY <3>1
    <3>3. QED
      BY <3>2, Zenon DEF gone, refused
  <2> HIDE DEF last
  <2>6. /\ last.gone \subseteq DOMAIN tables \cup {root} /\ ~ last.refused
        /\ last.gone \cap Authorisations # {} => "action_records" \in last.gone
    BY <2>2 DEF last
  <2>7. w[k + 1].gone \subseteq DOMAIN tables \cup {root}
    BY <2>5, <2>6
  <2>8. ~ w[k + 1].refused
    BY <2>5, <2>6 DEF Keyed, KeysOf
  <2>9. ASSUME NEW a \in Authorisations, a \in w[k + 1].gone
        PROVE  "action_records" \in w[k + 1].gone
    <3>1. CASE a \in last.gone
      BY <2>5, <2>6, <3>1
    <3>2. CASE a \notin last.gone
      <4>1. a \in DOMAIN tables /\ Hit(a, "cascade")
        BY <2>5, <2>9, <3>2
      <4>2. \/ "interventions" \in last.gone
            \/ "workflow_runs" \in last.gone
            \/ "policy_evaluations" \in last.gone
        BY <2>9, <4>1 DEF Keyed, KeysOf, Authorisations
      <4>3. CASE "policy_evaluations" \in last.gone
        BY <2>5, <2>6, <4>3 DEF Authorisations
      <4>4. CASE "interventions" \in last.gone \/ "workflow_runs" \in last.gone
        <5>1. "action_records" \in DOMAIN tables
          BY <4>1, <2>9
        <5>2. Hit("action_records", "cascade")
          BY <4>4, <5>1 DEF Keyed, KeysOf
        <5>3. QED
          BY <2>5, <5>1, <5>2
      <4>5. QED
        BY <4>2, <4>3, <4>4
    <3>3. QED
      BY <3>1, <3>2
  <2>10. QED
    BY <2>7, <2>8, <2>9
<1>4. Nat \subseteq T
  <2> HIDE DEF T
  <2>1. QED
    BY <1>2, <1>3, NatSetInduction
<1>5. ~ w[N].refused
  BY <1>4 DEF N
<1>6. QED
  BY <1>1, <1>5 DEF DeletionRefused

\* A revision that leaves the keys of every table alone.
SameKeys ==
  /\ DOMAIN catalogue' = {"tables", "types"}
  /\ DOMAIN catalogue'.tables = DOMAIN catalogue.tables
  /\ \A t \in DOMAIN catalogue.tables : /\ "fk" \in DOMAIN catalogue'.tables[t]
                                        /\ catalogue'.tables[t].fk = catalogue.tables[t].fk

\* Then nothing an erasure looks at has changed.
LEMMA SameKeysKeep == KeysInv /\ SameKeys => KeysInv'
  BY DEF KeysInv, SameKeys, Keyed

\* Every revision but the first and the sixth adds and drops other constraints and columns.
LEMMA ConstraintsOnly ==
  ASSUME KeysInv, \/ Up0002 \/ Up0003 \/ Up0004 \/ Up0005 \/ Up0007 \/ Up0008 \/ Up0009
                  \/ Down0009 \/ Down0008 \/ Down0007 \/ Down0005 \/ Down0004 \/ Down0003
                  \/ Down0002
  PROVE  SameKeys
<1>1. /\ DOMAIN catalogue = {"tables", "types"}
      /\ \A t \in DOMAIN catalogue.tables : "fk" \in DOMAIN catalogue.tables[t]
  BY DEF KeysInv, Keyed
<1>2. CASE Up0002
  BY <1>1, <1>2 DEF Up0002, SameKeys
<1>3. CASE Up0003
  BY <1>1, <1>3 DEF Up0003, SameKeys
<1>4. CASE Up0004
  BY <1>1, <1>4 DEF Up0004, SameKeys
<1>5. CASE Up0005
  BY <1>1, <1>5 DEF Up0005, SameKeys
<1>6. CASE Up0007
  BY <1>1, <1>6 DEF Up0007, SameKeys
<1>7. CASE Up0008
  BY <1>1, <1>7 DEF Up0008, SameKeys
<1>8. CASE Up0009
  BY <1>1, <1>8 DEF Up0009, SameKeys
<1>9. CASE Down0009
  BY <1>1, <1>9 DEF Down0009, SameKeys
<1>10. CASE Down0008
  BY <1>1, <1>10 DEF Down0008, SameKeys
<1>11. CASE Down0007
  BY <1>1, <1>11 DEF Down0007, SameKeys
<1>12. CASE Down0005
  BY <1>1, <1>12 DEF Down0005, SameKeys
<1>13. CASE Down0004
  BY <1>1, <1>13 DEF Down0004, SameKeys
<1>14. CASE Down0003
  BY <1>1, <1>14 DEF Down0003, SameKeys
<1>15. CASE Down0002
  BY <1>1, <1>15 DEF Down0002, SameKeys
<1>16. QED
  BY <1>2, <1>3, <1>4, <1>5, <1>6, <1>7, <1>8, <1>9, <1>10, <1>11, <1>12, <1>13, <1>14, <1>15

\* Revision 6 puts the two keys on the action records, and takes them off again.
LEMMA AuthorisationsHeld ==
  ASSUME KeysInv, Up0006 \/ Down0006
  PROVE  KeysInv'
<1> DEFINE T == catalogue.tables
           U == catalogue'.tables
<1>1. /\ DOMAIN catalogue = {"tables", "types"}
      /\ \A t \in DOMAIN T : "fk" \in DOMAIN T[t]
  BY DEF KeysInv, Keyed
<1>2. /\ DOMAIN catalogue' = {"tables", "types"} /\ DOMAIN U = DOMAIN T
      /\ \A t \in DOMAIN T : /\ "fk" \in DOMAIN U[t]
                             /\ t # "action_records" => U[t].fk = T[t].fk
  <2>1. CASE Up0006
    BY <1>1, <2>1 DEF Up0006
  <2>2. CASE Down0006
    <3>1. DOMAIN catalogue' = {"tables", "types"} /\ DOMAIN U = DOMAIN T
      BY <1>1, <2>2 DEF Down0006
    <3>2. ASSUME NEW t \in DOMAIN T
          PROVE  "fk" \in DOMAIN U[t] /\ (t # "action_records" => U[t].fk = T[t].fk)
      <4>1. CASE t \notin {"action_records", "interventions"}
        BY <1>1, <2>2, <3>2, <4>1 DEF Down0006
      <4>2. CASE t = "interventions"
        BY <1>1, <2>2, <3>2, <4>2 DEF Down0006
      <4>3. CASE t = "action_records"
        BY <1>1, <2>2, <3>2, <4>3 DEF Down0006
      <4>4. QED
        BY <4>1, <4>2, <4>3
    <3>3. QED
      BY <3>1, <3>2
  <2>3. QED
    BY <2>1, <2>2
<1> DEFINE old == T["action_records"].fk
           new == U["action_records"].fk
<1>3. ASSUME "action_records" \in DOMAIN T
      PROVE  KeysOf("action_records", new)
  <2>1. KeysOf("action_records", old)
    BY <1>3 DEF KeysInv, Keyed
  <2>2. CASE Up0006
    <3>1. new = AuthorisationKeys ++ old
      BY <1>1, <1>3, <2>2 DEF Up0006
    <3>2. ASSUME NEW c \in {"authorized_by", "approval_request_id"}
          PROVE  AuthorisationKeys[c].on = "restrict" /\ AuthorisationKeys[c].to \in Authorisations
      BY DEF AuthorisationKeys, Restricted, Referenced, Authorisations
    <3>3. DOMAIN AuthorisationKeys = {"authorized_by", "approval_request_id"}
      BY DEF AuthorisationKeys, Restricted
    <3> HIDE DEF old, new
    <3>4. /\ DOMAIN new = {"authorized_by", "approval_request_id"} \cup DOMAIN old
          /\ \A c \in DOMAIN new : new[c] = IF c \in {"authorized_by", "approval_request_id"}
                                              THEN AuthorisationKeys[c] ELSE old[c]
      BY <3>1, <3>3 DEF ++
    <3>5. QED
      BY <2>1, <3>2, <3>4 DEF KeysOf
  <2>3. CASE Down0006
    <3>1. new = Without(old, {"authorized_by", "approval_request_id"})
      BY <1>1, <1>3, <2>3 DEF Down0006
    <3> HIDE DEF old, new
    <3>2. /\ DOMAIN new = DOMAIN old \ {"authorized_by", "approval_request_id"}
          /\ \A c \in DOMAIN new : new[c] = old[c]
      BY <3>1 DEF Without
    <3>3. QED
      BY <2>1, <3>2 DEF KeysOf
  <2>4. QED
    BY <2>2, <2>3
<1>4. \A t \in DOMAIN T : t # "action_records" => KeysOf(t, U[t].fk)
  BY <1>2 DEF KeysInv, Keyed
<1>5. Keyed(U)
  BY <1>2, <1>3, <1>4 DEF Keyed
<1>6. QED
  BY <1>2, <1>5 DEF KeysInv

-----------------------------------------------------------------------------
(* The baseline. *)

\* Constraints that name keys give the table those keys, others give it none.
LEMMA TableKeys ==
  ASSUME NEW c
  PROVE  /\ "fk" \in DOMAIN Table(c)
         /\ "fk" \in DOMAIN c => Table(c).fk = c.fk
         /\ "fk" \notin DOMAIN c => DOMAIN (Table(c).fk) = {}
<1>1. DOMAIN <<>> = {}
  OBVIOUS
<1>2. QED
  BY <1>1 DEF Table, ++

LEMMA KeyedTogether ==
  ASSUME NEW f, NEW g, Keyed(f), Keyed(g)
  PROVE  Keyed(f ++ g)
  BY DEF Keyed, ++

\* Keys that restrict nothing, on a table whose rows are no authorisation and no record.
Plain(fk) == \A c \in DOMAIN fk : fk[c].on # "restrict"

LEMMA PlainKeys ==
  ASSUME NEW S
  PROVE  Plain(Cascade(S)) /\ Plain(SetNull(S))
  BY DEF Plain, Cascade, SetNull

LEMMA PlainTogether ==
  ASSUME NEW f, NEW g, Plain(f), Plain(g)
  PROVE  Plain(f ++ g)
  BY DEF Plain, ++

LEMMA PlainTables ==
  ASSUME NEW tables, DOMAIN tables \cap (Authorisations \cup {"action_records"}) = {},
         \A t \in DOMAIN tables :
           \E c : tables[t] = Table(c) /\ ("fk" \in DOMAIN c => Plain(c.fk))
  PROVE  Keyed(tables)
<1>1. ASSUME NEW t \in DOMAIN tables
      PROVE  "fk" \in DOMAIN tables[t] /\ Plain(tables[t].fk)
  <2>1. PICK c : tables[t] = Table(c) /\ ("fk" \in DOMAIN c => Plain(c.fk))
    OBVIOUS
  <2>2. QED
    BY <2>1, TableKeys DEF Plain
<1>2. QED
  BY <1>1 DEF Keyed, KeysOf, Plain, Authorisations

\* The tables that hold neither authorisations nor records of effects.
LEMMA OtherKeys ==
  /\ Keyed(RootTables) /\ Keyed(MirrorTables) /\ Keyed(PipelineTables) /\ Keyed(SignalTables)
  /\ Keyed(IncidentTables) /\ Keyed(RunTables) /\ Keyed(FindingTables) /\ Keyed(CallTables)
<1> USE PlainKeys, PlainTables
<1>1. Keyed(RootTables)
  BY DEF RootTables, Authorisations
<1>2. Keyed(MirrorTables)
  BY DEF MirrorTables, Authorisations
<1>3. Keyed(PipelineTables)
  BY DEF PipelineTables, Authorisations
<1>4. Keyed(SignalTables)
  BY DEF SignalTables, Authorisations
<1>5. Keyed(IncidentTables)
  BY DEF IncidentTables, Authorisations
<1>6. Keyed(RunTables)
  BY PlainTogether DEF RunTables, Authorisations
<1>7. Keyed(FindingTables)
  BY DEF FindingTables, Authorisations
<1>8. Keyed(CallTables)
  BY DEF CallTables, Authorisations
<1>9. QED
  BY <1>1, <1>2, <1>3, <1>4, <1>5, <1>6, <1>7, <1>8

\* A record is kept by its run and its intervention.
LEMMA ActionKeys == Keyed(ActionTables) /\ "action_records" \in DOMAIN ActionTables
<1>1. DOMAIN ActionTables = {"action_records", "agent_decisions", "cost_entries"}
  BY DEF ActionTables
<1>2. /\ "fk" \in DOMAIN ActionTables["action_records"]
      /\ ActionTables["action_records"].fk = Cascade({"intervention_id", "run_id"})
  BY TableKeys DEF ActionTables
<1>3. KeysOf("action_records", Cascade({"intervention_id", "run_id"}))
  BY DEF KeysOf, Cascade, Referenced
<1>4. \A t \in {"agent_decisions", "cost_entries"} :
        "fk" \in DOMAIN ActionTables[t] /\ Plain(ActionTables[t].fk)
  BY TableKeys, PlainKeys, PlainTogether DEF ActionTables
<1>5. QED
  BY <1>1, <1>2, <1>3, <1>4 DEF Keyed, KeysOf, Plain

\* A decision goes with its intervention, a request with its decision or its run.
LEMMA GovernanceKeys == Keyed(GovernanceTables)
<1>1. DOMAIN GovernanceTables = {"hypothesis_evidence"} \cup Authorisations
  BY DEF GovernanceTables, Authorisations
<1>2. /\ \A t \in DOMAIN GovernanceTables : "fk" \in DOMAIN GovernanceTables[t]
      /\ GovernanceTables["hypothesis_evidence"].fk =
           Cascade({"evidence_item_id", "hypothesis_id"})
      /\ GovernanceTables["policy_evaluations"].fk = Cascade({"intervention_id"})
      /\ GovernanceTables["approval_requests"].fk = Cascade({"policy_evaluation_id", "run_id"})
  BY TableKeys DEF GovernanceTables
<1>3. KeysOf("policy_evaluations", Cascade({"intervention_id"}))
  BY DEF KeysOf, Cascade, Referenced
<1>4. KeysOf("approval_requests", Cascade({"policy_evaluation_id", "run_id"}))
  BY DEF KeysOf, Cascade, Referenced
<1>5. KeysOf("hypothesis_evidence", Cascade({"evidence_item_id", "hypothesis_id"}))
  BY DEF KeysOf, Cascade
<1>6. QED
  BY <1>1, <1>2, <1>3, <1>4, <1>5 DEF Keyed, Authorisations

\* What g says, h says.
Includes(h, g) == DOMAIN g \subseteq DOMAIN h /\ \A t \in DOMAIN g : h[t] = g[t]

\* Each of the twenty-nine tables of the baseline is created once.
LEMMA BaselineTables ==
  /\ DOMAIN Baseline.tables =
       DOMAIN RootTables \cup DOMAIN MirrorTables \cup DOMAIN PipelineTables \cup DOMAIN
         SignalTables \cup DOMAIN IncidentTables \cup DOMAIN RunTables \cup DOMAIN FindingTables
         \cup DOMAIN CallTables \cup DOMAIN ActionTables \cup DOMAIN GovernanceTables
  /\ Includes(Baseline.tables, RootTables) /\ Includes(Baseline.tables, MirrorTables)
  /\ Includes(Baseline.tables, PipelineTables) /\ Includes(Baseline.tables, SignalTables)
  /\ Includes(Baseline.tables, IncidentTables) /\ Includes(Baseline.tables, RunTables)
  /\ Includes(Baseline.tables, FindingTables) /\ Includes(Baseline.tables, CallTables)
  /\ Includes(Baseline.tables, ActionTables) /\ Includes(Baseline.tables, GovernanceTables)
  /\ Baseline.tables = [x \in DOMAIN Baseline.tables |-> Baseline.tables[x]]
<1> DEFINE j1 == RootTables
           j2 == j1 ++ MirrorTables
           j3 == j2 ++ PipelineTables
           j4 == j3 ++ SignalTables
           j5 == j4 ++ IncidentTables
           j6 == j5 ++ RunTables
           j7 == j6 ++ FindingTables
           j8 == j7 ++ CallTables
           j9 == j8 ++ ActionTables
           j10 == j9 ++ GovernanceTables
<1>1. Baseline.tables = j10
  BY DEF Baseline
<1>2. DOMAIN RootTables =
        {"accounts", "budgets", "evaluation_runs", "raw_events"}
  BY DEF RootTables
<1>3. DOMAIN MirrorTables =
        {"company_profiles", "engagement_events", "normalized_events"}
  BY DEF MirrorTables
<1>4. DOMAIN PipelineTables =
        {"opportunities", "support_issues", "usage_snapshots"}
  BY DEF PipelineTables
<1>5. DOMAIN SignalTables =
        {"activities", "signals"}
  BY DEF SignalTables
<1>6. DOMAIN IncidentTables =
        {"incidents"}
  BY DEF IncidentTables
<1>7. DOMAIN RunTables =
        {"workflow_runs", "audit_events", "evaluation_results"}
  BY DEF RunTables
<1>8. DOMAIN FindingTables =
        {"evidence_items", "hypotheses", "impact_assessments", "interventions"}
  BY DEF FindingTables
<1>9. DOMAIN CallTables =
        {"model_calls", "tool_calls", "workflow_transitions"}
  BY DEF CallTables
<1>10. DOMAIN ActionTables =
        {"action_records", "agent_decisions", "cost_entries"}
  BY DEF ActionTables
<1>11. DOMAIN GovernanceTables =
        {"hypothesis_evidence", "policy_evaluations", "approval_requests"}
  BY DEF GovernanceTables
<1> HIDE DEF j2, j3, j4, j5, j6, j7, j8, j9, j10
<1>12. /\ DOMAIN j2 = DOMAIN j1 \cup DOMAIN MirrorTables
       /\ Includes(j2, j1) /\ Includes(j2, MirrorTables)
  BY <1>2, <1>3 DEF j2, Includes, ++
<1>13. /\ DOMAIN j3 = DOMAIN j2 \cup DOMAIN PipelineTables
       /\ Includes(j3, j2) /\ Includes(j3, PipelineTables)
  BY <1>2, <1>3, <1>4, <1>12 DEF j3, Includes, ++
<1>14. /\ DOMAIN j4 = DOMAIN j3 \cup DOMAIN SignalTables
       /\ Includes(j4, j3) /\ Includes(j4, SignalTables)
  BY <1>2, <1>3, <1>4, <1>5, <1>12, <1>13 DEF j4, Includes, ++
<1>15. /\ DOMAIN j5 = DOMAIN j4 \cup DOMAIN IncidentTables
       /\ Includes(j5, j4) /\ Includes(j5, IncidentTables)
  BY <1>2, <1>3, <1>4, <1>5, <1>6, <1>12, <1>13, <1>14 DEF j5, Includes, ++
<1>16. /\ DOMAIN j6 = DOMAIN j5 \cup DOMAIN RunTables
       /\ Includes(j6, j5) /\ Includes(j6, RunTables)
  BY <1>2, <1>3, <1>4, <1>5, <1>6, <1>7, <1>12, <1>13, <1>14, <1>15 DEF j6, Includes, ++
<1>17. /\ DOMAIN j7 = DOMAIN j6 \cup DOMAIN FindingTables
       /\ Includes(j7, j6) /\ Includes(j7, FindingTables)
  BY <1>2, <1>3, <1>4, <1>5, <1>6, <1>7, <1>8, <1>12, <1>13, <1>14, <1>15, <1>16 DEF j7, Includes,
    ++
<1>18. /\ DOMAIN j8 = DOMAIN j7 \cup DOMAIN CallTables
       /\ Includes(j8, j7) /\ Includes(j8, CallTables)
  BY <1>2, <1>3, <1>4, <1>5, <1>6, <1>7, <1>8, <1>9, <1>12, <1>13, <1>14, <1>15, <1>16, <1>17 DEF
    j8, Includes, ++
<1>19. /\ DOMAIN j9 = DOMAIN j8 \cup DOMAIN ActionTables
       /\ Includes(j9, j8) /\ Includes(j9, ActionTables)
  BY <1>2, <1>3, <1>4, <1>5, <1>6, <1>7, <1>8, <1>9, <1>10, <1>12, <1>13, <1>14, <1>15, <1>16,
    <1>17, <1>18 DEF j9, Includes, ++
<1>20. /\ DOMAIN j10 = DOMAIN j9 \cup DOMAIN GovernanceTables
       /\ Includes(j10, j9) /\ Includes(j10, GovernanceTables)
  BY <1>2, <1>3, <1>4, <1>5, <1>6, <1>7, <1>8, <1>9, <1>10, <1>11, <1>12, <1>13, <1>14, <1>15,
    <1>16, <1>17, <1>18, <1>19 DEF j10, Includes, ++
<1>21. j10 = [x \in DOMAIN j10 |-> j10[x]]
  BY DEF j10, ++
<1> HIDE DEF j1
<1>22. QED
  BY <1>1, <1>12, <1>13, <1>14, <1>15, <1>16, <1>17, <1>18, <1>19, <1>20, <1>21 DEF j1, Includes

\* The downgrade names every table the baseline creates.
Dropped == {DropOrder[i] : i \in DOMAIN DropOrder}

LEMMA AllDropped ==
  /\ IsFiniteSet(Dropped)
  /\ Authorisations \subseteq Dropped /\ DOMAIN Baseline.tables \subseteq Dropped
<1>1. Dropped =
  {"approval_requests", "policy_evaluations", "hypothesis_evidence", "cost_entries",
    "agent_decisions", "action_records", "workflow_transitions", "tool_calls", "model_calls",
    "interventions", "impact_assessments", "hypotheses", "evidence_items",
    "evaluation_results", "audit_events", "workflow_runs", "incidents", "signals",
    "activities", "usage_snapshots", "support_issues", "opportunities", "normalized_events",
    "engagement_events", "company_profiles", "raw_events", "evaluation_runs", "budgets",
    "accounts"}
  BY DEF Dropped, DropOrder
<1>2. IsFiniteSet(Dropped)
  <2>1. IsFiniteSet(DOMAIN DropOrder)
    <3>1. DOMAIN DropOrder = 1 .. 29
      BY DEF DropOrder
    <3>2. QED
      <4>1. IsFiniteSet(1 .. 29)
        <5>1. 1 \in Int /\ 29 \in Int
          OBVIOUS
        <5>2. QED
          BY <5>1, FS_Interval, Zenon
      <4>2. QED
        BY <3>1, <4>1
  <2>2. DropOrder \in [DOMAIN DropOrder -> Dropped]
    BY DEF DropOrder, Dropped
  <2>3. DropOrder \in Surjection(DOMAIN DropOrder, Dropped)
    BY <2>2 DEF Surjection, Dropped
  <2>4. QED
    BY <2>1, <2>3, FS_Surjection
<1>3. /\ DOMAIN RootTables \subseteq Dropped /\ DOMAIN MirrorTables \subseteq Dropped
      /\ DOMAIN PipelineTables \subseteq Dropped /\ DOMAIN SignalTables \subseteq Dropped
  BY <1>1 DEF RootTables, MirrorTables, PipelineTables, SignalTables
<1>4. /\ DOMAIN IncidentTables \subseteq Dropped /\ DOMAIN RunTables \subseteq Dropped
      /\ DOMAIN FindingTables \subseteq Dropped /\ DOMAIN CallTables \subseteq Dropped
      /\ DOMAIN ActionTables \subseteq Dropped /\ DOMAIN GovernanceTables \subseteq Dropped
  BY <1>1 DEF IncidentTables, RunTables, FindingTables, CallTables, ActionTables, GovernanceTables
<1>5. QED
  BY <1>1, <1>2, <1>3, <1>4, BaselineTables DEF Authorisations

LEMMA BaselineKeys ==
  Keyed(Baseline.tables) /\ "action_records" \in DOMAIN Baseline.tables
    /\ IsFiniteSet(DOMAIN Baseline.tables)
<1>1. Baseline.tables =
        RootTables ++ MirrorTables ++ PipelineTables ++ SignalTables ++ IncidentTables
          ++ RunTables ++ FindingTables ++ CallTables ++ ActionTables ++ GovernanceTables
  BY DEF Baseline
<1>2. Keyed(Baseline.tables)
  BY <1>1, OtherKeys, ActionKeys, GovernanceKeys, KeyedTogether
<1>3. "action_records" \in DOMAIN Baseline.tables
  BY ActionKeys, BaselineTables
<1>4. IsFiniteSet(DOMAIN Baseline.tables)
  BY AllDropped, FS_Subset
<1>5. QED
  BY <1>2, <1>3, <1>4

-----------------------------------------------------------------------------
(* The revisions, and the theorem. *)

LEMMA KeysNext == KeysInv /\ [Next]_vars => KeysInv'
<1> SUFFICES ASSUME KeysInv, [Next]_vars
             PROVE  KeysInv'
  OBVIOUS
<1>1. CASE UNCHANGED catalogue
  BY <1>1 DEF KeysInv
<1>2. CASE Command
  <2>1. UNCHANGED catalogue
    BY <1>2 DEF Command, OpenIncident, Propose, Approve, Act, Reconcile, LegacyRequest,
                LegacyApprove, Spend, Seed, Running
  <2>2. QED
    BY <1>1, <2>1
<1>3. CASE Up0001
  <2>1. catalogue' = [tables |-> Baseline.tables ++ catalogue.tables,
                      types |-> Baseline.types ++ catalogue.types]
    BY <1>3 DEF Up0001
  <2>2. DOMAIN catalogue'.tables = DOMAIN Baseline.tables \cup DOMAIN catalogue.tables
    BY <2>1 DEF ++
  <2>3. Keyed(catalogue'.tables)
    <3>1. catalogue'.tables = Baseline.tables ++ catalogue.tables
      BY <2>1
    <3>2. Keyed(Baseline.tables) /\ Keyed(catalogue.tables)
      BY BaselineKeys DEF KeysInv
    <3>3. QED
      <4> DEFINE base == Baseline.tables
                 here == catalogue.tables
                 up == catalogue'.tables
      <4>1. up = base ++ here /\ Keyed(base) /\ Keyed(here)
        BY <3>1, <3>2
      <4> HIDE DEF base, here, up
      <4>2. Keyed(up)
        BY <4>1 DEF Keyed, ++
      <4>3. QED
        BY <4>2 DEF up
  <2>4. IsFiniteSet(DOMAIN catalogue'.tables)
    <3>1. IsFiniteSet(DOMAIN Baseline.tables) /\ IsFiniteSet(DOMAIN catalogue.tables)
      BY BaselineKeys DEF KeysInv
    <3>2. IsFiniteSet(DOMAIN Baseline.tables \cup DOMAIN catalogue.tables)
      BY <3>1, FS_Union, Zenon
    <3>3. QED
      BY <2>2, <3>2
  <2>5. QED
    BY <2>1, <2>2, <2>3, <2>4, BaselineKeys DEF KeysInv
<1>4. CASE Down0001
  <2>1. catalogue' = [tables |-> Without(catalogue.tables, Dropped),
                      types |-> Without(catalogue.types, DroppedTypes)]
    BY <1>4 DEF Down0001, Dropped
  <2>2. /\ DOMAIN catalogue'.tables = DOMAIN catalogue.tables \ Dropped
        /\ \A t \in DOMAIN catalogue'.tables : catalogue'.tables[t] = catalogue.tables[t]
    BY <2>1 DEF Without
  <2>3. QED
    BY <2>1, <2>2, AllDropped, FS_Subset DEF KeysInv, Keyed
<1>5. CASE Up0006 \/ Down0006
  BY <1>5, AuthorisationsHeld
<1>6. CASE \/ Up0002 \/ Up0003 \/ Up0004 \/ Up0005 \/ Up0007 \/ Up0008 \/ Up0009
           \/ Down0009 \/ Down0008 \/ Down0007 \/ Down0005 \/ Down0004 \/ Down0003
           \/ Down0002
  BY <1>6, ConstraintsOnly, SameKeysKeep
<1>7. QED
  BY <1>1, <1>2, <1>3, <1>4, <1>5, <1>6 DEF Next, Upgrade, Downgrade, vars

(* clear_seed_data (db/seeding.py) is never refused by the RESTRICT keys   *)
(* of 0006_execution_integrity.py, at any revision and whatever rows there *)
(* are: when a cascade takes an authorisation it has taken the records     *)
(* that were made under it in that wave or an earlier one.                 *)
THEOREM ErasureAlwaysAllowed == Spec => []ErasureNeverRefused
<1>1. Init => KeysInv
  <2> SUFFICES ASSUME Init
               PROVE  KeysInv
    OBVIOUS
  <2>1. DOMAIN catalogue = {"tables", "types"} /\ DOMAIN catalogue.tables = {}
    BY DEF Init, EmptyCatalogue
  <2>2. QED
    BY <2>1, FS_EmptySet DEF KeysInv, Keyed
<1>2. KeysInv => ErasureNeverRefused
  <2> SUFFICES ASSUME KeysInv, NEW root \in {"opportunities", "accounts"}
               PROVE  ~ DeletionRefused(catalogue.tables, root)
    BY DEF ErasureNeverRefused
  <2>1. Cardinality(DOMAIN catalogue.tables) \in Nat
    BY FS_CardinalityType DEF KeysInv
  <2>2. QED
    BY <2>1, KeyedErasure DEF KeysInv, Authorisations
<1>3. QED
  BY <1>1, <1>2, KeysNext, PTL DEF Spec

-----------------------------------------------------------------------------
(* The catalogue at each revision. *)

\* What a table of the catalogue says.
Constraint == {"fk", "unique", "check", "enum", "nullable", "scale", "added"}

\* What a later revision than the baseline changes of a table.
Moved(t, f) ==
  \/ t = "incidents" /\ f = "unique"
  \/ t = "model_calls" /\ f = "added"
  \/ t = "interventions" /\ f \in {"enum", "added"}
  \/ t = "approval_requests" /\ f \in {"unique", "added"}
  \/ t = "action_records" /\ f \in {"fk", "check", "nullable", "added"}
  \/ t = "budgets" /\ f = "scale"
  \/ t = "evaluation_runs" /\ f \in {"unique", "added"}

\* s from revision n on.
Since(n, r, s) == IF r >= n THEN s ELSE {}

\* The keys of an effect's record before revision 6.
OwnKeys == Cascade({"intervention_id", "run_id"})

\* What the revisions up to r have made of table t.
MovedAt(t, table, r) ==
  /\ t = "incidents" =>
       table.unique = {{"incident_ref"}} \cup Since(2, r, {{"signal_id"}})
  /\ t = "model_calls" =>
       table.added = Since(3, r, {"is_replay"})
  /\ t = "interventions" =>
       /\ table.enum = [action_type |-> IF r >= 4 THEN "proposed_action" ELSE "action_type"]
       /\ table.added = Since(6, r, {"target_ref"})
  /\ t = "approval_requests" =>
       /\ table.unique = {{"policy_evaluation_id"}} \cup Since(5, r, {{"approval_ref"}})
       /\ table.added = Since(5, r, {"requested_by", "approval_ref"})
  /\ t = "action_records" =>
       /\ table.fk = IF r >= 6 THEN AuthorisationKeys ++ OwnKeys ELSE OwnKeys
       /\ table.check = {"attempt_count_non_negative"}
                          \cup Since(9, r, {"reconciliation_is_complete_or_absent"})
       /\ table.nullable = {"result", "executed_at"} \cup Since(6, r, {"approval_request_id"})
                             \cup Since(9, r, Attestation)
       /\ table.added = Since(6, r, {"approval_request_id"}) \cup Since(9, r, Attestation)
  /\ t = "budgets" =>
       table.scale = IF r >= 7 THEN [limit_usd |-> 6, consumed_usd |-> 6]
                               ELSE [limit_usd |-> 2, consumed_usd |-> 2]
  /\ t = "evaluation_runs" =>
       /\ table.unique = Since(8, r, {{"seq"}})
       /\ table.added = Since(8, r, {"seq"})

TablesAt(tables, r) ==
  /\ tables = [t \in DOMAIN Baseline.tables |-> [f \in Constraint |-> tables[t][f]]]
  /\ \A t \in DOMAIN Baseline.tables, f \in Constraint :
       Moved(t, f) \/ tables[t][f] = Baseline.tables[t][f]
  /\ \A t \in DOMAIN Baseline.tables : MovedAt(t, tables[t], r)

TypesAt(types, r) ==
  /\ types = [y \in DOMAIN BaselineTypes \cup Since(4, r, {"proposed_action"}) |-> types[y]]
  /\ \A y \in DOMAIN BaselineTypes \ {"action_status"} : types[y] = BaselineTypes[y]
  /\ types["action_status"] = BaselineTypes["action_status"] \cup Since(6, r, {"indeterminate"})
  /\ r >= 4 => types["proposed_action"] = Proposable

\* The catalogue is the same at a revision, whichever way the database came to it.
SchemaInv ==
  /\ rev \in 0 .. HeadRev
  /\ catalogue = [tables |-> catalogue.tables, types |-> catalogue.types]
  /\ rev = 0 => catalogue = EmptyCatalogue
  /\ rev >= 1 => TablesAt(catalogue.tables, rev) /\ TypesAt(catalogue.types, rev)

-----------------------------------------------------------------------------
(* The two ends: what the baseline creates and what the models declare. *)

\* Each is declared by one model.
LEMMA ModelTables ==
  /\ DOMAIN Models =
       DOMAIN GtmModels \cup DOMAIN EventModels \cup DOMAIN WorkflowModels \cup DOMAIN
         InvestigationModels \cup DOMAIN GovernanceModels \cup DOMAIN ObservabilityModels \cup
         DOMAIN EvaluationModels
  /\ Includes(Models, GtmModels) /\ Includes(Models, EventModels)
  /\ Includes(Models, WorkflowModels) /\ Includes(Models, InvestigationModels)
  /\ Includes(Models, GovernanceModels) /\ Includes(Models, ObservabilityModels)
  /\ Includes(Models, EvaluationModels)
  /\ Models = [x \in DOMAIN Models |-> Models[x]]
<1> DEFINE j1 == GtmModels
           j2 == j1 ++ EventModels
           j3 == j2 ++ WorkflowModels
           j4 == j3 ++ InvestigationModels
           j5 == j4 ++ GovernanceModels
           j6 == j5 ++ ObservabilityModels
           j7 == j6 ++ EvaluationModels
<1>1. Models = j7
  BY DEF Models
<1>2. DOMAIN GtmModels =
        {"accounts", "opportunities", "activities", "usage_snapshots", "engagement_events",
          "support_issues", "company_profiles"}
  BY DEF GtmModels
<1>3. DOMAIN EventModels =
        {"raw_events", "normalized_events", "signals"}
  BY DEF EventModels
<1>4. DOMAIN WorkflowModels =
        {"incidents", "workflow_runs", "workflow_transitions", "agent_decisions"}
  BY DEF WorkflowModels
<1>5. DOMAIN InvestigationModels =
        {"evidence_items", "hypotheses", "hypothesis_evidence", "impact_assessments",
          "interventions"}
  BY DEF InvestigationModels
<1>6. DOMAIN GovernanceModels =
        {"policy_evaluations", "approval_requests", "action_records"}
  BY DEF GovernanceModels
<1>7. DOMAIN ObservabilityModels =
        {"tool_calls", "model_calls", "cost_entries", "budgets", "audit_events"}
  BY DEF ObservabilityModels
<1>8. DOMAIN EvaluationModels =
        {"evaluation_runs", "evaluation_results"}
  BY DEF EvaluationModels
<1> HIDE DEF j2, j3, j4, j5, j6, j7
<1>9. /\ DOMAIN j2 = DOMAIN j1 \cup DOMAIN EventModels
      /\ Includes(j2, j1) /\ Includes(j2, EventModels)
  BY <1>2, <1>3 DEF j2, Includes, ++
<1>10. /\ DOMAIN j3 = DOMAIN j2 \cup DOMAIN WorkflowModels
       /\ Includes(j3, j2) /\ Includes(j3, WorkflowModels)
  BY <1>2, <1>3, <1>4, <1>9 DEF j3, Includes, ++
<1>11. /\ DOMAIN j4 = DOMAIN j3 \cup DOMAIN InvestigationModels
       /\ Includes(j4, j3) /\ Includes(j4, InvestigationModels)
  BY <1>2, <1>3, <1>4, <1>5, <1>9, <1>10 DEF j4, Includes, ++
<1>12. /\ DOMAIN j5 = DOMAIN j4 \cup DOMAIN GovernanceModels
       /\ Includes(j5, j4) /\ Includes(j5, GovernanceModels)
  BY <1>2, <1>3, <1>4, <1>5, <1>6, <1>9, <1>10, <1>11 DEF j5, Includes, ++
<1>13. /\ DOMAIN j6 = DOMAIN j5 \cup DOMAIN ObservabilityModels
       /\ Includes(j6, j5) /\ Includes(j6, ObservabilityModels)
  BY <1>2, <1>3, <1>4, <1>5, <1>6, <1>7, <1>9, <1>10, <1>11, <1>12 DEF j6, Includes, ++
<1>14. /\ DOMAIN j7 = DOMAIN j6 \cup DOMAIN EvaluationModels
       /\ Includes(j7, j6) /\ Includes(j7, EvaluationModels)
  BY <1>2, <1>3, <1>4, <1>5, <1>6, <1>7, <1>8, <1>9, <1>10, <1>11, <1>12, <1>13 DEF j7, Includes,
    ++
<1>15. j7 = [x \in DOMAIN j7 |-> j7[x]]
  BY DEF j7, ++
<1> HIDE DEF j1
<1>16. QED
  BY <1>1, <1>9, <1>10, <1>11, <1>12, <1>13, <1>14, <1>15 DEF j1, Includes

\* Each enum of the domain has one type.
LEMMA ModelEnums ==
  /\ DOMAIN ModelTypes =
       DOMAIN MirrorEnums \cup DOMAIN EventEnums \cup DOMAIN IncidentEnums \cup DOMAIN
         GovernanceEnums \cup DOMAIN LedgerEnums
  /\ Includes(ModelTypes, MirrorEnums) /\ Includes(ModelTypes, EventEnums)
  /\ Includes(ModelTypes, IncidentEnums) /\ Includes(ModelTypes, GovernanceEnums)
  /\ Includes(ModelTypes, LedgerEnums)
  /\ ModelTypes = [x \in DOMAIN ModelTypes |-> ModelTypes[x]]
<1> DEFINE j1 == MirrorEnums
           j2 == j1 ++ EventEnums
           j3 == j2 ++ IncidentEnums
           j4 == j3 ++ GovernanceEnums
           j5 == j4 ++ LedgerEnums
<1>1. ModelTypes = j5
  BY DEF ModelTypes
<1>2. DOMAIN MirrorEnums =
        {"account_segment", "opportunity_stage", "activity_type", "activity_direction",
          "engagement_channel", "engagement_event_type", "support_severity", "support_status",
          "source_system"}
  BY DEF MirrorEnums
<1>3. DOMAIN EventEnums =
        {"event_type", "trust_level", "signal_type", "severity"}
  BY DEF EventEnums
<1>4. DOMAIN IncidentEnums =
        {"incident_type", "incident_status", "workflow_status", "computed_by"}
  BY DEF IncidentEnums
<1>5. DOMAIN GovernanceEnums =
        {"policy_decision", "approval_status", "action_type", "proposed_action", "action_status"}
  BY DEF GovernanceEnums
<1>6. DOMAIN LedgerEnums =
        {"tool_call_status", "cost_type", "budget_scope", "budget_period", "evaluation_outcome"}
  BY DEF LedgerEnums
<1> HIDE DEF j2, j3, j4, j5
<1>7. /\ DOMAIN j2 = DOMAIN j1 \cup DOMAIN EventEnums
      /\ Includes(j2, j1) /\ Includes(j2, EventEnums)
  BY <1>2, <1>3 DEF j2, Includes, ++
<1>8. /\ DOMAIN j3 = DOMAIN j2 \cup DOMAIN IncidentEnums
      /\ Includes(j3, j2) /\ Includes(j3, IncidentEnums)
  BY <1>2, <1>3, <1>4, <1>7 DEF j3, Includes, ++
<1>9. /\ DOMAIN j4 = DOMAIN j3 \cup DOMAIN GovernanceEnums
      /\ Includes(j4, j3) /\ Includes(j4, GovernanceEnums)
  BY <1>2, <1>3, <1>4, <1>5, <1>7, <1>8 DEF j4, Includes, ++
<1>10. /\ DOMAIN j5 = DOMAIN j4 \cup DOMAIN LedgerEnums
       /\ Includes(j5, j4) /\ Includes(j5, LedgerEnums)
  BY <1>2, <1>3, <1>4, <1>5, <1>6, <1>7, <1>8, <1>9 DEF j5, Includes, ++
<1>11. j5 = [x \in DOMAIN j5 |-> j5[x]]
  BY DEF j5, ++
<1> HIDE DEF j1
<1>12. QED
  BY <1>1, <1>7, <1>8, <1>9, <1>10, <1>11 DEF j1, Includes

\* A table says what it is given and nothing else.
LEMMA TableShape ==
  ASSUME NEW c, DOMAIN c \subseteq Constraint
  PROVE  Table(c) = [f \in Constraint |-> Table(c)[f]]
<1>1. DOMAIN [fk |-> <<>>, unique |-> {}, check |-> {}, enum |-> <<>>, nullable |-> {},
              scale |-> <<>>, added |-> {}] = Constraint
  BY DEF Constraint
<1>2. QED
  BY <1>1 DEF Table, ++

LEMMA TableSays ==
  ASSUME NEW c
  PROVE  /\ Table(c).fk = IF "fk" \in DOMAIN c THEN c.fk ELSE <<>>
         /\ Table(c).unique = IF "unique" \in DOMAIN c THEN c.unique ELSE {}
         /\ Table(c).check = IF "check" \in DOMAIN c THEN c.check ELSE {}
         /\ Table(c).enum = IF "enum" \in DOMAIN c THEN c.enum ELSE <<>>
         /\ Table(c).nullable = IF "nullable" \in DOMAIN c THEN c.nullable ELSE {}
         /\ Table(c).scale = IF "scale" \in DOMAIN c THEN c.scale ELSE <<>>
         /\ Table(c).added = IF "added" \in DOMAIN c THEN c.added ELSE {}
  BY Zenon DEF Table, ++

LEMMA SaySame ==
  ASSUME NEW c, NEW d, NEW f \in Constraint,
         \/ f \in DOMAIN c /\ f \in DOMAIN d /\ c[f] = d[f]
         \/ f \notin DOMAIN c /\ f \notin DOMAIN d
  PROVE  Table(c)[f] = Table(d)[f]
  BY DEF Table, ++, Constraint

Shaped(tables) ==
  \A t \in DOMAIN tables : tables[t] = [f \in Constraint |-> tables[t][f]]

LEMMA AllShaped == Shaped(Baseline.tables) /\ Shaped(Models)
<1>1. Shaped(RootTables)
  BY TableShape, SMTT(60) DEF Shaped, Constraint, RootTables
<1>2. Shaped(MirrorTables)
  BY TableShape, SMTT(60) DEF Shaped, Constraint, MirrorTables
<1>3. Shaped(PipelineTables)
  BY TableShape, SMTT(60) DEF Shaped, Constraint, PipelineTables
<1>4. Shaped(SignalTables)
  BY TableShape, SMTT(60) DEF Shaped, Constraint, SignalTables
<1>5. Shaped(IncidentTables)
  BY TableShape, SMTT(60) DEF Shaped, Constraint, IncidentTables
<1>6. Shaped(RunTables)
  BY TableShape, SMTT(60) DEF Shaped, Constraint, RunTables
<1>7. Shaped(FindingTables)
  BY TableShape, SMTT(60) DEF Shaped, Constraint, FindingTables
<1>8. Shaped(CallTables)
  BY TableShape, SMTT(60) DEF Shaped, Constraint, CallTables
<1>9. Shaped(ActionTables)
  BY TableShape, SMTT(60) DEF Shaped, Constraint, ActionTables
<1>10. Shaped(GovernanceTables)
  BY TableShape, SMTT(60) DEF Shaped, Constraint, GovernanceTables
<1>11. Shaped(GtmModels)
  BY TableShape, SMTT(60) DEF Shaped, Constraint, GtmModels
<1>12. Shaped(EventModels)
  BY TableShape, SMTT(60) DEF Shaped, Constraint, EventModels
<1>13. Shaped(WorkflowModels)
  BY TableShape, SMTT(60) DEF Shaped, Constraint, WorkflowModels
<1>14. Shaped(InvestigationModels)
  BY TableShape, SMTT(60) DEF Shaped, Constraint, InvestigationModels
<1>15. Shaped(GovernanceModels)
  BY TableShape, SMTT(60) DEF Shaped, Constraint, GovernanceModels
<1>16. Shaped(ObservabilityModels)
  BY TableShape, SMTT(60) DEF Shaped, Constraint, ObservabilityModels
<1>17. Shaped(EvaluationModels)
  BY TableShape, SMTT(60) DEF Shaped, Constraint, EvaluationModels
<1>18. QED
  BY <1>1, <1>2, <1>3, <1>4, <1>5, <1>6, <1>7, <1>8, <1>9, <1>10, <1>11, <1>12, <1>13, <1>14,
    <1>15, <1>16, <1>17, BaselineTables, ModelTables DEF Shaped, Includes

\* The two ends of a table that later revisions change.
Ends(t) ==
  /\ t \in DOMAIN Baseline.tables /\ t \in DOMAIN Models
  /\ \A f \in Constraint : Moved(t, f) \/ Baseline.tables[t][f] = Models[t][f]
  /\ MovedAt(t, Baseline.tables[t], 1)
  /\ MovedAt(t, Models[t], 9)

LEMMA TouchedTables ==
  \A t \in {"incidents", "model_calls", "interventions", "approval_requests", "action_records",
    "budgets", "evaluation_runs"} : Ends(t)
<1>1. Ends("incidents")
  <2>1. PICK b : /\ IncidentTables["incidents"] = Table(b)
                /\ DOMAIN b = {"fk", "unique", "check", "enum", "nullable"}
                /\ b.fk = Cascade({"account_id", "opportunity_id", "signal_id"})
                /\ b.unique = {{"incident_ref"}}
                /\ b.check = {"closure_ordered"}
                /\ b.enum = [incident_type |-> "incident_type", status |-> "incident_status",
                  severity |-> "severity"]
                /\ b.nullable = {"opportunity_id", "closed_at"}
    BY DEF IncidentTables
  <2>2. PICK m : /\ WorkflowModels["incidents"] = Table(m)
                /\ DOMAIN m = {"fk", "unique", "check", "enum", "nullable"}
                /\ m.fk = Cascade({"account_id", "opportunity_id", "signal_id"})
                /\ m.unique = {{"incident_ref"}, {"signal_id"}}
                /\ m.check = {"closure_ordered"}
                /\ m.enum = [incident_type |-> "incident_type", status |-> "incident_status",
                  severity |-> "severity"]
                /\ m.nullable = {"opportunity_id", "closed_at"}
    BY DEF WorkflowModels
  <2>3. Baseline.tables["incidents"] = Table(b) /\ "incidents" \in DOMAIN Baseline.tables
    BY <2>1, BaselineTables DEF Includes, IncidentTables
  <2>4. Models["incidents"] = Table(m) /\ "incidents" \in DOMAIN Models
    BY <2>2, ModelTables DEF Includes, WorkflowModels
  <2>5. \A f \in Constraint : Moved("incidents", f) \/ Table(b)[f] = Table(m)[f]
    <3>1. \A f \in Constraint :
            \/ Moved("incidents", f)
            \/ f \in DOMAIN b /\ f \in DOMAIN m /\ b[f] = m[f]
            \/ f \notin DOMAIN b /\ f \notin DOMAIN m
      BY <2>1, <2>2 DEF Moved, Constraint
    <3>2. QED
      BY <3>1, SaySame
  <2>6. MovedAt("incidents", Table(b), 1)
    BY <2>1, TableSays DEF MovedAt, Since
  <2>7. MovedAt("incidents", Table(m), 9)
    BY <2>2, TableSays DEF MovedAt, Since
  <2>8. QED
    BY <2>3, <2>4, <2>5, <2>6, <2>7 DEF Ends
<1>2. Ends("model_calls")
  <2>1. PICK b : /\ CallTables["model_calls"] = Table(b)
                /\ DOMAIN b = {"fk", "check"}
                /\ b.fk = Cascade({"run_id"})
                /\ b.check = {"tokens_non_negative", "latency_non_negative"}
    BY DEF CallTables
  <2>2. PICK m : /\ ObservabilityModels["model_calls"] = Table(m)
                /\ DOMAIN m = {"fk", "check", "added"}
                /\ m.fk = Cascade({"run_id"})
                /\ m.check = {"tokens_non_negative", "latency_non_negative"}
                /\ m.added = {"is_replay"}
    BY DEF ObservabilityModels
  <2>3. Baseline.tables["model_calls"] = Table(b) /\ "model_calls" \in DOMAIN Baseline.tables
    BY <2>1, BaselineTables DEF Includes, CallTables
  <2>4. Models["model_calls"] = Table(m) /\ "model_calls" \in DOMAIN Models
    BY <2>2, ModelTables DEF Includes, ObservabilityModels
  <2>5. \A f \in Constraint : Moved("model_calls", f) \/ Table(b)[f] = Table(m)[f]
    <3>1. \A f \in Constraint :
            \/ Moved("model_calls", f)
            \/ f \in DOMAIN b /\ f \in DOMAIN m /\ b[f] = m[f]
            \/ f \notin DOMAIN b /\ f \notin DOMAIN m
      BY <2>1, <2>2 DEF Moved, Constraint
    <3>2. QED
      BY <3>1, SaySame
  <2>6. MovedAt("model_calls", Table(b), 1)
    BY <2>1, TableSays DEF MovedAt, Since
  <2>7. MovedAt("model_calls", Table(m), 9)
    BY <2>2, TableSays DEF MovedAt, Since
  <2>8. QED
    BY <2>3, <2>4, <2>5, <2>6, <2>7 DEF Ends
<1>3. Ends("interventions")
  <2>1. PICK b : /\ FindingTables["interventions"] = Table(b)
                /\ DOMAIN b = {"fk", "unique", "check", "enum", "scale"}
                /\ b.fk = Cascade({"run_id"})
                /\ b.unique = {{"run_id", "rank"}}
                /\ b.check = {"expected_value_non_negative", "rank_positive"}
                /\ b.enum = [action_type |-> "action_type"]
                /\ b.scale = [expected_value |-> 2, effort_score |-> 2, risk_score |-> 2,
                  composite_score |-> 2]
    BY DEF FindingTables
  <2>2. PICK m : /\ InvestigationModels["interventions"] = Table(m)
                /\ DOMAIN m = {"fk", "unique", "check", "enum", "scale", "added"}
                /\ m.fk = Cascade({"run_id"})
                /\ m.unique = {{"run_id", "rank"}}
                /\ m.check = {"rank_positive", "expected_value_non_negative"}
                /\ m.enum = [action_type |-> "proposed_action"]
                /\ m.scale = [expected_value |-> 2, effort_score |-> 2, risk_score |-> 2,
                  composite_score |-> 2]
                /\ m.added = {"target_ref"}
    BY DEF InvestigationModels
  <2>3. Baseline.tables["interventions"] = Table(b) /\ "interventions" \in DOMAIN Baseline.tables
    BY <2>1, BaselineTables DEF Includes, FindingTables
  <2>4. Models["interventions"] = Table(m) /\ "interventions" \in DOMAIN Models
    BY <2>2, ModelTables DEF Includes, InvestigationModels
  <2>5. \A f \in Constraint : Moved("interventions", f) \/ Table(b)[f] = Table(m)[f]
    <3>1. \A f \in Constraint :
            \/ Moved("interventions", f)
            \/ f \in DOMAIN b /\ f \in DOMAIN m /\ b[f] = m[f]
            \/ f \notin DOMAIN b /\ f \notin DOMAIN m
      BY <2>1, <2>2 DEF Moved, Constraint
    <3>2. QED
      BY <3>1, SaySame
  <2>6. MovedAt("interventions", Table(b), 1)
    BY <2>1, TableSays DEF MovedAt, Since
  <2>7. MovedAt("interventions", Table(m), 9)
    BY <2>2, TableSays DEF MovedAt, Since
  <2>8. QED
    BY <2>3, <2>4, <2>5, <2>6, <2>7 DEF Ends
<1>4. Ends("approval_requests")
  <2>1. PICK b : /\ GovernanceTables["approval_requests"] = Table(b)
                /\ DOMAIN b = {"fk", "unique", "check", "enum", "nullable"}
                /\ b.fk = Cascade({"policy_evaluation_id", "run_id"})
                /\ b.unique = {{"policy_evaluation_id"}}
                /\ b.check = {"expiry_after_request"}
                /\ b.enum = [status |-> "approval_status"]
                /\ b.nullable = {"decided_at", "decided_by", "decision_note"}
    BY DEF GovernanceTables
  <2>2. PICK m : /\ GovernanceModels["approval_requests"] = Table(m)
                /\ DOMAIN m = {"fk", "unique", "check", "enum", "nullable", "added"}
                /\ m.fk = Cascade({"policy_evaluation_id", "run_id"})
                /\ m.unique = {{"policy_evaluation_id"}, {"approval_ref"}}
                /\ m.check = {"expiry_after_request"}
                /\ m.enum = [status |-> "approval_status"]
                /\ m.nullable = {"decided_at", "decided_by", "decision_note"}
                /\ m.added = {"approval_ref", "requested_by"}
    BY DEF GovernanceModels
  <2>3. /\ Baseline.tables["approval_requests"] = Table(b)
        /\ "approval_requests" \in DOMAIN Baseline.tables
    BY <2>1, BaselineTables DEF Includes, GovernanceTables
  <2>4. Models["approval_requests"] = Table(m) /\ "approval_requests" \in DOMAIN Models
    BY <2>2, ModelTables DEF Includes, GovernanceModels
  <2>5. \A f \in Constraint : Moved("approval_requests", f) \/ Table(b)[f] = Table(m)[f]
    <3>1. \A f \in Constraint :
            \/ Moved("approval_requests", f)
            \/ f \in DOMAIN b /\ f \in DOMAIN m /\ b[f] = m[f]
            \/ f \notin DOMAIN b /\ f \notin DOMAIN m
      BY <2>1, <2>2 DEF Moved, Constraint
    <3>2. QED
      BY <3>1, SaySame
  <2>6. MovedAt("approval_requests", Table(b), 1)
    BY <2>1, TableSays DEF MovedAt, Since
  <2>7. MovedAt("approval_requests", Table(m), 9)
    BY <2>2, TableSays DEF MovedAt, Since
  <2>8. QED
    BY <2>3, <2>4, <2>5, <2>6, <2>7 DEF Ends
<1>5. Ends("action_records")
  <2>1. PICK b : /\ ActionTables["action_records"] = Table(b)
                /\ DOMAIN b = {"fk", "unique", "check", "enum", "nullable"}
                /\ b.fk = Cascade({"intervention_id", "run_id"})
                /\ b.unique = {{"idempotency_key"}}
                /\ b.check = {"attempt_count_non_negative"}
                /\ b.enum = [action_type |-> "action_type", status |-> "action_status"]
                /\ b.nullable = {"result", "executed_at"}
    BY DEF ActionTables
  <2>2. PICK m : /\ GovernanceModels["action_records"] = Table(m)
                /\ DOMAIN m = {"fk", "unique", "check", "enum", "nullable", "added"}
                /\ m.fk = Cascade({"run_id", "intervention_id"}) ++ Restricted({"authorized_by",
                  "approval_request_id"})
                /\ m.unique = {{"idempotency_key"}}
                /\ m.check = {"attempt_count_non_negative",
                  "reconciliation_is_complete_or_absent"}
                /\ m.enum = [action_type |-> "action_type", status |-> "action_status"]
                /\ m.nullable = {"approval_request_id", "result", "executed_at", "reconciled_by",
                  "reconciled_at", "reconciliation_evidence"}
                /\ m.added = {"approval_request_id", "reconciled_by", "reconciled_at",
                  "reconciliation_evidence"}
    BY DEF GovernanceModels
  <2>3. Baseline.tables["action_records"] = Table(b) /\ "action_records" \in DOMAIN Baseline.tables
    BY <2>1, BaselineTables DEF Includes, ActionTables
  <2>4. Models["action_records"] = Table(m) /\ "action_records" \in DOMAIN Models
    BY <2>2, ModelTables DEF Includes, GovernanceModels
  <2>5. \A f \in Constraint : Moved("action_records", f) \/ Table(b)[f] = Table(m)[f]
    <3>1. \A f \in Constraint :
            \/ Moved("action_records", f)
            \/ f \in DOMAIN b /\ f \in DOMAIN m /\ b[f] = m[f]
            \/ f \notin DOMAIN b /\ f \notin DOMAIN m
      BY <2>1, <2>2 DEF Moved, Constraint
    <3>2. QED
      BY <3>1, SaySame
  <2>6. MovedAt("action_records", Table(b), 1)
    BY <2>1, TableSays DEF MovedAt, Since, OwnKeys
  <2>7. MovedAt("action_records", Table(m), 9)
    <3>1. Cascade({"run_id", "intervention_id"})
            ++ Restricted({"authorized_by", "approval_request_id"})
            = AuthorisationKeys ++ OwnKeys
      BY DEF Cascade, Restricted, AuthorisationKeys, OwnKeys, ++
    <3>2. QED
      BY <2>2, <3>1, TableSays DEF MovedAt, Since, Attestation
  <2>8. QED
    BY <2>3, <2>4, <2>5, <2>6, <2>7 DEF Ends
<1>6. Ends("budgets")
  <2>1. PICK b : /\ RootTables["budgets"] = Table(b)
                /\ DOMAIN b = {"unique", "check", "enum", "nullable", "scale"}
                /\ b.unique = {{"scope", "scope_ref", "period"}}
                /\ b.check = {"amounts_non_negative"}
                /\ b.enum = [scope |-> "budget_scope", period |-> "budget_period"]
                /\ b.nullable = {"scope_ref"}
                /\ b.scale = [limit_usd |-> 2, consumed_usd |-> 2]
    BY DEF RootTables
  <2>2. PICK m : /\ ObservabilityModels["budgets"] = Table(m)
                /\ DOMAIN m = {"unique", "check", "enum", "nullable", "scale"}
                /\ m.unique = {{"scope", "scope_ref", "period"}}
                /\ m.check = {"amounts_non_negative"}
                /\ m.enum = [scope |-> "budget_scope", period |-> "budget_period"]
                /\ m.nullable = {"scope_ref"}
                /\ m.scale = [limit_usd |-> 6, consumed_usd |-> 6]
    BY DEF ObservabilityModels
  <2>3. Baseline.tables["budgets"] = Table(b) /\ "budgets" \in DOMAIN Baseline.tables
    BY <2>1, BaselineTables DEF Includes, RootTables
  <2>4. Models["budgets"] = Table(m) /\ "budgets" \in DOMAIN Models
    BY <2>2, ModelTables DEF Includes, ObservabilityModels
  <2>5. \A f \in Constraint : Moved("budgets", f) \/ Table(b)[f] = Table(m)[f]
    <3>1. \A f \in Constraint :
            \/ Moved("budgets", f)
            \/ f \in DOMAIN b /\ f \in DOMAIN m /\ b[f] = m[f]
            \/ f \notin DOMAIN b /\ f \notin DOMAIN m
      BY <2>1, <2>2 DEF Moved, Constraint
    <3>2. QED
      BY <3>1, SaySame
  <2>6. MovedAt("budgets", Table(b), 1)
    BY <2>1, TableSays DEF MovedAt, Since
  <2>7. MovedAt("budgets", Table(m), 9)
    BY <2>2, TableSays DEF MovedAt, Since
  <2>8. QED
    BY <2>3, <2>4, <2>5, <2>6, <2>7 DEF Ends
<1>7. Ends("evaluation_runs")
  <2>1. PICK b : /\ RootTables["evaluation_runs"] = Table(b)
                /\ DOMAIN b = {"check", "nullable"}
                /\ b.check = {"counts_coherent"}
                /\ b.nullable = {"ended_at"}
    BY DEF RootTables
  <2>2. PICK m : /\ EvaluationModels["evaluation_runs"] = Table(m)
                /\ DOMAIN m = {"unique", "check", "nullable", "added"}
                /\ m.unique = {{"seq"}}
                /\ m.check = {"counts_coherent"}
                /\ m.nullable = {"ended_at"}
                /\ m.added = {"seq"}
    BY DEF EvaluationModels
  <2>3. /\ Baseline.tables["evaluation_runs"] = Table(b)
        /\ "evaluation_runs" \in DOMAIN Baseline.tables
    BY <2>1, BaselineTables DEF Includes, RootTables
  <2>4. Models["evaluation_runs"] = Table(m) /\ "evaluation_runs" \in DOMAIN Models
    BY <2>2, ModelTables DEF Includes, EvaluationModels
  <2>5. \A f \in Constraint : Moved("evaluation_runs", f) \/ Table(b)[f] = Table(m)[f]
    <3>1. \A f \in Constraint :
            \/ Moved("evaluation_runs", f)
            \/ f \in DOMAIN b /\ f \in DOMAIN m /\ b[f] = m[f]
            \/ f \notin DOMAIN b /\ f \notin DOMAIN m
      BY <2>1, <2>2 DEF Moved, Constraint
    <3>2. QED
      BY <3>1, SaySame
  <2>6. MovedAt("evaluation_runs", Table(b), 1)
    BY <2>1, TableSays DEF MovedAt, Since
  <2>7. MovedAt("evaluation_runs", Table(m), 9)
    BY <2>2, TableSays DEF MovedAt, Since
  <2>8. QED
    BY <2>3, <2>4, <2>5, <2>6, <2>7 DEF Ends
<1>8. QED
  BY <1>1, <1>2, <1>3, <1>4, <1>5, <1>6, <1>7

\* What no later revision changes is what the models declare.
LEMMA UnmovedAgree ==
  /\ DOMAIN Baseline.tables = DOMAIN Models
  /\ \A t \in DOMAIN Models, f \in Constraint :
       Moved(t, f) \/ Baseline.tables[t][f] = Models[t][f]
<1>1. /\ DOMAIN Baseline.tables = DOMAIN Models
      /\ DOMAIN Models =
           {"accounts", "opportunities", "activities", "usage_snapshots", "engagement_events",
             "support_issues", "company_profiles", "raw_events", "normalized_events", "signals",
             "incidents", "workflow_runs", "workflow_transitions", "agent_decisions",
             "evidence_items", "hypotheses", "hypothesis_evidence", "impact_assessments",
             "interventions", "policy_evaluations", "approval_requests", "action_records",
             "tool_calls", "model_calls", "cost_entries", "budgets", "audit_events",
             "evaluation_runs", "evaluation_results"}
  BY BaselineTables, ModelTables DEF RootTables, MirrorTables, PipelineTables, SignalTables,
    IncidentTables, RunTables, FindingTables, CallTables, ActionTables, GovernanceTables,
    GtmModels, EventModels, WorkflowModels, InvestigationModels, GovernanceModels,
    ObservabilityModels, EvaluationModels
<1>2. Baseline.tables["accounts"] = Models["accounts"]
  <2>1. RootTables["accounts"] = GtmModels["accounts"]
    BY DEF RootTables, GtmModels
  <2>2. QED
    BY <2>1, BaselineTables, ModelTables DEF Includes, RootTables, GtmModels
<1>3. Baseline.tables["opportunities"] = Models["opportunities"]
  <2>1. PipelineTables["opportunities"] = GtmModels["opportunities"]
    BY DEF PipelineTables, GtmModels
  <2>2. QED
    BY <2>1, BaselineTables, ModelTables DEF Includes, PipelineTables, GtmModels
<1>4. Baseline.tables["activities"] = Models["activities"]
  <2>1. SignalTables["activities"] = GtmModels["activities"]
    BY DEF SignalTables, GtmModels
  <2>2. QED
    BY <2>1, BaselineTables, ModelTables DEF Includes, SignalTables, GtmModels
<1>5. Baseline.tables["usage_snapshots"] = Models["usage_snapshots"]
  <2>1. PipelineTables["usage_snapshots"] = GtmModels["usage_snapshots"]
    BY DEF PipelineTables, GtmModels
  <2>2. QED
    BY <2>1, BaselineTables, ModelTables DEF Includes, PipelineTables, GtmModels
<1>6. Baseline.tables["engagement_events"] = Models["engagement_events"]
  <2>1. MirrorTables["engagement_events"] = GtmModels["engagement_events"]
    BY DEF MirrorTables, GtmModels
  <2>2. QED
    BY <2>1, BaselineTables, ModelTables DEF Includes, MirrorTables, GtmModels
<1>7. Baseline.tables["support_issues"] = Models["support_issues"]
  <2>1. PipelineTables["support_issues"] = GtmModels["support_issues"]
    BY DEF PipelineTables, GtmModels
  <2>2. QED
    BY <2>1, BaselineTables, ModelTables DEF Includes, PipelineTables, GtmModels
<1>8. Baseline.tables["company_profiles"] = Models["company_profiles"]
  <2>1. MirrorTables["company_profiles"] = GtmModels["company_profiles"]
    BY DEF MirrorTables, GtmModels
  <2>2. QED
    BY <2>1, BaselineTables, ModelTables DEF Includes, MirrorTables, GtmModels
<1>9. Baseline.tables["raw_events"] = Models["raw_events"]
  <2>1. RootTables["raw_events"] = EventModels["raw_events"]
    BY DEF RootTables, EventModels
  <2>2. QED
    BY <2>1, BaselineTables, ModelTables DEF Includes, RootTables, EventModels
<1>10. Baseline.tables["normalized_events"] = Models["normalized_events"]
  <2>1. MirrorTables["normalized_events"] = EventModels["normalized_events"]
    BY DEF MirrorTables, EventModels
  <2>2. QED
    BY <2>1, BaselineTables, ModelTables DEF Includes, MirrorTables, EventModels
<1>11. Baseline.tables["signals"] = Models["signals"]
  <2>1. SignalTables["signals"] = EventModels["signals"]
    BY DEF SignalTables, EventModels
  <2>2. QED
    BY <2>1, BaselineTables, ModelTables DEF Includes, SignalTables, EventModels
<1>12. \A f \in Constraint :
         Moved("incidents", f) \/ Baseline.tables["incidents"][f] = Models["incidents"][f]
  BY TouchedTables DEF Ends
<1>13. Baseline.tables["workflow_runs"] = Models["workflow_runs"]
  <2>1. RunTables["workflow_runs"] = WorkflowModels["workflow_runs"]
    BY DEF RunTables, WorkflowModels
  <2>2. QED
    BY <2>1, BaselineTables, ModelTables DEF Includes, RunTables, WorkflowModels
<1>14. Baseline.tables["workflow_transitions"] = Models["workflow_transitions"]
  <2>1. CallTables["workflow_transitions"] = WorkflowModels["workflow_transitions"]
    BY DEF CallTables, WorkflowModels
  <2>2. QED
    BY <2>1, BaselineTables, ModelTables DEF Includes, CallTables, WorkflowModels
<1>15. Baseline.tables["agent_decisions"] = Models["agent_decisions"]
  <2>1. SetNull({"model_call_id"}) ++ Cascade({"run_id"})
          = Cascade({"run_id"}) ++ SetNull({"model_call_id"})
    BY DEF SetNull, Cascade, ++
  <2>2. ActionTables["agent_decisions"] = WorkflowModels["agent_decisions"]
    BY <2>1 DEF ActionTables, WorkflowModels
  <2>3. QED
    BY <2>2, BaselineTables, ModelTables DEF Includes, ActionTables, WorkflowModels
<1>16. Baseline.tables["evidence_items"] = Models["evidence_items"]
  <2>1. FindingTables["evidence_items"] = InvestigationModels["evidence_items"]
    BY DEF FindingTables, InvestigationModels
  <2>2. QED
    BY <2>1, BaselineTables, ModelTables DEF Includes, FindingTables, InvestigationModels
<1>17. Baseline.tables["hypotheses"] = Models["hypotheses"]
  <2>1. FindingTables["hypotheses"] = InvestigationModels["hypotheses"]
    BY DEF FindingTables, InvestigationModels
  <2>2. QED
    BY <2>1, BaselineTables, ModelTables DEF Includes, FindingTables, InvestigationModels
<1>18. Baseline.tables["hypothesis_evidence"] = Models["hypothesis_evidence"]
  <2>1. GovernanceTables["hypothesis_evidence"] = InvestigationModels["hypothesis_evidence"]
    BY DEF GovernanceTables, InvestigationModels
  <2>2. QED
    BY <2>1, BaselineTables, ModelTables DEF Includes, GovernanceTables, InvestigationModels
<1>19. Baseline.tables["impact_assessments"] = Models["impact_assessments"]
  <2>1. FindingTables["impact_assessments"] = InvestigationModels["impact_assessments"]
    BY DEF FindingTables, InvestigationModels
  <2>2. QED
    BY <2>1, BaselineTables, ModelTables DEF Includes, FindingTables, InvestigationModels
<1>20. \A f \in Constraint :
         Moved("interventions", f) \/
             Baseline.tables["interventions"][f] = Models["interventions"][f]
  BY TouchedTables DEF Ends
<1>21. Baseline.tables["policy_evaluations"] = Models["policy_evaluations"]
  <2>1. GovernanceTables["policy_evaluations"] = GovernanceModels["policy_evaluations"]
    BY DEF GovernanceTables, GovernanceModels
  <2>2. QED
    BY <2>1, BaselineTables, ModelTables DEF Includes, GovernanceTables, GovernanceModels
<1>22. \A f \in Constraint :
         Moved("approval_requests", f) \/
             Baseline.tables["approval_requests"][f] = Models["approval_requests"][f]
  BY TouchedTables DEF Ends
<1>23. \A f \in Constraint :
         Moved("action_records", f) \/
             Baseline.tables["action_records"][f] = Models["action_records"][f]
  BY TouchedTables DEF Ends
<1>24. Baseline.tables["tool_calls"] = Models["tool_calls"]
  <2>1. CallTables["tool_calls"] = ObservabilityModels["tool_calls"]
    BY DEF CallTables, ObservabilityModels
  <2>2. QED
    BY <2>1, BaselineTables, ModelTables DEF Includes, CallTables, ObservabilityModels
<1>25. \A f \in Constraint :
         Moved("model_calls", f) \/ Baseline.tables["model_calls"][f] = Models["model_calls"][f]
  BY TouchedTables DEF Ends
<1>26. Baseline.tables["cost_entries"] = Models["cost_entries"]
  <2>1. ActionTables["cost_entries"] = ObservabilityModels["cost_entries"]
    BY DEF ActionTables, ObservabilityModels
  <2>2. QED
    BY <2>1, BaselineTables, ModelTables DEF Includes, ActionTables, ObservabilityModels
<1>27. \A f \in Constraint :
         Moved("budgets", f) \/ Baseline.tables["budgets"][f] = Models["budgets"][f]
  BY TouchedTables DEF Ends
<1>28. Baseline.tables["audit_events"] = Models["audit_events"]
  <2>1. RunTables["audit_events"] = ObservabilityModels["audit_events"]
    BY DEF RunTables, ObservabilityModels
  <2>2. QED
    BY <2>1, BaselineTables, ModelTables DEF Includes, RunTables, ObservabilityModels
<1>29. \A f \in Constraint :
         Moved("evaluation_runs", f) \/
             Baseline.tables["evaluation_runs"][f] = Models["evaluation_runs"][f]
  BY TouchedTables DEF Ends
<1>30. Baseline.tables["evaluation_results"] = Models["evaluation_results"]
  <2>1. RunTables["evaluation_results"] = EvaluationModels["evaluation_results"]
    BY DEF RunTables, EvaluationModels
  <2>2. QED
    BY <2>1, BaselineTables, ModelTables DEF Includes, RunTables, EvaluationModels
<1>31. QED
  BY <1>1, <1>2, <1>3, <1>4, <1>5, <1>6, <1>7, <1>8, <1>9, <1>10, <1>11, <1>12, <1>13, <1>14,
    <1>15, <1>16, <1>17, <1>18, <1>19, <1>20, <1>21, <1>22, <1>23, <1>24, <1>25, <1>26, <1>27,
    <1>28, <1>29, <1>30

LEMMA TypeEnds == TypesAt(BaselineTypes, 1) /\ TypesAt(ModelTypes, 9)
<1>1. TypesAt(BaselineTypes, 1)
  BY DEF TypesAt, Since, BaselineTypes
<1>2. TypesAt(ModelTypes, 9)
  <2>1. DOMAIN ModelTypes = DOMAIN BaselineTypes \cup {"proposed_action"}
    BY ModelEnums DEF MirrorEnums, EventEnums, IncidentEnums, GovernanceEnums, LedgerEnums,
                      BaselineTypes
  <2>2. ModelTypes = [y \in DOMAIN ModelTypes |-> ModelTypes[y]]
    BY ModelEnums
  <2>3. \A y \in DOMAIN MirrorEnums : ModelTypes[y] = BaselineTypes[y]
    <3>1. DOMAIN MirrorEnums =
            {"account_segment", "opportunity_stage", "activity_type",
             "activity_direction", "engagement_channel", "engagement_event_type",
             "support_severity", "support_status", "source_system"}
      BY DEF MirrorEnums
    <3>2. /\ MirrorEnums.account_segment = BaselineTypes.account_segment
          /\ MirrorEnums.opportunity_stage = BaselineTypes.opportunity_stage
          /\ MirrorEnums.activity_type = BaselineTypes.activity_type
          /\ MirrorEnums.activity_direction = BaselineTypes.activity_direction
          /\ MirrorEnums.engagement_channel = BaselineTypes.engagement_channel
          /\ MirrorEnums.engagement_event_type = BaselineTypes.engagement_event_type
          /\ MirrorEnums.support_severity = BaselineTypes.support_severity
          /\ MirrorEnums.support_status = BaselineTypes.support_status
          /\ MirrorEnums.source_system = BaselineTypes.source_system
      BY DEF MirrorEnums, BaselineTypes
    <3>3. QED
      BY <3>1, <3>2, ModelEnums DEF Includes
  <2>4. \A y \in DOMAIN EventEnums : ModelTypes[y] = BaselineTypes[y]
    <3>1. DOMAIN EventEnums =
            {"event_type", "trust_level", "signal_type", "severity"}
      BY DEF EventEnums
    <3>2. /\ EventEnums.event_type = BaselineTypes.event_type
          /\ EventEnums.trust_level = BaselineTypes.trust_level
          /\ EventEnums.signal_type = BaselineTypes.signal_type
          /\ EventEnums.severity = BaselineTypes.severity
      BY DEF EventEnums, BaselineTypes
    <3>3. QED
      BY <3>1, <3>2, ModelEnums DEF Includes
  <2>5. \A y \in DOMAIN IncidentEnums : ModelTypes[y] = BaselineTypes[y]
    <3>1. DOMAIN IncidentEnums =
            {"incident_type", "incident_status", "workflow_status", "computed_by"}
      BY DEF IncidentEnums
    <3>2. /\ IncidentEnums.incident_type = BaselineTypes.incident_type
          /\ IncidentEnums.incident_status = BaselineTypes.incident_status
          /\ IncidentEnums.workflow_status = BaselineTypes.workflow_status
          /\ IncidentEnums.computed_by = BaselineTypes.computed_by
      BY DEF IncidentEnums, BaselineTypes
    <3>3. QED
      BY <3>1, <3>2, ModelEnums DEF Includes
  <2>6. \A y \in DOMAIN LedgerEnums : ModelTypes[y] = BaselineTypes[y]
    <3>1. DOMAIN LedgerEnums =
            {"tool_call_status", "cost_type", "budget_scope", "budget_period",
             "evaluation_outcome"}
      BY DEF LedgerEnums
    <3>2. /\ LedgerEnums.tool_call_status = BaselineTypes.tool_call_status
          /\ LedgerEnums.cost_type = BaselineTypes.cost_type
          /\ LedgerEnums.budget_scope = BaselineTypes.budget_scope
          /\ LedgerEnums.budget_period = BaselineTypes.budget_period
          /\ LedgerEnums.evaluation_outcome = BaselineTypes.evaluation_outcome
      BY DEF LedgerEnums, BaselineTypes
    <3>3. QED
      BY <3>1, <3>2, ModelEnums DEF Includes
  <2>7. \A y \in {"policy_decision", "approval_status", "action_type"} :
          ModelTypes[y] = BaselineTypes[y]
    <3>1. \A y \in {"policy_decision", "approval_status", "action_type"} :
            y \in DOMAIN GovernanceEnums
      BY DEF GovernanceEnums
    <3>2. /\ GovernanceEnums.policy_decision = BaselineTypes.policy_decision
          /\ GovernanceEnums.approval_status = BaselineTypes.approval_status
          /\ GovernanceEnums.action_type = BaselineTypes.action_type
      BY DEF GovernanceEnums, BaselineTypes
    <3>3. QED
      BY <3>1, <3>2, ModelEnums DEF Includes
  <2>8. ModelTypes["action_status"] = BaselineTypes["action_status"] \cup {"indeterminate"}
    BY ModelEnums DEF Includes, GovernanceEnums, BaselineTypes
  <2>9. ModelTypes["proposed_action"] = Proposable
    BY ModelEnums DEF Includes, GovernanceEnums, Proposable
  <2>10. DOMAIN GovernanceEnums = {"policy_decision", "approval_status", "action_type",
                                   "action_status", "proposed_action"}
    BY DEF GovernanceEnums
  <2>11. "proposed_action" \notin DOMAIN BaselineTypes
    BY DEF BaselineTypes
  <2>12. \A y \in DOMAIN BaselineTypes \ {"action_status"} : ModelTypes[y] = BaselineTypes[y]
    BY <2>1, <2>3, <2>4, <2>5, <2>6, <2>7, <2>10, <2>11, ModelEnums
  <2>13. QED
    BY <2>1, <2>2, <2>8, <2>9, <2>12 DEF TypesAt, Since
<1>3. QED
  BY <1>1, <1>2

LEMMA TableEnds == TablesAt(Baseline.tables, 1) /\ TablesAt(Models, 9)
<1>1. \A t \in DOMAIN Models : MovedAt(t, Baseline.tables[t], 1) /\ MovedAt(t, Models[t], 9)
  BY TouchedTables DEF Ends, MovedAt
<1>2. /\ Baseline.tables = [t \in DOMAIN Baseline.tables |-> Baseline.tables[t]]
      /\ Models = [t \in DOMAIN Models |-> Models[t]]
  BY BaselineTables, ModelTables
<1>3. QED
  BY <1>1, <1>2, AllShaped, UnmovedAgree DEF TablesAt, Shaped

\* What is said of each revision leaves nothing open.
LEMMA OneSchema ==
  ASSUME NEW r, NEW f, NEW g
  PROVE  /\ TablesAt(f, r) /\ TablesAt(g, r) => f = g
         /\ TypesAt(f, r) /\ TypesAt(g, r) => f = g
<1>1. ASSUME TablesAt(f, r), TablesAt(g, r)
      PROVE  f = g
  <2>1. \A t \in DOMAIN Baseline.tables, x \in Constraint : f[t][x] = g[t][x]
    <3> SUFFICES ASSUME NEW t \in DOMAIN Baseline.tables, NEW x \in Constraint
                 PROVE  f[t][x] = g[t][x]
      OBVIOUS
    <3>1. CASE Moved(t, x)
      <4>1. MovedAt(t, f[t], r) /\ MovedAt(t, g[t], r)
        BY <1>1 DEF TablesAt
      <4>2. QED
        BY <3>1, <4>1 DEF Moved, MovedAt
    <3>2. CASE ~Moved(t, x)
      BY <1>1, <3>2 DEF TablesAt
    <3>3. QED
      BY <3>1, <3>2
  <2>2. QED
    BY <1>1, <2>1 DEF TablesAt
<1>2. ASSUME TypesAt(f, r), TypesAt(g, r)
      PROVE  f = g
  <2> DEFINE E == DOMAIN BaselineTypes \cup Since(4, r, {"proposed_action"})
  <2>1. f = [y \in E |-> f[y]] /\ g = [y \in E |-> g[y]]
    BY <1>2 DEF TypesAt
  <2>2. \A y \in E : f[y] = g[y]
    BY <1>2 DEF TypesAt, Since
  <2> HIDE DEF E
  <2>3. QED
    BY <2>1, <2>2
<1>3. QED
  BY <1>1, <1>2

\* U is T with another table t, changed where a later revision changes it.
Altered(T, U, t, V) ==
  /\ t \in DOMAIN Baseline.tables
  /\ U = [T EXCEPT ![t] = V]
  /\ V = [f \in Constraint |-> V[f]]
  /\ \A f \in Constraint : Moved(t, f) \/ V[f] = T[t][f]

\* From revision r to revision q no other table changes.
OthersStay(T, t, r, q) ==
  \A x \in DOMAIN Baseline.tables \ {t} : MovedAt(x, T[x], r) => MovedAt(x, T[x], q)

\* A revision that changes one table leaves the catalogue as the next has it.
LEMMA OneTable ==
  ASSUME NEW T, NEW U, NEW r, NEW q, NEW t, NEW V,
         TablesAt(T, r), Altered(T, U, t, V), MovedAt(t, V, q), OthersStay(T, t, r, q)
  PROVE  TablesAt(U, q)
<1> DEFINE D == DOMAIN Baseline.tables
<1>1. /\ T = [x \in D |-> T[x]] /\ \A x \in D : T[x] = [f \in Constraint |-> T[x][f]]
      /\ \A x \in D, f \in Constraint : Moved(x, f) \/ T[x][f] = Baseline.tables[x][f]
      /\ \A x \in D : MovedAt(x, T[x], r)
  BY DEF TablesAt
<1>2. /\ t \in D /\ U = [T EXCEPT ![t] = V] /\ V = [f \in Constraint |-> V[f]]
      /\ \A f \in Constraint : Moved(t, f) \/ V[f] = T[t][f]
      /\ \A x \in D \ {t} : MovedAt(x, T[x], r) => MovedAt(x, T[x], q)
  BY DEF Altered, OthersStay
<1> HIDE DEF D
<1>3. U = [x \in D |-> U[x]] /\ U[t] = V /\ \A x \in D \ {t} : U[x] = T[x]
  BY <1>1, <1>2
<1>4. \A x \in D : U[x] = [f \in Constraint |-> U[x][f]]
  BY <1>1, <1>2, <1>3
<1>5. U = [x \in D |-> [f \in Constraint |-> U[x][f]]]
  BY <1>3, <1>4
<1>6. \A x \in D, f \in Constraint : Moved(x, f) \/ U[x][f] = Baseline.tables[x][f]
  BY <1>1, <1>2, <1>3
<1>7. \A x \in D : MovedAt(x, U[x], q)
  BY <1>1, <1>2, <1>3
<1>8. QED
  BY <1>5, <1>6, <1>7 DEF TablesAt, D

-----------------------------------------------------------------------------
(* The order in which the baseline's tables are dropped. *)

\* Where a table stands in it.
Place ==
  [approval_requests |-> 1, policy_evaluations |-> 2, hypothesis_evidence |-> 3,
   cost_entries |-> 4, agent_decisions |-> 5, action_records |-> 6, workflow_transitions |-> 7,
   tool_calls |-> 8, model_calls |-> 9, interventions |-> 10, impact_assessments |-> 11,
   hypotheses |-> 12, evidence_items |-> 13, evaluation_results |-> 14, audit_events |-> 15,
   workflow_runs |-> 16, incidents |-> 17, signals |-> 18, activities |-> 19,
   usage_snapshots |-> 20, support_issues |-> 21, opportunities |-> 22, normalized_events |-> 23,
   engagement_events |-> 24, company_profiles |-> 25, raw_events |-> 26, evaluation_runs |-> 27,
   budgets |-> 28, accounts |-> 29]

\* The keys of t lead to tables that are dropped with it or later.
KeysAhead(t) ==
  /\ t \in DOMAIN Place
  /\ \A c \in DOMAIN Baseline.tables[t].fk : Place[t] <= Place[Baseline.tables[t].fk[c].to]

LEMMA RootKeysAhead == \A t \in DOMAIN RootTables : KeysAhead(t)
<1>1. KeysAhead("accounts")
  <2>1. PICK b : RootTables["accounts"] = Table(b) /\ "fk" \notin DOMAIN b
    BY DEF RootTables
  <2>2. Baseline.tables["accounts"].fk = <<>>
    BY <2>1, BaselineTables, TableSays DEF Includes, RootTables
  <2>3. QED
    BY <2>2 DEF KeysAhead, Place
<1>2. KeysAhead("budgets")
  <2>1. PICK b : RootTables["budgets"] = Table(b) /\ "fk" \notin DOMAIN b
    BY DEF RootTables
  <2>2. Baseline.tables["budgets"].fk = <<>>
    BY <2>1, BaselineTables, TableSays DEF Includes, RootTables
  <2>3. QED
    BY <2>2 DEF KeysAhead, Place
<1>3. KeysAhead("evaluation_runs")
  <2>1. PICK b : RootTables["evaluation_runs"] = Table(b) /\ "fk" \notin DOMAIN b
    BY DEF RootTables
  <2>2. Baseline.tables["evaluation_runs"].fk = <<>>
    BY <2>1, BaselineTables, TableSays DEF Includes, RootTables
  <2>3. QED
    BY <2>2 DEF KeysAhead, Place
<1>4. KeysAhead("raw_events")
  <2>1. PICK b : RootTables["raw_events"] = Table(b) /\ "fk" \notin DOMAIN b
    BY DEF RootTables
  <2>2. Baseline.tables["raw_events"].fk = <<>>
    BY <2>1, BaselineTables, TableSays DEF Includes, RootTables
  <2>3. QED
    BY <2>2 DEF KeysAhead, Place
<1>5. DOMAIN RootTables = {"accounts", "budgets", "evaluation_runs", "raw_events"}
  BY DEF RootTables
<1>6. QED
  BY <1>1, <1>2, <1>3, <1>4, <1>5

LEMMA MirrorKeysAhead == \A t \in DOMAIN MirrorTables : KeysAhead(t)
<1>1. KeysAhead("company_profiles")
  <2>1. PICK b : /\ MirrorTables["company_profiles"] = Table(b)
                 /\ "fk" \in DOMAIN b
                 /\ b.fk = Cascade({"account_id"})
    BY DEF MirrorTables
  <2>2. Baseline.tables["company_profiles"].fk = Cascade({"account_id"})
    BY <2>1, BaselineTables, TableSays DEF Includes, MirrorTables
  <2>3. QED
    BY <2>2 DEF KeysAhead, Place, Cascade, Referenced
<1>2. KeysAhead("engagement_events")
  <2>1. PICK b : /\ MirrorTables["engagement_events"] = Table(b)
                 /\ "fk" \in DOMAIN b
                 /\ b.fk = Cascade({"account_id"})
    BY DEF MirrorTables
  <2>2. Baseline.tables["engagement_events"].fk = Cascade({"account_id"})
    BY <2>1, BaselineTables, TableSays DEF Includes, MirrorTables
  <2>3. QED
    BY <2>2 DEF KeysAhead, Place, Cascade, Referenced
<1>3. KeysAhead("normalized_events")
  <2>1. PICK b : /\ MirrorTables["normalized_events"] = Table(b)
                 /\ "fk" \in DOMAIN b
                 /\ b.fk = Cascade({"raw_event_id"})
    BY DEF MirrorTables
  <2>2. Baseline.tables["normalized_events"].fk = Cascade({"raw_event_id"})
    BY <2>1, BaselineTables, TableSays DEF Includes, MirrorTables
  <2>3. QED
    BY <2>2 DEF KeysAhead, Place, Cascade, Referenced
<1>4. DOMAIN MirrorTables = {"company_profiles", "engagement_events", "normalized_events"}
  BY DEF MirrorTables
<1>5. QED
  BY <1>1, <1>2, <1>3, <1>4

LEMMA PipelineKeysAhead == \A t \in DOMAIN PipelineTables : KeysAhead(t)
<1>1. KeysAhead("opportunities")
  <2>1. PICK b : /\ PipelineTables["opportunities"] = Table(b)
                 /\ "fk" \in DOMAIN b
                 /\ b.fk = Cascade({"account_id"})
    BY DEF PipelineTables
  <2>2. Baseline.tables["opportunities"].fk = Cascade({"account_id"})
    BY <2>1, BaselineTables, TableSays DEF Includes, PipelineTables
  <2>3. QED
    BY <2>2 DEF KeysAhead, Place, Cascade, Referenced
<1>2. KeysAhead("support_issues")
  <2>1. PICK b : /\ PipelineTables["support_issues"] = Table(b)
                 /\ "fk" \in DOMAIN b
                 /\ b.fk = Cascade({"account_id"})
    BY DEF PipelineTables
  <2>2. Baseline.tables["support_issues"].fk = Cascade({"account_id"})
    BY <2>1, BaselineTables, TableSays DEF Includes, PipelineTables
  <2>3. QED
    BY <2>2 DEF KeysAhead, Place, Cascade, Referenced
<1>3. KeysAhead("usage_snapshots")
  <2>1. PICK b : /\ PipelineTables["usage_snapshots"] = Table(b)
                 /\ "fk" \in DOMAIN b
                 /\ b.fk = Cascade({"account_id"})
    BY DEF PipelineTables
  <2>2. Baseline.tables["usage_snapshots"].fk = Cascade({"account_id"})
    BY <2>1, BaselineTables, TableSays DEF Includes, PipelineTables
  <2>3. QED
    BY <2>2 DEF KeysAhead, Place, Cascade, Referenced
<1>4. DOMAIN PipelineTables = {"opportunities", "support_issues", "usage_snapshots"}
  BY DEF PipelineTables
<1>5. QED
  BY <1>1, <1>2, <1>3, <1>4

LEMMA SignalKeysAhead == \A t \in DOMAIN SignalTables : KeysAhead(t)
<1>1. KeysAhead("activities")
  <2>1. PICK b : /\ SignalTables["activities"] = Table(b)
                 /\ "fk" \in DOMAIN b
                 /\ b.fk = Cascade({"account_id", "opportunity_id"})
    BY DEF SignalTables
  <2>2. Baseline.tables["activities"].fk = Cascade({"account_id", "opportunity_id"})
    BY <2>1, BaselineTables, TableSays DEF Includes, SignalTables
  <2>3. QED
    BY <2>2 DEF KeysAhead, Place, Cascade, Referenced
<1>2. KeysAhead("signals")
  <2>1. PICK b : /\ SignalTables["signals"] = Table(b)
                 /\ "fk" \in DOMAIN b
                 /\ b.fk = Cascade({"account_id", "opportunity_id"})
    BY DEF SignalTables
  <2>2. Baseline.tables["signals"].fk = Cascade({"account_id", "opportunity_id"})
    BY <2>1, BaselineTables, TableSays DEF Includes, SignalTables
  <2>3. QED
    BY <2>2 DEF KeysAhead, Place, Cascade, Referenced
<1>3. DOMAIN SignalTables = {"activities", "signals"}
  BY DEF SignalTables
<1>4. QED
  BY <1>1, <1>2, <1>3

LEMMA IncidentKeysAhead == \A t \in DOMAIN IncidentTables : KeysAhead(t)
<1>1. KeysAhead("incidents")
  <2>1. PICK b : /\ IncidentTables["incidents"] = Table(b)
                 /\ "fk" \in DOMAIN b
                 /\ b.fk = Cascade({"account_id", "opportunity_id", "signal_id"})
    BY DEF IncidentTables
  <2>2. Baseline.tables["incidents"].fk = Cascade({"account_id", "opportunity_id", "signal_id"})
    BY <2>1, BaselineTables, TableSays DEF Includes, IncidentTables
  <2>3. QED
    BY <2>2 DEF KeysAhead, Place, Cascade, Referenced
<1>2. DOMAIN IncidentTables = {"incidents"}
  BY DEF IncidentTables
<1>3. QED
  BY <1>1, <1>2

LEMMA RunKeysAhead == \A t \in DOMAIN RunTables : KeysAhead(t)
<1>1. KeysAhead("workflow_runs")
  <2>1. PICK b : /\ RunTables["workflow_runs"] = Table(b)
                 /\ "fk" \in DOMAIN b
                 /\ b.fk = Cascade({"incident_id"})
    BY DEF RunTables
  <2>2. Baseline.tables["workflow_runs"].fk = Cascade({"incident_id"})
    BY <2>1, BaselineTables, TableSays DEF Includes, RunTables
  <2>3. QED
    BY <2>2 DEF KeysAhead, Place, Cascade, Referenced
<1>2. KeysAhead("audit_events")
  <2>1. PICK b : /\ RunTables["audit_events"] = Table(b)
                 /\ "fk" \in DOMAIN b
                 /\ b.fk = Cascade({"incident_id", "run_id"})
    BY DEF RunTables
  <2>2. Baseline.tables["audit_events"].fk = Cascade({"incident_id", "run_id"})
    BY <2>1, BaselineTables, TableSays DEF Includes, RunTables
  <2>3. QED
    BY <2>2 DEF KeysAhead, Place, Cascade, Referenced
<1>3. KeysAhead("evaluation_results")
  <2>1. PICK b : /\ RunTables["evaluation_results"] = Table(b)
                 /\ "fk" \in DOMAIN b
                 /\ b.fk = Cascade({"evaluation_run_id"}) ++ SetNull({"workflow_run_id"})
    BY DEF RunTables
  <2>2. Baseline.tables["evaluation_results"].fk =
          Cascade({"evaluation_run_id"}) ++ SetNull({"workflow_run_id"})
    BY <2>1, BaselineTables, TableSays DEF Includes, RunTables
  <2>3. PICK f : f = Cascade({"evaluation_run_id"}) /\ DOMAIN f = {"evaluation_run_id"}
                 /\ f["evaluation_run_id"].to = "evaluation_runs"
    <3>1. DOMAIN Cascade({"evaluation_run_id"}) = {"evaluation_run_id"}
      BY DEF Cascade
    <3>2. Cascade({"evaluation_run_id"})["evaluation_run_id"].to = Referenced["evaluation_run_id"]
      BY DEF Cascade
    <3>3. Referenced["evaluation_run_id"] = "evaluation_runs"
      BY DEF Referenced
    <3>4. Cascade({"evaluation_run_id"})["evaluation_run_id"].to = "evaluation_runs"
      BY <3>2, <3>3, Zenon
    <3>5. QED
      BY <3>1, <3>4, Zenon
  <2>4. PICK g : g = SetNull({"workflow_run_id"}) /\ DOMAIN g = {"workflow_run_id"}
                 /\ g["workflow_run_id"].to = "workflow_runs"
    <3>1. DOMAIN SetNull({"workflow_run_id"}) = {"workflow_run_id"}
      BY DEF SetNull
    <3>2. SetNull({"workflow_run_id"})["workflow_run_id"].to = Referenced["workflow_run_id"]
      BY DEF SetNull
    <3>3. Referenced["workflow_run_id"] = "workflow_runs"
      BY DEF Referenced
    <3>4. SetNull({"workflow_run_id"})["workflow_run_id"].to = "workflow_runs"
      BY <3>2, <3>3, Zenon
    <3>5. QED
      BY <3>1, <3>4, Zenon
  <2>5. PICK fk : /\ fk = Baseline.tables["evaluation_results"].fk
                  /\ DOMAIN fk = {"evaluation_run_id", "workflow_run_id"}
                  /\ fk["evaluation_run_id"].to = "evaluation_runs"
                  /\ fk["workflow_run_id"].to = "workflow_runs"
    <3>1. Baseline.tables["evaluation_results"].fk = f ++ g
      BY <2>2, <2>3, <2>4, Zenon
    <3>2. /\ DOMAIN (f ++ g) = {"evaluation_run_id", "workflow_run_id"}
          /\ (f ++ g)["evaluation_run_id"].to = "evaluation_runs"
          /\ (f ++ g)["workflow_run_id"].to = "workflow_runs"
      BY <2>3, <2>4 DEF ++
    <3>3. QED
      BY <3>1, <3>2, Zenon
  <2>6. QED
    BY <2>5 DEF KeysAhead, Place
<1>4. DOMAIN RunTables = {"workflow_runs", "audit_events", "evaluation_results"}
  BY DEF RunTables
<1>5. QED
  BY <1>1, <1>2, <1>3, <1>4

LEMMA FindingKeysAhead == \A t \in DOMAIN FindingTables : KeysAhead(t)
<1>1. KeysAhead("evidence_items")
  <2>1. PICK b : /\ FindingTables["evidence_items"] = Table(b)
                 /\ "fk" \in DOMAIN b
                 /\ b.fk = Cascade({"run_id"})
    BY DEF FindingTables
  <2>2. Baseline.tables["evidence_items"].fk = Cascade({"run_id"})
    BY <2>1, BaselineTables, TableSays DEF Includes, FindingTables
  <2>3. QED
    BY <2>2 DEF KeysAhead, Place, Cascade, Referenced
<1>2. KeysAhead("hypotheses")
  <2>1. PICK b : /\ FindingTables["hypotheses"] = Table(b)
                 /\ "fk" \in DOMAIN b
                 /\ b.fk = Cascade({"run_id"})
    BY DEF FindingTables
  <2>2. Baseline.tables["hypotheses"].fk = Cascade({"run_id"})
    BY <2>1, BaselineTables, TableSays DEF Includes, FindingTables
  <2>3. QED
    BY <2>2 DEF KeysAhead, Place, Cascade, Referenced
<1>3. KeysAhead("impact_assessments")
  <2>1. PICK b : /\ FindingTables["impact_assessments"] = Table(b)
                 /\ "fk" \in DOMAIN b
                 /\ b.fk = Cascade({"run_id"})
    BY DEF FindingTables
  <2>2. Baseline.tables["impact_assessments"].fk = Cascade({"run_id"})
    BY <2>1, BaselineTables, TableSays DEF Includes, FindingTables
  <2>3. QED
    BY <2>2 DEF KeysAhead, Place, Cascade, Referenced
<1>4. KeysAhead("interventions")
  <2>1. PICK b : /\ FindingTables["interventions"] = Table(b)
                 /\ "fk" \in DOMAIN b
                 /\ b.fk = Cascade({"run_id"})
    BY DEF FindingTables
  <2>2. Baseline.tables["interventions"].fk = Cascade({"run_id"})
    BY <2>1, BaselineTables, TableSays DEF Includes, FindingTables
  <2>3. QED
    BY <2>2 DEF KeysAhead, Place, Cascade, Referenced
<1>5. DOMAIN FindingTables = {"evidence_items", "hypotheses", "impact_assessments", "interventions"}
  BY DEF FindingTables
<1>6. QED
  BY <1>1, <1>2, <1>3, <1>4, <1>5

LEMMA CallKeysAhead == \A t \in DOMAIN CallTables : KeysAhead(t)
<1>1. KeysAhead("model_calls")
  <2>1. PICK b : /\ CallTables["model_calls"] = Table(b)
                 /\ "fk" \in DOMAIN b
                 /\ b.fk = Cascade({"run_id"})
    BY DEF CallTables
  <2>2. Baseline.tables["model_calls"].fk = Cascade({"run_id"})
    BY <2>1, BaselineTables, TableSays DEF Includes, CallTables
  <2>3. QED
    BY <2>2 DEF KeysAhead, Place, Cascade, Referenced
<1>2. KeysAhead("tool_calls")
  <2>1. PICK b : /\ CallTables["tool_calls"] = Table(b)
                 /\ "fk" \in DOMAIN b
                 /\ b.fk = Cascade({"run_id"})
    BY DEF CallTables
  <2>2. Baseline.tables["tool_calls"].fk = Cascade({"run_id"})
    BY <2>1, BaselineTables, TableSays DEF Includes, CallTables
  <2>3. QED
    BY <2>2 DEF KeysAhead, Place, Cascade, Referenced
<1>3. KeysAhead("workflow_transitions")
  <2>1. PICK b : /\ CallTables["workflow_transitions"] = Table(b)
                 /\ "fk" \in DOMAIN b
                 /\ b.fk = Cascade({"run_id"})
    BY DEF CallTables
  <2>2. Baseline.tables["workflow_transitions"].fk = Cascade({"run_id"})
    BY <2>1, BaselineTables, TableSays DEF Includes, CallTables
  <2>3. QED
    BY <2>2 DEF KeysAhead, Place, Cascade, Referenced
<1>4. DOMAIN CallTables = {"model_calls", "tool_calls", "workflow_transitions"}
  BY DEF CallTables
<1>5. QED
  BY <1>1, <1>2, <1>3, <1>4

LEMMA ActionKeysAhead == \A t \in DOMAIN ActionTables : KeysAhead(t)
<1>1. KeysAhead("action_records")
  <2>1. PICK b : /\ ActionTables["action_records"] = Table(b)
                 /\ "fk" \in DOMAIN b
                 /\ b.fk = Cascade({"intervention_id", "run_id"})
    BY DEF ActionTables
  <2>2. Baseline.tables["action_records"].fk = Cascade({"intervention_id", "run_id"})
    BY <2>1, BaselineTables, TableSays DEF Includes, ActionTables
  <2>3. QED
    BY <2>2 DEF KeysAhead, Place, Cascade, Referenced
<1>2. KeysAhead("agent_decisions")
  <2>1. PICK b : /\ ActionTables["agent_decisions"] = Table(b)
                 /\ "fk" \in DOMAIN b
                 /\ b.fk = SetNull({"model_call_id"}) ++ Cascade({"run_id"})
    BY DEF ActionTables
  <2>2. Baseline.tables["agent_decisions"].fk = SetNull({"model_call_id"}) ++ Cascade({"run_id"})
    BY <2>1, BaselineTables, TableSays DEF Includes, ActionTables
  <2>3. PICK f : f = SetNull({"model_call_id"}) /\ DOMAIN f = {"model_call_id"}
                 /\ f["model_call_id"].to = "model_calls"
    <3>1. DOMAIN SetNull({"model_call_id"}) = {"model_call_id"}
      BY DEF SetNull
    <3>2. SetNull({"model_call_id"})["model_call_id"].to = Referenced["model_call_id"]
      BY DEF SetNull
    <3>3. Referenced["model_call_id"] = "model_calls"
      BY DEF Referenced
    <3>4. SetNull({"model_call_id"})["model_call_id"].to = "model_calls"
      BY <3>2, <3>3, Zenon
    <3>5. QED
      BY <3>1, <3>4, Zenon
  <2>4. PICK g : g = Cascade({"run_id"}) /\ DOMAIN g = {"run_id"}
                 /\ g["run_id"].to = "workflow_runs"
    <3>1. DOMAIN Cascade({"run_id"}) = {"run_id"}
      BY DEF Cascade
    <3>2. Cascade({"run_id"})["run_id"].to = Referenced["run_id"]
      BY DEF Cascade
    <3>3. Referenced["run_id"] = "workflow_runs"
      BY DEF Referenced
    <3>4. Cascade({"run_id"})["run_id"].to = "workflow_runs"
      BY <3>2, <3>3, Zenon
    <3>5. QED
      BY <3>1, <3>4, Zenon
  <2>5. PICK fk : /\ fk = Baseline.tables["agent_decisions"].fk
                  /\ DOMAIN fk = {"model_call_id", "run_id"}
                  /\ fk["model_call_id"].to = "model_calls"
                  /\ fk["run_id"].to = "workflow_runs"
    <3>1. Baseline.tables["agent_decisions"].fk = f ++ g
      BY <2>2, <2>3, <2>4, Zenon
    <3>2. /\ DOMAIN (f ++ g) = {"model_call_id", "run_id"}
          /\ (f ++ g)["model_call_id"].to = "model_calls"
          /\ (f ++ g)["run_id"].to = "workflow_runs"
      BY <2>3, <2>4 DEF ++
    <3>3. QED
      BY <3>1, <3>2, Zenon
  <2>6. QED
    BY <2>5 DEF KeysAhead, Place
<1>3. KeysAhead("cost_entries")
  <2>1. PICK b : /\ ActionTables["cost_entries"] = Table(b)
                 /\ "fk" \in DOMAIN b
                 /\ b.fk = Cascade({"model_call_id", "run_id", "tool_call_id"})
    BY DEF ActionTables
  <2>2. Baseline.tables["cost_entries"].fk = Cascade({"model_call_id", "run_id", "tool_call_id"})
    BY <2>1, BaselineTables, TableSays DEF Includes, ActionTables
  <2>3. QED
    BY <2>2 DEF KeysAhead, Place, Cascade, Referenced
<1>4. DOMAIN ActionTables = {"action_records", "agent_decisions", "cost_entries"}
  BY DEF ActionTables
<1>5. QED
  BY <1>1, <1>2, <1>3, <1>4

LEMMA GovernanceKeysAhead == \A t \in DOMAIN GovernanceTables : KeysAhead(t)
<1>1. KeysAhead("hypothesis_evidence")
  <2>1. PICK b : /\ GovernanceTables["hypothesis_evidence"] = Table(b)
                 /\ "fk" \in DOMAIN b
                 /\ b.fk = Cascade({"evidence_item_id", "hypothesis_id"})
    BY DEF GovernanceTables
  <2>2. Baseline.tables["hypothesis_evidence"].fk = Cascade({"evidence_item_id", "hypothesis_id"})
    BY <2>1, BaselineTables, TableSays DEF Includes, GovernanceTables
  <2>3. QED
    BY <2>2 DEF KeysAhead, Place, Cascade, Referenced
<1>2. KeysAhead("policy_evaluations")
  <2>1. PICK b : /\ GovernanceTables["policy_evaluations"] = Table(b)
                 /\ "fk" \in DOMAIN b
                 /\ b.fk = Cascade({"intervention_id"})
    BY DEF GovernanceTables
  <2>2. Baseline.tables["policy_evaluations"].fk = Cascade({"intervention_id"})
    BY <2>1, BaselineTables, TableSays DEF Includes, GovernanceTables
  <2>3. QED
    BY <2>2 DEF KeysAhead, Place, Cascade, Referenced
<1>3. KeysAhead("approval_requests")
  <2>1. PICK b : /\ GovernanceTables["approval_requests"] = Table(b)
                 /\ "fk" \in DOMAIN b
                 /\ b.fk = Cascade({"policy_evaluation_id", "run_id"})
    BY DEF GovernanceTables
  <2>2. Baseline.tables["approval_requests"].fk = Cascade({"policy_evaluation_id", "run_id"})
    BY <2>1, BaselineTables, TableSays DEF Includes, GovernanceTables
  <2>3. QED
    BY <2>2 DEF KeysAhead, Place, Cascade, Referenced
<1>4. DOMAIN GovernanceTables = {"hypothesis_evidence", "policy_evaluations", "approval_requests"}
  BY DEF GovernanceTables
<1>5. QED
  BY <1>1, <1>2, <1>3, <1>4

\* Every table has one place, and a place is that of one table.
LEMMA PlacesAreOrder ==
  /\ DOMAIN DropOrder = 1 .. 29 /\ Len(DropOrder) = 29
  /\ \A i \in 1 .. 29 : Place[DropOrder[i]] = i
  /\ \A t \in DOMAIN Place : Place[t] \in 1 .. 29 /\ DropOrder[Place[t]] = t
<1>1. DOMAIN DropOrder = 1 .. 29 /\ Len(DropOrder) = 29
  BY DEF DropOrder
<1>2. \A i \in 1 .. 29 : Place[DropOrder[i]] = i
  BY SMTT(60) DEF DropOrder, Place
<1>3. \A t \in DOMAIN Place : Place[t] \in 1 .. 29 /\ DropOrder[Place[t]] = t
  BY SMTT(60) DEF DropOrder, Place
<1>4. QED
  BY <1>1, <1>2, <1>3

(* When a table's turn comes no table refers to it that is still there: a  *)
(* key leads ahead, so whoever has it went first.                          *)
LEMMA BaselineDrops == Droppable(Baseline.tables, DropOrder)
<1>1. \A t \in DOMAIN Baseline.tables : KeysAhead(t)
  BY BaselineTables, RootKeysAhead, MirrorKeysAhead, PipelineKeysAhead, SignalKeysAhead,
     IncidentKeysAhead, RunKeysAhead, FindingKeysAhead, CallKeysAhead, ActionKeysAhead,
     GovernanceKeysAhead
<1> SUFFICES ASSUME NEW i \in 1 .. 29
             PROVE  /\ DropOrder[i] \in DOMAIN Baseline.tables
                    /\ Referring(Baseline.tables, DropOrder[i]) \subseteq
                         {DropOrder[j] : j \in 1 .. i}
  BY PlacesAreOrder DEF Droppable
<1>2. DropOrder[i] \in DOMAIN Baseline.tables
  <2>1. DOMAIN RootTables = {"accounts", "budgets", "evaluation_runs", "raw_events"}
    BY DEF RootTables
  <2>2. DOMAIN MirrorTables = {"company_profiles", "engagement_events", "normalized_events"}
    BY DEF MirrorTables
  <2>3. DOMAIN PipelineTables = {"opportunities", "support_issues", "usage_snapshots"}
    BY DEF PipelineTables
  <2>4. DOMAIN SignalTables = {"activities", "signals"}
    BY DEF SignalTables
  <2>5. DOMAIN IncidentTables = {"incidents"}
    BY DEF IncidentTables
  <2>6. DOMAIN RunTables = {"workflow_runs", "audit_events", "evaluation_results"}
    BY DEF RunTables
  <2>7. DOMAIN FindingTables =
          {"evidence_items", "hypotheses", "impact_assessments", "interventions"}
    BY DEF FindingTables
  <2>8. DOMAIN CallTables = {"model_calls", "tool_calls", "workflow_transitions"}
    BY DEF CallTables
  <2>9. DOMAIN ActionTables = {"action_records", "agent_decisions", "cost_entries"}
    BY DEF ActionTables
  <2>10. DOMAIN GovernanceTables =
           {"hypothesis_evidence", "policy_evaluations", "approval_requests"}
    BY DEF GovernanceTables
  <2>11. DropOrder[i] \in
         {"approval_requests", "policy_evaluations", "hypothesis_evidence", "cost_entries",
          "agent_decisions", "action_records", "workflow_transitions", "tool_calls",
          "model_calls", "interventions", "impact_assessments", "hypotheses", "evidence_items",
          "evaluation_results", "audit_events", "workflow_runs", "incidents", "signals",
          "activities", "usage_snapshots", "support_issues", "opportunities",
          "normalized_events", "engagement_events", "company_profiles", "raw_events",
          "evaluation_runs", "budgets", "accounts"}
    BY DEF DropOrder
  <2>12. QED
    BY <2>1, <2>2, <2>3, <2>4, <2>5, <2>6, <2>7, <2>8, <2>9, <2>10, <2>11, BaselineTables
<1>3. ASSUME NEW u \in Referring(Baseline.tables, DropOrder[i])
      PROVE  u \in {DropOrder[j] : j \in 1 .. i}
  <2>1. PICK c \in DOMAIN Baseline.tables[u].fk : Baseline.tables[u].fk[c].to = DropOrder[i]
    BY DEF Referring
  <2>2. KeysAhead(u)
    BY <1>1 DEF Referring
  <2>3. Place[u] <= i /\ Place[u] \in 1 .. 29 /\ DropOrder[Place[u]] = u
    BY <2>1, <2>2, PlacesAreOrder DEF KeysAhead
  <2>4. QED
    BY <2>3
<1>4. QED
  BY <1>2, <1>3

-----------------------------------------------------------------------------
(* The revisions, up and down: each leaves the catalogue of its number. *)

\* Nothing, put behind a map, leaves it as it is.
LEMMA NothingBehind ==
  ASSUME NEW f, NEW e, NEW h, f = [x \in DOMAIN f |-> f[x]], DOMAIN e = {}, h = f ++ e
  PROVE  h = f
<1>1. DOMAIN h = DOMAIN f /\ h = [x \in DOMAIN h |-> h[x]]
  BY DEF ++
<1>2. \A x \in DOMAIN f : h[x] = f[x]
  BY DEF ++
<1>3. QED
  BY <1>1, <1>2

LEMMA SchemaUp0001 ==
  ASSUME SchemaInv, Up0001, rev' = rev + 1
  PROVE  SchemaInv'
<1> DEFINE U == catalogue'.tables
           Z == catalogue'.types
<1>1. rev = 0
  BY Zenon DEF Up0001
<1>2. rev' = 1 /\ catalogue = [tables |-> <<>>, types |-> <<>>]
  BY <1>1 DEF SchemaInv, EmptyCatalogue
<1>3. catalogue' = [tables |-> U, types |-> Z]
      /\ U = Baseline.tables ++ catalogue.tables /\ Z = Baseline.types ++ catalogue.types
  BY DEF Up0001
<1>4. DOMAIN catalogue.tables = {} /\ DOMAIN catalogue.types = {}
  BY <1>2
<1>5. /\ Baseline.types = BaselineTypes
      /\ BaselineTypes = [y \in DOMAIN BaselineTypes |-> BaselineTypes[y]]
  BY DEF Baseline, BaselineTypes
<1> HIDE DEF U, Z
<1>6. U = Baseline.tables
  BY <1>3, <1>4, BaselineTables, NothingBehind
<1>7. Z = BaselineTypes
  BY <1>3, <1>4, <1>5, NothingBehind
<1>8. QED
  BY <1>2, <1>3, <1>6, <1>7, TableEnds, TypeEnds DEF SchemaInv, HeadRev, U, Z

LEMMA SchemaUp0002 ==
  ASSUME SchemaInv, Up0002, rev' = rev + 1
  PROVE  SchemaInv'
<1> DEFINE T == catalogue.tables
           Y == catalogue.types
           old == T["incidents"]
           V == [old EXCEPT !.unique = @ \cup {{"signal_id"}}]
           U == catalogue'.tables
<1>1. rev = 1
  BY Zenon DEF Up0002
<1>2. /\ rev' = 2 /\ TablesAt(T, 1) /\ TypesAt(Y, 1)
      /\ catalogue = [tables |-> T, types |-> Y]
  BY <1>1 DEF SchemaInv
<1>3. /\ T = [x \in DOMAIN Baseline.tables |-> T[x]] /\ "incidents" \in DOMAIN Baseline.tables
      /\ old = [f \in Constraint |-> old[f]] /\ MovedAt("incidents", old, 1)
  BY <1>2, TouchedTables DEF TablesAt, Ends
<1>4. catalogue' = [tables |-> [T EXCEPT !["incidents"] = V], types |-> Y]
  BY <1>2, <1>3 DEF Up0002
<1>5. /\ V.unique = old.unique \cup {{"signal_id"}}
  BY <1>3 DEF Constraint
<1>6. Altered(T, U, "incidents", V)
  <2>1. U = [T EXCEPT !["incidents"] = V]
    BY <1>4
  <2>2. V = [f \in Constraint |-> V[f]]
    BY <1>3
  <2>3. \A f \in Constraint : Moved("incidents", f) \/ V[f] = old[f]
    BY <1>3 DEF Moved, Constraint
  <2> HIDE DEF V, U
  <2>4. QED
    BY <1>3, <2>1, <2>2, <2>3 DEF Altered
<1>7. catalogue' = [tables |-> U, types |-> Y]
  BY <1>4
<1> HIDE DEF V, U
<1>8. MovedAt("incidents", V, 2)
  BY <1>3, <1>5 DEF MovedAt, Since
<1>9. OthersStay(T, "incidents", 1, 2)
  BY DEF OthersStay, MovedAt, Since
<1> HIDE DEF T
<1>10. TablesAt(U, 2)
  BY <1>2, <1>6, <1>8, <1>9, OneTable
<1>11. TypesAt(Y, 2)
  BY <1>2 DEF TypesAt, Since
<1>12. QED
  BY <1>2, <1>7, <1>10, <1>11 DEF SchemaInv, HeadRev, U

LEMMA SchemaUp0003 ==
  ASSUME SchemaInv, Up0003, rev' = rev + 1
  PROVE  SchemaInv'
<1> DEFINE T == catalogue.tables
           Y == catalogue.types
           old == T["model_calls"]
           V == [old EXCEPT !.added = @ \cup {"is_replay"}]
           U == catalogue'.tables
<1>1. rev = 2
  BY Zenon DEF Up0003
<1>2. /\ rev' = 3 /\ TablesAt(T, 2) /\ TypesAt(Y, 2)
      /\ catalogue = [tables |-> T, types |-> Y]
  BY <1>1 DEF SchemaInv
<1>3. /\ T = [x \in DOMAIN Baseline.tables |-> T[x]] /\ "model_calls" \in DOMAIN Baseline.tables
      /\ old = [f \in Constraint |-> old[f]] /\ MovedAt("model_calls", old, 2)
  BY <1>2, TouchedTables DEF TablesAt, Ends
<1>4. catalogue' = [tables |-> [T EXCEPT !["model_calls"] = V], types |-> Y]
  BY <1>2, <1>3 DEF Up0003
<1>5. /\ V.added = old.added \cup {"is_replay"}
  BY <1>3 DEF Constraint
<1>6. Altered(T, U, "model_calls", V)
  <2>1. U = [T EXCEPT !["model_calls"] = V]
    BY <1>4
  <2>2. V = [f \in Constraint |-> V[f]]
    BY <1>3
  <2>3. \A f \in Constraint : Moved("model_calls", f) \/ V[f] = old[f]
    BY <1>3 DEF Moved, Constraint
  <2> HIDE DEF V, U
  <2>4. QED
    BY <1>3, <2>1, <2>2, <2>3 DEF Altered
<1>7. catalogue' = [tables |-> U, types |-> Y]
  BY <1>4
<1> HIDE DEF V, U
<1>8. MovedAt("model_calls", V, 3)
  BY <1>3, <1>5 DEF MovedAt, Since
<1>9. OthersStay(T, "model_calls", 2, 3)
  BY DEF OthersStay, MovedAt, Since
<1> HIDE DEF T
<1>10. TablesAt(U, 3)
  BY <1>2, <1>6, <1>8, <1>9, OneTable
<1>11. TypesAt(Y, 3)
  BY <1>2 DEF TypesAt, Since
<1>12. QED
  BY <1>2, <1>7, <1>10, <1>11 DEF SchemaInv, HeadRev, U

LEMMA SchemaUp0004 ==
  ASSUME SchemaInv, Up0004, rev' = rev + 1
  PROVE  SchemaInv'
<1> DEFINE T == catalogue.tables
           Y == catalogue.types
           old == T["interventions"]
           V == [old EXCEPT !.enum["action_type"] = "proposed_action"]
           U == catalogue'.tables
           Z == catalogue'.types
<1>1. rev = 3
  BY Zenon DEF Up0004
<1>2. /\ rev' = 4 /\ TablesAt(T, 3) /\ TypesAt(Y, 3)
      /\ catalogue = [tables |-> T, types |-> Y]
  BY <1>1 DEF SchemaInv
<1>3. /\ T = [x \in DOMAIN Baseline.tables |-> T[x]]
      /\ "interventions" \in DOMAIN Baseline.tables
      /\ old = [f \in Constraint |-> old[f]] /\ MovedAt("interventions", old, 3)
  BY <1>2, TouchedTables DEF TablesAt, Ends
<1>4. catalogue' = [tables |-> [T EXCEPT !["interventions"] = V],
        types |-> [proposed_action |-> Proposable] ++ Y]
  BY <1>2, <1>3 DEF Up0004
<1>5. V.enum = [old.enum EXCEPT !["action_type"] = "proposed_action"] /\ V.added = old.added
  BY <1>3 DEF Constraint
<1>6. Altered(T, U, "interventions", V)
  <2>1. U = [T EXCEPT !["interventions"] = V]
    BY <1>4
  <2>2. V = [f \in Constraint |-> V[f]]
    BY <1>3
  <2>3. \A f \in Constraint : Moved("interventions", f) \/ V[f] = old[f]
    BY <1>3 DEF Moved, Constraint
  <2> HIDE DEF V, U
  <2>4. QED
    BY <1>3, <2>1, <2>2, <2>3 DEF Altered
<1>7. catalogue' = [tables |-> U, types |-> Z] /\ Z = [proposed_action |-> Proposable] ++ Y
  BY <1>4
<1> HIDE DEF V, U, Z
<1>8. MovedAt("interventions", V, 4)
  <2>1. V.enum = [action_type |-> "proposed_action"]
    BY <1>3, <1>5 DEF MovedAt
  <2>2. V.added = {}
    BY <1>3, <1>5 DEF MovedAt, Since
  <2>3. QED
    BY <2>1, <2>2 DEF MovedAt, Since
<1>9. OthersStay(T, "interventions", 3, 4)
  BY DEF OthersStay, MovedAt, Since
<1> HIDE DEF T
<1>10. TablesAt(U, 4)
  BY <1>2, <1>6, <1>8, <1>9, OneTable
<1>11. TypesAt(Z, 4)
  <2> HIDE DEF Y
  <2>1. /\ Y = [y \in DOMAIN BaselineTypes |-> Y[y]]
        /\ \A y \in DOMAIN BaselineTypes \ {"action_status"} : Y[y] = BaselineTypes[y]
        /\ Y["action_status"] = BaselineTypes["action_status"]
    BY <1>2 DEF TypesAt, Since
  <2>2. "proposed_action" \notin DOMAIN BaselineTypes
    BY DEF BaselineTypes
  <2>3. /\ Z = [y \in DOMAIN BaselineTypes \cup {"proposed_action"} |-> Z[y]]
        /\ Z["proposed_action"] = Proposable
        /\ \A y \in DOMAIN BaselineTypes : Z[y] = Y[y]
    BY <1>7, <2>1, <2>2 DEF ++
  <2>4. "action_status" \in DOMAIN BaselineTypes
    BY DEF BaselineTypes
  <2>5. QED
    BY <2>1, <2>3, <2>4 DEF TypesAt, Since
<1>12. QED
  BY <1>2, <1>7, <1>10, <1>11 DEF SchemaInv, HeadRev, U, Z

LEMMA SchemaUp0005 ==
  ASSUME SchemaInv, Up0005, rev' = rev + 1
  PROVE  SchemaInv'
<1> DEFINE T == catalogue.tables
           Y == catalogue.types
           old == T["approval_requests"]
           V == [old EXCEPT !.added = @ \cup {"requested_by", "approval_ref"},
                            !.unique = @ \cup {{"approval_ref"}}]
           U == catalogue'.tables
<1>1. rev = 4
  BY Zenon DEF Up0005
<1>2. /\ rev' = 5 /\ TablesAt(T, 4) /\ TypesAt(Y, 4)
      /\ catalogue = [tables |-> T, types |-> Y]
  BY <1>1 DEF SchemaInv
<1>3. /\ T = [x \in DOMAIN Baseline.tables |-> T[x]]
      /\ "approval_requests" \in DOMAIN Baseline.tables
      /\ old = [f \in Constraint |-> old[f]] /\ MovedAt("approval_requests", old, 4)
  BY <1>2, TouchedTables DEF TablesAt, Ends
<1>4. catalogue' = [tables |-> [T EXCEPT !["approval_requests"] = V], types |-> Y]
  BY <1>2, <1>3 DEF Up0005
<1>5. /\ V.added = old.added \cup {"requested_by", "approval_ref"}
      /\ V.unique = old.unique \cup {{"approval_ref"}}
  BY <1>3 DEF Constraint
<1>6. Altered(T, U, "approval_requests", V)
  <2>1. U = [T EXCEPT !["approval_requests"] = V]
    BY <1>4
  <2>2. V = [f \in Constraint |-> V[f]]
    BY <1>3
  <2>3. \A f \in Constraint : Moved("approval_requests", f) \/ V[f] = old[f]
    BY <1>3 DEF Moved, Constraint
  <2> HIDE DEF V, U
  <2>4. QED
    BY <1>3, <2>1, <2>2, <2>3 DEF Altered
<1>7. catalogue' = [tables |-> U, types |-> Y]
  BY <1>4
<1> HIDE DEF V, U
<1>8. MovedAt("approval_requests", V, 5)
  BY <1>3, <1>5 DEF MovedAt, Since
<1>9. OthersStay(T, "approval_requests", 4, 5)
  BY DEF OthersStay, MovedAt, Since
<1> HIDE DEF T
<1>10. TablesAt(U, 5)
  BY <1>2, <1>6, <1>8, <1>9, OneTable
<1>11. TypesAt(Y, 5)
  BY <1>2 DEF TypesAt, Since
<1>12. QED
  BY <1>2, <1>7, <1>10, <1>11 DEF SchemaInv, HeadRev, U

LEMMA SchemaUp0006 ==
  ASSUME SchemaInv, Up0006, rev' = rev + 1
  PROVE  SchemaInv'
<1> DEFINE D == DOMAIN Baseline.tables
           T == catalogue.tables
           Y == catalogue.types
           offer == T["interventions"]
           entry == T["action_records"]
           V == [offer EXCEPT !.added = @ \cup {"target_ref"}]
           W == [entry EXCEPT !.added = @ \cup {"approval_request_id"},
                              !.nullable = @ \cup {"approval_request_id"},
                              !.fk = AuthorisationKeys ++ @]
           U == catalogue'.tables
           Z == catalogue'.types
<1>1. rev = 5
  BY Zenon DEF Up0006
<1>2. /\ rev' = 6 /\ TablesAt(T, 5) /\ TypesAt(Y, 5)
      /\ catalogue = [tables |-> T, types |-> Y]
  BY <1>1 DEF SchemaInv
<1>3. /\ T = [x \in D |-> T[x]] /\ "interventions" \in D /\ "action_records" \in D
      /\ \A x \in D : T[x] = [f \in Constraint |-> T[x][f]] /\ MovedAt(x, T[x], 5)
      /\ \A x \in D, f \in Constraint : Moved(x, f) \/ T[x][f] = Baseline.tables[x][f]
  BY <1>2, TouchedTables DEF TablesAt, Ends
<1>4. /\ offer = [f \in Constraint |-> offer[f]] /\ MovedAt("interventions", offer, 5)
      /\ entry = [f \in Constraint |-> entry[f]] /\ MovedAt("action_records", entry, 5)
  BY <1>3
<1>5. catalogue' = [tables |-> [T EXCEPT !["interventions"] = V, !["action_records"] = W],
                    types |-> [Y EXCEPT !["action_status"] = @ \cup {"indeterminate"}]]
  BY <1>2, <1>3, <1>4 DEF Up0006
<1>6. /\ V = [f \in Constraint |-> V[f]]
      /\ V.added = offer.added \cup {"target_ref"} /\ V.enum = offer.enum
      /\ \A f \in Constraint : Moved("interventions", f) \/ V[f] = offer[f]
  BY <1>4 DEF Moved, Constraint
<1>7. /\ W = [f \in Constraint |-> W[f]]
      /\ W.added = entry.added \cup {"approval_request_id"}
      /\ W.nullable = entry.nullable \cup {"approval_request_id"}
      /\ W.fk = AuthorisationKeys ++ entry.fk /\ W.check = entry.check
  BY <1>4 DEF Constraint
<1>8. \A f \in Constraint : Moved("action_records", f) \/ W[f] = entry[f]
  BY <1>4 DEF Moved, Constraint
<1> HIDE DEF V, W
<1>9. /\ U = [x \in D |-> U[x]] /\ U["interventions"] = V /\ U["action_records"] = W
      /\ \A x \in D \ {"interventions", "action_records"} : U[x] = T[x]
  BY <1>3, <1>5
<1>10. /\ catalogue' = [tables |-> U, types |-> Z]
       /\ Z = [Y EXCEPT !["action_status"] = @ \cup {"indeterminate"}]
  BY <1>5
<1> HIDE DEF U, Z
<1>11. MovedAt("interventions", V, 6)
  BY <1>4, <1>6 DEF MovedAt, Since
<1>12. MovedAt("action_records", W, 6)
  <2>0. /\ Since(6, 5, {"approval_request_id"}) = {}
        /\ Since(9, 5, Attestation) = {}
        /\ Since(9, 5, {"reconciliation_is_complete_or_absent"}) = {}
    BY DEF Since
  <2>1. /\ entry.fk = OwnKeys
        /\ entry.check = {"attempt_count_non_negative"}
        /\ entry.nullable = {"result", "executed_at"}
        /\ entry.added = {}
    BY <1>4, <2>0 DEF MovedAt
  <2>2. W.fk = AuthorisationKeys ++ OwnKeys
    BY <1>7, <2>1
  <2>3. /\ W.check = {"attempt_count_non_negative"}
        /\ W.nullable = {"result", "executed_at", "approval_request_id"}
        /\ W.added = {"approval_request_id"}
    BY <1>7, <2>1
  <2>4. QED
    BY <2>2, <2>3 DEF MovedAt, Since
<1>13. \A x \in D \ {"interventions", "action_records"} : MovedAt(x, U[x], 6)
  <2>1. \A x \in D \ {"interventions", "action_records"} : MovedAt(x, T[x], 6)
    <3> HIDE DEF D, T
    <3>1. QED
      BY <1>3 DEF MovedAt, Since
  <2>2. QED
    BY <1>9, <2>1
<1>14. TablesAt(U, 6)
  <2> HIDE DEF D, T
  <2>1. \A x \in D : MovedAt(x, U[x], 6)
    BY <1>9, <1>11, <1>12, <1>13
  <2>2. \A x \in D : U[x] = [f \in Constraint |-> U[x][f]]
    BY <1>3, <1>6, <1>7, <1>9
  <2>3. \A x \in D, f \in Constraint : Moved(x, f) \/ U[x][f] = Baseline.tables[x][f]
    BY <1>3, <1>6, <1>8, <1>9
  <2>4. U = [x \in D |-> [f \in Constraint |-> U[x][f]]]
    BY <1>9, <2>2
  <2>5. QED
    BY <2>1, <2>3, <2>4 DEF TablesAt, D
<1>15. TypesAt(Z, 6)
  <2> HIDE DEF Y
  <2>1. "action_status" \in DOMAIN BaselineTypes /\ "proposed_action" \notin DOMAIN BaselineTypes
    BY DEF BaselineTypes
  <2>2. /\ Y = [y \in DOMAIN BaselineTypes \cup {"proposed_action"} |-> Y[y]]
        /\ \A y \in DOMAIN BaselineTypes \ {"action_status"} : Y[y] = BaselineTypes[y]
        /\ Y["action_status"] = BaselineTypes["action_status"]
        /\ Y["proposed_action"] = Proposable
    BY <1>2 DEF TypesAt, Since
  <2>3. /\ Z = [y \in DOMAIN BaselineTypes \cup {"proposed_action"} |-> Z[y]]
        /\ \A y \in DOMAIN BaselineTypes \ {"action_status"} : Z[y] = Y[y]
        /\ Z["action_status"] = BaselineTypes["action_status"] \cup {"indeterminate"}
        /\ Z["proposed_action"] = Y["proposed_action"]
    BY <1>10, <2>1, <2>2
  <2>4. QED
    BY <2>1, <2>2, <2>3 DEF TypesAt, Since
<1>16. QED
  BY <1>2, <1>10, <1>14, <1>15 DEF SchemaInv, HeadRev, U, Z

LEMMA SchemaUp0007 ==
  ASSUME SchemaInv, Up0007, rev' = rev + 1
  PROVE  SchemaInv'
<1> DEFINE T == catalogue.tables
           Y == catalogue.types
           old == T["budgets"]
           V == [old EXCEPT !.scale = [limit_usd |-> 6, consumed_usd |-> 6]]
           U == catalogue'.tables
<1>1. rev = 6
  BY Zenon DEF Up0007
<1>2. /\ rev' = 7 /\ TablesAt(T, 6) /\ TypesAt(Y, 6)
      /\ catalogue = [tables |-> T, types |-> Y]
  BY <1>1 DEF SchemaInv
<1>3. /\ T = [x \in DOMAIN Baseline.tables |-> T[x]] /\ "budgets" \in DOMAIN Baseline.tables
      /\ old = [f \in Constraint |-> old[f]] /\ MovedAt("budgets", old, 6)
  BY <1>2, TouchedTables DEF TablesAt, Ends
<1>4. catalogue' = [tables |-> [T EXCEPT !["budgets"] = V], types |-> Y]
  BY <1>2, <1>3 DEF Up0007
<1>5. /\ V.scale = [limit_usd |-> 6, consumed_usd |-> 6]
  BY <1>3 DEF Constraint
<1>6. Altered(T, U, "budgets", V)
  <2>1. U = [T EXCEPT !["budgets"] = V]
    BY <1>4
  <2>2. V = [f \in Constraint |-> V[f]]
    BY <1>3
  <2>3. \A f \in Constraint : Moved("budgets", f) \/ V[f] = old[f]
    BY <1>3 DEF Moved, Constraint
  <2> HIDE DEF V, U
  <2>4. QED
    BY <1>3, <2>1, <2>2, <2>3 DEF Altered
<1>7. catalogue' = [tables |-> U, types |-> Y]
  BY <1>4
<1> HIDE DEF V, U
<1>8. MovedAt("budgets", V, 7)
  BY <1>3, <1>5 DEF MovedAt, Since
<1>9. OthersStay(T, "budgets", 6, 7)
  BY DEF OthersStay, MovedAt, Since
<1> HIDE DEF T
<1>10. TablesAt(U, 7)
  BY <1>2, <1>6, <1>8, <1>9, OneTable
<1>11. TypesAt(Y, 7)
  BY <1>2 DEF TypesAt, Since
<1>12. QED
  BY <1>2, <1>7, <1>10, <1>11 DEF SchemaInv, HeadRev, U

LEMMA SchemaUp0008 ==
  ASSUME SchemaInv, Up0008, rev' = rev + 1
  PROVE  SchemaInv'
<1> DEFINE T == catalogue.tables
           Y == catalogue.types
           old == T["evaluation_runs"]
           V == [old EXCEPT !.added = @ \cup {"seq"}, !.unique = @ \cup {{"seq"}}]
           U == catalogue'.tables
<1>1. rev = 7
  BY Zenon DEF Up0008
<1>2. /\ rev' = 8 /\ TablesAt(T, 7) /\ TypesAt(Y, 7)
      /\ catalogue = [tables |-> T, types |-> Y]
  BY <1>1 DEF SchemaInv
<1>3. /\ T = [x \in DOMAIN Baseline.tables |-> T[x]] /\ "evaluation_runs" \in DOMAIN Baseline.tables
      /\ old = [f \in Constraint |-> old[f]] /\ MovedAt("evaluation_runs", old, 7)
  BY <1>2, TouchedTables DEF TablesAt, Ends
<1>4. catalogue' = [tables |-> [T EXCEPT !["evaluation_runs"] = V], types |-> Y]
  BY <1>2, <1>3 DEF Up0008
<1>5. /\ V.added = old.added \cup {"seq"}
      /\ V.unique = old.unique \cup {{"seq"}}
  BY <1>3 DEF Constraint
<1>6. Altered(T, U, "evaluation_runs", V)
  <2>1. U = [T EXCEPT !["evaluation_runs"] = V]
    BY <1>4
  <2>2. V = [f \in Constraint |-> V[f]]
    BY <1>3
  <2>3. \A f \in Constraint : Moved("evaluation_runs", f) \/ V[f] = old[f]
    BY <1>3 DEF Moved, Constraint
  <2> HIDE DEF V, U
  <2>4. QED
    BY <1>3, <2>1, <2>2, <2>3 DEF Altered
<1>7. catalogue' = [tables |-> U, types |-> Y]
  BY <1>4
<1> HIDE DEF V, U
<1>8. MovedAt("evaluation_runs", V, 8)
  BY <1>3, <1>5 DEF MovedAt, Since
<1>9. OthersStay(T, "evaluation_runs", 7, 8)
  BY DEF OthersStay, MovedAt, Since
<1> HIDE DEF T
<1>10. TablesAt(U, 8)
  BY <1>2, <1>6, <1>8, <1>9, OneTable
<1>11. TypesAt(Y, 8)
  BY <1>2 DEF TypesAt, Since
<1>12. QED
  BY <1>2, <1>7, <1>10, <1>11 DEF SchemaInv, HeadRev, U

LEMMA SchemaUp0009 ==
  ASSUME SchemaInv, Up0009, rev' = rev + 1
  PROVE  SchemaInv'
<1> DEFINE T == catalogue.tables
           Y == catalogue.types
           old == T["action_records"]
           V == [old EXCEPT !.added = @ \cup Attestation, !.nullable = @ \cup Attestation,
                            !.check = @ \cup {"reconciliation_is_complete_or_absent"}]
           U == catalogue'.tables
<1>1. rev = 8
  BY Zenon DEF Up0009
<1>2. /\ rev' = 9 /\ TablesAt(T, 8) /\ TypesAt(Y, 8)
      /\ catalogue = [tables |-> T, types |-> Y]
  BY <1>1 DEF SchemaInv
<1>3. /\ T = [x \in DOMAIN Baseline.tables |-> T[x]] /\ "action_records" \in DOMAIN Baseline.tables
      /\ old = [f \in Constraint |-> old[f]] /\ MovedAt("action_records", old, 8)
  BY <1>2, TouchedTables DEF TablesAt, Ends
<1>4. catalogue' = [tables |-> [T EXCEPT !["action_records"] = V], types |-> Y]
  BY <1>2, <1>3 DEF Up0009
<1>5. /\ V.added = old.added \cup Attestation
      /\ V.nullable = old.nullable \cup Attestation
      /\ V.check = old.check \cup {"reconciliation_is_complete_or_absent"}
  BY <1>3 DEF Constraint
<1>6. Altered(T, U, "action_records", V)
  <2>1. U = [T EXCEPT !["action_records"] = V]
    BY <1>4
  <2>2. V = [f \in Constraint |-> V[f]]
    BY <1>3
  <2>3. \A f \in Constraint : Moved("action_records", f) \/ V[f] = old[f]
    BY <1>3 DEF Moved, Constraint
  <2> HIDE DEF V, U
  <2>4. QED
    BY <1>3, <2>1, <2>2, <2>3 DEF Altered
<1>7. catalogue' = [tables |-> U, types |-> Y]
  BY <1>4
<1> HIDE DEF V, U
<1>8. MovedAt("action_records", V, 9)
  <2>1. /\ old.fk = AuthorisationKeys ++ OwnKeys
        /\ old.check = {"attempt_count_non_negative"}
        /\ old.nullable = {"result", "executed_at", "approval_request_id"}
        /\ old.added = {"approval_request_id"}
    BY <1>3 DEF MovedAt, Since
  <2>2. V.fk = old.fk
    BY <1>3 DEF V, Constraint
  <2>3. /\ V.check = {"attempt_count_non_negative", "reconciliation_is_complete_or_absent"}
        /\ V.nullable = {"result", "executed_at", "approval_request_id"} \cup Attestation
        /\ V.added = {"approval_request_id"} \cup Attestation
    BY <1>5, <2>1 DEF Attestation
  <2>4. QED
    BY <2>1, <2>2, <2>3 DEF MovedAt, Since
<1>9. OthersStay(T, "action_records", 8, 9)
  BY DEF OthersStay, MovedAt, Since
<1> HIDE DEF T
<1>10. TablesAt(U, 9)
  BY <1>2, <1>6, <1>8, <1>9, OneTable
<1>11. TypesAt(Y, 9)
  BY <1>2 DEF TypesAt, Since
<1>12. QED
  BY <1>2, <1>7, <1>10, <1>11 DEF SchemaInv, HeadRev, U

\* And back.
LEMMA SchemaDown0009 ==
  ASSUME SchemaInv, Down0009, rev' = rev - 1
  PROVE  SchemaInv'
<1> DEFINE T == catalogue.tables
           Y == catalogue.types
           old == T["action_records"]
           V == [old EXCEPT !.check = @ \ {"reconciliation_is_complete_or_absent"},
                            !.nullable = @ \ Attestation, !.added = @ \ Attestation]
           U == catalogue'.tables
<1>1. rev = 9
  BY Zenon DEF Down0009
<1>2. /\ rev' = 8 /\ TablesAt(T, 9) /\ TypesAt(Y, 9)
      /\ catalogue = [tables |-> T, types |-> Y]
  BY <1>1 DEF SchemaInv
<1>3. /\ T = [x \in DOMAIN Baseline.tables |-> T[x]] /\ "action_records" \in DOMAIN Baseline.tables
      /\ old = [f \in Constraint |-> old[f]] /\ MovedAt("action_records", old, 9)
  BY <1>2, TouchedTables DEF TablesAt, Ends
<1>4. catalogue' = [tables |-> [T EXCEPT !["action_records"] = V], types |-> Y]
  BY <1>2, <1>3 DEF Down0009
<1>5. /\ V.check = old.check \ {"reconciliation_is_complete_or_absent"}
      /\ V.nullable = old.nullable \ Attestation
      /\ V.added = old.added \ Attestation
  BY <1>3 DEF Constraint
<1>6. Altered(T, U, "action_records", V)
  <2>1. U = [T EXCEPT !["action_records"] = V]
    BY <1>4
  <2>2. V = [f \in Constraint |-> V[f]]
    BY <1>3
  <2>3. \A f \in Constraint : Moved("action_records", f) \/ V[f] = old[f]
    BY <1>3 DEF Moved, Constraint
  <2> HIDE DEF V, U
  <2>4. QED
    BY <1>3, <2>1, <2>2, <2>3 DEF Altered
<1>7. catalogue' = [tables |-> U, types |-> Y]
  BY <1>4
<1> HIDE DEF V, U
<1>8. MovedAt("action_records", V, 8)
  <2>1. /\ old.fk = AuthorisationKeys ++ OwnKeys
        /\ old.check = {"attempt_count_non_negative", "reconciliation_is_complete_or_absent"}
        /\ old.nullable = {"result", "executed_at", "approval_request_id"} \cup Attestation
        /\ old.added = {"approval_request_id"} \cup Attestation
    BY <1>3 DEF MovedAt, Since
  <2>2. V.fk = old.fk
    BY <1>3 DEF V, Constraint
  <2>3. /\ V.check = {"attempt_count_non_negative"}
        /\ V.nullable = {"result", "executed_at", "approval_request_id"}
        /\ V.added = {"approval_request_id"}
    BY <1>5, <2>1 DEF Attestation
  <2>4. QED
    BY <2>1, <2>2, <2>3 DEF MovedAt, Since
<1>9. OthersStay(T, "action_records", 9, 8)
  BY DEF OthersStay, MovedAt, Since
<1> HIDE DEF T
<1>10. TablesAt(U, 8)
  BY <1>2, <1>6, <1>8, <1>9, OneTable
<1>11. TypesAt(Y, 8)
  BY <1>2 DEF TypesAt, Since
<1>12. QED
  BY <1>2, <1>7, <1>10, <1>11 DEF SchemaInv, HeadRev, U

LEMMA SchemaDown0008 ==
  ASSUME SchemaInv, Down0008, rev' = rev - 1
  PROVE  SchemaInv'
<1> DEFINE T == catalogue.tables
           Y == catalogue.types
           old == T["evaluation_runs"]
           V == [old EXCEPT !.unique = @ \ {{"seq"}}, !.added = @ \ {"seq"}]
           U == catalogue'.tables
<1>1. rev = 8
  BY Zenon DEF Down0008
<1>2. /\ rev' = 7 /\ TablesAt(T, 8) /\ TypesAt(Y, 8)
      /\ catalogue = [tables |-> T, types |-> Y]
  BY <1>1 DEF SchemaInv
<1>3. /\ T = [x \in DOMAIN Baseline.tables |-> T[x]] /\ "evaluation_runs" \in DOMAIN Baseline.tables
      /\ old = [f \in Constraint |-> old[f]] /\ MovedAt("evaluation_runs", old, 8)
  BY <1>2, TouchedTables DEF TablesAt, Ends
<1>4. catalogue' = [tables |-> [T EXCEPT !["evaluation_runs"] = V], types |-> Y]
  BY <1>2, <1>3 DEF Down0008
<1>5. /\ V.unique = old.unique \ {{"seq"}}
      /\ V.added = old.added \ {"seq"}
  BY <1>3 DEF Constraint
<1>6. Altered(T, U, "evaluation_runs", V)
  <2>1. U = [T EXCEPT !["evaluation_runs"] = V]
    BY <1>4
  <2>2. V = [f \in Constraint |-> V[f]]
    BY <1>3
  <2>3. \A f \in Constraint : Moved("evaluation_runs", f) \/ V[f] = old[f]
    BY <1>3 DEF Moved, Constraint
  <2> HIDE DEF V, U
  <2>4. QED
    BY <1>3, <2>1, <2>2, <2>3 DEF Altered
<1>7. catalogue' = [tables |-> U, types |-> Y]
  BY <1>4
<1> HIDE DEF V, U
<1>8. MovedAt("evaluation_runs", V, 7)
  BY <1>3, <1>5 DEF MovedAt, Since
<1>9. OthersStay(T, "evaluation_runs", 8, 7)
  BY DEF OthersStay, MovedAt, Since
<1> HIDE DEF T
<1>10. TablesAt(U, 7)
  BY <1>2, <1>6, <1>8, <1>9, OneTable
<1>11. TypesAt(Y, 7)
  BY <1>2 DEF TypesAt, Since
<1>12. QED
  BY <1>2, <1>7, <1>10, <1>11 DEF SchemaInv, HeadRev, U

LEMMA SchemaDown0007 ==
  ASSUME SchemaInv, Down0007, rev' = rev - 1
  PROVE  SchemaInv'
<1> DEFINE T == catalogue.tables
           Y == catalogue.types
           old == T["budgets"]
           V == [old EXCEPT !.scale = [limit_usd |-> 2, consumed_usd |-> 2]]
           U == catalogue'.tables
<1>1. rev = 7
  BY Zenon DEF Down0007
<1>2. /\ rev' = 6 /\ TablesAt(T, 7) /\ TypesAt(Y, 7)
      /\ catalogue = [tables |-> T, types |-> Y]
  BY <1>1 DEF SchemaInv
<1>3. /\ T = [x \in DOMAIN Baseline.tables |-> T[x]] /\ "budgets" \in DOMAIN Baseline.tables
      /\ old = [f \in Constraint |-> old[f]] /\ MovedAt("budgets", old, 7)
  BY <1>2, TouchedTables DEF TablesAt, Ends
<1>4. catalogue' = [tables |-> [T EXCEPT !["budgets"] = V], types |-> Y]
  BY <1>2, <1>3 DEF Down0007
<1>5. /\ V.scale = [limit_usd |-> 2, consumed_usd |-> 2]
  BY <1>3 DEF Constraint
<1>6. Altered(T, U, "budgets", V)
  <2>1. U = [T EXCEPT !["budgets"] = V]
    BY <1>4
  <2>2. V = [f \in Constraint |-> V[f]]
    BY <1>3
  <2>3. \A f \in Constraint : Moved("budgets", f) \/ V[f] = old[f]
    BY <1>3 DEF Moved, Constraint
  <2> HIDE DEF V, U
  <2>4. QED
    BY <1>3, <2>1, <2>2, <2>3 DEF Altered
<1>7. catalogue' = [tables |-> U, types |-> Y]
  BY <1>4
<1> HIDE DEF V, U
<1>8. MovedAt("budgets", V, 6)
  BY <1>3, <1>5 DEF MovedAt, Since
<1>9. OthersStay(T, "budgets", 7, 6)
  BY DEF OthersStay, MovedAt, Since
<1> HIDE DEF T
<1>10. TablesAt(U, 6)
  BY <1>2, <1>6, <1>8, <1>9, OneTable
<1>11. TypesAt(Y, 6)
  BY <1>2 DEF TypesAt, Since
<1>12. QED
  BY <1>2, <1>7, <1>10, <1>11 DEF SchemaInv, HeadRev, U

LEMMA SchemaDown0006 ==
  ASSUME SchemaInv, Down0006, rev' = rev - 1
  PROVE  SchemaInv'
<1> DEFINE D == DOMAIN Baseline.tables
           T == catalogue.tables
           Y == catalogue.types
           offer == T["interventions"]
           entry == T["action_records"]
           V == [offer EXCEPT !.added = @ \ {"target_ref"}]
           W == [entry EXCEPT !.fk = Without(@, {"authorized_by", "approval_request_id"}),
                              !.nullable = @ \ {"approval_request_id"},
                              !.added = @ \ {"approval_request_id"}]
           U == catalogue'.tables
           Z == catalogue'.types
<1>1. rev = 6
  BY Zenon DEF Down0006
<1>2. /\ rev' = 5 /\ TablesAt(T, 6) /\ TypesAt(Y, 6)
      /\ catalogue = [tables |-> T, types |-> Y]
  BY <1>1 DEF SchemaInv
<1>3. /\ T = [x \in D |-> T[x]] /\ "interventions" \in D /\ "action_records" \in D
      /\ \A x \in D : T[x] = [f \in Constraint |-> T[x][f]] /\ MovedAt(x, T[x], 6)
      /\ \A x \in D, f \in Constraint : Moved(x, f) \/ T[x][f] = Baseline.tables[x][f]
  BY <1>2, TouchedTables DEF TablesAt, Ends
<1>4. /\ offer = [f \in Constraint |-> offer[f]] /\ MovedAt("interventions", offer, 6)
      /\ entry = [f \in Constraint |-> entry[f]] /\ MovedAt("action_records", entry, 6)
  BY <1>3
<1>5. catalogue' = [tables |-> [T EXCEPT !["action_records"] = W, !["interventions"] = V],
                    types |-> [Y EXCEPT !["action_status"] = 
                              {"pending", "executing", "succeeded", "failed", "skipped"}]]
  BY <1>2, <1>3, <1>4 DEF Down0006
<1>6. /\ V = [f \in Constraint |-> V[f]]
      /\ V.added = offer.added \ {"target_ref"} /\ V.enum = offer.enum
      /\ \A f \in Constraint : Moved("interventions", f) \/ V[f] = offer[f]
  BY <1>4 DEF Moved, Constraint
<1>7. /\ W = [f \in Constraint |-> W[f]]
      /\ W.added = entry.added \ {"approval_request_id"}
      /\ W.nullable = entry.nullable \ {"approval_request_id"}
      /\ W.fk = Without(entry.fk, {"authorized_by", "approval_request_id"})
      /\ W.check = entry.check
  BY <1>4 DEF Constraint
<1>8. \A f \in Constraint : Moved("action_records", f) \/ W[f] = entry[f]
  BY <1>4 DEF Moved, Constraint
<1> HIDE DEF V, W
<1>9. /\ U = [x \in D |-> U[x]] /\ U["interventions"] = V /\ U["action_records"] = W
      /\ \A x \in D \ {"interventions", "action_records"} : U[x] = T[x]
  BY <1>3, <1>5
<1>10. /\ catalogue' = [tables |-> U, types |-> Z]
       /\ Z = [Y EXCEPT !["action_status"] = 
                              {"pending", "executing", "succeeded", "failed", "skipped"}]
  BY <1>5
<1> HIDE DEF U, Z
<1>11. MovedAt("interventions", V, 5)
  BY <1>4, <1>6 DEF MovedAt, Since
<1>12. MovedAt("action_records", W, 5)
  <2>0. /\ Since(6, 6, {"approval_request_id"}) = {"approval_request_id"}
        /\ Since(9, 6, Attestation) = {}
        /\ Since(9, 6, {"reconciliation_is_complete_or_absent"}) = {}
    BY DEF Since
  <2>1. /\ entry.fk = AuthorisationKeys ++ OwnKeys
        /\ entry.check = {"attempt_count_non_negative"}
        /\ entry.nullable = {"result", "executed_at", "approval_request_id"}
        /\ entry.added = {"approval_request_id"}
    BY <1>4, <2>0 DEF MovedAt
  <2>2. W.fk = OwnKeys
    <3>1. /\ DOMAIN AuthorisationKeys = {"authorized_by", "approval_request_id"}
          /\ DOMAIN OwnKeys = {"intervention_id", "run_id"}
          /\ OwnKeys = [c \in {"intervention_id", "run_id"} |-> OwnKeys[c]]
      BY DEF AuthorisationKeys, OwnKeys, Restricted, Cascade
    <3>2. W.fk = Without(AuthorisationKeys ++ OwnKeys, {"authorized_by", "approval_request_id"})
      BY <1>7, <2>1
    <3>3. QED
      BY <3>1, <3>2 DEF Without, ++
  <2>3. /\ W.check = {"attempt_count_non_negative"}
        /\ W.nullable = {"result", "executed_at"}
        /\ W.added = {}
    BY <1>7, <2>1
  <2>4. QED
    BY <2>2, <2>3 DEF MovedAt, Since
<1>13. \A x \in D \ {"interventions", "action_records"} : MovedAt(x, U[x], 5)
  <2>1. \A x \in D \ {"interventions", "action_records"} : MovedAt(x, T[x], 5)
    <3> HIDE DEF D, T
    <3>1. QED
      BY <1>3 DEF MovedAt, Since
  <2>2. QED
    BY <1>9, <2>1
<1>14. TablesAt(U, 5)
  <2> HIDE DEF D, T
  <2>1. \A x \in D : MovedAt(x, U[x], 5)
    BY <1>9, <1>11, <1>12, <1>13
  <2>2. \A x \in D : U[x] = [f \in Constraint |-> U[x][f]]
    BY <1>3, <1>6, <1>7, <1>9
  <2>3. \A x \in D, f \in Constraint : Moved(x, f) \/ U[x][f] = Baseline.tables[x][f]
    BY <1>3, <1>6, <1>8, <1>9
  <2>4. U = [x \in D |-> [f \in Constraint |-> U[x][f]]]
    BY <1>9, <2>2
  <2>5. QED
    BY <2>1, <2>3, <2>4 DEF TablesAt, D
<1>15. TypesAt(Z, 5)
  <2> HIDE DEF Y
  <2>1. "action_status" \in DOMAIN BaselineTypes /\ "proposed_action" \notin DOMAIN BaselineTypes
    BY DEF BaselineTypes
  <2>2. /\ Y = [y \in DOMAIN BaselineTypes \cup {"proposed_action"} |-> Y[y]]
        /\ \A y \in DOMAIN BaselineTypes \ {"action_status"} : Y[y] = BaselineTypes[y]
        /\ Y["action_status"] = BaselineTypes["action_status"] \cup {"indeterminate"}
        /\ Y["proposed_action"] = Proposable
    BY <1>2 DEF TypesAt, Since
  <2>5. BaselineTypes["action_status"] =
          {"pending", "executing", "succeeded", "failed", "skipped"}
    BY DEF BaselineTypes
  <2>3. /\ Z = [y \in DOMAIN BaselineTypes \cup {"proposed_action"} |-> Z[y]]
        /\ \A y \in DOMAIN BaselineTypes \ {"action_status"} : Z[y] = Y[y]
        /\ Z["action_status"] = BaselineTypes["action_status"]
        /\ Z["proposed_action"] = Y["proposed_action"]
    BY <1>10, <2>1, <2>2, <2>5
  <2>4. QED
    BY <2>1, <2>2, <2>3 DEF TypesAt, Since
<1>16. QED
  BY <1>2, <1>10, <1>14, <1>15 DEF SchemaInv, HeadRev, U, Z

LEMMA SchemaDown0005 ==
  ASSUME SchemaInv, Down0005, rev' = rev - 1
  PROVE  SchemaInv'
<1> DEFINE T == catalogue.tables
           Y == catalogue.types
           old == T["approval_requests"]
           V == [old EXCEPT !.unique = @ \ {{"approval_ref"}},
                            !.added = @ \ {"requested_by", "approval_ref"}]
           U == catalogue'.tables
<1>1. rev = 5
  BY Zenon DEF Down0005
<1>2. /\ rev' = 4 /\ TablesAt(T, 5) /\ TypesAt(Y, 5)
      /\ catalogue = [tables |-> T, types |-> Y]
  BY <1>1 DEF SchemaInv
<1>3. /\ T = [x \in DOMAIN Baseline.tables |-> T[x]]
      /\ "approval_requests" \in DOMAIN Baseline.tables
      /\ old = [f \in Constraint |-> old[f]] /\ MovedAt("approval_requests", old, 5)
  BY <1>2, TouchedTables DEF TablesAt, Ends
<1>4. catalogue' = [tables |-> [T EXCEPT !["approval_requests"] = V], types |-> Y]
  BY <1>2, <1>3 DEF Down0005
<1>5. /\ V.unique = old.unique \ {{"approval_ref"}}
      /\ V.added = old.added \ {"requested_by", "approval_ref"}
  BY <1>3 DEF Constraint
<1>6. Altered(T, U, "approval_requests", V)
  <2>1. U = [T EXCEPT !["approval_requests"] = V]
    BY <1>4
  <2>2. V = [f \in Constraint |-> V[f]]
    BY <1>3
  <2>3. \A f \in Constraint : Moved("approval_requests", f) \/ V[f] = old[f]
    BY <1>3 DEF Moved, Constraint
  <2> HIDE DEF V, U
  <2>4. QED
    BY <1>3, <2>1, <2>2, <2>3 DEF Altered
<1>7. catalogue' = [tables |-> U, types |-> Y]
  BY <1>4
<1> HIDE DEF V, U
<1>8. MovedAt("approval_requests", V, 4)
  <2>0. /\ Since(5, 5, {{"approval_ref"}}) = {{"approval_ref"}}
        /\ Since(5, 5, {"requested_by", "approval_ref"}) = {"requested_by", "approval_ref"}
    BY DEF Since
  <2>1. /\ old.unique = {{"policy_evaluation_id"}} \cup {{"approval_ref"}}
        /\ old.added = {"requested_by", "approval_ref"}
    BY <1>3, <2>0 DEF MovedAt
  <2>2. {"policy_evaluation_id"} # {"approval_ref"}
    OBVIOUS
  <2>3. V.unique = {{"policy_evaluation_id"}} /\ V.added = {}
    BY <1>5, <2>1, <2>2
  <2>4. QED
    BY <2>3 DEF MovedAt, Since
<1>9. OthersStay(T, "approval_requests", 5, 4)
  BY DEF OthersStay, MovedAt, Since
<1> HIDE DEF T
<1>10. TablesAt(U, 4)
  BY <1>2, <1>6, <1>8, <1>9, OneTable
<1>11. TypesAt(Y, 4)
  BY <1>2 DEF TypesAt, Since
<1>12. QED
  BY <1>2, <1>7, <1>10, <1>11 DEF SchemaInv, HeadRev, U

LEMMA SchemaDown0004 ==
  ASSUME SchemaInv, Down0004, rev' = rev - 1
  PROVE  SchemaInv'
<1> DEFINE T == catalogue.tables
           Y == catalogue.types
           old == T["interventions"]
           V == [old EXCEPT !.enum["action_type"] = "action_type"]
           U == catalogue'.tables
           Z == catalogue'.types
<1>1. rev = 4
  BY Zenon DEF Down0004
<1>2. /\ rev' = 3 /\ TablesAt(T, 4) /\ TypesAt(Y, 4)
      /\ catalogue = [tables |-> T, types |-> Y]
  BY <1>1 DEF SchemaInv
<1>3. /\ T = [x \in DOMAIN Baseline.tables |-> T[x]]
      /\ "interventions" \in DOMAIN Baseline.tables
      /\ old = [f \in Constraint |-> old[f]] /\ MovedAt("interventions", old, 4)
  BY <1>2, TouchedTables DEF TablesAt, Ends
<1>4. catalogue' = [tables |-> [T EXCEPT !["interventions"] = V],
        types |-> Without(Y, {"proposed_action"})]
  BY <1>2, <1>3 DEF Down0004
<1>5. V.enum = [old.enum EXCEPT !["action_type"] = "action_type"] /\ V.added = old.added
  BY <1>3 DEF Constraint
<1>6. Altered(T, U, "interventions", V)
  <2>1. U = [T EXCEPT !["interventions"] = V]
    BY <1>4
  <2>2. V = [f \in Constraint |-> V[f]]
    BY <1>3
  <2>3. \A f \in Constraint : Moved("interventions", f) \/ V[f] = old[f]
    BY <1>3 DEF Moved, Constraint
  <2> HIDE DEF V, U
  <2>4. QED
    BY <1>3, <2>1, <2>2, <2>3 DEF Altered
<1>7. catalogue' = [tables |-> U, types |-> Z] /\ Z = Without(Y, {"proposed_action"})
  BY <1>4
<1> HIDE DEF V, U, Z
<1>8. MovedAt("interventions", V, 3)
  <2>1. V.enum = [action_type |-> "action_type"]
    BY <1>3, <1>5 DEF MovedAt
  <2>2. V.added = {}
    BY <1>3, <1>5 DEF MovedAt, Since
  <2>3. QED
    BY <2>1, <2>2 DEF MovedAt, Since
<1>9. OthersStay(T, "interventions", 4, 3)
  BY DEF OthersStay, MovedAt, Since
<1> HIDE DEF T
<1>10. TablesAt(U, 3)
  BY <1>2, <1>6, <1>8, <1>9, OneTable
<1>11. TypesAt(Z, 3)
  <2> HIDE DEF Y
  <2>1. /\ Y = [y \in DOMAIN BaselineTypes \cup {"proposed_action"} |-> Y[y]]
        /\ \A y \in DOMAIN BaselineTypes \ {"action_status"} : Y[y] = BaselineTypes[y]
        /\ Y["action_status"] = BaselineTypes["action_status"]
    BY <1>2 DEF TypesAt, Since
  <2>2. "proposed_action" \notin DOMAIN BaselineTypes
    BY DEF BaselineTypes
  <2>3. /\ Z = [y \in DOMAIN BaselineTypes |-> Z[y]]
        /\ \A y \in DOMAIN BaselineTypes : Z[y] = Y[y]
    BY <1>7, <2>1, <2>2 DEF Without
  <2>4. "action_status" \in DOMAIN BaselineTypes
    BY DEF BaselineTypes
  <2>5. QED
    BY <2>1, <2>3, <2>4 DEF TypesAt, Since
<1>12. QED
  BY <1>2, <1>7, <1>10, <1>11 DEF SchemaInv, HeadRev, U, Z

LEMMA SchemaDown0003 ==
  ASSUME SchemaInv, Down0003, rev' = rev - 1
  PROVE  SchemaInv'
<1> DEFINE T == catalogue.tables
           Y == catalogue.types
           old == T["model_calls"]
           V == [old EXCEPT !.added = @ \ {"is_replay"}]
           U == catalogue'.tables
<1>1. rev = 3
  BY Zenon DEF Down0003
<1>2. /\ rev' = 2 /\ TablesAt(T, 3) /\ TypesAt(Y, 3)
      /\ catalogue = [tables |-> T, types |-> Y]
  BY <1>1 DEF SchemaInv
<1>3. /\ T = [x \in DOMAIN Baseline.tables |-> T[x]] /\ "model_calls" \in DOMAIN Baseline.tables
      /\ old = [f \in Constraint |-> old[f]] /\ MovedAt("model_calls", old, 3)
  BY <1>2, TouchedTables DEF TablesAt, Ends
<1>4. catalogue' = [tables |-> [T EXCEPT !["model_calls"] = V], types |-> Y]
  BY <1>2, <1>3 DEF Down0003
<1>5. /\ V.added = old.added \ {"is_replay"}
  BY <1>3 DEF Constraint
<1>6. Altered(T, U, "model_calls", V)
  <2>1. U = [T EXCEPT !["model_calls"] = V]
    BY <1>4
  <2>2. V = [f \in Constraint |-> V[f]]
    BY <1>3
  <2>3. \A f \in Constraint : Moved("model_calls", f) \/ V[f] = old[f]
    BY <1>3 DEF Moved, Constraint
  <2> HIDE DEF V, U
  <2>4. QED
    BY <1>3, <2>1, <2>2, <2>3 DEF Altered
<1>7. catalogue' = [tables |-> U, types |-> Y]
  BY <1>4
<1> HIDE DEF V, U
<1>8. MovedAt("model_calls", V, 2)
  BY <1>3, <1>5 DEF MovedAt, Since
<1>9. OthersStay(T, "model_calls", 3, 2)
  BY DEF OthersStay, MovedAt, Since
<1> HIDE DEF T
<1>10. TablesAt(U, 2)
  BY <1>2, <1>6, <1>8, <1>9, OneTable
<1>11. TypesAt(Y, 2)
  BY <1>2 DEF TypesAt, Since
<1>12. QED
  BY <1>2, <1>7, <1>10, <1>11 DEF SchemaInv, HeadRev, U

LEMMA SchemaDown0002 ==
  ASSUME SchemaInv, Down0002, rev' = rev - 1
  PROVE  SchemaInv'
<1> DEFINE T == catalogue.tables
           Y == catalogue.types
           old == T["incidents"]
           V == [old EXCEPT !.unique = @ \ {{"signal_id"}}]
           U == catalogue'.tables
<1>1. rev = 2
  BY Zenon DEF Down0002
<1>2. /\ rev' = 1 /\ TablesAt(T, 2) /\ TypesAt(Y, 2)
      /\ catalogue = [tables |-> T, types |-> Y]
  BY <1>1 DEF SchemaInv
<1>3. /\ T = [x \in DOMAIN Baseline.tables |-> T[x]] /\ "incidents" \in DOMAIN Baseline.tables
      /\ old = [f \in Constraint |-> old[f]] /\ MovedAt("incidents", old, 2)
  BY <1>2, TouchedTables DEF TablesAt, Ends
<1>4. catalogue' = [tables |-> [T EXCEPT !["incidents"] = V], types |-> Y]
  BY <1>2, <1>3 DEF Down0002
<1>5. /\ V.unique = old.unique \ {{"signal_id"}}
  BY <1>3 DEF Constraint
<1>6. Altered(T, U, "incidents", V)
  <2>1. U = [T EXCEPT !["incidents"] = V]
    BY <1>4
  <2>2. V = [f \in Constraint |-> V[f]]
    BY <1>3
  <2>3. \A f \in Constraint : Moved("incidents", f) \/ V[f] = old[f]
    BY <1>3 DEF Moved, Constraint
  <2> HIDE DEF V, U
  <2>4. QED
    BY <1>3, <2>1, <2>2, <2>3 DEF Altered
<1>7. catalogue' = [tables |-> U, types |-> Y]
  BY <1>4
<1> HIDE DEF V, U
<1>8. MovedAt("incidents", V, 1)
  <2>0. /\ Since(2, 2, {{"signal_id"}}) = {{"signal_id"}}
    BY DEF Since
  <2>1. /\ old.unique = {{"incident_ref"}} \cup {{"signal_id"}}
    BY <1>3, <2>0 DEF MovedAt
  <2>2. {"incident_ref"} # {"signal_id"}
    OBVIOUS
  <2>3. V.unique = {{"incident_ref"}}
    BY <1>5, <2>1, <2>2
  <2>4. QED
    BY <2>3 DEF MovedAt, Since
<1>9. OthersStay(T, "incidents", 2, 1)
  BY DEF OthersStay, MovedAt, Since
<1> HIDE DEF T
<1>10. TablesAt(U, 1)
  BY <1>2, <1>6, <1>8, <1>9, OneTable
<1>11. TypesAt(Y, 1)
  BY <1>2 DEF TypesAt, Since
<1>12. QED
  BY <1>2, <1>7, <1>10, <1>11 DEF SchemaInv, HeadRev, U

\* Every table and every type goes.
LEMMA SchemaDown0001 ==
  ASSUME SchemaInv, Down0001, rev' = rev - 1
  PROVE  SchemaInv'
<1> DEFINE T == catalogue.tables
           Y == catalogue.types
           U == catalogue'.tables
           Z == catalogue'.types
<1>1. rev = 1
  BY Zenon DEF Down0001
<1>2. rev' = 0 /\ TablesAt(T, 1) /\ TypesAt(Y, 1)
  BY <1>1 DEF SchemaInv
<1>3. DOMAIN T \subseteq Dropped
  BY <1>2, AllDropped DEF TablesAt
<1>4. DOMAIN Y \subseteq DroppedTypes
  BY <1>2 DEF TypesAt, Since, DroppedTypes
<1>5. catalogue' = [tables |-> U, types |-> Z]
      /\ U = Without(T, Dropped) /\ Z = Without(Y, DroppedTypes)
  BY DEF Down0001, Dropped
<1> HIDE DEF T, Y, U, Z
<1>6. U = <<>> /\ Z = <<>>
  <2>1. U = [x \in {} |-> T[x]] /\ Z = [x \in {} |-> Y[x]]
    BY <1>3, <1>4, <1>5 DEF Without
  <2>2. QED
    BY <2>1
<1>7. QED
  BY <1>2, <1>5, <1>6 DEF SchemaInv, HeadRev, EmptyCatalogue, U, Z

LEMMA SchemaNext == SchemaInv /\ [Next]_vars => SchemaInv'
<1> SUFFICES ASSUME SchemaInv, [Next]_vars
             PROVE  SchemaInv'
  OBVIOUS
<1>1. CASE UNCHANGED <<rev, catalogue>>
  BY <1>1 DEF SchemaInv
<1>2. CASE Command
  <2>1. UNCHANGED <<rev, catalogue>>
    BY <1>2 DEF Command, OpenIncident, Propose, Approve, Act, Reconcile, LegacyRequest,
                LegacyApprove, Spend, Seed, Running
  <2>2. QED
    BY <1>1, <2>1
<1>3. CASE Upgrade
  <2>1. rev' = rev + 1
    BY <1>3 DEF Upgrade
  <2>2. QED
    BY <1>3, <2>1, SchemaUp0001, SchemaUp0002, SchemaUp0003, SchemaUp0004, SchemaUp0005,
       SchemaUp0006, SchemaUp0007, SchemaUp0008, SchemaUp0009 DEF Upgrade
<1>4. CASE Downgrade
  <2>1. rev' = rev - 1
    BY <1>4 DEF Downgrade
  <2>2. QED
    BY <1>4, <2>1, SchemaDown0001, SchemaDown0002, SchemaDown0003, SchemaDown0004,
       SchemaDown0005, SchemaDown0006, SchemaDown0007, SchemaDown0008, SchemaDown0009
       DEF Downgrade
<1>5. QED
  BY <1>1, <1>2, <1>3, <1>4 DEF Next, vars

(* Each file of alembic/versions/ undoes in downgrade() what it does to    *)
(* the catalogue in upgrade(), and drops nothing else: whatever way a      *)
(* database comes to a revision, its tables and its types are the same.    *)
THEOREM SchemaInductive == Spec => []SchemaInv
<1>1. Init => SchemaInv
  BY DEF Init, SchemaInv, HeadRev, EmptyCatalogue
<1>2. QED
  BY <1>1, SchemaNext, PTL DEF Spec

(* `alembic upgrade head`, the first time or after any number of           *)
(* downgrades, gives what the models of db/models/ declare, with the CHECK *)
(* constraints and the enum values that `alembic check` does not compare.  *)
THEOREM HeadAlwaysMatchesModels == Spec => []HeadMatchesModels
<1>1. SchemaInv => HeadMatchesModels
  <2> SUFFICES ASSUME SchemaInv, rev = HeadRev
               PROVE  catalogue.tables = Models /\ catalogue.types = ModelTypes
    BY DEF HeadMatchesModels
  <2>1. TablesAt(catalogue.tables, 9) /\ TypesAt(catalogue.types, 9)
    BY DEF SchemaInv, HeadRev
  <2>2. QED
    BY <2>1, TableEnds, TypeEnds, OneSchema
<1>2. QED
  BY <1>1, SchemaInductive, PTL

\* What the revisions require of the catalogue and of the rows they number.
RevisionsFit ==
  /\ rev = 0 => catalogue = EmptyCatalogue /\ Creatable
  /\ rev = 1 => catalogue = Baseline /\ Droppable(catalogue.tables, DropOrder)
  /\ rev = 3 => catalogue.types.action_type \subseteq Proposable
  /\ rev = 4 => \E number \in [Rows(approval) -> 1 .. Cardinality(Rows(approval))] :
                  \A p, q \in Rows(approval) : p # q => number[p] # number[q]

(* No revision fails half way, but by a refusal it states: the baseline    *)
(* finds neither a table nor a type of its own, which its own downgrade    *)
(* would have had to forget; the proposals of revision 4 have every value  *)
(* an action type has; and the requests revision 5 finds, however many,    *)
(* can be numbered from 1.  Going down, 0001_baseline.py finds the tables  *)
(* it made, and drops each when no other one refers to it.                 *)
THEOREM RevisionsAlwaysFit == Spec => []RevisionsFit
<1>1. SchemaInv => RevisionsFit
  <2> SUFFICES ASSUME SchemaInv
               PROVE  RevisionsFit
    OBVIOUS
  <2>1. ASSUME rev = 0
        PROVE  catalogue = EmptyCatalogue /\ Creatable
    <3>1. catalogue = EmptyCatalogue
      BY <2>1 DEF SchemaInv
    <3>2. DOMAIN catalogue.tables = {} /\ DOMAIN catalogue.types = {}
      BY <3>1 DEF EmptyCatalogue
    <3>3. QED
      BY <3>1, <3>2 DEF Creatable
  <2>2. ASSUME rev = 1
        PROVE  catalogue = Baseline /\ Droppable(catalogue.tables, DropOrder)
    <3>1. /\ TablesAt(catalogue.tables, 1) /\ TypesAt(catalogue.types, 1)
          /\ catalogue = [tables |-> catalogue.tables, types |-> catalogue.types]
      BY <2>2 DEF SchemaInv
    <3>2. catalogue.tables = Baseline.tables /\ catalogue.types = BaselineTypes
      BY <3>1, TableEnds, TypeEnds, OneSchema
    <3>3. Baseline = [tables |-> Baseline.tables, types |-> BaselineTypes]
      BY DEF Baseline
    <3>4. QED
      BY <3>1, <3>2, <3>3, BaselineDrops
  <2>3. ASSUME rev = 3
        PROVE  catalogue.types.action_type \subseteq Proposable
    <3>1. TypesAt(catalogue.types, 3)
      BY <2>3 DEF SchemaInv
    <3>2. /\ "action_type" \in DOMAIN BaselineTypes
          /\ BaselineTypes["action_type"] = {"crm_task", "email_draft", "crm_field_update",
                                             "slack_approval_request"}
      BY DEF BaselineTypes
    <3>3. catalogue.types["action_type"] = BaselineTypes["action_type"]
      BY <3>1, <3>2 DEF TypesAt
    <3>4. QED
      BY <3>2, <3>3 DEF Proposable
  <2>4. \E number \in [Rows(approval) -> 1 .. Cardinality(Rows(approval))] :
          \A p, q \in Rows(approval) : p # q => number[p] # number[q]
    <3>1. IsFiniteSet(Rows(approval))
      BY ProposalAssumption, FS_Subset DEF Rows
    <3>2. PICK n \in Nat : ExistsBijection(1 .. n, Rows(approval))
      BY <3>1, FS_NatBijection
    <3>3. Cardinality(Rows(approval)) = n
      BY <3>1, <3>2, FS_CountingElements
    <3>4. ExistsBijection(Rows(approval), 1 .. n)
      BY <3>2, Fun_ExistsBijSymmetric
    <3>5. PICK number : number \in Bijection(Rows(approval), 1 .. n)
      BY <3>4 DEF ExistsBijection
    <3>6. QED
      BY <3>3, <3>5 DEF Bijection, Injection, IsInjective, Surjection
  <2>5. QED
    BY <2>1, <2>2, <2>3, <2>4 DEF RevisionsFit
<1>2. QED
  BY <1>1, SchemaInductive, PTL
=============================================================================
