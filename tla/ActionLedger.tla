---------------------------- MODULE ActionLedger ----------------------------
(***************************************************************************)
(* What the execution layer promises about its effects, without saying     *)
(* how: for every idempotency key there is one published outcome, it is    *)
(* written once, it is never rewritten, a success is published only for an *)
(* effect that was really delivered, and once an outcome is published the  *)
(* effect is never delivered again.                                        *)
(*                                                                         *)
(* It does not promise a single delivery: before publication the effect    *)
(* may be delivered any number of times, which is all that a claim made    *)
(* and settled inside one database transaction can guarantee.              *)
(***************************************************************************)
EXTENDS Naturals

CONSTANT Key

VARIABLES
  outcome,    \* [Key -> {"absent", "succeeded", "failed"}]: what is published
  delivered   \* [Key -> Nat]: effects the outside world has received

ledgerVars == <<outcome, delivered>>

LedgerInit ==
  /\ outcome = [k \in Key |-> "absent"]
  /\ delivered = [k \in Key |-> 0]

Deliver(k) ==
  /\ outcome[k] = "absent"
  /\ delivered' = [delivered EXCEPT ![k] = @ + 1]
  /\ UNCHANGED outcome

\* One transaction publishes the outcomes of all the keys it settled at once.
Publish ==
  /\ outcome' \in [Key -> {"absent", "succeeded", "failed"}]
  /\ \A k \in Key : outcome'[k] # outcome[k] =>
        /\ outcome[k] = "absent"
        /\ outcome'[k] = "succeeded" => delivered[k] > 0
  /\ UNCHANGED delivered

LedgerNext == Publish \/ \E k \in Key : Deliver(k)

LedgerSpec == LedgerInit /\ [][LedgerNext]_ledgerVars
=============================================================================
