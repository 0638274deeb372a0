-------------------------- MODULE MCInvestigation --------------------------
(* Small instances of Investigation for the model checker. *)
EXTENDS Investigation, TLC

CONSTANTS r1, r2, r3, i1, i2

\* Two runs of one incident, one of another.
TwoIncidents == r1 :> i1 @@ r2 :> i1 @@ r3 :> i2
OneIncident == [r \in Run |-> i1]

Reserves == [n \in LlmNode |-> 2]

\* A call may cost less or more than its reservation: the cap sent to the
\* provider is not the cap of the route that priced the reservation.
Costs == [n \in LlmNode |-> {1, 3}]

\* A call that costs less than its reservation.
LowCosts == [n \in LlmNode |-> {1}]
=============================================================================
