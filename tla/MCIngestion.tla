---------------------------- MODULE MCIngestion ----------------------------
(* Small instances of Ingestion for the model checker. *)
EXTENDS Ingestion, TLC

CONSTANTS p1, p2
=============================================================================
