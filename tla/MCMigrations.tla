----------------------------- MODULE MCMigrations -----------------------------
(* Migrations for the model checker: its constants are given in the .cfg. *)
EXTENDS Migrations
=============================================================================
