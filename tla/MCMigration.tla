---------------------------- MODULE MCMigration ----------------------------
(* Instances of Migration for TLC. *)
EXTENDS Migration
CONSTANTS m1, m2, f1
=============================================================================
