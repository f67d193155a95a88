----------------------------- MODULE MCDatabase -----------------------------
(***************************************************************************)
(* Database.tla with two players; the .cfg says what may interfere.        *)
(***************************************************************************)
EXTENDS Database
=============================================================================
