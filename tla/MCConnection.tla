---------------------------- MODULE MCConnection ----------------------------
(***************************************************************************)
(* Connection.tla with a few short commands.                               *)
(***************************************************************************)
EXTENDS Connection
=============================================================================
