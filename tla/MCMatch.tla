------------------------------- MODULE MCMatch -------------------------------
(***************************************************************************)
(* Match.tla on small matches.                                             *)
(***************************************************************************)
EXTENDS Match
=============================================================================
