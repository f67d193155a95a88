----------------------------- MODULE MCImporter -----------------------------
(***************************************************************************)
(* Importer.tla with a few files.                                          *)
(***************************************************************************)
EXTENDS Importer
=============================================================================
