---------------------------- MODULE MCRegistration ----------------------------
(* Registration.tla with a few lines that nobody asked for.                *)
EXTENDS Registration
=============================================================================
