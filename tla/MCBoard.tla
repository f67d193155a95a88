------------------------------ MODULE MCBoard ------------------------------
(***************************************************************************)
(* Board.tla on a small board; the .cfg gives its size.                    *)
(***************************************************************************)
EXTENDS Board
=============================================================================
