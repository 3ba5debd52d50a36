--------------------------- MODULE MCBothCheckers ---------------------------
(***************************************************************************)
(* Both checkers on the families of MCFunctions.                           *)
(***************************************************************************)
EXTENDS BothCheckers, MCFunctions
=============================================================================
