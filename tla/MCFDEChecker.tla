---------------------------- MODULE MCFDEChecker ----------------------------
(***************************************************************************)
(* FDEChecker on families of small functions.                              *)
(***************************************************************************)
EXTENDS FDEChecker, MCFunctions
=============================================================================
