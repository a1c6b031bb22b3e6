------------------------------ MODULE MCConsole ------------------------------
(***************************************************************************)
(* Two processes, an input buffer of two characters whose indices wrap at  *)
(* four, and an output buffer of one byte.                                 *)
(***************************************************************************)
EXTENDS Console

CONSTANTS p1, p2
=============================================================================
