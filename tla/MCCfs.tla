------------------------------- MODULE MCCfs -------------------------------
(***************************************************************************)
(* Three processes with different nice values on two CPUs.                 *)
(***************************************************************************)
EXTENDS Cfs

MixedNice == [p \in Tasks |-> CASE p = 1 -> 0 [] p = 2 -> 5 [] OTHER -> 20]
=============================================================================
