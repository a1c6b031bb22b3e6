------------------------------- MODULE MCProc -------------------------------
(***************************************************************************)
(* Instances of Proc: init and one or two more processes on two CPUs.  The *)
(* CPUs are not interchangeable, because clockintr() runs on BootCpu only, *)
(* and neither are the slots, because wakeup() and wait() scan the table   *)
(* in order, so no symmetry is declared.                                   *)
(***************************************************************************)
EXTENDS Proc
=============================================================================
