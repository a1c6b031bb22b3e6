----------------------------- MODULE MCRunQueue -----------------------------
(***************************************************************************)
(* Two workloads.  With distinct runtimes that never change, every order   *)
(* of insertions and retrievals of NPROC processes is explored, and so     *)
(* every tree shape they lead to; with few processes and runtimes, the     *)
(* ties, the charges, the reuse of slots and chprio() are.                 *)
(***************************************************************************)
EXTENDS RunQueue

Shapes == [runtime |-> [p \in Procs |-> p], charges |-> {0}, recycled |-> {}, nices |-> {},
           max |-> NPROC]
Ties == [runtime |-> [p \in 1..4 |-> 0], charges |-> {0, 1}, recycled |-> {1}, nices |-> {1},
         max |-> 1]

ShapesAndTies == {Shapes, Ties}
OnlyTies == {Ties}
=============================================================================
