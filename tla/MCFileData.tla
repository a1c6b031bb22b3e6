----------------------------- MODULE MCFileData -----------------------------
(***************************************************************************)
(* Two processes and two files on a disk that they can fill: mkfs made a   *)
(* file of three bytes, which has an indirect block, and one file is new.  *)
(* A write of three bytes takes two transactions.                          *)
(***************************************************************************)
EXTENDS FileData, TLC

CONSTANTS p1, p2

OneFile == <<3>>
SmallCounts == {-1, 3}
Symmetry == Permutations(Procs)
=============================================================================
