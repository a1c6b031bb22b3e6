------------------------------- MODULE MCLog --------------------------------
(* Small instances of the log.  The processes other than the first one are
   interchangeable.                                                        *)
EXTENDS Log, TLC

CONSTANTS p1, p2, p3

Symmetry == Permutations(Procs \ {InitProc})
=============================================================================
