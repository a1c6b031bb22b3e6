------------------------------ MODULE MCMemory ------------------------------
(* Memory for a few small processes, which soon run out of it.               *)
EXTENDS Memory

SmallIncrements == {3, -3}

\* Two segments with a gap between them, and an empty one alone.
SmallPrograms ==
    {<<[vaddr |-> 0, memsz |-> 1, filesz |-> 1], [vaddr |-> 4, memsz |-> 3, filesz |-> 1]>>,
     <<[vaddr |-> 0, memsz |-> 0, filesz |-> 0]>>}
=============================================================================
