------------------------------ MODULE MCInodes ------------------------------
(* Inodes for two processes, with directories and files named a and b.     *)
EXTENDS Inodes

Call(op, path) == [op |-> op, path |-> path, new |-> <<>>]

SmallCalls ==
    {Call("create", <<"a">>), Call("openw", <<"/", "a">>), Call("mkdir", <<"a">>),
     Call("mknod", <<"a">>), Call("chdir", <<"/", "a">>), Call("unlink", <<"a">>),
     Call("unlink", <<"/">>), Call("unlink", <<"/", "a">>),
     [op |-> "link", path |-> <<"/", "a", "a">>, new |-> <<"/", "a", "b">>]}

Symmetry == Permutations(Procs)
=============================================================================
