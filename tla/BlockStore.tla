----------------------------- MODULE BlockStore -----------------------------
(***************************************************************************)
(* What kernel/bio.c promises: bread() gives a process the block to itself *)
(* until brelse(), with the contents that the last owner left.             *)
(***************************************************************************)
CONSTANTS Procs, Blocks, Values, None

VARIABLES contents, owner

svars == <<contents, owner>>

SInit == contents \in [Blocks -> Values] /\ owner = [k \in Blocks |-> None]

Take(p, k) ==
    /\ owner[k] = None
    /\ owner' = [owner EXCEPT ![k] = p]
    /\ UNCHANGED contents

Update(p, k, v) ==
    /\ owner[k] = p
    /\ contents' = [contents EXCEPT ![k] = v]
    /\ UNCHANGED owner

Give(p, k) ==
    /\ owner[k] = p
    /\ owner' = [owner EXCEPT ![k] = None]
    /\ UNCHANGED contents

SNext == \E p \in Procs, k \in Blocks :
    Take(p, k) \/ Give(p, k) \/ \E v \in Values : Update(p, k, v)

SSpec == SInit /\ [][SNext]_svars
=============================================================================
