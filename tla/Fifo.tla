-------------------------------- MODULE Fifo --------------------------------
(***************************************************************************)
(* What kernel/pipe.c promises: a bounded queue of bytes.                  *)
(***************************************************************************)
EXTENDS Naturals, Sequences

CONSTANTS Bytes, Capacity

VARIABLE stream

FInit == stream = <<>>

Put(b) == Len(stream) < Capacity /\ stream' = Append(stream, b)

Get == stream # <<>> /\ stream' = Tail(stream)

FNext == (\E b \in Bytes : Put(b)) \/ Get

FSpec == FInit /\ [][FNext]_stream
=============================================================================
