------------------------------- MODULE MCPipe -------------------------------
(* A pipe of two bytes with counters of two bits, so that they wrap around. *)
EXTENDS Pipe
=============================================================================
