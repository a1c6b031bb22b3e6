------------------------------ MODULE MCBcache ------------------------------
(* Fewer buffers than blocks, so that buffers are recycled.                *)
EXTENDS Bcache
=============================================================================
