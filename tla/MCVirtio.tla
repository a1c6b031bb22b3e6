------------------------------ MODULE MCVirtio ------------------------------
(* The eight descriptors of virtio.h, which are too few for three          *)
(* transfers, and ring indices that soon wrap around.                      *)
EXTENDS Virtio
=============================================================================
