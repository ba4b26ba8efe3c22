--------------------------- MODULE MCVirtioQueue ---------------------------
(* Instances of VirtioQueue for TLC. *)
EXTENDS VirtioQueue
=============================================================================
