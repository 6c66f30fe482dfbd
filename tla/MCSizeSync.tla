----------------------------- MODULE MCSizeSync -----------------------------
(* Instances of SizeSync for TLC. *)
EXTENDS SizeSync
=============================================================================
