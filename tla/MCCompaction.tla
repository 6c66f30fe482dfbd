---------------------------- MODULE MCCompaction ----------------------------
(* Instances of Compaction for TLC. *)
EXTENDS Compaction

OwnApps == [c \in Client |-> c]
NoParents == [c \in Client |-> NoClient]
=============================================================================
