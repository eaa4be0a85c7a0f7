--------------------------- MODULE MCTaskManager ---------------------------
(* Instances of TaskManager for TLC. *)
EXTENDS TaskManager, TLC

Symmetry == Permutations(Chats) \cup Permutations(Refs)
=============================================================================
