-------------------------- MODULE MCDetailRetries --------------------------
(* Instances of DetailRetries for TLC. *)
EXTENDS DetailRetries, TLC
=============================================================================
