-------------------------- MODULE MCProviderWorker --------------------------
(* Instances of ProviderWorker for TLC. *)
EXTENDS ProviderWorker
=============================================================================
