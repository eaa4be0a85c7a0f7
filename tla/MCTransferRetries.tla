------------------------- MODULE MCTransferRetries -------------------------
(* Instances of TransferRetries for TLC. *)
EXTENDS TransferRetries, TLC
=============================================================================
