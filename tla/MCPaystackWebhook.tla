------------------------- MODULE MCPaystackWebhook -------------------------
(* Instances of PaystackWebhook for TLC. *)
EXTENDS PaystackWebhook

Symmetry == Permutations(Handlers)
=============================================================================
