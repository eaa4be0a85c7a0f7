--------------------------- MODULE MCAutoTransfer ---------------------------
(* Instances of AutoTransfer for TLC. *)
EXTENDS AutoTransfer, TLC

CONSTANTS r1, r2, a1, a2

\* Two orders, paid to an account each.
Apart == r1 :> a1 @@ r2 :> a2
=============================================================================
