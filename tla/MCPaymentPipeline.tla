------------------------- MODULE MCPaymentPipeline -------------------------
(* Instances of PaymentPipeline for TLC. *)
EXTENDS PaymentPipeline

\* Bounds: polling sessions that never end, and transfers that are not reversed once
\* they have succeeded.
LongSessions ==
  Init /\ [][/\ Next
             /\ \A c \in Chats : session'[c] # "done"
             /\ \A r \in Refs : transfer'[r] # "reversed"]_vars

Symmetry == Permutations(Refs)
=============================================================================
