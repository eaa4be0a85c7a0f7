--------------------------- MODULE OrderLifecycle ---------------------------
(***************************************************************************)
(* What the process promises of every order, whoever does it: one payment  *)
(* reference, created once and kept; a transfer asked for only while none  *)
(* is under way or done; the exchange asked to mark the order paid only    *)
(* when the money has moved; and the workflow told only when the exchange  *)
(* has been asked.  PaymentPipeline implements it: pollers, webhook        *)
(* handlers and worker, each with copies of its own, crashes in between.   *)
(***************************************************************************)
CONSTANTS Orders, Refs

VARIABLES
  payment,  \* the references of an order and where their transfers stand
  asked,    \* orders the exchange was asked to mark paid
  marked,   \* orders it has marked
  told      \* orders whose workflow says PAID

vars == <<payment, asked, marked, told>>

Init ==
  /\ payment = [o \in Orders |-> {}]
  /\ asked = {} /\ marked = {} /\ told = {}

Stands(o, r, state) == payment[o] = {[ref |-> r, state |-> state]}

Becomes(o, r, state) ==
  /\ payment' = [payment EXCEPT ![o] = {[ref |-> r, state |-> state]}]
  /\ UNCHANGED <<asked, marked, told>>

\* A poller creates the order's intent, under a reference that no other order has.
Create(o, r) ==
  /\ payment[o] = {}
  /\ \A p \in Orders : \A i \in payment[p] : i.ref # r
  /\ Becomes(o, r, "none")

\* Paystack takes up a transfer, the first or the next after one that failed.
Request(o, r) ==
  /\ Stands(o, r, "none") \/ Stands(o, r, "failed")
  /\ Becomes(o, r, "pending")

Settle(o, r) ==
  /\ Stands(o, r, "pending")
  /\ Becomes(o, r, "success") \/ Becomes(o, r, "failed")

Reverse(o, r) == Stands(o, r, "success") /\ Becomes(o, r, "reversed")

\* The worker asks the exchange, again if it must, and is heard or not.
Ask(o, r) ==
  /\ Stands(o, r, "success") \/ Stands(o, r, "reversed")
  /\ asked' = asked \cup {o}
  /\ marked' \in {marked, marked \cup {o}}
  /\ UNCHANGED <<payment, told>>

Tell(o) ==
  /\ o \in asked
  /\ told' = told \cup {o}
  /\ UNCHANGED <<payment, asked, marked>>

\* Records are written over by what is stale in a poller's hands, and end.
Forget ==
  /\ told' \subseteq told
  /\ UNCHANGED <<payment, asked, marked>>

Next ==
  \/ \E o \in Orders, r \in Refs :
       Create(o, r) \/ Request(o, r) \/ Settle(o, r) \/ Reverse(o, r) \/ Ask(o, r)
  \/ \E o \in Orders : Tell(o)
  \/ Forget

Spec == Init /\ [][Next]_vars
=============================================================================
