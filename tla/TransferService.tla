--------------------------- MODULE TransferService ---------------------------
(***************************************************************************)
(* What the pollers rely on of AutoTransferToOrder: a call for a reference *)
(* touches that reference once, when it answers, and an answer that says   *)
(* "accepted" or "not enough balance" can be believed.  PaymentPipeline    *)
(* builds on this specification, AutoTransfer implements it.               *)
(***************************************************************************)
EXTENDS PaystackTransfers

VARIABLES
  calls,      \* references a call is under way for
  answer      \* the outcome of the last call for a reference

vars == <<transfer, tries, calls, answer>>

Init ==
  /\ transfer = [r \in Refs |-> "none"] /\ tries = [r \in Refs |-> 0]
  /\ calls = {} /\ answer = [r \in Refs |-> "none"]

Call(r) ==
  /\ r \notin calls
  /\ calls' = calls \cup {r}
  /\ answer' = [answer EXCEPT ![r] = "none"]
  /\ UNCHANGED <<transfer, tries>>

Answer(r) ==
  /\ r \in calls
  /\ \E outcome \in TransferOutcome :
       Requested(r, outcome) /\ answer' = [answer EXCEPT ![r] = outcome]
  /\ calls' = calls \ {r}

Settle(r) == Settles(r) /\ UNCHANGED <<calls, answer>>

\* The process dies with the calls it is in.
Die == calls' = {} /\ UNCHANGED <<transfer, tries, answer>>

Next == (\E r \in Refs : Call(r) \/ Answer(r) \/ Settle(r)) \/ Die

Spec == Init /\ [][Next]_vars
=============================================================================
