------------------------- MODULE PaystackTransfers -------------------------
(***************************************************************************)
(* Paystack's transfers as internal/service/payment.go meets them: a       *)
(* reference is tried, and tried again only after its attempt failed; a    *)
(* request for a reference that is under way or done moves no more money.  *)
(***************************************************************************)
EXTENDS Naturals

CONSTANTS Refs,       \* payment references
          MaxTries    \* bound on Paystack's attempts for one reference

VARIABLES
  transfer,   \* Paystack's view of a reference
  tries       \* how often the reference has been tried

\* What AutoTransferToOrder comes back with: a transfer, the wrapped
\* ErrInsufficientBalance, or an error that ClassifyTransferError tells apart.
TransferOutcome == {"accepted", "balance", "transient", "terminal"}

CanTakeUp(r) == transfer[r] \in {"none", "failed"}

TakesUp(r) ==
  /\ CanTakeUp(r) /\ tries[r] < MaxTries
  /\ transfer' = [transfer EXCEPT ![r] = "pending"]
  /\ tries' = [tries EXCEPT ![r] = @ + 1]

\* A request for r and its outcome: a reference that is under way is answered with
\* the transfer there is, or refused; an error other than a lack of balance may
\* hide a request that was taken up.
Requested(r, outcome) ==
  \/ outcome # "balance" /\ TakesUp(r)
  \/ /\ outcome = "accepted" => ~CanTakeUp(r)
     /\ UNCHANGED <<transfer, tries>>

Settles(r) ==
  /\ transfer[r] = "pending"
  /\ \E s \in {"success", "failed"} : transfer' = [transfer EXCEPT ![r] = s]
  /\ UNCHANGED tries
=============================================================================
