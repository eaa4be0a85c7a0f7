-------------------------- MODULE TransferRetries --------------------------
(***************************************************************************)
(* The transfer of one order with its clock: what TaskManager says of      *)
(* initiatePayment and reconcilePaymentPendingExternal, with NextRetryAt   *)
(* and RetryCount as numbers.  One poller at a time has the order's lock,  *)
(* so there is one; a request takes time, up to five HTTP calls.  A        *)
(* transfer that Paystack takes up may fail later, and the webhook handler *)
(* then saves TRANSFER_FAILED over the intent it has read.  A success ends *)
(* what the module follows.  The amount is dropped once it is turned into  *)
(* kobo: an intent keeps it as it is.                                      *)
(***************************************************************************)
EXTENDS RetryPolicy, KoboAmount

CONSTANTS
  ExpiresAt,  \* of the order; then it is not retried any more
  MaxCall,    \* the longest time a request takes
  MaxLost,    \* bound on the failed writes
  Outcomes    \* what Paystack may answer

ASSUME BoundsAssumption == ExpiresAt \in Nat /\ MaxCall \in Nat /\ MaxLost \in Nat
ASSUME OutcomesAssumption == Outcomes \subseteq {"accepted", "balance", "transient", "terminal"}

VARIABLES
  amount,      \* record.OrderAmount in units of 1/Scale naira; 0 once it is in the intent
  now,
  intent,      \* the stored intent: [status, retry, due]; due is NextRetryAt, 0: not set
  pc,          \* the poller: at a new order, idle, with a request out, or about to save
  draft,       \* its copy of the intent
  begun,       \* the time its poll read the clock
  transfer,    \* Paystack has the transfer under way
  event,       \* the event of an attempt that failed is on its way
  handler,     \* the webhook handler of a failure: its copy of the intent, if it runs
  requests,    \* history: transfer requests since the last one that was taken up
  transients,  \* history: those of them that met a transient error
  failedAt,    \* history: when the last of them was refused
  lost         \* history: failed writes, and what was written over

history == <<requests, transients, failedAt>>
vars    == <<amount, now, intent, pc, draft, begun, transfer, event, handler, history, lost>>

Intent == [status : {"INITIATED", "TRANSFER_PENDING", "TRANSFER_FAILED", "INSUFFICIENT_FUNDS"},
           retry : Nat, due : Nat]

New  == [status |-> "INITIATED", retry |-> 0, due |-> 0]
None == [New EXCEPT !.status = "none"]

Init ==
  /\ amount \in 1..MaxAmount
  /\ now = 0 /\ begun = 0
  /\ intent = New /\ draft = New
  /\ pc = "initiate"
  /\ transfer = FALSE /\ event = FALSE
  /\ handler = None
  /\ requests = 0 /\ transients = 0 /\ failedAt = 0 /\ lost = 0

IsExpired == now >= ExpiresAt

-----------------------------------------------------------------------------
(* The poller *)

\* initiatePayment creates the intent and asks at once; AutoTransferToOrder refuses an
\* amount below a kobo like any other terminal error.
InitiatePayment ==
  /\ pc = "initiate"
  /\ pc' = "request" /\ requests' = 1
  /\ amount' = 0
  /\ UNCHANGED <<now, intent, draft, begun, transfer, event, handler, transients, failedAt, lost>>

\* Mutant: the count is not looked at.
IsEligibleUncounted(i) ==
  /\ i.status \in {"INSUFFICIENT_FUNDS", "TRANSFER_FAILED"}
  /\ now >= i.due

\* isEligibleForReconciliation, with IsExhausted
IsEligible(i) ==
  /\ i.status \in {"INSUFFICIENT_FUNDS", "TRANSFER_FAILED"}
  /\ now >= i.due
  /\ i.status = "TRANSFER_FAILED" => ~(MaxAttempts > 0 /\ i.retry >= MaxAttempts)

\* A poll; time passes between two of them.
Reconcile ==
  /\ pc = "idle" /\ now > begun /\ ~IsExpired /\ IsEligible(intent)
  /\ pc' = "request" /\ draft' = intent /\ begun' = now
  /\ requests' = requests + 1
  /\ UNCHANGED <<amount, now, intent, transfer, event, handler, transients, failedAt, lost>>

\* A retry is scheduled from the time the poll read before it sent the request; the
\* first request of an order is followed by another look at the clock.
ScheduledFrom == IF draft.status = "INITIATED" THEN now ELSE begun

\* Mutant: the delay is forgotten.
ScheduleIntentRetryNow(i, delay) ==
  [i EXCEPT !.retry = @ + 1, !.due = ScheduledFrom]

\* scheduleIntentRetry
ScheduleIntentRetry(i, delay) ==
  [i EXCEPT !.retry = @ + 1, !.due = ScheduledFrom + delay]

Answered(i) ==
  /\ pc = "request"
  /\ pc' = "save" /\ draft' = i
  /\ UNCHANGED <<amount, now, intent, begun, event, handler, requests, lost>>

TransferAccepted ==
  /\ "accepted" \in Outcomes
  /\ Answered([status |-> "TRANSFER_PENDING", retry |-> 0, due |-> 0])
  /\ transfer' = TRUE
  /\ UNCHANGED <<transients, failedAt>>

\* A lack of balance or a transient error; the transfer may have been taken up all
\* the same when the reply is lost.
TransferRefused ==
  /\ \E delay \in NextDelay(draft.retry + 1) :
       LET retried == ScheduleIntentRetry(draft, delay)
       IN \/ /\ "balance" \in Outcomes
             /\ Answered([retried EXCEPT !.status = "INSUFFICIENT_FUNDS"])
             /\ UNCHANGED <<transfer, transients>>
          \/ /\ "transient" \in Outcomes
             /\ Answered([retried EXCEPT !.status = "TRANSFER_FAILED"])
             /\ transients' = transients + 1
             /\ transfer' \in {transfer, TRUE}
  /\ failedAt' = now

\* Mutant: a status that nobody knows.
TransferTerminalFailed ==
  /\ "terminal" \in Outcomes
  /\ Answered([draft EXCEPT !.status = "FAILED", !.due = 0])
  /\ transfer' \in {transfer, TRUE}
  /\ failedAt' = now
  /\ UNCHANGED transients

\* stopIntentRetry.  A reply that cannot be decoded counts as a terminal error too,
\* and the transfer may have been taken up.
TransferTerminal ==
  /\ "terminal" \in Outcomes
  /\ Answered([draft EXCEPT !.status = "TRANSFER_FAILED", !.due = 0])
  /\ transfer' \in {transfer, TRUE}
  /\ failedAt' = now
  /\ UNCHANGED transients

\* What is lost of the stored count when copy i is written over it.
Behind(i) == IF i.retry < intent.retry THEN intent.retry - i.retry ELSE 0

\* _ = paymentStore.Save
SaveIntent ==
  /\ pc = "save"
  /\ pc' = "idle" /\ draft' = New
  /\ intent' = draft
  /\ IF draft.status = "TRANSFER_PENDING"
       THEN requests' = 0 /\ transients' = 0 /\ UNCHANGED lost
       ELSE /\ lost + Behind(draft) <= MaxLost
            /\ lost' = lost + Behind(draft)
            /\ UNCHANGED <<requests, transients>>
  /\ UNCHANGED <<amount, now, begun, transfer, event, handler, failedAt>>

\* The save fails, or the process dies before it: the outcome is not stored.
SaveLost ==
  /\ pc \in {"request", "save"} /\ lost < MaxLost
  /\ pc' = "idle" /\ draft' = New
  /\ lost' = lost + 1
  /\ UNCHANGED <<amount, now, intent, begun, transfer, event, handler, history>>

-----------------------------------------------------------------------------
(* Paystack and the webhook handler *)

TransferFails ==
  /\ transfer
  /\ transfer' = FALSE /\ event' = TRUE
  /\ UNCHANGED <<amount, now, intent, pc, draft, begun, handler, history, lost>>

\* handleTransferFailed reads the intent ...
LoadFailure ==
  /\ event /\ handler = None
  /\ event' = FALSE
  /\ handler' = intent
  /\ UNCHANGED <<amount, now, intent, pc, draft, begun, transfer, history, lost>>

\* ... and saves it as failed, with the count and the retry time it has read.
SaveFailure ==
  /\ handler # None
  /\ intent' = [handler EXCEPT !.status = "TRANSFER_FAILED"]
  /\ lost' = IF handler = intent THEN lost ELSE lost + 1 + Behind(handler)
  /\ lost' <= MaxLost
  /\ handler' = None
  /\ UNCHANGED <<amount, now, pc, draft, begun, transfer, event, history>>

\* The save fails, or the process dies: the event is not delivered again.
FailureLost ==
  /\ handler # None
  /\ handler' = None
  /\ UNCHANGED <<amount, now, intent, pc, draft, begun, transfer, event, history, lost>>

Tick ==
  /\ ~IsExpired
  /\ pc = "request" => now - begun < MaxCall
  /\ pc \notin {"initiate", "save"}
  /\ now' = now + 1
  /\ UNCHANGED <<amount, intent, pc, draft, begun, transfer, event, handler, history, lost>>

-----------------------------------------------------------------------------

Poller == InitiatePayment \/ Reconcile \/ TransferAccepted \/ TransferRefused \/ TransferTerminal
          \/ SaveIntent \/ SaveLost

Next == Poller \/ TransferFails \/ LoadFailure \/ SaveFailure \/ FailureLost \/ Tick

Spec == Init /\ [][Next]_vars

-----------------------------------------------------------------------------
(* Properties *)

TypeOK ==
  /\ now \in 0..ExpiresAt /\ begun \in 0..now /\ failedAt \in 0..now
  /\ intent \in Intent /\ draft \in Intent /\ handler \in Intent \cup {None}
  /\ amount \in 0..MaxAmount /\ pc \in {"initiate", "idle", "request", "save"}
  /\ transfer \in BOOLEAN /\ event \in BOOLEAN
  /\ requests \in Nat /\ transients \in Nat /\ lost \in 0..MaxLost

\* A transfer that keeps meeting transient errors is given up after MaxAttempts of
\* them, over restarts and with lacks of balance and terminal errors in between:
\* the count is kept in the intent, so only what is lost of it allows one more.
TransientsBounded == transients <= MaxAttempts + lost

\* Between the starts of two requests lies at least the shortest backoff, unless
\* the first was not counted (a terminal error, an event of the webhook) or its
\* retry time was lost.
RequestsAreSpaced ==
  [][Reconcile =>
       \/ intent.due = 0 \/ lost > 0
       \/ 100 * (now - begun) >= (100 - JitterPercent) * BaseBackoff]_vars

Whole == (100 * amount) \div Scale

\* The transfer of initiatePayment is of the order's amount cut to whole kobo, or of
\* one kobo less when the float product falls short of it; never of more, and never
\* of less for an amount of whole naira.
NeverMoreThanAmount ==
  pc = "initiate" =>
    /\ AmountKobo(amount) \in {Whole - 1, Whole}
    /\ amount % Scale = 0 => AmountKobo(amount) = Whole

\* /payments shows the user the amount that initiatePayment asked for, to the kobo.
ShownIsPaid ==
  pc = "initiate" =>
    LET kobo == AmountKobo(amount) IN kobo > 0 => Shown(kobo) = kobo

\* What README.md:132-133 says of a payment: it is retried up to MaxAttempts times.
RetriedUpToMaxAttempts == requests <= MaxAttempts + 1

\* What the comments of scheduleIntentRetry (runtime.go:516) and of NextDelay
\* (retry.go:26-27) say: a retry comes a backoff, give or take the jitter, after
\* the failure that scheduled it.
BackoffFollowsFailure ==
  [][(Reconcile /\ intent.due # 0)
       => \E delay \in NextDelay(intent.retry) : now >= failedAt + delay]_vars
=============================================================================
