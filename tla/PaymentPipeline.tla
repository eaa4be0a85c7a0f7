-------------------------- MODULE PaymentPipeline --------------------------
(***************************************************************************)
(* The process of cmd/mtg-bot/main.go: the pollers (TaskManager), the      *)
(* webhook handlers (PaystackWebhook) and the worker (ProviderWorker) over *)
(* one Redis, with Paystack and the exchange around them.  Every step is a *)
(* step of one component that leaves the memory of the others alone, but   *)
(* for two: the poller's transfer request, which is also Paystack's, and   *)
(* a crash, which is everybody's.                                          *)
(*                                                                         *)
(* The module is the detailed specification of TaskManager: what the       *)
(* poller there assumes of its environment, the others here must do.       *)
(***************************************************************************)
EXTENDS ProviderMarkQueue

CONSTANTS Handlers, MaxTries, MaxJobs, KeysExpire, Faults, NoOrder, NoEvent

ASSUME NoOrderAssumption == NoOrder \notin Orders
ASSUME PipelineAssumption ==
  /\ MaxTries \in Nat \ {0} /\ MaxJobs \in Nat \ {0}
  /\ KeysExpire \in BOOLEAN /\ Faults \subseteq {"redis", "crash"}

VARIABLES
  expired, session, processing, pc, phase, todo, seen, list, order, rec, draft, after,
  transfer, tries, events, processed, hpc, event, hcopy, reply,
  wpc, job, copy, asked, exchange

T == INSTANCE TaskManager WITH EventStatus <- IntentStatus, Faults <- "redis" \in Faults
H == INSTANCE PaystackWebhook
W == INSTANCE ProviderWorker WITH OthersStatus <- IntentStatus
P == INSTANCE PaystackTransfers

pollers  == <<expired, session, processing, pc, phase, todo, seen, list, order, rec,
              draft, after>>
paystack == <<transfer, tries, events>>
handlers == <<processed, hpc, event, hcopy, reply>>
worker   == <<wpc, job, copy, asked, exchange>>
vars     == <<stores, queue, pollers, paystack, handlers, worker>>

Init == T!Init /\ H!Init /\ W!Init

-----------------------------------------------------------------------------

PollerStep(c) ==
  /\ T!PollerLocal(c) \/ T!SessionStep(c)
  /\ UNCHANGED <<queue, paystack, handlers, worker>>

\* InitiateTransfer, in the one step in which the whole call touches Paystack's
\* view of the reference: AutoTransfer!ImplementsService.
RequestTransfer(c, outcome) ==
  /\ T!AutoTransfer(c, outcome)
  /\ P!Requested(draft[c].ref, outcome)
  /\ UNCHANGED <<events, queue, handlers, worker>>

HandlerStep(h) ==
  /\ H!HandlerStep(h)
  /\ UNCHANGED <<pollers, worker>>

ReceiveEvent ==
  /\ \E h \in Handlers, e \in events : H!Receive(h, e)
  /\ UNCHANGED <<pollers, worker>>

SettleTransfer ==
  /\ \E r \in Refs : H!TransferSettles(r) \/ H!EarlyEvent(r) \/ H!TransferReversed(r)
  /\ UNCHANGED <<pollers, worker>>

WorkerStep ==
  /\ W!WorkerStep \/ \E r \in Refs : W!PromoteDue(r)
  /\ UNCHANGED <<pollers, paystack, handlers>>

Time ==
  /\ \/ T!Time /\ UNCHANGED handlers
     \/ /\ \E e \in processed : H!KeyExpires(e)
        /\ UNCHANGED <<stores, pollers>>
  /\ UNCHANGED <<queue, paystack, worker>>

Crash == T!Crash /\ H!Crash /\ W!Crash

Next ==
  \/ \E c \in Chats : PollerStep(c) \/ \E t \in T!TransferOutcome : RequestTransfer(c, t)
  \/ \E h \in Handlers : HandlerStep(h)
  \/ ReceiveEvent \/ SettleTransfer \/ WorkerStep \/ Time \/ Crash

Spec == Init /\ [][Next]_vars

-----------------------------------------------------------------------------
(* Properties *)

\* The webhook handlers and the worker do nothing to the stores that TaskManager
\* does not allow its environment to do, so all that is proved there of the
\* pollers holds of the whole process.
ImplementsTaskManager == T!Spec

\* The references of an order's intents, and where Paystack's transfers stand.
PaymentOf(o) ==
  {[ref |-> r, state |-> transfer[r]] :
     r \in {q \in Refs : intents[q] # NoIntent /\ intents[q].order = o}}

Life == INSTANCE OrderLifecycle WITH
  payment <- [o \in Orders |-> PaymentOf(o)],
  marked  <- exchange,
  told    <- {o \in Orders : StateIs(o, "PAID")}

\* Every order takes the one way from its reference to PAID, however the steps of
\* pollers, handlers, worker and crashes are interleaved: no second reference, no
\* transfer while one is under way or after it has moved the money, no word to the
\* exchange before that, and none to the workflow before the exchange is asked.
ImplementsLifecycle == Life!Spec

\* The exchange is asked to mark an order paid, and its workflow says so, only
\* when Paystack has moved the money of that order's own intent: over the
\* poller's request, the event, the verification, the job and the worker, with
\* copies of the intent in three places.
PaidIsPaidFor ==
  \A o \in Orders :
    o \in asked \/ StateIs(o, "PAID")
      => \E r \in Refs : intents[r] # NoIntent /\ intents[r].order = o /\ H!Moved(r)

\* What Paystack moves was asked for: the transfers under way or done are those of
\* stored intents of orders that were handed off, one for each order.
OneTransferPerOrder ==
  \A o \in Orders :
    Cardinality({r \in Refs : /\ transfer[r] \in {"pending", "success", "reversed"}
                              /\ intents[r] = NoIntent \/ intents[r].order = o}) <= 1

\* What the comment at runtime.go:641-642 says: the statuses that the webhook and
\* the worker own are not changed by a poller.
PollersLeaveSettled ==
  [][\A r \in Refs :
       (/\ intents[r] # NoIntent /\ intents[r].status \in H!Settled
        /\ \E c \in Chats : T!SaveIntent(c))
       => intents'[r].status \in H!Settled]_vars
=============================================================================
