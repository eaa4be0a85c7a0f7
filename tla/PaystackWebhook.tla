-------------------------- MODULE PaystackWebhook --------------------------
(***************************************************************************)
(* The webhook handler of internal/webhook/paystack.go.  Paystack delivers *)
(* every event at least once, in any order, and every delivery runs in a   *)
(* goroutine of its own: a step is one Redis command or the call that      *)
(* verifies the transfer.  An event that validateAndParsWebhookRequest     *)
(* turns away touches nothing and is left out.                             *)
(*                                                                         *)
(* The pollers and the worker are the environment of this module (Others). *)
(* Paystack itself is modelled from how the code uses it: a reference      *)
(* whose transfer failed may be tried again, one that succeeded may not.   *)
(***************************************************************************)
EXTENDS ProviderMarkQueue

CONSTANTS Handlers,    \* deliveries that can be handled at the same time
          MaxTries,    \* bound on Paystack's attempts for one reference
          MaxJobs,     \* bound on the jobs waiting in the stream
          KeysExpire,  \* may the key of an event expire (after 48 hours)?
          Faults,      \* "redis": a call may fail; "crash": the process may die
          NoEvent

Kinds == {"transfer.success", "transfer.failed", "transfer.reversed"}

\* An event and its identity: webhookEventID is the kind with Paystack's number.
Event == [kind : Kinds, ref : Refs, try : 1..MaxTries]

ASSUME BoundsAssumption == MaxTries \in Nat \ {0} /\ MaxJobs \in Nat \ {0}
ASSUME KeysExpireAssumption == KeysExpire \in BOOLEAN
ASSUME FaultsAssumption == Faults \subseteq {"redis", "crash"}
ASSUME NoEventAssumption == NoEvent \notin Event

VARIABLES
  transfer,   \* Paystack's view of a reference
  tries,      \* how often the reference has been tried
  events,     \* the events Paystack delivers, each any number of times
  processed,  \* mtg:payment:webhook:event:<id>: events whose key is set
  hpc,        \* where a handler stands
  event,      \* the event it handles
  hcopy,      \* its copy of the intent
  reply       \* the status of its last answer

P == INSTANCE PaystackTransfers

paystack == <<transfer, tries, events>>
handlers == <<processed, hpc, event, hcopy, reply>>
vars     == <<stores, queue, paystack, handlers>>

Init ==
  /\ InitStores /\ InitQueue
  /\ transfer = [r \in Refs |-> "none"]
  /\ tries = [r \in Refs |-> 0]
  /\ events = {} /\ processed = {}
  /\ hpc = [h \in Handlers |-> "idle"]
  /\ event = [h \in Handlers |-> NoEvent]
  /\ hcopy = [h \in Handlers |-> NoIntent]
  /\ reply = [h \in Handlers |-> "none"]

RedisFails == "redis" \in Faults

Goto(h, l) == hpc' = [hpc EXCEPT ![h] = l]

\* The handler answers and its goroutine ends.
Answer(h, status) ==
  /\ Goto(h, "idle")
  /\ event' = [event EXCEPT ![h] = NoEvent]
  /\ hcopy' = [hcopy EXCEPT ![h] = NoIntent]
  /\ reply' = [reply EXCEPT ![h] = status]

\* PaymentIntentStore.Save of the handler's copy returns no error, or one.
SaveSucceeds(h) == SaveIntentKeys(hcopy[h])
SaveFails(h) ==
  /\ RedisFails
  /\ \/ UNCHANGED <<intents, orderIndex>>
     \/ PutIntent(hcopy[h]) /\ UNCHANGED orderIndex
     \/ SaveIntentKeys(hcopy[h])

-----------------------------------------------------------------------------
(* The handler *)

Receive(h, e) ==
  /\ hpc[h] = "idle" /\ e \in events
  /\ Goto(h, "mark")
  /\ event' = [event EXCEPT ![h] = e]
  /\ reply' = [reply EXCEPT ![h] = "none"]
  /\ UNCHANGED <<stores, queue, paystack, processed, hcopy>>

\* Mutant: SET without NX.
MarkWebhookAlways(h) ==
  /\ hpc[h] = "mark"
  /\ processed' = processed \cup {event[h]}
  /\ Goto(h, "load")
  /\ UNCHANGED <<event, hcopy, reply, stores, queue, paystack>>

\* MarkWebhookProcessed: SET NX.  When the key exists Redis answers nil, which the
\* store returns as an error, and the handler answers an error with a 500.
MarkWebhookProcessed(h) ==
  /\ hpc[h] = "mark"
  /\ \/ /\ event[h] \notin processed
        /\ processed' = processed \cup {event[h]}
        /\ Goto(h, "load")
        /\ UNCHANGED <<event, hcopy, reply>>
     \/ /\ event[h] \in processed \/ RedisFails
        /\ UNCHANGED processed \/ (RedisFails /\ processed' = processed \cup {event[h]})
        /\ Answer(h, "500")
  /\ UNCHANGED <<stores, queue, paystack>>

\* GetByReference finds the intent of every transfer, or fails: then the event,
\* already marked as processed, is dropped.
LoadFails(h) ==
  /\ hpc[h] = "load" /\ RedisFails
  /\ Answer(h, "200")
  /\ UNCHANGED <<stores, queue, paystack, processed>>

Settled == {"TRANSFER_SUCCESS", "PROVIDER_MARKED_PAID"}

LoadSuccess(h) ==
  /\ hpc[h] = "load" /\ event[h].kind = "transfer.success"
  /\ hcopy' = [hcopy EXCEPT ![h] = intents[event[h].ref]]
  /\ Goto(h, "verify")
  /\ UNCHANGED <<stores, queue, paystack, processed, event, reply>>

\* Mutant: the event is believed.
NotAskedToVerify(h) ==
  /\ hpc[h] = "verify"
  /\ hcopy' = [hcopy EXCEPT ![h].status = "TRANSFER_SUCCESS"]
  /\ Goto(h, "save_success")
  /\ UNCHANGED <<stores, queue, paystack, processed, event, reply>>

\* VerifyTransfer agrees with the event: the intent's own reference, amount and
\* currency, and a transfer that succeeded.
Verified(h) ==
  /\ hpc[h] = "verify" /\ transfer[event[h].ref] = "success"
  /\ hcopy' = [hcopy EXCEPT ![h].status = "TRANSFER_SUCCESS"]
  /\ Goto(h, "save_success")
  /\ UNCHANGED <<stores, queue, paystack, processed, event, reply>>

\* It does not, or cannot be asked: the copy is saved with only its LastError
\* changed, whether or not the save succeeds.
NotVerified(h) ==
  /\ hpc[h] = "verify"
  /\ Goto(h, "save_last")
  /\ UNCHANGED <<stores, queue, paystack, processed, event, hcopy, reply>>

SaveSuccess(h) ==
  /\ hpc[h] = "save_success"
  /\ \/ SaveSucceeds(h) /\ Goto(h, "enqueue") /\ UNCHANGED <<event, hcopy, reply>>
     \/ SaveFails(h) /\ Answer(h, "200")
  /\ UNCHANGED <<records, queue, paystack, processed>>

EnqueueJob(h) ==
  /\ hpc[h] = "enqueue"
  /\ Len(stream) < MaxJobs
  /\ Enqueue(event[h].ref)
  /\ Answer(h, "200")
  /\ UNCHANGED <<stores, paystack, processed>>

\* Mutant: the count of the earlier attempts goes on.
EnqueueFailsCounting(h) ==
  /\ hpc[h] = "enqueue" /\ RedisFails
  /\ UNCHANGED queue
  /\ hcopy' = [hcopy EXCEPT ![h].status = "PROVIDER_MARK_FAILED", ![h].retry = @ + 1,
                            ![h].scheduled = TRUE]
  /\ Goto(h, "save_last")
  /\ UNCHANGED <<stores, paystack, processed, event, reply>>

EnqueueFails(h) ==
  /\ hpc[h] = "enqueue" /\ RedisFails
  /\ UNCHANGED queue \/ (Len(stream) < MaxJobs /\ Enqueue(event[h].ref))
  /\ hcopy' = [hcopy EXCEPT ![h].status = "PROVIDER_MARK_FAILED", ![h].retry = 1,
                            ![h].scheduled = TRUE]
  /\ Goto(h, "save_last")
  /\ UNCHANGED <<stores, paystack, processed, event, reply>>

\* handleTransferFailed reads the intent; a failure that comes after the transfer
\* has been settled is dropped ...
LoadLateFailure(h) ==
  /\ hpc[h] = "load" /\ event[h].kind = "transfer.failed"
  /\ intents[event[h].ref].status \in Settled
  /\ Answer(h, "200")
  /\ UNCHANGED <<stores, queue, paystack, processed>>

\* ... and any other failure, like a reversal, is saved over the status.
LoadFailure(h) ==
  /\ hpc[h] = "load" /\ event[h].kind # "transfer.success"
  /\ event[h].kind = "transfer.failed" => intents[event[h].ref].status \notin Settled
  /\ hcopy' = [hcopy EXCEPT ![h] = [intents[event[h].ref] EXCEPT !.status = "TRANSFER_FAILED"]]
  /\ Goto(h, "save_last")
  /\ UNCHANGED <<stores, queue, paystack, processed, event, reply>>

\* The handler's last write, whose error changes nothing but the log.
SaveLast(h) ==
  /\ hpc[h] = "save_last"
  /\ SaveSucceeds(h) \/ SaveFails(h)
  /\ Answer(h, "200")
  /\ UNCHANGED <<records, queue, paystack, processed>>

\* The key's TTL of 48 hours ends; no handler takes that long.
KeyExpires(e) ==
  /\ KeysExpire /\ e \in processed
  /\ \A h \in Handlers : event[h] # e
  /\ processed' = processed \ {e}
  /\ UNCHANGED <<stores, queue, paystack, hpc, event, hcopy, reply>>

Crash ==
  /\ "crash" \in Faults
  /\ hpc' = [h \in Handlers |-> "idle"]
  /\ event' = [h \in Handlers |-> NoEvent]
  /\ hcopy' = [h \in Handlers |-> NoIntent]
  /\ reply' = [h \in Handlers |-> "none"]
  /\ UNCHANGED <<stores, queue, paystack, processed>>

-----------------------------------------------------------------------------
(* Paystack *)

Emit(kind, r) == events' = events \cup {[kind |-> kind, ref |-> r, try |-> tries[r]]}

TransferStarts(r) ==
  /\ intents[r] # NoIntent
  /\ P!TakesUp(r)
  /\ UNCHANGED <<stores, queue, events, handlers>>

TransferSettles(r) ==
  /\ transfer[r] = "pending"
  /\ \/ transfer' = [transfer EXCEPT ![r] = "success"] /\ Emit("transfer.success", r)
     \/ transfer' = [transfer EXCEPT ![r] = "failed"] /\ Emit("transfer.failed", r)
  /\ UNCHANGED <<stores, queue, tries, handlers>>

\* A success event that runs ahead of the transfer; the handler's verification is
\* there because an event alone is not believed.
EarlyEvent(r) ==
  /\ transfer[r] = "pending"
  /\ Emit("transfer.success", r)
  /\ UNCHANGED <<stores, queue, transfer, tries, handlers>>

TransferReversed(r) ==
  /\ transfer[r] = "success"
  /\ transfer' = [transfer EXCEPT ![r] = "reversed"]
  /\ Emit("transfer.reversed", r)
  /\ UNCHANGED <<stores, queue, tries, handlers>>

-----------------------------------------------------------------------------
(* The pollers and the worker *)

PollerCreates(r, o) ==
  /\ intents[r] = NoIntent /\ orderIndex[o] = NoRef
  /\ SaveIntentKeys(NewIntent(r, o))
  /\ UNCHANGED <<records, queue, paystack, handlers>>

\* A poller saves what came of a transfer request, from a copy of any age.
PollerSaves(r) ==
  /\ intents[r] # NoIntent
  /\ \E s \in {"TRANSFER_PENDING", "INSUFFICIENT_FUNDS", "TRANSFER_FAILED"} :
       SaveIntentKeys([intents[r] EXCEPT !.status = s])
  /\ UNCHANGED <<records, queue, paystack, handlers>>

\* The worker takes the oldest job and saves what came of it.
WorkerHandles ==
  /\ stream # <<>>
  /\ stream' = Tail(stream)
  /\ LET i == intents[Head(stream)]
     IN \/ UNCHANGED <<intents, orderIndex>>
        \/ /\ i.status \in {"TRANSFER_SUCCESS", "PROVIDER_MARK_FAILED"}
           /\ \E s \in {"PROVIDER_MARKED_PAID", "PROVIDER_MARK_FAILED"} :
                SaveIntentKeys([i EXCEPT !.status = s])
  /\ UNCHANGED <<records, pending, delayed, deadLetters, paystack, handlers>>

-----------------------------------------------------------------------------

HandlerStep(h) ==
  \/ MarkWebhookProcessed(h)
  \/ LoadFails(h) \/ LoadSuccess(h) \/ LoadLateFailure(h) \/ LoadFailure(h)
  \/ Verified(h) \/ NotVerified(h)
  \/ SaveSuccess(h) \/ EnqueueJob(h) \/ EnqueueFails(h) \/ SaveLast(h)

Paystack ==
  \/ \E r \in Refs : TransferStarts(r) \/ TransferSettles(r) \/ EarlyEvent(r)
                     \/ TransferReversed(r)
  \/ \E h \in Handlers, e \in events : Receive(h, e)

Others ==
  \/ \E r \in Refs, o \in Orders : PollerCreates(r, o)
  \/ \E r \in Refs : PollerSaves(r)
  \/ WorkerHandles

Next ==
  \/ \E h \in Handlers : HandlerStep(h)
  \/ Paystack \/ Others \/ Crash
  \/ \E e \in processed : KeyExpires(e)

Spec == Init /\ [][Next]_vars

-----------------------------------------------------------------------------
(* Properties *)

TypeOK ==
  /\ intents \in [Refs -> Intent \cup {NoIntent}]
  /\ orderIndex \in [Orders -> Refs \cup {NoRef}]
  /\ stream \in Seq(Refs)
  /\ transfer \in [Refs -> {"none", "pending", "success", "failed", "reversed"}]
  /\ tries \in [Refs -> 0..MaxTries]
  /\ events \subseteq Event /\ processed \subseteq Event
  /\ hpc \in [Handlers -> {"idle", "mark", "load", "verify", "save_success", "enqueue",
                           "save_last"}]
  /\ event \in [Handlers -> Event \cup {NoEvent}]
  /\ hcopy \in [Handlers -> Intent \cup {NoIntent}]
  /\ reply \in [Handlers -> {"none", "200", "500"}]

Moved(r) == transfer[r] \in {"success", "reversed"}

\* The intent says that its transfer succeeded, and a job asks to mark its order
\* paid, only when Paystack has moved the money: not on the strength of an event
\* alone, of an event of an earlier attempt, or of an old copy saved late.
OnlyMovedIsSettled ==
  \A r \in Refs :
    \/ intents[r] # NoIntent /\ intents[r].status \in Settled \cup {"PROVIDER_MARK_FAILED"}
    \/ Queued(r)
    => Moved(r)

\* An event is never worked on by two handlers at a time, so that concurrent
\* deliveries of one success do not both verify, save and enqueue; SET NX decides
\* it, and only its key's end or an error after it lets another delivery in.
OneHandlerPerEvent ==
  \A g, h \in Handlers :
    (g # h /\ hpc[g] \notin {"idle", "mark"} /\ hpc[h] \notin {"idle", "mark"})
      => event[g] # event[h]

\* What README.md:404 says: a duplicate is acknowledged.
DuplicateAcknowledged == \A h \in Handlers : reply[h] # "500"

\* What the comment of handleTransferFailed says: once an intent is settled, a late
\* transfer.failed is ignored.
LateFailureIgnored ==
  [][\A r \in Refs, h \in Handlers :
       (/\ intents[r] # NoIntent /\ intents[r].status \in Settled
        /\ hpc[h] = "save_last" /\ hpc'[h] = "idle"
        /\ event[h].ref = r /\ event[h].kind = "transfer.failed")
       => intents'[r].status \in Settled]_vars
=============================================================================
