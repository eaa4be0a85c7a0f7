# A verification development of mtg-bot

mtg-bot watches the pending buy orders of a Bybit P2P account from Telegram
chats, pays each order by a Paystack bank transfer, and marks it paid on the
exchange. One Go process runs three kinds of goroutines that share nothing but
Redis and a mutex-protected set of order locks. This directory models them in
TLA+, checks small instances with TLC, and proves with TLAPS, for instances of
every size, the safety properties of the components and of the whole process and
the refinements between them.

## The system

| Component | Code | State it keeps | Operations | Hard behaviour |
|---|---|---|---|---|
| Order state machine | `internal/service/workflow.go`, `payment_intent.go` | none (a table) | `ApplyOrderEvent`, `IsExpired` | terminal states, expiry from every other state |
| Workflow store | `internal/cache/workflow_redis.go` | a record per order with a TTL, a set of orders per chat | `CreateIfAbsent`, `Get`, `Save`, `SaveIfState`, `ListByChat` | two-command writes, unconditional `Save` next to a compare-and-set |
| Payment intent store | `internal/cache/payment_intent_redis.go` | an intent per reference, the order's reference, webhook event keys | `Create`, `GetBy…`, `Save`, `MarkWebhookProcessed` | no compare-and-set at all; three writers |
| Pollers | `internal/botruntime/runtime.go`, `retry.go` | tasks per chat, order locks (memory) | `Schedule`, `pollAndProcess` and its handlers, `StopAll` | two chats on one order, listed records used late, crashes between two writes, retries of a request whose answer was lost |
| Mark queue | `internal/cache/provider_mark_queue_redis.go` | stream and consumer group, delayed set, dead-letter stream | `Enqueue`, `Dequeue`, `Requeue`, `DeadLetter`, `Ack` | at-least-once delivery, jobs moved in two commands |
| Mark worker | `internal/providerqueue/worker.go` | none beyond the message in hand | `Run`, `processMessage` | several writes per message, any of which may fail |
| Webhook handler | `internal/webhook/paystack.go` | none beyond the request | one handler per request | duplicates, reordering, concurrent deliveries, a check and a write with a gap between them |
| Retry policy | `internal/botruntime/retry.go`, `runtime.go` | retry count and time, in the records | `NextDelay`, the schedulers of detail fetches and transfers | counts and times saved with a whole copy, a clock read before a slow call |
| Transfer call | `internal/service/payment.go`, `cache/banks_redis.go`, `cache/recipient_code_redis.go` | bank list and recipient codes, with TTLs | `AutoTransferToOrder`, `VerifyTransfer` | a request that times out and moves the money, a code that died, one refresh, two calls on one cache |
| Process | `cmd/mtg-bot`, `bothandlers` (buttons), `runtime.go` (sessions) | task table and contexts (memory) | start, shutdown, duration buttons, `Schedule`, `StopAll` | presses handled at the same time, a session's end against the next one, a shutdown that waits for one kind of goroutine only |
| Exchange client | `internal/service/merchant.go` | none | Bybit calls | error statuses taken for success |
| The rest | other caches, read-only commands, `observability`, `redis`, HTTP helpers | caches with a TTL | | none that the above depends on |

An order's life: a poller finds it (`DETECTED`), fetches its account details
(`DETAIL_FETCHING`, `RETRYING_DETAIL`, `DETAIL_READY`), hands it off
(`PAYMENT_PENDING_EXTERNAL`), creates an intent with a fresh reference and asks
Paystack for the transfer. Paystack's webhook settles the intent
(`TRANSFER_SUCCESS`) and adds a job; the worker asks the exchange to mark the
order paid, saves the intent (`PROVIDER_PAID`; `PROVIDER_MARKED_PAID` in the
store and here) and moves the order to `PAID`. Meanwhile the poller keeps
retrying failed transfers under the same reference and times the order out when
it expires.

What makes each part correct:

- the pollers pay an order once, with its own account details, never undo a
  handoff, give back every lock and bring every order to an end;
- the worker handles one delivery at a time, keeps every job until it is marked,
  dropped for a reason or dead-lettered, and tells the workflow only what the
  exchange was asked;
- the handler believes Paystack's record and not an event, works on an event in
  one goroutine, and lets no old copy invent a settlement;
- the retries of a fetch and of a transfer keep their backoff, as far as a poller's copy
  is current, and end;
- the transfer call pays the order's own account, ends, and never claims more than
  Paystack did;
- the process has one poller for a chat, lets webhook handlers finish before it
  stops what they need, and its shutdown and its sessions end;
- together: an order is marked paid only when the money of its own intent moved,
  and the money moves once.

## Modules

| Module | Models | Extends / instantiates |
|---|---|---|
| `OrderStates` | the transition table, terminal states, intent statuses | |
| `RedisStores` | the workflow and intent keys and the commands on them, `IsExhausted` | `OrderStates` |
| `TaskManager` | the pollers; the webhook and the worker as an environment | `RedisStores` |
| `TaskManager_proofs` | theorems about `TaskManager` | `TaskManager`, TLAPS |
| `ProviderMarkQueue` | the queue's keys and commands | `RedisStores` |
| `ProviderWorker` | the worker; pollers and webhook as an environment | `ProviderMarkQueue` |
| `ProviderWorker_proofs` | theorems about `ProviderWorker` | `ProviderWorker`, TLAPS |
| `PaystackWebhook` | the handlers and Paystack; pollers and worker as an environment | `ProviderMarkQueue` |
| `PaystackWebhook_proofs` | theorems about `PaystackWebhook` | `PaystackWebhook`, TLAPS |
| `PaystackTransfers` | Paystack's view of a reference: taking a request up, answering, settling | |
| `OrderLifecycle` | abstract: an order's reference, where its transfer stands, who was asked and told | |
| `PaymentPipeline` | the actions of all three components over the same stores | instantiates all three, `PaystackTransfers` and `OrderLifecycle` |
| `PaymentPipeline_proofs` | theorems about `PaymentPipeline` | `PaymentPipeline`, TLAPS; instantiates `TaskManager_proofs` |
| `TransferService` | abstract: a transfer call as one step at Paystack and one answer | `PaystackTransfers` |
| `AutoTransfer` | the call in full: bank list, account, recipient codes, one refresh | `PaystackTransfers`; instantiates `TransferService` |
| `AutoTransfer_proofs` | theorems about `AutoTransfer` | `AutoTransfer`, TLAPS |
| `RetryPolicy` | `NextDelay`, the set of delays it may draw | |
| `DetailRetries` | the pollers up to the fetched details, with a clock | `RetryPolicy` |
| `DetailRetries_proofs` | theorems about `DetailRetries` | `DetailRetries`, TLAPS |
| `KoboAmount` | the floating-point way from naira to kobo and back | |
| `TransferRetries` | one order's transfer and its retries, with a clock; the failure handler | `RetryPolicy`, `KoboAmount` |
| `TransferRetries_proofs` | theorems about `TransferRetries` | `TransferRetries`, TLAPS |
| `PollerSessions` | abstract: a chat's session | |
| `BotProcess` | main, server, worker loop, buttons, session goroutines and the task table | instantiates `PollerSessions` |
| `BotProcess_proofs` | theorems about `BotProcess` | `BotProcess`, TLAPS |
| `MC…` | constants, symmetry sets and one bounded specification for TLC | |

State corresponds to keys and local variables one to one; each variable's
comment names the key or the Go variable. A step is one Redis command (or one
`MULTI`, or a command pair where nothing can tell the two apart), or one HTTP
call. `pc`, `wpc` and `hpc` say where a goroutine stands between two such steps;
the names of the actions are those of the Go functions. Three conventions:

- *A failed Redis call* may or may not have been carried out. In `TaskManager` a
  call also fails, without effect, once the session's context is done.
- *Times are abstracted* in the modules of the pipeline: `scheduled` says that a
  retry time is set, whether it has come is a free choice, and an order is expired
  or not. `DetailRetries` and `TransferRetries` take the same handlers with a clock
  and numbers, and leave out what does not touch them.
- *A reference* is a model value and so is a job: a job's other fields are those
  of the intent with that reference.

Operators called mutants in the modules are plausible slips of the code (a
missing comparison, a missing acknowledgement); each is what a property would
catch, and none is part of a specification.

## What is checked

| Run | Instance | Result |
|---|---|---|
| `TaskManagerSafety` | 2 chats, 1 order, 2 references, failing Redis; 1.37 M states | `TypeOK`, `AtMostOneIntent`, `TransferHasDetails`, `HandoffIsNotUndone` hold |
| `TaskManagerLive` | 1 chat, 2 attempts, crashes; 42 k states | `LockIsReleased`, `OrderSettles` hold |
| `TaskManagerTerminalError` | 1 chat, silent webhook | `TerminalErrorHaltsRetries` is violated |
| `ProviderWorker` | 1 reference, 2 jobs, 2 attempts, restarts, stale saves of a poller; 22 k states | `TypeOK`, `OneDelivery`, `PaidWasAsked`, `FailedJobIsKept`, `QueueDrains`, `JobConcludes`, `MarkReachesOrder` hold |
| `ProviderWorkerUnconfirmed` | 1 reference, no faults | `MarkedIsConfirmed` is violated |
| `WebhookSafety` | 2 handlers, 2 attempts, expiring keys, Redis failures, crashes; 460 k states | `TypeOK`, `OnlyMovedIsSettled`, `OneHandlerPerEvent` hold |
| `PipelineSafety` | everything, 1 order, 2 references, crashes; 412 k states | `PaidIsPaidFor`, `OneTransferPerOrder`, `ImplementsTaskManager`, `ImplementsLifecycle` hold |
| `PipelineLostSuccess` | everything, 1 reference, no faults | `PollersLeaveSettled` is violated |
| `DetailRetries` | 2 chats, 3 attempts, 16 units of time, two uncounted requests; 2.09 M states | `TypeOK`, `FetchesBounded`, `BackoffIsExponential`, `EarlyOnlyForOldCopy` hold |
| `TransferRetries` | 30 000 amounts, 2 attempts, 9 units of time, two lost writes; 2.45 M states | `TypeOK`, `TransientsBounded`, `RequestsAreSpaced`, `NeverMoreThanAmount`, `ShownIsPaid` hold |
| `AutoTransfer` | 2 calls, 2 accounts, 3 codes, every fault; 450 k states | `TypeOK`, `PaysOwnAccount`, `ImplementsService`, `CallReturns` hold |
| `BotProcess` | 2 chats, 2 presses, 1 request, 2 sessions, crashes; 171 k states | `TypeOK`, `OnePollerPerChat`, `HandlersFinishFirst`, `ImplementsSessions`, `ShutdownEnds`, `ChatIsFreed` hold |

### Bounds, and why they are enough

- *Two references* are what a second payment of one order needs, and two chats
  what a race between pollers needs, the one about a detail's retry time included
  (`DetailRetries`: only the chat whose index has the order lists it, so one other is
  enough). With one chat a second reference can still
  come from a restart, a stale listing or a recreated record, so the pipeline
  keeps both references and drops the second chat. Orders interact only through
  the try-locks, the set of pending orders and the queue.
- `ProviderWorker` has one order and restarts only, because its liveness properties
  are the reason to run it: its four safety properties are proved for any number of
  orders, with failing Redis calls and crashes anywhere (below).
- `MaxAttempts` (5 in the code) is 1 or 2: below it, at it; 3 where delays are
  numbers. A count that is only compared with it stops there (`Bump`).
- `MaxJobs` bounds the jobs in the queue, copies of redelivered ones included
  (`Room` for failures that add one). Two show a job behind another and a job
  next to its own copy.
- `MaxTries` bounds Paystack's attempts at one reference: two give a late
  failure next to a success, which events of one attempt cannot.
- `KeysExpire` lets an event's 48-hour key go while no handler works on it.
- `LongSessions` (`PipelineSafety`) leaves out the end of polling sessions, which
  `TaskManagerSafety` covers with its failing calls, and reversals of transfers that
  have succeeded, which `WebhookSafety` covers.
- *Backoffs* are a few units of time, so that the run sees the base, one doubling,
  the cut at `MaxBackoff` and the jitter on both sides; `ExpiresAt` leaves room for
  one retry more than `MaxAttempts` allows. `MaxCall` is the longest a request
  takes. `MaxLost` bounds what is lost of a count or a time (a save that failed, a
  request sent on an old copy, a stored copy written over by an older one); the
  bounds of the properties grow with it, so two show that each loss costs one.
- `Precision` is 17 where the code has 53 bits. What the properties need of it is
  `AmountAssumption`: the amount in kobo and five bits more fit into a mantissa.
  All 30 000 amounts up to 30 naira in steps of a tenth of a kobo are tried; such a
  step is wider than the error of the product, which `NeverMoreThanAmount` needs. The
  proofs have every precision from 9 bits on and every step of a tenth of a kobo or a
  multiple of it.
- *Three recipient codes*: each account's first, and one to replace it with. In
  `AutoTransfer` a reference is tried once (`MaxTries`); retries are the poller's.
- `MaxTasks` bounds the sessions of one life of the process: the second one meets
  what the first has left. A crash or a shutdown starts the count again.
- `EventStatus`, `OthersStatus` are what the environment of a component may
  save. In the pipeline they are all statuses: it is there that the real
  components take the environment's place.
- `Faults`: `redis` lets a call fail, `crash` lets the process die anywhere,
  `restart` lets it die with nothing held in memory alone (below).

### Fairness

A component's goroutine that can take a step takes one: every HTTP client has a
timeout (10 s and 15 s, `bootstrap.go:51` and `:147`), every Redis call one of
2 s (`redis/client.go`), and no goroutine waits for a lock (the order locks are
try-locks, the mutex is held for map operations). Time passes (`Expire`), and a
delayed job comes due (`PromoteDue`). Nothing is assumed of the environment: not
that Paystack settles a transfer, that the exchange answers well, or that a
session goes on. `OrderSettles` is therefore about a chat whose session keeps
running, and the queue's properties (`Quiet`) about a time when nobody adds to
it and the process no longer dies. `JobConcludes` and `MarkReachesOrder` use the
fault `restart` and not `crash`. Under `crash` both are violated, at two places
the code leaves open: between the `ZREM` and the `XADD` of `promoteDue` a job is
only in memory, and between the two saves of `processMessage` the workflow has
not been told what the intent says.

`MarkReachesOrder` makes one exception: a record on which a poller has noted, by
`notifyState`, that a transfer of the waiting order failed. The worker tells the
workflow by a compare-and-set whose answer it drops (worker.go:197). If another writer
saves the record between the comparison and `EXEC`, the `WATCH` is lost, `SaveIfState`
returns `false, nil` (workflow_redis.go:136-139), and the message is acknowledged.
`ConfirmPayment` has this outcome for a record with such a note; whether the save fell
into the window is left open, which allows a little more than the code does. The
environment's saves come from stale copies (`PollerTimesOut`, `PollerNotifies`): they
may also take `PAID` back. All other saves of the record either end the wait themselves
or are compare-and-sets, so with this one exception the order is told.

`AutoTransfer` assumes of a call what the pollers do: its HTTP client has a timeout,
so it takes its next step. `BotProcess` assumes that `main` takes its next step on
its way out (`Shutdown` has a deadline, `cancelWorker`, `cancelCache` and `StopAll`
do not wait, `b.Stop` waits for one long poll), that a session's goroutine does, and
that its deadline comes. `SessionDone` is strongly fair: when tick and `ctx.Done` are
both ready Go's `select` picks one at random, so a session that meets both again and
again takes the second in the end. Nothing is assumed of webhook requests, of the
worker or of the handlers of the buttons.

### Deviations the runs exhibit

1. *A terminal transfer error is retried* (`TaskManagerTerminalError`).
   `stopIntentRetry` clears the retry time and leaves the count, which
   `isEligibleForReconciliation` takes for "due now".
2. *Marked paid without confirmation* (`ProviderWorkerUnconfirmed`). `MarkOrderPaid`
   returns a response of any status as success, and the worker looks only at the
   error.
3. *A poller overwrites a success* (`PipelineLostSuccess`): it saves the copy of
   the intent it made before the transfer request. The job then finds an intent
   that is not waiting to be marked and is acknowledged, so the order is paid for
   and never marked.

The modules also state, as properties that no run checks, what the repository says
in other places and the code does not do. TLC refutes each one in the run named
when the property takes the place of the run's own (`DuplicateAcknowledged` and
`RetriedUpToMaxAttempts` as invariants):

| Property | In | What is said, and what the code does |
|---|---|---|
| `DuplicateAcknowledged` | `WebhookSafety.cfg` | README.md:404: duplicates are acknowledged. `SET NX` of an existing key is `redis.Nil`, returned as an error and answered with a 500. |
| `LateFailureIgnored` | `WebhookSafety.cfg` | paystack.go:251: a failure after a success is ignored. The check and the save of `handleTransferFailed` are not atomic. |
| `CacheIsOptional` | `AutoTransfer.cfg` | notes/main-cleanup-baseline.md:158: the recipient cache is an optimization. An error of the cache ends the call (payment.go:288, 312), mostly as a terminal one. |
| `ShutdownDrains` | `BotProcess.cfg` | README.md:59: a shutdown drains the work in flight. Only webhook handlers are waited for; polls and jobs are cut off. |
| `BackoffKept` | `DetailRetries.cfg` | runtime.go:40: the retries have consistent semantics with an exponential backoff. A copy listed before another chat's fetch failed is fetched at once; `EarlyOnlyForOldCopy` says that nothing else is. |
| `MarkAdvancesWorkflow` | `ProviderWorker.cfg` | notes/main-cleanup-baseline.md:89: provider success advances the workflow. A poller's `notifyState` save may make the worker's write fail unseen, or take `PAID` back. |
| `RetriedUpToMaxAttempts` | `TransferRetries.cfg` with `Outcomes = {"balance"}`, `MaxLost = 0`, `ExpiresAt = 15` | README.md:132: up to five retries. A lack of balance is retried until the order expires (runtime.go:691). |
| `BackoffFollowsFailure` | `TransferRetries.cfg` with `Outcomes = {"transient"}`, `MaxLost = 0`, `MaxCall = 4`, `MaxAttempts = 3`, `ExpiresAt = 20` | runtime.go:516: the next retry comes a backoff later. The backoff runs from before the request that failed (runtime.go:712). |

Others were met and have no run of their own. `notifyState` and `markTimedOut` save the
whole record unconditionally, so a poller can take an order from `PAID` back to
`PAYMENT_PENDING_EXTERNAL` and then to `TIMED_OUT`; `HandoffIsNotUndone` and
`MarkReachesOrder` state what is left. An event's key is set before the event is handled, so what fails
after that is not redelivered. A mark that could not be enqueued has a retry
time nobody reads. Sessions are in memory only and the stored duration is read by
nobody, so that after a restart no chat is polled until its button is pressed,
whatever README.md:47 says of state in Redis. The buttons for one, three and six
hours schedule minutes (handlers.go:32-34, 82-84). A reversal is saved as
`TRANSFER_FAILED`, which makes the pollers ask for the transfer again, where
README.md:412 speaks of a state of its own.

### Refinement

`PaymentPipeline!ImplementsTaskManager` is `TaskManager!Spec` with
`EventStatus` every status, over the same variables (the mapping is the
identity; what `TaskManager` does not have is hidden). It says that each step of
the real handlers and of the real worker is a step `EventOwnerSaves` or
`WorkerConfirms`, or changes nothing the pollers see, so that `TaskManager`'s theorems
hold of the pipeline. The run has crashes but no Redis failures, no end of a session
and no reversal, which cost more states than a run can take; the proof has them.

`AutoTransfer!ImplementsService` is `TransferService!Spec`: the call with its dozen
steps is one in which Paystack takes the reference up, or not, and an answer that
may claim less than what happened and never more. It is what lets `TaskManager` and
`PaymentPipeline` make the whole call one step; both share `Requested` with
it. An invalid recipient is refused before the reference is taken up, so that the
second request of a call is still the first that counts.

`BotProcess!ImplementsSessions` is `PollerSessions!Spec`, with a chat's session read
off the task table and the context of its goroutine. `PollerSessions` has the
sessions of `TaskManager` (`Schedule`, `SessionEnds`, `TaskRemoved`) and a
`StopAll` that ends all at once.

`PaymentPipeline!ImplementsLifecycle` is `OrderLifecycle!Spec`: what the process promises
of each order, whoever does it. Its state is read off the stores and the services:
`payment` are the references of the intents stored for an order, each with
Paystack's view of it; `told` are the orders whose record says `PAID`. An order takes
one way: a reference is created when it has none and stays, a transfer is asked for
while none is under way or done, the exchange is asked when the money has moved, the
workflow is told when the exchange has been asked. Only `told` can go back (`Forget`): a
poller's stale save or the end of a record's TTL takes `PAID` away, and a
redelivered job may tell it again. `PaidIsPaidFor` and `OneTransferPerOrder` say of a
state what this says of the steps.

All four are also proved, for every value of the constants.

## What is proved

`TaskManager_proofs` proves, for every number of chats, orders and references,
every `MaxAttempts`, every set of statuses the environment may save, and with or
without Redis failures:

- `TypeCorrect`: `Spec => []TypeOK`;
- `OnlyOneIntent`: `Spec => []AtMostOneIntent`;
- `DetailsBeforeTransfer`: `Spec => []TransferHasDetails`;
- `HandoffStands`: `Spec => HandoffIsNotUndone`;
- `SingleSource`: every event but `ORDER_EXPIRED` leaves exactly one state. This
  is what lets `TransitionRecord` model the two attempts of `transitionRecord` as
  one comparison.

The assumptions are those of the modules: `MaxAttempts` is a positive natural,
the "none" values are not among the values they stand in for, `EventStatus` is a
set of statuses, `Faults` a Boolean.

*The argument.* `AtMostOneIntent` is not inductive: it says nothing of a poller
that is about to create an intent. The invariant `IInv` adds why such a poller is
alone and first. `LockInv`: a goroutine at work holds its order's lock and nobody
shares it. `CreateInv`: at `create_intent` the record is at
`PAYMENT_PENDING_EXTERNAL` and there is no intent yet; it holds on arrival because
the compare-and-set came from `DETAIL_READY`, a state in which `IntentInv` rules
out an intent. `IntentInv`: an order with an intent has been handed off, or it has
expired, and an expired order is never handed off again; the second half is what
survives the end of the record's TTL and its recreation. `CopyInv`: no copy a
goroutine may still save takes an order back. `IndexInv` and `LocalInv` say that
indexes, drafts and copies name what they should, `DetailInv` that wherever a
record is, its details came before its handoff. There is one lemma per action, and
lemmas for what the actions are built from (a record saved, a transition, an
intent rewritten, a lock taken), so that an action's lemma only says which
of them it is.

`ProviderWorker_proofs` proves, for every number of orders, references and jobs,
every `MaxAttempts` and every combination of Redis failures and crashes:

- `WorkerTypeCorrect`: `Spec => []TypeOK`;
- `WorkerOneDelivery`: `Spec => []OneDelivery`;
- `WorkerPaidWasAsked`: `Spec => []PaidWasAsked`;
- `WorkerKeepsFailedJobs`: `Spec => FailedJobIsKept`.

They assume that what the others save is a status (`OthersStatusAssumption`), that
`MaxAttempts` is positive and the "none" values. The bound `MaxJobs` only takes
steps away and no proof uses it.

*The argument.* The parts of `IInv` are grouped by the state they speak of. The
queue's part says that every job, in the stream, pending or delayed, is of a stored
intent, so what `LoadIntent` reads is an intent, and that at most one message is
pending. The worker's part says that a message in hand is the pending one
(`OneDelivery` needs it at `ReadGroup`, which takes the pending message before a
new one), that an order is in `asked` from `save` on (`CopyInv`), and that a copy
marked as refused is parked when the worker stands at `ack` (`ParkedInv`); the
last is not affected by redelivery, since a message that is read again is loaded
again. `FailedJobIsKept` follows because only `Ack` takes the last pending message
away (`OnlyAckTakes`). A failure and a crash both end with nothing in hand, where
the worker's part is trivial (`Idle`).

`PaystackWebhook_proofs` proves, for every number of handlers, references, events and
attempts, with expiring keys, failing Redis calls and crashes:

- `TypeCorrect`: `Spec => []TypeOK`;
- `SettledIsMoved`: `Spec => []OnlyMovedIsSettled`;
- `EventsApart`: `Spec => []OneHandlerPerEvent`.

*The argument.* `OnlyMovedIsSettled` speaks of what is stored, and what is stored was
a handler's copy for some time. `AtPlace` therefore says of each handler, by where it
stands, what its copy may claim: a copy that claims a success is of a reference whose
money has moved, and from `save_success` on the reference itself is. It holds when
the copy is read, because the stored intents satisfy it, and it stays because money
that has moved stays moved (a reversal is a transfer that was made). `OneHandlerPerEvent`
rests on the key: who works on an event finds its key set, and a key ends only when
nobody works on its event.

`PaymentPipeline_proofs` proves, for every number of chats, orders, references and
handlers, with everything that fails:

- `PollersRefined`: `Spec => ImplementsTaskManager`;
- `PollersSafe`, `HandoffStands`: `T!AtMostOneIntent`, `T!TransferHasDetails` and
  `T!HandoffIsNotUndone`, the pollers' properties in the whole process;
- `PaidForMoved`: `Spec => []PaidIsPaidFor`;
- `OneTransfer`: `Spec => []OneTransferPerOrder`;
- `SettledIsMoved`, `EventsApart`: the handlers' properties
  (`H!OnlyMovedIsSettled`, `H!OneHandlerPerEvent`) next to the real pollers and worker;
- `PaidIsAsked`, `JobsAreKept`: the worker's (`W!PaidWasAsked`, `W!OneDelivery`,
  `W!FailedJobIsKept`) next to the real handlers and pollers;
- `LifecycleImplemented`: `Spec => ImplementsLifecycle`.

It assumes in addition that "no order" is not an order (`NoOrderAssumption`).

*The argument.* A claim of success travels from a handler's copy to the store, from
there to the worker's copy, to the exchange and into the order's record, and stale
copies are saved on the way. One predicate, `IsCopy`, says what is true of each of
them: the copy is of an intent that exists, with the same order, and claims a success
only of money that has moved. It is kept by every step because no intent goes away or
changes hands and money stays moved (`Grows`). The pollers add no claim (`DraftInv`: what they
save ends in a status of a request), every job in the queue and in the worker's hand
is of money that has moved (`Earned`), and an order in `asked` has such an intent
(`AskedInv`). The pollers' part of the invariant is `TaskManager_proofs`' own: each
step is shown to be a step of `TaskManager`, or one that it does not see, so its step
lemma does the rest. Two smaller invariants on top, about the events' keys
(`KeysInv`) and the message in hand (`DeliveryInv`), give what remains of the handlers' and
the worker's properties. For `LifecycleImplemented` the same invariant is enough. A step
that only rewrites intents changes no payment, because a save keeps the intent's order
(`SameIntents`), so most steps are stutters (`Unseen`). A transfer that moves is one
order's alone, because no other order has the reference's intent (`PaymentStands`). A
new intent is its order's first, since after the step too the order has but one
(`PaymentCreated`, from `AtMostOneIntent` of the next state). A write of a record is one
order's (`PollersWriteOne`), and when it says `PAID` that order was asked for
(`RecordWritten`), for a poller's stale copy as for the worker's.

`AutoTransfer_proofs` proves, for every number of calls, accounts and codes:

- `TypeCorrect`: `Spec => []TypeOK`;
- `PaidToOwnAccount`: `Spec => []PaysOwnAccount`;
- `ServiceRefined`: `Spec => ImplementsService`.

*The argument.* A code that is cached is of the account it is kept for
(`CachedIsOwn`), a code that a call holds is of its order's account (`HeldIsOwn`), and
Paystack gives no code to another account, so neither a refusal nor another call's
refresh brings a foreign code in. For the refinement, each step of the call is the
service's one step at Paystack, its answer, or a stutter.

`BotProcess_proofs` proves, for every number of chats (at least one:
`ChatsAssumption`) and every bound on presses, requests and sessions:

- `TypeCorrect`: `Spec => []TypeOK`;
- `OneGoroutine`: `Spec => []OnePollerPerChat`;
- `DrainedOrOver`: `Spec => []HandlersFinishFirst`;
- `SessionsRefined`: `Spec => ImplementsSessions`.

*The argument.* `OnePollerPerChat` becomes inductive with two facts: task ids not yet
given out are of no goroutine, and only a session that is done says farewell.
`HandlersFinishFirst` needs that the listener is open only before the shutdown.

`TransferRetries_proofs` proves, for every retry policy and clock:

- `TypeCorrect`: `Spec => []TypeOK`;
- `Bounded`: `Spec => []TransientsBounded`, if `MaxAttempts > 0`;
- `Spaced`: `Spec => RequestsAreSpaced`, if `BaseBackoff <= MaxBackoff`;
- `AmountIsCut`, `AmountIsShown`: `Spec => []NeverMoreThanAmount` and
  `Spec => []ShownIsPaid`, if `AmountsFit`.

`DetailRetries_proofs` proves:

- `TypeCorrect`: `Spec => []TypeOK`, for every number of chats;
- `Exponential`: `Spec => []BackoffIsExponential`, for every number of chats, if
  `BaseBackoff <= MaxBackoff`;
- `Bounded`: `Spec => []FetchesBounded`, for every number of chats;
- `EarlyIsOld`: `Spec => EarlyOnlyForOldCopy`, for every number of chats.

*The hypotheses.* `DefaultRetryPolicy`, the one policy of the code, has five attempts, a
first delay of 15 seconds and a cap of 2 minutes. A policy of zero attempts is one
without a limit (`IsExhausted`).
`Exponential` also takes the definition of powers of two (`PowersOfTwo`), of which the
prover knows nothing. `AmountsFit` is `PowersOfTwo`, a precision of at least 9 bits, and
amounts whose step is a multiple of a tenth of a kobo (`Scale` is 100, 200, ..., 1000
units in a naira); together with the module's `AmountAssumption` (five bits to spare) it
holds of the code's 53 bits and every amount of two decimals up to some 2.8 trillion
naira. A much finer step would be false: it may round across a whole kobo.

*The argument.* `CountedInv` follows the count of transient errors through the copy in
hand and through the saves that may be lost (`lost` pays for each); an intent that is
eligible again although its retries are spent (a lack of balance is retried without end)
must not stand at the bound when a transient error follows, which is `OneMore`. `SpacedInv` says
that a retry time was set a backoff after the poll began. In `DetailRetries` the lock
admits one poller at a time, and every copy in hand but the owner's is what is stored
(`LockInv`). A stored record at `DETAIL_FETCHING` has waited for its retry time
(`DueInv`), so whoever sends a request from a current copy sends it in time. The
requests are the counted retries, one more if one that the record knows of is out
(`Awaited`), and those in `lost` (`CountInv`). Each step of the owner on an old copy
pays there: for a request sent from a record that has moved on, and for the count that
its save takes back. The delays need
induction: the library's induction theorems take an operator and cannot be used here, but
its theorem that `<` is well founded takes sets only, and `Induction` is proved from
it for sets of numbers. That `Doubled`, a recursive function, is the function its
definition says is proved from its approximations (`UpTo`), and then that its values are
between the first delay and the cap, or powers of two.

For the amounts, `Nearest` and `Normal` choose an exponent, and a lemma for each says
that there is one, found by the same induction, and that what they return is within half
a unit of the last bit. With five bits to spare the two roundings of parse and product
move the kobo by less than the step of an amount, so the truncation gives the whole kobo
or, when the amount is a whole kobo that the product just misses, one less; never more.
The way back divides by 100 and prints two decimals: its two errors stay below half a
hundredth, so the digits shown are those of the kobo. The lemmas are about natural
numbers only and do not mention the state; `AmountInv` then says that the amount is in
`1..MaxAmount` for as long as the transfer has not been asked for, which is where both
properties read it.

TLC's part is what is left:

- liveness (`LockIsReleased`, `OrderSettles`, `QueueDrains`, `JobConcludes`,
  `MarkReachesOrder`, `CallReturns`, `ShutdownEnds`, `ChatIsFreed`): fairness and ENABLED are
  out of TLAPS's reach;
- that the properties in the table of deviations are violated.

## Not modelled, and why

- *A second process.* Order locks are in memory and the consumer name is fixed, so
  the code is written for one.
- *Names, formatting, logging, metrics*, and timestamps and amounts outside the
  modules about them. An unparseable
  `createDate` makes a record's expiry relative to when it was first seen; the
  model has each order expire once, at some time.
- *`Dequeue`'s branch for a job that is not yet due* (`:104-109`): `promoteDue`
  stamps a job with the time it was taken out, so the branch needs a clock that
  goes back. *`GetByOrderID` in the worker and "not found" in worker and webhook*:
  intents have no TTL and a job is made from one.
- *`ListByChat`* reads one record after another; the model reads them together. The
  copies are used one by one afterwards, under locks taken later, which is where
  they get old.
- *The read-only commands, start-up configuration, `GetBalance`*: they change no
  state. The orders cache is a set of orders a poll may see, and the user state,
  which the buttons write, has no reader.
- *How `FindBankCodeByName` compares names*: a bank is found, or it is not.
- *How a job or a poll reacts to the cancelled context in the middle*: in `BotProcess`
  it runs on or is cut off by the exit; its calls then fail, as any call may in the
  component's own module.
- *Two chats in the liveness run*: a chat that tries the lock whenever the other
  one holds it never gets it, and nothing in the code prevents that.

## Plan

Done: the order's whole path, component by component and composed; the clocked
retries, the transfer call with its caches, the amounts, the process with its sessions
and its shutdown; four refinements; and a theorem for every safety, action and
refinement property of the passing runs. What is left is the liveness of the webhook
handler outside its open windows, for TLC: that an event delivered while nothing fails
ends in a job or in a failed intent.
