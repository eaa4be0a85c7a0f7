--------------------------- MODULE ProviderWorker ---------------------------
(***************************************************************************)
(* The worker of internal/providerqueue/worker.go, one goroutine that      *)
(* takes jobs off the queue, asks the exchange to mark their orders paid   *)
(* and records what came of it.  A step is one Redis command or one call   *)
(* of the exchange.  A Redis error at any point ends the handling of the   *)
(* message, which stays pending and is read again first.                   *)
(*                                                                         *)
(* The poller and the webhook handler are the environment of this module:  *)
(* they create, save and enqueue (Others).                                 *)
(***************************************************************************)
EXTENDS ProviderMarkQueue

CONSTANTS OthersStatus,  \* statuses the others save without adding a job
          Faults,        \* "redis": a call may fail; "crash": the process may die;
                         \* "restart": it dies with nothing in memory alone
          MaxJobs        \* bound on the number of jobs in the queue

ASSUME OthersStatusAssumption == OthersStatus \subseteq IntentStatus
ASSUME FaultsAssumption == Faults \subseteq {"redis", "crash", "restart"}
ASSUME MaxJobsAssumption == MaxJobs \in Nat \ {0}

VARIABLES
  wpc,        \* where the worker stands
  job,        \* the job in hand: removed from the sorted set, or read
  copy,       \* its copy of the intent
  asked,      \* orders the exchange has been asked to mark paid
  exchange    \* orders the exchange has marked paid

worker == <<wpc, job, copy>>
bybit  == <<asked, exchange>>
vars   == <<stores, queue, worker, bybit>>

Init ==
  /\ InitStores /\ InitQueue
  /\ wpc = "dequeue" /\ job = NoRef /\ copy = NoIntent
  /\ asked = {} /\ exchange = {}

\* Back to Run's loop, with nothing in hand.
NextMessage == wpc' = "dequeue" /\ job' = NoRef /\ copy' = NoIntent

\* A Redis command fails.  (The bound: a failure or a crash that leaves a second
\* copy of a job behind is only looked at while there is room for it.)
Room  == JobCount' <= MaxJobs
Fails == "redis" \in Faults /\ NextMessage /\ Room

\* A Redis command that does Command and goes on at l, or fails: then it may have
\* been carried out, and Run goes on to the next Dequeue.
Calls(Command, keys, l) ==
  \/ Command /\ wpc' = l /\ UNCHANGED <<job, copy>>
  \/ (Command \/ UNCHANGED keys) /\ Fails

-----------------------------------------------------------------------------
(* Dequeue *)

\* promoteDue moves a job in two commands ...
PromoteDue(r) ==
  /\ wpc = "dequeue"
  /\ RemoveDelayed(r)
  /\ \/ wpc' = "promote" /\ job' = r /\ UNCHANGED copy
     \/ Fails
  /\ UNCHANGED <<stores, bybit>>

\* ... and has the job only in memory between them.
PromoteJob ==
  /\ wpc = "promote"
  /\ \/ Enqueue(job) /\ NextMessage
     \/ UNCHANGED queue /\ Fails
  /\ UNCHANGED <<stores, bybit>>

\* Mutant: new messages are read without a look at the pending ones.
ReadNewMessage ==
  /\ wpc = "dequeue" /\ stream # <<>>
  /\ Deliver
  /\ job' = Head(stream) /\ wpc' = "load"
  /\ UNCHANGED <<stores, copy, bybit>>

\* readGroup, first with "0" and then with ">": a pending message comes before
\* any new one.
ReadGroup ==
  /\ wpc = "dequeue"
  /\ \/ /\ pending # <<>>
        /\ job' = Head(pending) /\ wpc' = "load"
        /\ UNCHANGED <<queue, copy>>
     \/ /\ pending = <<>> /\ stream # <<>>
        /\ Deliver
        /\ \/ job' = Head(stream) /\ wpc' = "load" /\ UNCHANGED copy
           \/ Fails
  /\ UNCHANGED <<stores, bybit>>

-----------------------------------------------------------------------------
(* processMessage *)

Markable == {"TRANSFER_SUCCESS", "PROVIDER_MARK_FAILED"}

\* Mutant: the workflow is told before the exchange is.
LoadIntentThenConfirm ==
  /\ wpc = "load"
  /\ copy' = intents[job]
  /\ wpc' = IF intents[job].status \in Markable THEN "confirm" ELSE "ack"
  /\ UNCHANGED <<stores, queue, bybit, job>>

\* GetByReference, which finds the intent: a job is only ever made from one, and
\* intents have no TTL.  An intent that is not waiting to be marked is done with.
LoadIntent ==
  /\ wpc = "load"
  /\ \/ /\ copy' = intents[job]
        /\ wpc' = IF intents[job].status \in Markable THEN "mark" ELSE "ack"
        /\ UNCHANGED job
     \/ UNCHANGED queue /\ Fails
  /\ UNCHANGED <<stores, queue, bybit>>

MarkPaid(i) == [i EXCEPT !.status = "PROVIDER_MARKED_PAID", !.retry = 0, !.scheduled = FALSE]

MarkFailed(i) ==
  [i EXCEPT !.status = "PROVIDER_MARK_FAILED", !.retry = Bump(@),
            !.scheduled = ~IsExhausted(Bump(i.retry))]

\* MarkOrderPaid: an answer of any HTTP status is taken for success, and an error
\* (a timeout) does not mean that the order was not marked.
MarkOrderPaid(answered) ==
  /\ wpc = "mark"
  /\ asked' = asked \cup {copy.order}
  /\ UNCHANGED exchange \/ exchange' = exchange \cup {copy.order}
  /\ copy' = IF answered THEN MarkPaid(copy) ELSE MarkFailed(copy)
  /\ wpc' = "save"
  /\ UNCHANGED <<stores, queue, job>>

\* Mutants: an exhausted job is only acknowledged; a marked one is.
AfterSaveDropping ==
  CASE copy.status = "PROVIDER_MARKED_PAID" -> "confirm"
    [] copy.scheduled -> "requeue"
    [] OTHER -> "ack"
AfterSaveNotTelling ==
  CASE copy.status = "PROVIDER_MARKED_PAID" -> "ack"
    [] copy.scheduled -> "requeue"
    [] OTHER -> "deadletter"

\* Where processMessage goes once the intent is saved.
AfterSave ==
  CASE copy.status = "PROVIDER_MARKED_PAID" -> "confirm"
    [] copy.scheduled -> "requeue"
    [] OTHER -> "deadletter"

SaveIntent ==
  /\ wpc = "save"
  /\ \/ SaveIntentKeys(copy) /\ wpc' = AfterSave /\ UNCHANGED <<job, copy>>
     \/ /\ \/ UNCHANGED <<intents, orderIndex>>
           \/ PutIntent(copy) /\ UNCHANGED orderIndex
           \/ SaveIntentKeys(copy)
        /\ UNCHANGED queue /\ Fails
  /\ UNCHANGED <<records, queue, bybit>>

\* Mutant: Save in the place of SaveIfState.
ConfirmAnyway ==
  /\ wpc = "confirm" /\ workflow[copy.order] # NoRecord
  /\ PutIndexed(copy.order, [workflow[copy.order] EXCEPT !.state = "PAID"])
  /\ wpc' = "ack"
  /\ UNCHANGED <<queue, intents, orderIndex, bybit, job, copy>>

\* Get and SaveIfState.  A record that is no longer waiting is left alone, and so is
\* one that is saved by somebody else between the comparison and EXEC: the WATCH is
\* lost, SaveIfState has no error, and its answer is not looked at.  The one save
\* that leaves a record waiting is PollerNotifies, which shows in `notified'; whether
\* it fell just in between is left open.
ConfirmPayment ==
  /\ wpc = "confirm"
  /\ UNCHANGED queue
  /\ \/ /\ StateIs(copy.order, "PAYMENT_PENDING_EXTERNAL")
        /\ Calls(PutIndexed(copy.order, After(workflow[copy.order], "PAYMENT_CONFIRMED")),
                 records, "ack")
     \/ /\ StateIs(copy.order, "PAYMENT_PENDING_EXTERNAL")
             => workflow[copy.order].notified = "PAYMENT_PENDING_EXTERNAL"
        /\ Calls(UNCHANGED records, records, "ack")
  /\ UNCHANGED <<intents, orderIndex, bybit>>

RequeueJob ==
  /\ wpc = "requeue"
  /\ Calls(Requeue(job), queue, "ack")
  /\ UNCHANGED <<stores, bybit>>

DeadLetterJob ==
  /\ wpc = "deadletter"
  /\ Calls(DeadLetter(job), queue, "ack")
  /\ UNCHANGED <<stores, bybit>>

AckMessage ==
  /\ wpc = "ack"
  /\ \/ Ack /\ NextMessage
     \/ UNCHANGED queue /\ Fails
  /\ UNCHANGED <<stores, bybit>>

-----------------------------------------------------------------------------
(* The other components and crashes *)

\* A poller hands the order off and creates its intent.
PollerCreates(c, r, o) ==
  /\ intents[r] = NoIntent /\ orderIndex[o] = NoRef
  /\ SaveIntentKeys(NewIntent(r, o))
  /\ PutIndexed(o, [NewOrderWorkflowRecord(c) EXCEPT !.state = "PAYMENT_PENDING_EXTERNAL",
                                                     !.detail = TRUE])
  /\ UNCHANGED <<queue, worker, bybit>>

\* A poller's copy of a record that waits; the worker may have made it PAID since.
Waits(o)   == StateIs(o, "PAYMENT_PENDING_EXTERNAL") \/ StateIs(o, "PAID")
Waiting(o) == [workflow[o] EXCEPT !.state = "PAYMENT_PENDING_EXTERNAL"]

\* A poller finds the order expired: Save, whatever is stored by now.
PollerTimesOut(o) ==
  /\ Waits(o)
  /\ PutIndexed(o, After(Waiting(o), "ORDER_EXPIRED"))
  /\ UNCHANGED <<intents, orderIndex, queue, worker, bybit>>

\* A poller has told the chat that a transfer of the waiting order failed: the Save of
\* notifyState, whatever is stored by now.
PollerNotifies(o) ==
  /\ Waits(o)
  /\ PutIndexed(o, [Waiting(o) EXCEPT !.notified = "PAYMENT_PENDING_EXTERNAL"])
  /\ UNCHANGED <<intents, orderIndex, queue, worker, bybit>>

\* A poller or the failure handler saves, from a copy of any age.
OthersSave(r) ==
  /\ intents[r] # NoIntent
  /\ \E s \in OthersStatus, k \in 0..MaxAttempts :
       SaveIntentKeys([intents[r] EXCEPT !.status = s, !.retry = k])
  /\ UNCHANGED <<records, queue, worker, bybit>>

\* The webhook handler confirms the transfer and adds a job.  Its two writes are
\* one step here: only a job can make the worker look.
WebhookConfirms(r) ==
  /\ intents[r] # NoIntent /\ JobCount < MaxJobs
  /\ \E k \in 0..MaxAttempts :
       SaveIntentKeys([intents[r] EXCEPT !.status = "TRANSFER_SUCCESS", !.retry = k])
  /\ Enqueue(r)
  /\ UNCHANGED <<records, worker, bybit>>

\* Two places are not safe to die at: a job out of the sorted set and not yet in
\* the stream is lost, and the workflow of an intent saved as marked paid is never
\* told, since the next delivery only acknowledges.
Crash ==
  /\ \/ "crash" \in Faults
     \/ "restart" \in Faults /\ wpc \notin {"promote", "confirm"}
  /\ UNCHANGED <<stores, queue, bybit>>
  /\ NextMessage /\ Room

-----------------------------------------------------------------------------

WorkerStep ==
  \/ PromoteJob \/ ReadGroup \/ LoadIntent
  \/ \E answered \in BOOLEAN : MarkOrderPaid(answered)
  \/ SaveIntent \/ ConfirmPayment \/ RequeueJob \/ DeadLetterJob \/ AckMessage

Others ==
  \/ \E c \in Chats, r \in Refs, o \in Orders : PollerCreates(c, r, o)
  \/ \E o \in Orders : PollerTimesOut(o) \/ PollerNotifies(o)
  \/ \E r \in Refs : OthersSave(r) \/ WebhookConfirms(r)

Next ==
  \/ WorkerStep
  \/ \E r \in Refs : PromoteDue(r)
  \/ Others \/ Crash

Spec == Init /\ [][Next]_vars

-----------------------------------------------------------------------------
(* Properties *)

TypeOK ==
  /\ workflow \in [Orders -> WfRecord \cup {NoRecord}]
  /\ chatIndex \in [Chats -> SUBSET Orders]
  /\ intents \in [Refs -> Intent \cup {NoIntent}]
  /\ orderIndex \in [Orders -> Refs \cup {NoRef}]
  /\ stream \in Seq(Refs) /\ pending \in Seq(Refs)
  /\ delayed \in [Refs -> Nat] /\ deadLetters \subseteq Refs
  /\ wpc \in {"dequeue", "promote", "load", "mark", "save", "confirm", "requeue",
              "deadletter", "ack"}
  /\ job \in Refs \cup {NoRef} /\ copy \in Intent \cup {NoIntent}
  /\ asked \subseteq Orders /\ exchange \subseteq Orders

\* The worker never has two deliveries open: a message left unacknowledged by an
\* error or a crash is read again before anything new is, so the one it handles
\* is always the one it acknowledges.
OneDelivery ==
  /\ Len(pending) <= 1
  /\ wpc \notin {"dequeue", "promote"} => pending = <<job>>

\* Once the exchange has refused to mark an order, the job is not taken off the
\* stream before it waits in the sorted set or lies in the dead-letter stream,
\* whatever fails or crashes in between: requeueing and dead-lettering come
\* before the acknowledgement.
FailedJobIsKept ==
  [][\A r \in Refs :
       (pending = <<r>> /\ pending' = <<>> /\ copy.status = "PROVIDER_MARK_FAILED")
         => (delayed'[r] > 0 \/ r \in deadLetters')]_vars

\* The workflow of an order never says PAID unless the exchange has been asked to
\* mark that order paid, through every redelivery, retry and restart.
PaidWasAsked ==
  \A o \in Orders : StateIs(o, "PAID") => o \in asked

\* From some time on nobody else touches the stores and the process lives.
Quiet == <>[][~Others /\ ~Crash]_vars

\* A job does not stay in the queue: once the other components are quiet and the
\* process no longer dies, every job is marked, dropped or dead-lettered, and a
\* message that a restart left pending does not block the ones behind it.
QueueDrains == Quiet => \A r \in Refs : []<>(~Queued(r))

Stands(r, statuses) == intents[r] # NoIntent /\ intents[r].status \in statuses

\* A confirmed transfer with a job is marked paid on the exchange or its job is
\* dead-lettered, unless another component takes its status back: retries, waits
\* and restarts never leave it stranded.
JobConcludes ==
  Quiet => \A r \in Refs :
    (Queued(r) /\ Stands(r, Markable)) ~> (~Stands(r, Markable) \/ r \in deadLetters)

\* An intent recorded as marked paid ends the wait of its order's workflow, over
\* retries and restarts, unless a poller had to tell the chat of a failed transfer:
\* the save that notes it may make the worker's write fail unseen, or take PAID back.
MarkReachesOrder ==
  \A r \in Refs, o \in Orders :
    (Stands(r, {"PROVIDER_MARKED_PAID"}) /\ intents[r].order = o)
      ~> (StateIs(o, "PAYMENT_PENDING_EXTERNAL")
            => workflow[o].notified = "PAYMENT_PENDING_EXTERNAL")

\* What notes/main-cleanup-baseline.md:89 says: provider success advances the workflow.
MarkAdvancesWorkflow ==
  \A r \in Refs, o \in Orders :
    (Stands(r, {"PROVIDER_MARKED_PAID"}) /\ intents[r].order = o)
      ~> ~StateIs(o, "PAYMENT_PENDING_EXTERNAL")

\* What README.md:125 and the notes say of a PROVIDER_PAID intent: the exchange
\* confirmed it.
MarkedIsConfirmed ==
  \A r \in Refs : Stands(r, {"PROVIDER_MARKED_PAID"}) => intents[r].order \in exchange

\* Fairness: the worker's goroutine runs on (Redis calls and the exchange's HTTP
\* client have timeouts) and retry times come.
FairSpec == Spec /\ WF_vars(WorkerStep) /\ \A r \in Refs : WF_vars(PromoteDue(r))
=============================================================================
