---------------------------- MODULE TaskManager ----------------------------
(***************************************************************************)
(* The order pollers of internal/botruntime/runtime.go over the two Redis  *)
(* stores of internal/cache: one goroutine per scheduled chat polls the    *)
(* exchange, drives every order it sees through the order state machine,   *)
(* creates the payment intent and asks for the bank transfer.  A step is   *)
(* one access to shared state: what another poller, the webhook handler,   *)
(* the worker or a crash may do between two accesses can happen here.      *)
(*                                                                         *)
(* The webhook handler and the worker are the environment of this module:  *)
(* all it says of them is what they may write (EventOwnerSaves,            *)
(* WorkerConfirms).  PaymentPipeline puts the real ones in their place.    *)
(***************************************************************************)
EXTENDS RedisStores

CONSTANTS EventStatus,  \* statuses the webhook handler and the worker may save
          Faults,       \* may a Redis call of a live session fail?
          NoOrder

ASSUME EventStatusAssumption == EventStatus \subseteq IntentStatus
ASSUME FaultsAssumption == Faults \in BOOLEAN
ASSUME NoOrderAssumption == NoOrder \notin Orders

VARIABLES
  expired,     \* orders whose ExpiresAt has passed
  session,     \* tasks[chat]: its context is "running" or "done"
  processing,  \* the per-order locks of the process
  pc,          \* where the chat's goroutine stands
  phase,       \* which loop of pollAndProcess it is in
  todo,        \* orders that loop has still to visit
  seen,        \* seenOrderIDs
  list,        \* the records ListByChat returned, read before any lock
  order,       \* the order whose lock the goroutine holds
  rec,         \* its copy of that order's record
  draft,       \* its copy of the intent it works on
  after        \* where it goes when the save or the message at hand is done

loop   == <<phase, todo, seen, list>>
local  == <<order, rec, draft, after>>
vars   == <<stores, expired, session, processing, pc, loop, local>>

Init ==
  /\ InitStores
  /\ expired = {}
  /\ session = [c \in Chats |-> "none"]
  /\ processing = {}
  /\ pc = [c \in Chats |-> "idle"]
  /\ phase = [c \in Chats |-> "orders"]
  /\ todo = [c \in Chats |-> {}]
  /\ seen = [c \in Chats |-> {}]
  /\ list = [c \in Chats |-> EmptyList]
  /\ order = [c \in Chats |-> NoOrder]
  /\ rec = [c \in Chats |-> NoRecord]
  /\ draft = [c \in Chats |-> NoIntent]
  /\ after = [c \in Chats |-> "unlock"]

-----------------------------------------------------------------------------
(* Redis as a poller sees it.  Once its session's context is done every    *)
(* call fails at once; a call that fails because the reply was lost may    *)
(* have been carried out.                                                  *)

Works(c)   == session[c] = "running"
MayFail(c) == Faults \/ ~Works(c)
LostReply(c) == Faults /\ Works(c)

Goto(c, l) == pc' = [pc EXCEPT ![c] = l]
\* An unconditional write of record r: Save of the workflow store, which sets the
\* key and then adds the order to the index of the record's chat.  It goes on at
\* ok with r as its copy, or at failed when the call returns an error; the
\* session's context may be done between the two commands.
SaveRecord(c, r, ok, failed) ==
  /\ \/ /\ Works(c)
        /\ Put(order[c], r) /\ AddToChat(r.chat, order[c])
        /\ Goto(c, ok)
        /\ UNCHANGED session
     \/ /\ MayFail(c)
        /\ \/ UNCHANGED records
           \/ /\ LostReply(c) /\ Put(order[c], r)
              /\ UNCHANGED chatIndex \/ AddToChat(r.chat, order[c])
        /\ Goto(c, failed)
        /\ UNCHANGED session
     \/ /\ Works(c) /\ session' = [session EXCEPT ![c] = "done"]
        /\ Put(order[c], r) /\ UNCHANGED chatIndex
        /\ Goto(c, failed)
  /\ rec' = [rec EXCEPT ![c] = r]

\* transitionRecord.  Its second attempt applies the event to the record it
\* found instead, and an event other than ORDER_EXPIRED leaves one state only
\* (lemma SingleSource), so a lost comparison ends in an error.
TransitionRecord(c, r, event, ok) ==
  LET next == After(r, event)
  IN \/ /\ Works(c) /\ StateIs(order[c], r.state)
        /\ PutIndexed(order[c], next)
        /\ rec' = [rec EXCEPT ![c] = next]
        /\ Goto(c, ok)
     \/ /\ MayFail(c) \/ ~StateIs(order[c], r.state)
        /\ \/ UNCHANGED records
           \/ LostReply(c) /\ StateIs(order[c], r.state) /\ PutIndexed(order[c], next)
        /\ Goto(c, "unlock")
        /\ UNCHANGED rec
  /\ UNCHANGED session

\* markTimedOut on a record that is not terminal.
MarkTimedOut(c) ==
  SaveRecord(c, After(rec[c], "ORDER_EXPIRED"), "notify", "unlock")

-----------------------------------------------------------------------------
(* Sessions *)

\* Schedule: a chat with a task keeps it.
Schedule(c) ==
  /\ session[c] = "none"
  /\ session' = [session EXCEPT ![c] = "running"]
  /\ UNCHANGED <<stores, expired, processing, pc, loop, local>>

\* The timeout of the context, or StopAll.
SessionEnds(c) ==
  /\ session[c] = "running"
  /\ session' = [session EXCEPT ![c] = "done"]
  /\ UNCHANGED <<stores, expired, processing, pc, loop, local>>

\* The goroutine sees ctx.Done between two polls and deletes its task.
TaskRemoved(c) ==
  /\ session[c] = "done" /\ pc[c] = "idle"
  /\ session' = [session EXCEPT ![c] = "none"]
  /\ UNCHANGED <<stores, expired, processing, pc, loop, local>>

-----------------------------------------------------------------------------
(* pollAndProcess *)

\* A tick: the pending orders, fresh or from the orders cache.  (A fetch that
\* fails with nothing cached changes no state.)
FetchPendingOrders(c) ==
  /\ session[c] # "none" /\ pc[c] = "idle"
  /\ \E items \in SUBSET Orders :
       /\ seen' = [seen EXCEPT ![c] = items]
       /\ todo' = [todo EXCEPT ![c] = items]
  /\ phase' = [phase EXCEPT ![c] = "orders"]
  /\ Goto(c, "loop")
  /\ UNCHANGED <<stores, expired, session, processing, list, local>>

\* lockOrder, which skips the order when another chat holds it.
LockOrder(c, o, l) ==
  /\ todo' = [todo EXCEPT ![c] = @ \ {o}]
  /\ \/ /\ o \in processing
        /\ UNCHANGED <<processing, pc, order>>
     \/ /\ o \notin processing
        /\ processing' = processing \cup {o}
        /\ order' = [order EXCEPT ![c] = o]
        /\ Goto(c, l)

ProcessPendingOrder(c, o) ==
  /\ pc[c] = "loop" /\ phase[c] = "orders" /\ o \in todo[c]
  /\ LockOrder(c, o, "get")
  /\ UNCHANGED <<stores, expired, session, phase, seen, list, rec, draft, after>>

\* The records of the chat's index that were not among the pending orders; an
\* order without a record is taken out of the index.
ListByChat(c) ==
  /\ pc[c] = "loop" /\ phase[c] = "orders" /\ todo[c] = {}
  /\ \/ LET found   == {o \in chatIndex[c] : workflow[o] # NoRecord}
            resumed == {o \in found \ seen[c] : ~IsTerminalOrderState(workflow[o].state)}
        IN /\ Works(c)
           /\ chatIndex' = [chatIndex EXCEPT ![c] = found]
           /\ todo' = [todo EXCEPT ![c] = resumed]
           /\ list' = [list EXCEPT ![c] =
                 [o \in Orders |-> IF o \in resumed THEN workflow[o] ELSE NoRecord]]
           /\ phase' = [phase EXCEPT ![c] = "resume"]
           /\ UNCHANGED pc
     \/ MayFail(c) /\ Goto(c, "idle") /\ UNCHANGED <<phase, todo, list, chatIndex>>
  /\ seen' = [seen EXCEPT ![c] = {}]
  /\ UNCHANGED <<workflow, intents, orderIndex, expired, session, processing, local>>

\* resumeWorkflowRecord works on the copy the listing made.
ResumeWorkflowRecord(c, o) ==
  /\ pc[c] = "loop" /\ phase[c] = "resume" /\ o \in todo[c]
  /\ LockOrder(c, o, "advance")
  /\ rec' = IF o \in processing THEN rec ELSE [rec EXCEPT ![c] = list[c][o]]
  /\ list' = [list EXCEPT ![c][o] = NoRecord]
  /\ UNCHANGED <<stores, expired, session, phase, seen, draft, after>>

PollEnds(c) ==
  /\ pc[c] = "loop" /\ phase[c] = "resume" /\ todo[c] = {}
  /\ Goto(c, "idle")
  /\ UNCHANGED <<stores, expired, session, processing, loop, local>>

\* The deferred unlockOrder, on every way out of the handlers below.
UnlockOrder(c) ==
  /\ pc[c] = "unlock"
  /\ processing' = processing \ {order[c]}
  /\ order' = [order EXCEPT ![c] = NoOrder]
  /\ rec' = [rec EXCEPT ![c] = NoRecord]
  /\ draft' = [draft EXCEPT ![c] = NoIntent]
  /\ after' = [after EXCEPT ![c] = "unlock"]
  /\ Goto(c, "loop")
  /\ UNCHANGED <<stores, expired, session, loop>>

-----------------------------------------------------------------------------
(* processPendingOrder and advanceWorkflowRecord, under the order's lock *)

\* The stored record, or a new one: nobody else creates an order's record while
\* its lock is held, so CreateIfAbsent after a miss of Get finds no record.
LoadRecord(c) ==
  /\ pc[c] = "get"
  /\ \/ /\ Works(c) /\ workflow[order[c]] # NoRecord
        /\ rec' = [rec EXCEPT ![c] = workflow[order[c]]]
        /\ Goto(c, "advance")
        /\ UNCHANGED <<records, session, after>>
     \/ /\ workflow[order[c]] = NoRecord
        /\ SaveRecord(c, NewOrderWorkflowRecord(c), "notify", "unlock")
        /\ after' = [after EXCEPT ![c] = "advance"]
     \/ /\ MayFail(c)
        /\ Goto(c, "unlock")
        /\ UNCHANGED <<records, session, rec, after>>
  /\ UNCHANGED <<intents, orderIndex, expired, processing, loop, order, draft>>

\* notifyState: one message per state, remembered by saving the whole copy; a
\* message that cannot be sent is not remembered, a save that fails is ignored.
NotifyState(c) ==
  /\ pc[c] = "notify"
  /\ \/ /\ rec[c].notified # rec[c].state
        /\ SaveRecord(c, [rec[c] EXCEPT !.notified = rec[c].state], after[c], after[c])
     \/ Goto(c, after[c]) /\ UNCHANGED <<records, session, rec>>
  /\ after' = [after EXCEPT ![c] = "unlock"]
  /\ UNCHANGED <<intents, orderIndex, expired, processing, loop, order, draft>>

\* What every branch of advanceWorkflowRecord and of the detail fetch leaves alone.
KeepsPayment ==
  UNCHANGED <<intents, orderIndex, expired, processing, loop, order, draft, after>>

\* Mutant: an order that was handed off is left to the webhook.
AdvanceExpiredUnlessPending(c) ==
  /\ pc[c] = "advance" /\ order[c] \in expired
  /\ ~IsTerminalOrderState(rec[c].state)
  /\ IF rec[c].state = "PAYMENT_PENDING_EXTERNAL"
       THEN Goto(c, "unlock") /\ UNCHANGED <<records, session, rec>>
       ELSE MarkTimedOut(c)
  /\ KeepsPayment

AdvanceExpired(c) ==
  /\ pc[c] = "advance" /\ order[c] \in expired
  /\ ~IsTerminalOrderState(rec[c].state)
  /\ MarkTimedOut(c)
  /\ KeepsPayment

\* An order that is not expired, in the given state.
Advances(c, state) ==
  pc[c] = "advance" /\ order[c] \notin expired /\ rec[c].state = state

AdvanceDetected(c) ==
  /\ Advances(c, "DETECTED")
  /\ TransitionRecord(c, rec[c], "ORDER_INGESTED", "fetch")
  /\ KeepsPayment

AdvanceFetching(c) ==
  /\ Advances(c, "DETAIL_FETCHING")
  /\ Goto(c, "fetch")
  /\ UNCHANGED <<records, session, rec>>
  /\ KeepsPayment

AdvanceRetrying(c) ==
  /\ Advances(c, "RETRYING_DETAIL")
  /\ TransitionRecord(c, rec[c], "RETRY_TIMER_FIRED", "fetch")
  /\ KeepsPayment

AdvanceReady(c) ==
  /\ Advances(c, "DETAIL_READY")
  /\ TransitionRecord(c, rec[c], "HANDOFF_TO_PAYMENT", "create_intent")
  /\ KeepsPayment

\* Mutant: an early return that does not unlock.
AdvanceNothingKeepingLock(c) ==
  /\ pc[c] = "advance"
  /\ IsTerminalOrderState(rec[c].state) \/ Advances(c, "RETRYING_DETAIL")
  /\ Goto(c, "loop")
  /\ UNCHANGED <<records, session, rec>>
  /\ KeepsPayment

\* Nothing to do: a terminal order, a retry time that has not come.
AdvanceNothing(c) ==
  /\ pc[c] = "advance"
  /\ \/ IsTerminalOrderState(rec[c].state)
     \/ Advances(c, "RETRYING_DETAIL")
  /\ Goto(c, "unlock")
  /\ UNCHANGED <<records, session, rec>>
  /\ KeepsPayment

\* isEligibleForReconciliation, leaving out the retry time.
IsEligible(i) ==
  \/ i.status = "INSUFFICIENT_FUNDS"
  \/ i.status = "TRANSFER_FAILED" /\ ~IsExhausted(i.retry)

\* GetByOrderID finds an intent, and it may be tried again.
Reconcilable(o) == orderIndex[o] # NoRef /\ IsEligible(intents[orderIndex[o]])

\* Mutant: the payment is started over, under a reference of its own.
AdvancePendingAfresh(c) ==
  /\ Advances(c, "PAYMENT_PENDING_EXTERNAL")
  /\ Works(c) /\ Reconcilable(order[c])
  /\ Goto(c, "create_intent")
  /\ UNCHANGED <<records, session, rec>>
  /\ KeepsPayment

\* reconcilePaymentPendingExternal: the copy of the intent is made here and is
\* not looked at again before it is saved.  A retry time that is set may not
\* have come yet; a time that is not set never holds a transfer back.
AdvancePending(c) ==
  /\ Advances(c, "PAYMENT_PENDING_EXTERNAL")
  /\ \/ /\ Works(c) /\ Reconcilable(order[c])
        /\ draft' = [draft EXCEPT ![c] = intents[orderIndex[order[c]]]]
        /\ Goto(c, "transfer")
     \/ /\ \/ MayFail(c)
           \/ ~(Reconcilable(order[c]) /\ ~intents[orderIndex[order[c]]].scheduled)
        /\ Goto(c, "unlock")
        /\ UNCHANGED draft
  /\ UNCHANGED <<stores, expired, session, processing, loop, order, rec, after>>

-----------------------------------------------------------------------------
(* fetchOrderDetail and handleDetailFetchError *)

\* Mutant: the account details are not put in the record.
DetailFetchedUnstored(c) ==
  /\ pc[c] = "fetch"
  /\ TransitionRecord(c, [rec[c] EXCEPT !.retry = 0], "DETAIL_FETCH_OK", "unlock")
  /\ KeepsPayment

DetailFetched(c) ==
  /\ pc[c] = "fetch"
  /\ TransitionRecord(c, [rec[c] EXCEPT !.detail = TRUE, !.retry = 0],
                      "DETAIL_FETCH_OK", "unlock")
  /\ KeepsPayment

\* A fatal error, or a retryable one when the attempts are used up.
DetailFailed(c) ==
  /\ pc[c] = "fetch" /\ order[c] \notin expired
  /\ TransitionRecord(c, rec[c], "DETAIL_FETCH_FATAL_ERR", "notify")
  /\ KeepsPayment

DetailRetry(c) ==
  /\ pc[c] = "fetch" /\ order[c] \notin expired
  /\ rec[c].retry < MaxAttempts
  /\ TransitionRecord(c, [rec[c] EXCEPT !.retry = @ + 1],
                      "DETAIL_FETCH_RETRYABLE_ERR", "notify")
  /\ KeepsPayment

\* Expired while fetching, or a next attempt that would come after the expiry.
DetailTimedOut(c) ==
  /\ pc[c] = "fetch"
  /\ order[c] \in expired \/ rec[c].retry < MaxAttempts
  /\ MarkTimedOut(c)
  /\ KeepsPayment

-----------------------------------------------------------------------------
(* initiatePayment and the transfer *)

\* PaymentIntentStore.Create: a key that must be new, then the order's index
\* entry.  An error after the first write leaves it behind.
CreateIntent(c) ==
  /\ pc[c] = "create_intent"
  /\ \E r \in Refs :
       /\ intents[r] = NoIntent
       /\ \/ /\ Works(c)
             /\ SaveIntentKeys(NewIntent(r, order[c]))
             /\ draft' = [draft EXCEPT ![c] = NewIntent(r, order[c])]
             /\ Goto(c, "transfer")
          \/ /\ LostReply(c)
             /\ PutIntent(NewIntent(r, order[c]))
             /\ UNCHANGED orderIndex \/ orderIndex' = [orderIndex EXCEPT ![order[c]] = r]
             /\ Goto(c, "unlock")
             /\ UNCHANGED draft
  /\ UNCHANGED <<records, expired, session, processing, loop, order, rec, after>>

\* An amount that does not parse, a reference that exists, a call that fails:
\* the order stays handed off with no intent of its own.
CreateIntentFails(c) ==
  /\ pc[c] = "create_intent"
  /\ Goto(c, "unlock")
  /\ UNCHANGED <<records, session, rec>>
  /\ KeepsPayment

TransferOutcome == {"accepted", "balance", "transient", "terminal"}

\* scheduleIntentRetry, stopIntentRetry and clearIntentRetry.
ScheduleIntentRetry(i) == [i EXCEPT !.retry = Bump(@), !.scheduled = TRUE]
StopIntentRetry(i)     == [i EXCEPT !.scheduled = FALSE]
ClearIntentRetry(i)    == [i EXCEPT !.retry = 0, !.scheduled = FALSE]

AfterTransfer(i, outcome) ==
  CASE outcome = "accepted"  -> ClearIntentRetry([i EXCEPT !.status = "TRANSFER_PENDING"])
    [] outcome = "balance"   -> ScheduleIntentRetry([i EXCEPT !.status = "INSUFFICIENT_FUNDS"])
    [] outcome = "transient" -> ScheduleIntentRetry([i EXCEPT !.status = "TRANSFER_FAILED"])
    [] outcome = "terminal"  -> StopIntentRetry([i EXCEPT !.status = "TRANSFER_FAILED"])

\* AutoTransferToOrder returns.  A failure is reported through notifyState,
\* except that a retry that still lacks the balance is silent.
AutoTransfer(c, outcome) ==
  /\ pc[c] = "transfer"
  /\ draft' = [draft EXCEPT ![c] = AfterTransfer(@, outcome)]
  /\ after' = [after EXCEPT ![c] =
       IF \/ outcome = "accepted"
          \/ outcome = "balance" /\ draft[c].status # "INITIATED"
       THEN "unlock" ELSE "notify"]
  /\ Goto(c, "save_intent")
  /\ UNCHANGED <<stores, expired, session, processing, loop, order, rec>>

\* _ = paymentStore.Save: whatever it returns, the poller goes on.
SaveIntent(c) ==
  /\ pc[c] = "save_intent"
  /\ \/ Works(c) /\ SaveIntentKeys(draft[c])
     \/ /\ MayFail(c)
        /\ UNCHANGED <<intents, orderIndex>>
     \/ /\ LostReply(c)
        /\ PutIntent(draft[c])
        /\ UNCHANGED orderIndex
  /\ Goto(c, after[c])
  /\ after' = [after EXCEPT ![c] = "unlock"]
  /\ UNCHANGED <<records, expired, session, processing, loop, order, rec, draft>>

-----------------------------------------------------------------------------
(* Time, the event-driven side and crashes *)

Expire(o) ==
  /\ o \notin expired
  /\ expired' = expired \cup {o}
  /\ UNCHANGED <<stores, session, processing, pc, loop, local>>

\* The key's TTL ends 24 hours after ExpiresAt; no poll lasts that long.
WorkflowKeyExpires(o) ==
  /\ o \in expired /\ workflow[o] # NoRecord
  /\ \A c \in Chats : order[c] # o /\ list[c][o] = NoRecord
  /\ Put(o, NoRecord)
  /\ UNCHANGED <<chatIndex, intents, orderIndex, expired, session, processing, pc, loop, local>>

\* The webhook handler or the worker saves an intent it has read.
EventOwnerSaves(r) ==
  /\ intents[r] # NoIntent
  /\ \E s \in EventStatus, k \in 0..MaxAttempts, b \in BOOLEAN :
       intents' = [intents EXCEPT ![r].status = s, ![r].retry = k, ![r].scheduled = b]
  /\ \/ UNCHANGED orderIndex
     \/ orderIndex' = [orderIndex EXCEPT ![intents[r].order] = r]
  /\ UNCHANGED <<records, expired, session, processing, pc, loop, local>>

\* The worker's Get and SaveIfState from PAYMENT_PENDING_EXTERNAL to PAID.  Its
\* copy may miss the last notification, a field nobody reads of a paid order.
WorkerConfirms(o) ==
  /\ StateIs(o, "PAYMENT_PENDING_EXTERNAL")
  /\ \E r \in Refs : intents[r] # NoIntent /\ intents[r].order = o
  /\ PutIndexed(o, [workflow[o] EXCEPT !.state = "PAID"])
  /\ UNCHANGED <<intents, orderIndex, expired, session, processing, pc, loop, local>>

\* The process dies: what Redis holds survives, locks, sessions and copies do not.
Crash ==
  /\ session' = [c \in Chats |-> "none"]
  /\ processing' = {}
  /\ pc' = [c \in Chats |-> "idle"]
  /\ phase' = [c \in Chats |-> "orders"]
  /\ todo' = [c \in Chats |-> {}]
  /\ seen' = [c \in Chats |-> {}]
  /\ list' = [c \in Chats |-> EmptyList]
  /\ order' = [c \in Chats |-> NoOrder]
  /\ rec' = [c \in Chats |-> NoRecord]
  /\ draft' = [c \in Chats |-> NoIntent]
  /\ after' = [c \in Chats |-> "unlock"]
  /\ UNCHANGED <<stores, expired>>

-----------------------------------------------------------------------------

Advance(c) ==
  \/ AdvanceExpired(c) \/ AdvanceDetected(c) \/ AdvanceFetching(c)
  \/ AdvanceRetrying(c) \/ AdvanceReady(c) \/ AdvanceNothing(c)

FetchDetail(c) ==
  \/ DetailFetched(c) \/ DetailFailed(c) \/ DetailRetry(c) \/ DetailTimedOut(c)

\* The steps of one goroutine that only touch its memory and Redis.
PollerLocal(c) ==
  \/ FetchPendingOrders(c) \/ ListByChat(c) \/ PollEnds(c) \/ UnlockOrder(c)
  \/ \E o \in Orders : ProcessPendingOrder(c, o) \/ ResumeWorkflowRecord(c, o)
  \/ LoadRecord(c) \/ NotifyState(c) \/ Advance(c) \/ AdvancePending(c)
  \/ FetchDetail(c) \/ CreateIntent(c) \/ CreateIntentFails(c) \/ SaveIntent(c)

PollerStep(c) == PollerLocal(c) \/ \E t \in TransferOutcome : AutoTransfer(c, t)

SessionStep(c) == Schedule(c) \/ SessionEnds(c) \/ TaskRemoved(c)

Time == \E o \in Orders : Expire(o) \/ WorkflowKeyExpires(o)

EventOwner ==
  \/ \E r \in Refs : EventOwnerSaves(r)
  \/ \E o \in Orders : WorkerConfirms(o)

Next ==
  \/ \E c \in Chats : PollerStep(c) \/ SessionStep(c)
  \/ Time \/ EventOwner \/ Crash

Spec == Init /\ [][Next]_vars

-----------------------------------------------------------------------------
(* Properties *)

Working == {"get", "advance", "fetch", "create_intent", "transfer",
            "save_intent", "notify", "unlock"}

TypeOK ==
  /\ workflow \in [Orders -> WfRecord \cup {NoRecord}]
  /\ chatIndex \in [Chats -> SUBSET Orders]
  /\ intents \in [Refs -> Intent \cup {NoIntent}]
  /\ orderIndex \in [Orders -> Refs \cup {NoRef}]
  /\ expired \subseteq Orders
  /\ session \in [Chats -> {"none", "running", "done"}]
  /\ processing \subseteq Orders
  /\ pc \in [Chats -> {"idle", "loop"} \cup Working]
  /\ phase \in [Chats -> {"orders", "resume"}]
  /\ todo \in [Chats -> SUBSET Orders]
  /\ seen \in [Chats -> SUBSET Orders]
  /\ list \in [Chats -> [Orders -> WfRecord \cup {NoRecord}]]
  /\ order \in [Chats -> Orders \cup {NoOrder}]
  /\ rec \in [Chats -> WfRecord \cup {NoRecord}]
  /\ draft \in [Chats -> Intent \cup {NoIntent}]
  /\ after \in [Chats -> {"advance", "notify", "unlock"}]

HasIntent(o) == \E r \in Refs : intents[r] # NoIntent /\ intents[r].order = o

\* An order gets at most one payment intent, hence one payment reference, in all
\* its life: initiatePayment draws a fresh reference every time it runs, so only
\* the order's lock, the compare-and-set of the handoff and the expiry check
\* keep a second chat, a stale listed record, a restart or a recreated record
\* from paying the same order under a second reference.
AtMostOneIntent ==
  \A r, s \in Refs :
    (intents[r] # NoIntent /\ intents[s] # NoIntent
       /\ intents[r].order = intents[s].order) => r = s

\* Whenever a transfer is about to be asked for, the beneficiary, bank and
\* account in the poller's copy of the order are those of a successful detail
\* fetch: transitionRecord replaces the copy by whatever it finds stored, and a
\* listed copy may be older than the fetch.
TransferHasDetails ==
  \A c \in Chats : pc[c] \in {"create_intent", "transfer"} => rec[c].detail

\* Once an order has been handed off to payment, no write of an older copy puts
\* its record back before the handoff; the record can only disappear, with its
\* key's TTL.  Every Save of the workflow store is unconditional and every copy
\* may be old.
HandoffIsNotUndone ==
  [][\A o \in Orders :
       (workflow[o] # NoRecord /\ workflow[o].state \in {"PAYMENT_PENDING_EXTERNAL", "PAID"})
         => (workflow'[o] = NoRecord \/ workflow'[o].state \in HandedOff)]_vars

\* A goroutine gives back the lock it takes: whatever handler ran, whichever
\* error it met, the order can be processed again.
LockIsReleased ==
  \A c \in Chats, o \in Orders : order[c] = o ~> order[c] # o

\* While the session of a chat keeps polling, every order in the chat's index
\* reaches a terminal state, whatever the exchange and Paystack answer (or its
\* key's TTL ends first: nothing obliges a key to go).  The index matters: a
\* record whose writer stopped before adding it there is only taken up again if
\* the exchange still lists the order.
OrderSettles ==
  \A c \in Chats, o \in Orders :
    [](workflow[o] # NoRecord /\ o \in chatIndex[c] /\ [](session[c] = "running")
       => <>(workflow[o] = NoRecord \/ IsTerminalOrderState(workflow[o].state)))

\* What the comment of stopIntentRetry (runtime.go:530) says: a terminal error halts
\* the retries, so an intent that failed with no retry time is not tried again.
\* Transient failures set one.  (Meant for a system whose webhook is silent.)
TerminalErrorHaltsRetries ==
  [][\A c \in Chats :
       (AdvancePending(c) /\ pc'[c] = "transfer")
         => ~(draft'[c].status = "TRANSFER_FAILED" /\ ~draft'[c].scheduled)]_vars

\* Fairness: the goroutine of a session keeps running (every HTTP client has a
\* timeout of at most 15 seconds, every Redis call one of 2 seconds), each order
\* of its loops is reached, and time passes.
Fairness ==
  /\ \A c \in Chats : WF_vars(PollerStep(c)) /\ WF_vars(TaskRemoved(c))
  /\ \A o \in Orders : WF_vars(Expire(o))

FairSpec == Spec /\ Fairness
=============================================================================
