----------------------- MODULE PaymentPipeline_proofs -----------------------
(***************************************************************************)
(* For any number of chats, orders, references and handlers, and whatever  *)
(* fails: the webhook handlers and the worker are an environment that      *)
(* TaskManager allows, so what is proved there of the pollers holds of the *)
(* whole process; the safety properties of the handlers and of the worker  *)
(* hold there too; an order is marked paid only when its money has moved;  *)
(* an order has at most one transfer; and each takes the one way of        *)
(* OrderLifecycle.                                                         *)
(***************************************************************************)
EXTENDS PaymentPipeline, FiniteSetTheorems, SequenceTheorems, TLAPS

TP == INSTANCE TaskManager_proofs WITH EventStatus <- IntentStatus, Faults <- "redis" \in Faults

(* The inductive invariant.  A claim that a transfer succeeded travels     *)
(* from a handler's copy of an intent to the store, from there to the      *)
(* worker's copy, to the exchange and into the order's record, with stale  *)
(* copies saved on the way.  IsCopy is what is true of each of them, and   *)
(* it stands as long as no intent is removed or given to another order.    *)

\* The statuses that say that the transfer succeeded.
Claims == {"TRANSFER_SUCCESS", "PROVIDER_MARKED_PAID", "PROVIDER_MARK_FAILED"}

Moved(r)  == transfer[r] \in {"success", "reversed"}
Exists(r) == r \in Refs /\ intents[r] # NoIntent
Earned(r) == Exists(r) /\ Moved(r)

\* i was read as the intent of r, some time ago.
IsCopy(i, r) ==
  /\ Exists(r)
  /\ i \in Intent /\ i.ref = r /\ i.order = intents[r].order
  /\ i.status \in Claims => Moved(r)

PollersInv == TP!IInv /\ TP!DraftInv

IntentsInv == \A r \in Refs : intents[r] # NoIntent => IsCopy(intents[r], r)

PaystackInv ==
  /\ transfer \in [Refs -> {"none", "pending", "success", "failed", "reversed"}]
  /\ \A r \in Refs : transfer[r] # "none" => Exists(r)
  /\ \A e \in events : Exists(e.ref)

WithCopy     == {"verify", "save_success", "enqueue", "save_last"}
HandlerPlace == {"idle", "mark", "load"} \cup WithCopy

AtPlace(h) ==
  /\ hpc[h] # "idle" => event[h] \in events
  /\ hpc[h] \in WithCopy => IsCopy(hcopy[h], event[h].ref)
  /\ hpc[h] \in {"save_success", "enqueue"} => Moved(event[h].ref)

HandlersInv ==
  /\ hpc \in [Handlers -> HandlerPlace]
  /\ event = [h \in Handlers |-> event[h]]
  /\ hcopy = [h \in Handlers |-> hcopy[h]]
  /\ \A h \in Handlers : AtPlace(h)

QueueInv ==
  /\ stream \in Seq(Refs) /\ \A i \in 1..Len(stream) : Earned(stream[i])
  /\ pending \in Seq(Refs) /\ \A i \in 1..Len(pending) : Earned(pending[i])
  /\ delayed \in [Refs -> Nat] /\ \A r \in Refs : delayed[r] > 0 => Earned(r)

\* The worker knows the intent from LoadIntent on.
Loaded == {"mark", "save", "confirm", "requeue", "deadletter", "ack"}

WorkerInv ==
  /\ wpc \in {"dequeue", "promote", "load"} \cup Loaded
  /\ wpc # "dequeue" => Earned(job)
  /\ wpc \in Loaded => IsCopy(copy, job)
  /\ wpc = "mark" => copy.status \in Claims
  /\ wpc \in {"save", "confirm"} => copy.order \in asked

\* The exchange was asked for orders whose money has moved.
AskedInv ==
  \A o \in asked : \E r \in Refs : Exists(r) /\ intents[r].order = o /\ Moved(r)

PaidInv == TP!PaidOnly(asked)

IInv ==
  /\ PollersInv /\ IntentsInv /\ PaystackInv /\ HandlersInv
  /\ QueueInv /\ WorkerInv /\ AskedInv /\ PaidInv

-----------------------------------------------------------------------------
(* What a step leaves alone *)

\* No intent goes away or changes hands, and money that has moved stays moved.
Grows ==
  \A r \in Refs :
    /\ intents[r] # NoIntent => intents'[r] # NoIntent /\ intents'[r].order = intents[r].order
    /\ Moved(r) => Moved(r)'

LEMMA IntentsFrame ==
  ASSUME IntentsInv, Grows, intents' = intents
  PROVE  IntentsInv'
BY DEF IntentsInv, IsCopy, Exists, Grows

LEMMA PaystackFrame ==
  ASSUME PaystackInv, Grows, UNCHANGED paystack
  PROVE  PaystackInv'
BY DEF PaystackInv, Exists, Grows, paystack

LEMMA HandlersFrame ==
  ASSUME HandlersInv, PaystackInv, Grows, events \subseteq events', UNCHANGED handlers
  PROVE  HandlersInv'
<1>1. \A h \in Handlers : AtPlace(h)'
  BY DEF HandlersInv, PaystackInv, AtPlace, IsCopy, Exists, Grows, handlers, WithCopy
<1> QED
  BY <1>1 DEF HandlersInv, handlers

LEMMA QueueFrame ==
  ASSUME QueueInv, Grows, UNCHANGED queue
  PROVE  QueueInv'
BY DEF QueueInv, Earned, Exists, Grows, queue

LEMMA WorkerFrame ==
  ASSUME WorkerInv, Grows, UNCHANGED worker
  PROVE  WorkerInv'
BY DEF WorkerInv, IsCopy, Earned, Exists, Grows, worker, Loaded

LEMMA AskedFrame ==
  ASSUME AskedInv, Grows, asked' = asked
  PROVE  AskedInv'
BY DEF AskedInv, Exists, Grows

\* Paystack alone, and the stores alone.
LEMMA SameGrows ==
  ASSUME intents' = intents, transfer' = transfer
  PROVE  Grows
BY DEF Grows, Moved

-----------------------------------------------------------------------------
(* What the stores are written with *)

\* The save of a copy of any age.
LEMMA CopySaved ==
  ASSUME IInv, NEW r, NEW i, IsCopy(i, r), intents' = [intents EXCEPT ![r] = i],
         transfer' = transfer
  PROVE  Grows /\ IntentsInv'
<1>1. \A s \in Refs : intents'[s] = IF s = r THEN i ELSE intents[s]
  BY DEF IInv, PollersInv, TP!IInv, TP!TypeOK
<1>2. r \in Refs /\ i # NoIntent
  BY NoneAssumption DEF IsCopy, Exists
<1> QED
  BY <1>1, <1>2 DEF IInv, IntentsInv, IsCopy, Exists, Grows, Moved

LEMMA IntentCreated ==
  ASSUME IInv, NEW r \in Refs, NEW o \in Orders, intents[r] = NoIntent,
         intents' = [intents EXCEPT ![r] = NewIntent(r, o)], transfer' = transfer
  PROVE  Grows /\ IntentsInv'
<1>1. \A s \in Refs : intents'[s] = IF s = r THEN NewIntent(r, o) ELSE intents[s]
  BY DEF IInv, PollersInv, TP!IInv, TP!TypeOK
<1>2. NewIntent(r, o) \in Intent /\ NewIntent(r, o).status \notin Claims /\ NewIntent(r, o).ref = r
  BY MaxAttemptsAssumption DEF NewIntent, Intent, IntentStatus, Claims
<1> QED
  BY <1>1, <1>2, NoneAssumption DEF IInv, IntentsInv, IsCopy, Exists, Grows, Moved

\* The queue's keys only grow by jobs of intents that exist.
LEMMA Enqueued ==
  ASSUME QueueInv, Grows, NEW r, Earned(r), Enqueue(r)
  PROVE  QueueInv'
<1>1. stream' = Append(stream, r) /\ UNCHANGED <<pending, delayed>>
  BY DEF Enqueue
<1>2. stream' \in Seq(Refs) /\ \A i \in 1..Len(stream') : Earned(stream'[i])
  BY <1>1 DEF QueueInv, Earned, Exists
<1> QED
  BY <1>1, <1>2 DEF QueueInv, Earned, Exists, Grows

-----------------------------------------------------------------------------
(* The webhook handlers *)

\* A handler that moves on, to a place where it knows what it should.
LEMMA HandlerMoves ==
  ASSUME HandlersInv, PaystackInv, Grows, events' = events, NEW h \in Handlers,
         NEW l \in HandlerPlace, hpc' = [hpc EXCEPT ![h] = l],
         event' = event \/ \E e : event' = [event EXCEPT ![h] = e],
         hcopy' = hcopy \/ \E i : hcopy' = [hcopy EXCEPT ![h] = i],
         AtPlace(h)'
  PROVE  HandlersInv'
<1>1. /\ hpc' \in [Handlers -> HandlerPlace]
      /\ event' = [g \in Handlers |-> event'[g]]
      /\ hcopy' = [g \in Handlers |-> hcopy'[g]]
      /\ \A g \in Handlers \ {h} :
           hpc'[g] = hpc[g] /\ event'[g] = event[g] /\ hcopy'[g] = hcopy[g]
  BY DEF HandlersInv
<1>2. \A g \in Handlers : AtPlace(g)'
  BY <1>1 DEF HandlersInv, PaystackInv, AtPlace, IsCopy, Exists, Grows, WithCopy
<1> QED
  BY <1>1, <1>2 DEF HandlersInv

\* A handler that answers: it knows nothing any more.
LEMMA HandlerAnswers ==
  ASSUME HandlersInv, PaystackInv, Grows, events' = events, NEW h \in Handlers,
         NEW s, H!Answer(h, s)
  PROVE  HandlersInv'
<1>1. /\ hpc' = [hpc EXCEPT ![h] = "idle"]
      /\ event' = [event EXCEPT ![h] = NoEvent]
      /\ hcopy' = [hcopy EXCEPT ![h] = NoIntent]
  BY DEF H!Answer, H!Goto
<1>2. AtPlace(h)'
  BY <1>1 DEF AtPlace, HandlersInv, WithCopy
<1>3. "idle" \in HandlerPlace
  BY DEF HandlerPlace
<1> QED
  BY <1>1, <1>2, <1>3, HandlerMoves

\* The copies that a handler makes are copies.
LEMMA StatusOfCopy ==
  ASSUME NEW i, NEW r, IsCopy(i, r), NEW s \in IntentStatus, s \in Claims => Moved(r)
  PROVE  IsCopy([i EXCEPT !.status = s], r)
BY DEF IsCopy, Intent

\* An intent whose status, count and retry time are written over.
Rewritten(i, s, k, b) == [i EXCEPT !.status = s, !.retry = k, !.scheduled = b]

LEMMA RewrittenIntent ==
  ASSUME NEW i \in Intent, NEW s \in IntentStatus, NEW k \in 0..MaxAttempts, NEW b \in BOOLEAN
  PROVE  /\ Rewritten(i, s, k, b) \in Intent
         /\ Rewritten(i, s, k, b).ref = i.ref /\ Rewritten(i, s, k, b).order = i.order
         /\ Rewritten(i, s, k, b).status = s
<1> DEFINE p == [i EXCEPT !.status = s]
           q == [p EXCEPT !.retry = k]
<1>1. p \in Intent /\ p.ref = i.ref /\ p.order = i.order /\ p.status = s
  BY DEF Intent
<1> HIDE DEF p
<1>2. q \in Intent /\ q.ref = i.ref /\ q.order = i.order /\ q.status = s
  BY <1>1 DEF Intent
<1> HIDE DEF q
<1>3. /\ [q EXCEPT !.scheduled = b] \in Intent /\ [q EXCEPT !.scheduled = b].ref = i.ref
      /\ [q EXCEPT !.scheduled = b].order = i.order /\ [q EXCEPT !.scheduled = b].status = s
  BY <1>2 DEF Intent
<1> QED
  BY <1>3 DEF Rewritten, p, q

\* What a step of a handler does to the parts that it may touch.
HandlerKeeps == Grows /\ IntentsInv' /\ PaystackInv' /\ HandlersInv' /\ QueueInv'

\* A step on the way to the copy, which writes nothing but an event's key.
LEMMA HandlerReads ==
  ASSUME IInv, NEW h \in Handlers,
         \/ H!MarkWebhookProcessed(h) \/ H!LoadFails(h) \/ H!LoadSuccess(h)
         \/ H!LoadLateFailure(h) \/ H!LoadFailure(h) \/ H!Verified(h) \/ H!NotVerified(h)
  PROVE  HandlerKeeps
<1>1. UNCHANGED <<stores, queue, paystack>>
  BY DEF H!MarkWebhookProcessed, H!LoadFails, H!LoadSuccess, H!LoadLateFailure, H!LoadFailure,
     H!Verified, H!NotVerified, H!stores, H!records, H!queue, H!paystack,
     stores, records, queue, paystack
<1>2. Grows
  BY <1>1, SameGrows DEF stores, paystack
<1>3. /\ IntentsInv' /\ PaystackInv' /\ QueueInv' /\ events' = events
      /\ \A r : Exists(r)' <=> Exists(r)
      /\ \A i, r : IsCopy(i, r) => r \in Refs /\ intents'[r] # NoIntent
  BY <1>1, <1>2, IntentsFrame, PaystackFrame, QueueFrame
     DEF IInv, stores, paystack, Exists, IsCopy
<1>4. ASSUME NEW s, H!Answer(h, s)
      PROVE  HandlersInv'
  BY <1>2, <1>3, <1>4, HandlerAnswers DEF IInv
<1>5. ASSUME NEW l \in {"load", "verify", "save_success", "save_last"}, H!Goto(h, l), event' = event,
             hpc[h] # "idle",
             \/ l = "load" /\ hcopy' = hcopy
             \/ \E i : /\ hcopy' = [hcopy EXCEPT ![h] = i]
                       /\ IsCopy(i, event[h].ref)
                       /\ l = "save_success" => Moved(event[h].ref)
             \/ hcopy' = hcopy /\ l # "save_success" /\ IsCopy(hcopy[h], event[h].ref)
      PROVE  HandlersInv'
  <2>1. hpc' = [hpc EXCEPT ![h] = l] /\ l \in HandlerPlace
    BY <1>5 DEF H!Goto, HandlerPlace, WithCopy
  <2>2. hpc'[h] = l
    BY <2>1 DEF IInv, HandlersInv
  <2>3. l = "load" \/ IsCopy(hcopy'[h], event[h].ref)
    BY <1>5 DEF IInv, HandlersInv
  <2>4. l = "save_success" => Moved(event[h].ref)
    BY <1>5
  <2>5. AtPlace(h)'
    BY <1>1, <1>3, <1>5, <2>2, <2>3, <2>4
       DEF AtPlace, IInv, HandlersInv, IsCopy, Exists, Moved, WithCopy, stores, paystack
  <2> QED
    BY <1>2, <1>3, <1>5, <2>1, <2>5, HandlerMoves DEF IInv
<1>6. hpc[h] # "idle" => event[h] \in events /\ Exists(event[h].ref)
                         /\ IsCopy(intents[event[h].ref], event[h].ref)
  BY DEF IInv, HandlersInv, AtPlace, PaystackInv, IntentsInv, Exists
<1>7. CASE H!MarkWebhookProcessed(h)
  BY <1>2, <1>3, <1>4, <1>5, <1>7 DEF H!MarkWebhookProcessed, HandlerKeeps
<1>8. CASE H!LoadFails(h) \/ H!LoadLateFailure(h)
  BY <1>2, <1>3, <1>4, <1>8 DEF H!LoadFails, H!LoadLateFailure, HandlerKeeps
<1>9. CASE H!LoadSuccess(h)
  BY <1>2, <1>3, <1>5, <1>6, <1>9 DEF H!LoadSuccess, HandlerKeeps
<1>10. CASE H!LoadFailure(h)
  <2>1. IsCopy([intents[event[h].ref] EXCEPT !.status = "TRANSFER_FAILED"], event[h].ref)
    BY <1>6, <1>10, StatusOfCopy DEF H!LoadFailure, IntentStatus, Claims
  <2> QED
    BY <1>2, <1>3, <1>5, <1>10, <2>1 DEF H!LoadFailure, HandlerKeeps
<1>11. CASE H!Verified(h)
  <2>1. Moved(event[h].ref) /\ IsCopy(hcopy[h], event[h].ref)
    BY <1>11 DEF H!Verified, Moved, IInv, HandlersInv, AtPlace, WithCopy
  <2>2. IsCopy([hcopy[h] EXCEPT !.status = "TRANSFER_SUCCESS"], event[h].ref)
    BY <2>1, StatusOfCopy DEF IntentStatus
  <2>3. hcopy' = [hcopy EXCEPT ![h] = [hcopy[h] EXCEPT !.status = "TRANSFER_SUCCESS"]]
    BY <1>11 DEF H!Verified
  <2> QED
    BY <1>2, <1>3, <1>5, <1>11, <2>1, <2>2, <2>3 DEF H!Verified, HandlerKeeps
<1>12. CASE H!NotVerified(h)
  <2>1. IsCopy(hcopy[h], event[h].ref)
    BY <1>12 DEF H!NotVerified, IInv, HandlersInv, AtPlace, WithCopy
  <2> QED
    BY <1>2, <1>3, <1>5, <1>12, <2>1 DEF H!NotVerified, HandlerKeeps
<1> QED
  BY <1>7, <1>8, <1>9, <1>10, <1>11, <1>12

\* The save of a handler's copy, as far as it comes.
LEMMA HandlerSaves ==
  ASSUME IInv, NEW h \in Handlers, H!SaveSuccess(h) \/ H!SaveLast(h)
  PROVE  /\ HandlerKeeps
         /\ UNCHANGED records
         /\ \/ UNCHANGED <<intents, orderIndex>>
            \/ /\ IsCopy(hcopy[h], event[h].ref)
               /\ intents' = [intents EXCEPT ![event[h].ref] = hcopy[h]]
               /\ \/ orderIndex' = orderIndex
                  \/ orderIndex' = [orderIndex EXCEPT ![hcopy[h].order] = event[h].ref]
<1>1. /\ IsCopy(hcopy[h], event[h].ref)
      /\ hpc[h] = "save_success" => Moved(event[h].ref)
      /\ hpc[h] # "idle"
  BY DEF H!SaveSuccess, H!SaveLast, IInv, HandlersInv, AtPlace, WithCopy
<1>2. UNCHANGED <<records, queue, paystack>> /\ events' = events
  BY DEF H!SaveSuccess, H!SaveLast, H!records, H!queue, H!paystack, records, queue, paystack
<1>3. \/ UNCHANGED <<intents, orderIndex>>
      \/ /\ intents' = [intents EXCEPT ![event[h].ref] = hcopy[h]]
         /\ \/ orderIndex' = orderIndex
            \/ orderIndex' = [orderIndex EXCEPT ![hcopy[h].order] = event[h].ref]
  BY <1>1 DEF H!SaveSuccess, H!SaveLast, H!SaveSucceeds, H!SaveFails, H!SaveIntentKeys,
     H!PutIntent, IsCopy
<1>4. Grows /\ IntentsInv'
  <2>1. CASE UNCHANGED <<intents, orderIndex>>
    BY <1>2, <2>1, SameGrows, IntentsFrame DEF paystack, IInv
  <2>2. CASE intents' = [intents EXCEPT ![event[h].ref] = hcopy[h]]
    BY <1>1, <1>2, <2>2, CopySaved DEF paystack
  <2> QED
    BY <1>3, <2>1, <2>2
<1>5. PaystackInv' /\ QueueInv'
  BY <1>2, <1>4, PaystackFrame, QueueFrame DEF IInv
<1>6. HandlersInv'
  <2>1. ASSUME NEW s, H!Answer(h, s)
        PROVE  HandlersInv'
    BY <1>2, <1>4, <2>1, HandlerAnswers DEF IInv
  <2>2. CASE /\ hpc[h] = "save_success" /\ H!Goto(h, "enqueue") /\ UNCHANGED <<event, hcopy>>
    <3>1. hpc' = [hpc EXCEPT ![h] = "enqueue"] /\ "enqueue" \in HandlerPlace
      BY <2>2 DEF H!Goto, HandlerPlace, WithCopy
    <3>2. event[h] \in events
      BY <1>1 DEF IInv, HandlersInv, AtPlace
    <3>3. AtPlace(h)'
      BY <1>1, <1>2, <1>4, <2>2, <3>1, <3>2 DEF AtPlace, IsCopy, Exists, Grows, WithCopy
    <3> QED
      BY <1>2, <1>4, <2>2, <3>1, <3>3, HandlerMoves DEF IInv
  <2> QED
    BY <2>1, <2>2 DEF H!SaveSuccess, H!SaveLast
<1> QED
  BY <1>1, <1>2, <1>3, <1>4, <1>5, <1>6 DEF HandlerKeeps

\* The handler's job, and what it does when the queue fails.
LEMMA HandlerEnqueues ==
  ASSUME IInv, NEW h \in Handlers, H!EnqueueJob(h) \/ H!EnqueueFails(h)
  PROVE  HandlerKeeps /\ UNCHANGED stores
<1>1. /\ IsCopy(hcopy[h], event[h].ref) /\ Moved(event[h].ref)
      /\ event[h] \in events /\ Exists(event[h].ref)
  BY DEF H!EnqueueJob, H!EnqueueFails, IInv, HandlersInv, AtPlace, WithCopy, IsCopy
<1>2. UNCHANGED <<stores, paystack>> /\ events' = events
  BY DEF H!EnqueueJob, H!EnqueueFails, H!stores, H!records, H!paystack, stores, records, paystack
<1>3. Grows
  BY <1>2, SameGrows DEF stores, paystack
<1>4. IntentsInv' /\ PaystackInv'
  BY <1>2, <1>3, IntentsFrame, PaystackFrame DEF IInv, stores
<1>5. QueueInv'
  <2>1. UNCHANGED queue \/ Enqueue(event[h].ref)
    BY DEF H!EnqueueJob, H!EnqueueFails, H!queue, H!Enqueue, queue, Enqueue
  <2> QED
    BY <1>1, <1>3, <2>1, QueueFrame, Enqueued DEF IInv, Earned
<1>6. CASE H!EnqueueJob(h)
  BY <1>2, <1>3, <1>4, <1>5, <1>6, HandlerAnswers DEF H!EnqueueJob, HandlerKeeps, IInv
<1>7. CASE H!EnqueueFails(h)
  <2> DEFINE i == Rewritten(hcopy[h], "PROVIDER_MARK_FAILED", 1, TRUE)
  <2>1. i \in Intent /\ i.ref = hcopy[h].ref /\ i.order = hcopy[h].order
    <3>1. /\ TRUE \in BOOLEAN /\ 1 \in 0..MaxAttempts
          /\ "PROVIDER_MARK_FAILED" \in IntentStatus /\ hcopy[h] \in Intent
      BY <1>1, MaxAttemptsAssumption DEF IsCopy, IntentStatus
    <3> QED
      BY <3>1, RewrittenIntent
  <2>2. hcopy' = [hcopy EXCEPT ![h] = i] /\ event' = event /\ hpc' = [hpc EXCEPT ![h] = "save_last"]
    BY <1>7 DEF H!EnqueueFails, H!Goto, Rewritten
  <2> HIDE DEF i
  <2>3. hpc'[h] = "save_last" /\ hcopy'[h] = i
    BY <2>2 DEF IInv, HandlersInv
  <2>4. AtPlace(h)'
    BY <1>1, <1>2, <1>3, <2>1, <2>2, <2>3 DEF AtPlace, IsCopy, Exists, Grows, WithCopy
  <2>5. "save_last" \in HandlerPlace
    BY DEF HandlerPlace, WithCopy
  <2> QED
    BY <1>2, <1>3, <1>4, <1>5, <2>2, <2>4, <2>5, HandlerMoves DEF IInv, HandlerKeeps
<1> QED
  BY <1>2, <1>6, <1>7

-----------------------------------------------------------------------------
(* The worker *)

\* What a step of the worker does to the parts that it may touch.
WorkerKeeps == Grows /\ IntentsInv' /\ QueueInv' /\ WorkerInv' /\ AskedInv'

\* Back in Run's loop the worker has nothing in hand.
LEMMA WorkerIdle ==
  ASSUME W!NextMessage
  PROVE  WorkerInv'
BY DEF W!NextMessage, WorkerInv, Loaded

\* It goes on with the intent it has, once the exchange has been asked.
LEMMA WorkerGoesOn ==
  ASSUME WorkerInv, Grows, wpc \in Loaded, wpc' \in Loaded \ {"mark", "save"},
         UNCHANGED <<job, copy, asked>>, wpc' = "confirm" => wpc = "save"
  PROVE  WorkerInv'
BY DEF WorkerInv, IsCopy, Earned, Exists, Grows, Loaded

\* Dequeue: a job is moved, or read.
LEMMA WorkerDequeues ==
  ASSUME IInv, (\E r \in Refs : W!PromoteDue(r)) \/ W!PromoteJob \/ W!ReadGroup,
         UNCHANGED paystack
  PROVE  WorkerKeeps /\ UNCHANGED stores
<1>1. UNCHANGED <<stores, asked, transfer>>
  BY DEF W!PromoteDue, W!PromoteJob, W!ReadGroup, W!stores, W!records, W!bybit, stores, records,
     paystack
<1>2. Grows
  BY <1>1, SameGrows DEF stores
<1>3. IntentsInv' /\ AskedInv' /\ \A r : Earned(r)' <=> Earned(r)
  BY <1>1, <1>2, IntentsFrame, AskedFrame DEF IInv, stores, Earned, Exists, Moved
<1>4. ASSUME NEW r \in Refs, W!PromoteDue(r)
      PROVE  QueueInv' /\ WorkerInv'
  <2>1. /\ delayed[r] > 0 /\ UNCHANGED <<stream, pending>>
        /\ delayed' = [delayed EXCEPT ![r] = @ - 1]
    BY <1>4 DEF W!PromoteDue, W!RemoveDelayed
  <2>2. QueueInv'
    BY <1>3, <2>1 DEF IInv, QueueInv
  <2>3. Earned(r)
    BY <2>1 DEF IInv, QueueInv
  <2>4. CASE W!NextMessage
    BY <2>2, <2>4, WorkerIdle
  <2>5. CASE wpc' = "promote" /\ job' = r
    BY <1>3, <2>2, <2>3, <2>5 DEF WorkerInv, Loaded
  <2> QED
    BY <1>4, <2>2, <2>4, <2>5 DEF W!PromoteDue, W!Fails
<1>5. ASSUME W!PromoteJob
      PROVE  QueueInv' /\ WorkerInv'
  <2>1. W!NextMessage /\ (UNCHANGED queue \/ Enqueue(job)) /\ Earned(job)
    BY <1>5 DEF W!PromoteJob, W!Fails, W!queue, W!Enqueue, queue, Enqueue, IInv, WorkerInv
  <2> QED
    BY <1>2, <2>1, WorkerIdle, QueueFrame, Enqueued DEF IInv
<1>6. ASSUME W!ReadGroup
      PROVE  QueueInv' /\ WorkerInv'
  <2>1. CASE pending # <<>> /\ job' = Head(pending) /\ wpc' = "load" /\ UNCHANGED queue
    <3>1. Earned(Head(pending))
      BY <2>1 DEF IInv, QueueInv
    <3> QED
      BY <1>2, <1>3, <2>1, <3>1, QueueFrame DEF IInv, WorkerInv, Loaded
  <2>2. CASE /\ pending = <<>> /\ stream # <<>> /\ W!Deliver
             /\ (job' = Head(stream) /\ wpc' = "load") \/ W!NextMessage
    <3>1. /\ stream' = Tail(stream) /\ pending' = Append(pending, Head(stream))
          /\ delayed' = delayed
      BY <2>2 DEF W!Deliver
    <3>2. Earned(Head(stream)) /\ Head(stream) \in Refs
      BY <2>2 DEF IInv, QueueInv, Earned, Exists
    <3>3. stream' \in Seq(Refs) /\ \A i \in 1..Len(stream') : Earned(stream'[i])
      <4>1. stream \in Seq(Refs) /\ Len(stream) > 0 /\ \A i \in 1..Len(stream) : Earned(stream[i])
        BY <2>2 DEF IInv, QueueInv
      <4>2. /\ stream' \in Seq(Refs) /\ Len(stream') = Len(stream) - 1
            /\ \A i \in 1..Len(stream') : stream'[i] = stream[i + 1]
        BY <3>1, <4>1
      <4> QED
        BY <4>1, <4>2
    <3>4. pending' \in Seq(Refs) /\ \A i \in 1..Len(pending') : Earned(pending'[i])
      BY <2>2, <3>1, <3>2 DEF IInv, QueueInv
    <3>5. QueueInv'
      BY <1>3, <3>1, <3>3, <3>4 DEF IInv, QueueInv
    <3>6. WorkerInv'
      BY <1>3, <2>2, <3>2, WorkerIdle DEF WorkerInv, Loaded
    <3> QED
      BY <3>5, <3>6
  <2> QED
    BY <1>6, <2>1, <2>2 DEF W!ReadGroup, W!queue, queue, W!Fails
<1> QED
  BY <1>1, <1>2, <1>3, <1>4, <1>5, <1>6 DEF WorkerKeeps

\* The intent is read, and the exchange is asked.
LEMMA WorkerMarks ==
  ASSUME IInv, W!LoadIntent \/ \E answered \in BOOLEAN : W!MarkOrderPaid(answered),
         UNCHANGED paystack
  PROVE  WorkerKeeps /\ UNCHANGED stores
<1>1. UNCHANGED <<stores, queue, transfer>>
  BY DEF W!LoadIntent, W!MarkOrderPaid, W!stores, W!records, W!queue, stores, records, queue,
     paystack
<1>2. Grows
  BY <1>1, SameGrows DEF stores
<1>3. IntentsInv' /\ QueueInv' /\ \A r : Earned(r)' <=> Earned(r)
  BY <1>1, <1>2, IntentsFrame, QueueFrame DEF IInv, stores, Earned, Exists, Moved
<1>4. CASE W!LoadIntent
  <2>1. wpc = "load" /\ asked' = asked /\ Earned(job) /\ IsCopy(intents[job], job)
    BY <1>4 DEF W!LoadIntent, W!bybit, IInv, WorkerInv, IntentsInv, Earned, Exists
  <2>2. ASSUME W!NextMessage
        PROVE  WorkerInv'
    BY <2>2, WorkerIdle
  <2>3. ASSUME /\ copy' = intents[job] /\ job' = job
               /\ wpc' = IF intents[job].status \in W!Markable THEN "mark" ELSE "ack"
        PROVE  WorkerInv'
    <3>1. /\ wpc' \in {"mark", "ack"}
          /\ wpc' = "mark" => copy'.status \in Claims
      BY <2>3 DEF W!Markable, Claims
    <3>2. IsCopy(copy, job)' /\ Earned(job)'
      BY <1>1, <2>1, <2>3 DEF IsCopy, Earned, Exists, Moved, stores
    <3> QED
      BY <3>1, <3>2 DEF WorkerInv, Loaded
  <2> QED
    BY <1>1, <1>2, <1>3, <1>4, <2>1, <2>2, <2>3, AskedFrame
       DEF W!LoadIntent, W!Fails, WorkerKeeps, IInv
<1>5. ASSUME NEW answered \in BOOLEAN, W!MarkOrderPaid(answered)
      PROVE  WorkerKeeps
  <2>1. /\ wpc' = "save" /\ job' = job /\ asked' = asked \cup {copy.order}
        /\ copy' = W!MarkPaid(copy) \/ copy' = W!MarkFailed(copy)
    BY <1>5 DEF W!MarkOrderPaid
  <2>2. IsCopy(copy, job) /\ Moved(job) /\ Exists(job) /\ copy \in Intent
    BY <1>5 DEF W!MarkOrderPaid, IInv, WorkerInv, Loaded, IsCopy, Earned
  <2>3. copy' \in Intent /\ copy'.ref = copy.ref /\ copy'.order = copy.order
    <3>1. PICK s \in IntentStatus, k \in 0..MaxAttempts, b \in BOOLEAN : copy' = Rewritten(copy, s, k, b)
      <4>1. CASE copy' = W!MarkPaid(copy)
        <5>1. copy' = Rewritten(copy, "PROVIDER_MARKED_PAID", 0, FALSE)
          BY <4>1 DEF W!MarkPaid, Rewritten
        <5>2. 0 \in 0..MaxAttempts /\ "PROVIDER_MARKED_PAID" \in IntentStatus /\ FALSE \in BOOLEAN
          BY MaxAttemptsAssumption DEF IntentStatus
        <5> QED
          BY <5>1, <5>2
      <4>2. CASE copy' = W!MarkFailed(copy)
        <5> DEFINE k == W!Bump(copy.retry)
                   b == ~W!IsExhausted(k)
        <5>1. copy' = [copy EXCEPT !.status = "PROVIDER_MARK_FAILED", !.retry = k, !.scheduled = b]
          BY <4>2 DEF W!MarkFailed
        <5>2. k \in 0..MaxAttempts /\ b \in BOOLEAN
          BY <2>2, MaxAttemptsAssumption DEF Intent, W!Bump, W!IsExhausted
        <5> HIDE DEF k, b
        <5>3. copy' = Rewritten(copy, "PROVIDER_MARK_FAILED", k, b)
          BY <5>1 DEF Rewritten
        <5> QED
          BY <5>2, <5>3 DEF IntentStatus
      <4> QED
        BY <2>1, <4>1, <4>2
    <3> QED
      BY <2>2, <3>1, RewrittenIntent
  <2>4. WorkerInv'
    BY <1>1, <2>1, <2>2, <2>3 DEF WorkerInv, IsCopy, Earned, Exists, Moved, Loaded, stores
  <2>5. AskedInv'
    <3>1. \A o \in asked : \E r \in Refs : Exists(r) /\ intents[r].order = o /\ Moved(r)
      BY DEF IInv, AskedInv
    <3>2. job \in Refs /\ intents[job].order = copy.order
      BY <2>2 DEF IsCopy, Exists
    <3>3. \A o \in asked' : \E r \in Refs : Exists(r) /\ intents[r].order = o /\ Moved(r)
      BY <2>1, <2>2, <3>1, <3>2
    <3> QED
      BY <1>1, <3>3 DEF AskedInv, Exists, Moved, stores
  <2> QED
    BY <1>2, <1>3, <2>4, <2>5 DEF WorkerKeeps
<1> QED
  BY <1>1, <1>4, <1>5

\* The outcome is saved, as far as the save comes.
LEMMA WorkerSaves ==
  ASSUME IInv, W!SaveIntent, UNCHANGED paystack
  PROVE  /\ WorkerKeeps
         /\ UNCHANGED records
         /\ \/ UNCHANGED <<intents, orderIndex>>
            \/ /\ IsCopy(copy, job)
               /\ intents' = [intents EXCEPT ![job] = copy]
               /\ \/ orderIndex' = orderIndex
                  \/ orderIndex' = [orderIndex EXCEPT ![copy.order] = job]
<1>1. /\ IsCopy(copy, job) /\ UNCHANGED <<records, queue, asked, transfer>> /\ wpc = "save"
  BY DEF W!SaveIntent, W!records, W!queue, W!bybit, records, queue, paystack, IInv, WorkerInv, Loaded
<1>2. \/ UNCHANGED <<intents, orderIndex>>
      \/ /\ intents' = [intents EXCEPT ![job] = copy]
         /\ \/ orderIndex' = orderIndex
            \/ orderIndex' = [orderIndex EXCEPT ![copy.order] = job]
  BY <1>1 DEF W!SaveIntent, W!SaveIntentKeys, W!PutIntent, IsCopy
<1>3. Grows /\ IntentsInv'
  <2>1. CASE UNCHANGED <<intents, orderIndex>>
    BY <1>1, <2>1, SameGrows, IntentsFrame DEF IInv
  <2>2. CASE intents' = [intents EXCEPT ![job] = copy]
    BY <1>1, <2>2, CopySaved
  <2> QED
    BY <1>2, <2>1, <2>2
<1>4. QueueInv' /\ AskedInv'
  BY <1>1, <1>3, QueueFrame, AskedFrame DEF IInv
<1>5. WorkerInv'
  <2>1. CASE W!NextMessage
    BY <2>1, WorkerIdle
  <2>2. CASE wpc' = W!AfterSave /\ UNCHANGED <<job, copy>>
    BY <1>1, <1>3, <2>2, WorkerGoesOn DEF W!AfterSave, Loaded, IInv
  <2> QED
    BY <2>1, <2>2 DEF W!SaveIntent, W!Fails
<1> QED
  BY <1>1, <1>2, <1>3, <1>4, <1>5 DEF WorkerKeeps

\* The job is requeued, dead-lettered or acknowledged.
LEMMA WorkerConcludes ==
  ASSUME IInv, W!RequeueJob \/ W!DeadLetterJob \/ W!AckMessage, UNCHANGED paystack
  PROVE  WorkerKeeps /\ UNCHANGED stores
<1>1. /\ UNCHANGED <<stores, asked, transfer>> /\ wpc \in {"requeue", "deadletter", "ack"}
      /\ IsCopy(copy, job) /\ Earned(job)
  BY DEF W!RequeueJob, W!DeadLetterJob, W!AckMessage, W!stores, W!records, W!bybit,
     stores, records, paystack, IInv, WorkerInv, Loaded
<1>2. Grows
  BY <1>1, SameGrows DEF stores
<1>3. IntentsInv' /\ AskedInv' /\ \A r : Earned(r)' <=> Earned(r)
  BY <1>1, <1>2, IntentsFrame, AskedFrame DEF IInv, stores, Earned, Exists, Moved
<1>4. QueueInv'
  <2>1. CASE UNCHANGED queue
    BY <1>2, <2>1, QueueFrame DEF IInv
  <2>2. CASE /\ UNCHANGED <<stream, pending>>
             /\ delayed' = delayed \/ delayed' = [delayed EXCEPT ![job] = @ + 1]
    <3>1. job \in Refs /\ delayed \in [Refs -> Nat] /\ \A r \in Refs : delayed[r] > 0 => Earned(r)
      BY <1>1 DEF Earned, Exists, IInv, QueueInv
    <3>2. /\ delayed' \in [Refs -> Nat]
          /\ \A r \in Refs : r = job \/ delayed'[r] = delayed[r]
      BY <2>2, <3>1
    <3>3. \A r \in Refs : delayed'[r] > 0 => Earned(r)
      BY <1>1, <3>1, <3>2
    <3> QED
      BY <1>3, <2>2, <3>2, <3>3 DEF IInv, QueueInv
  <2>3. CASE pending' = Tail(pending) /\ UNCHANGED <<stream, delayed>>
    <3>1. pending' \in Seq(Refs) /\ \A i \in 1..Len(pending') : Earned(pending'[i])
      <4>1. CASE pending = <<>>
        BY <2>3, <4>1 DEF IInv, QueueInv
      <4>2. CASE pending # <<>>
        <5>1. pending \in Seq(Refs) /\ Len(pending) > 0 /\ \A i \in 1..Len(pending) : Earned(pending[i])
          BY <4>2 DEF IInv, QueueInv
        <5>2. /\ pending' \in Seq(Refs) /\ Len(pending') = Len(pending) - 1
              /\ \A i \in 1..Len(pending') : pending'[i] = pending[i + 1]
          BY <2>3, <5>1
        <5> QED
          BY <5>1, <5>2
      <4> QED
        BY <4>1, <4>2
    <3> QED
      BY <1>3, <2>3, <3>1 DEF IInv, QueueInv
  <2> QED
    BY <2>1, <2>2, <2>3 DEF W!RequeueJob, W!DeadLetterJob, W!AckMessage, W!Calls, W!Requeue,
       W!DeadLetter, W!Ack, W!queue, queue
<1>5. WorkerInv'
  <2>1. CASE W!NextMessage
    BY <2>1, WorkerIdle
  <2>2. CASE wpc' = "ack" /\ UNCHANGED <<job, copy>>
    BY <1>1, <1>2, <2>2, WorkerGoesOn DEF Loaded, IInv
  <2> QED
    BY <2>1, <2>2 DEF W!RequeueJob, W!DeadLetterJob, W!AckMessage, W!Calls, W!Fails
<1> QED
  BY <1>1, <1>2, <1>3, <1>4, <1>5 DEF WorkerKeeps

\* The workflow is told, which TaskManager allows, of an order that was asked for.
LEMMA WorkerTells ==
  ASSUME IInv, W!ConfirmPayment, UNCHANGED <<pollers, paystack>>
  PROVE  /\ WorkerKeeps
         /\ copy.order \in Orders /\ copy.order \in asked /\ asked' = asked
         /\ UNCHANGED stores \/ TP!WorkerConfirms(copy.order)
<1>1. /\ UNCHANGED <<intents, orderIndex, queue, asked, transfer>> /\ wpc = "confirm"
      /\ IsCopy(copy, job) /\ copy.order \in asked /\ copy \in Intent
  BY DEF W!ConfirmPayment, W!queue, W!bybit, queue, paystack, IInv, WorkerInv, Loaded, IsCopy
<1>2. Grows
  BY <1>1, SameGrows
<1>3. IntentsInv' /\ AskedInv' /\ QueueInv'
  BY <1>1, <1>2, IntentsFrame, AskedFrame, QueueFrame DEF IInv
<1>4. WorkerInv'
  <2>1. CASE W!NextMessage
    BY <2>1, WorkerIdle
  <2>2. CASE wpc' = "ack" /\ UNCHANGED <<job, copy>>
    BY <1>1, <1>2, <2>2, WorkerGoesOn DEF Loaded, IInv
  <2> QED
    BY <2>1, <2>2 DEF W!ConfirmPayment, W!Calls, W!Fails
<1>5. copy.order \in Orders
  BY <1>1 DEF Intent
<1>6. UNCHANGED stores \/ TP!WorkerConfirms(copy.order)
  <2> DEFINE o == copy.order
  <2>1. CASE UNCHANGED records
    BY <1>1, <2>1 DEF stores, records
  <2>2. ASSUME W!StateIs(o, "PAYMENT_PENDING_EXTERNAL"),
               W!PutIndexed(o, W!After(workflow[o], "PAYMENT_CONFIRMED"))
        PROVE  TP!WorkerConfirms(o)
    <3>1. workflow[o] # NoRecord /\ workflow[o].state = "PAYMENT_PENDING_EXTERNAL"
      BY <2>2 DEF W!StateIs
    <3>2. W!ApplyOrderEvent("PAYMENT_PENDING_EXTERNAL", "PAYMENT_CONFIRMED") = "PAID"
      BY SMT DEF W!ApplyOrderEvent, W!OrderTransitions, W!OrderState, W!Resumable, W!Terminal
    <3>3. W!After(workflow[o], "PAYMENT_CONFIRMED") = [workflow[o] EXCEPT !.state = "PAID"]
      BY <3>1, <3>2 DEF W!After
    <3>4. TP!PutIndexed(o, [workflow[o] EXCEPT !.state = "PAID"])
      BY <2>2, <3>3 DEF W!PutIndexed, W!Put, W!AddToChat, TP!PutIndexed, TP!Put, TP!AddToChat
    <3>5. \E r \in Refs : intents[r] # NoIntent /\ intents[r].order = o
      BY <1>1 DEF IsCopy, Exists
    <3> QED
      BY <1>1, <3>1, <3>4, <3>5 DEF TP!WorkerConfirms, TP!StateIs, TP!loop, TP!local, pollers
  <2> QED
    BY <1>1, <2>1, <2>2 DEF W!ConfirmPayment, W!Calls, W!records, records
<1> QED
  BY <1>1, <1>2, <1>3, <1>4, <1>5, <1>6 DEF WorkerKeeps

-----------------------------------------------------------------------------
(* The pollers *)

\* The two instances of TaskManager, with and without its theorems, are one.
LEMMA OneModule ==
  /\ T!Init <=> TP!Init
  /\ T!Next <=> TP!Next
  /\ T!vars = TP!vars
  /\ \A c \in Chats :
       /\ T!PollerStep(c) <=> TP!PollerStep(c)
       /\ T!SessionStep(c) <=> TP!SessionStep(c)
  /\ T!Time <=> TP!Time
  /\ T!Crash <=> TP!Crash
<1> USE DEF T!Resumable, T!OrderState, T!OrderEvent, T!OrderTransitions, T!Terminal,
      T!IsTerminalOrderState, T!CanApply, T!ApplyOrderEvent, T!IntentStatus, T!HandedOff,
      T!WfRecord, T!Intent, T!records, T!stores, T!EmptyList, T!InitStores,
      T!NewOrderWorkflowRecord, T!Put, T!AddToChat, T!PutIndexed, T!StateIs, T!After,
      T!NewIntent, T!PutIntent, T!SaveIntentKeys, T!IsExhausted, T!Bump, T!Init, T!Works,
      T!MayFail, T!LostReply, T!Goto, T!SaveRecord, T!TransitionRecord, T!MarkTimedOut,
      T!Schedule, T!SessionEnds, T!TaskRemoved, T!FetchPendingOrders, T!LockOrder,
      T!ProcessPendingOrder, T!ListByChat, T!ResumeWorkflowRecord, T!PollEnds, T!UnlockOrder,
      T!LoadRecord, T!NotifyState, T!KeepsPayment, T!AdvanceExpired, T!Advances,
      T!AdvanceDetected, T!AdvanceFetching, T!AdvanceRetrying, T!AdvanceReady,
      T!AdvanceNothing, T!IsEligible, T!Reconcilable, T!AdvancePending, T!DetailFetched,
      T!DetailFailed, T!DetailRetry, T!DetailTimedOut, T!CreateIntent, T!CreateIntentFails,
      T!TransferOutcome, T!ScheduleIntentRetry, T!StopIntentRetry, T!ClearIntentRetry,
      T!AfterTransfer, T!AutoTransfer, T!SaveIntent, T!Expire, T!WorkflowKeyExpires,
      T!EventOwnerSaves, T!WorkerConfirms, T!Crash, T!Advance, T!FetchDetail, T!PollerLocal,
      T!PollerStep, T!SessionStep, T!Time, T!EventOwner, T!Next, T!vars, T!loop, T!local,
      TP!Resumable, TP!OrderState, TP!OrderEvent, TP!OrderTransitions, TP!Terminal,
      TP!IsTerminalOrderState, TP!CanApply, TP!ApplyOrderEvent, TP!IntentStatus, TP!HandedOff,
      TP!WfRecord, TP!Intent, TP!records, TP!stores, TP!EmptyList, TP!InitStores,
      TP!NewOrderWorkflowRecord, TP!Put, TP!AddToChat, TP!PutIndexed, TP!StateIs, TP!After,
      TP!NewIntent, TP!PutIntent, TP!SaveIntentKeys, TP!IsExhausted, TP!Bump, TP!Init,
      TP!Works, TP!MayFail, TP!LostReply, TP!Goto, TP!SaveRecord, TP!TransitionRecord,
      TP!MarkTimedOut, TP!Schedule, TP!SessionEnds, TP!TaskRemoved, TP!FetchPendingOrders,
      TP!LockOrder, TP!ProcessPendingOrder, TP!ListByChat, TP!ResumeWorkflowRecord,
      TP!PollEnds, TP!UnlockOrder, TP!LoadRecord, TP!NotifyState, TP!KeepsPayment,
      TP!AdvanceExpired, TP!Advances, TP!AdvanceDetected, TP!AdvanceFetching,
      TP!AdvanceRetrying, TP!AdvanceReady, TP!AdvanceNothing, TP!IsEligible, TP!Reconcilable,
      TP!AdvancePending, TP!DetailFetched, TP!DetailFailed, TP!DetailRetry, TP!DetailTimedOut,
      TP!CreateIntent, TP!CreateIntentFails, TP!TransferOutcome, TP!ScheduleIntentRetry,
      TP!StopIntentRetry, TP!ClearIntentRetry, TP!AfterTransfer, TP!AutoTransfer,
      TP!SaveIntent, TP!Expire, TP!WorkflowKeyExpires, TP!EventOwnerSaves, TP!WorkerConfirms,
      TP!Crash, TP!Advance, TP!FetchDetail, TP!PollerLocal, TP!PollerStep, TP!SessionStep,
      TP!Time, TP!EventOwner, TP!Next, TP!vars, TP!loop, TP!local
<1>1. T!Init <=> TP!Init
  BY Zenon
<1>2. T!Next <=> TP!Next
  BY Zenon
<1>3. T!vars = TP!vars
  BY Zenon
<1>4. ASSUME NEW c \in Chats
      PROVE  T!PollerStep(c) <=> TP!PollerStep(c)
  BY Zenon
<1>5. ASSUME NEW c \in Chats
      PROVE  T!SessionStep(c) <=> TP!SessionStep(c)
  BY Zenon
<1>6. T!Time <=> TP!Time
  BY Zenon
<1>7. T!Crash <=> TP!Crash
  BY Zenon
<1> HIDE DEF T!Init, TP!Init, T!Next, TP!Next, T!vars, TP!vars, T!PollerStep, TP!PollerStep,
      T!SessionStep, TP!SessionStep, T!Time, TP!Time, T!Crash, TP!Crash
<1> QED
  BY <1>1, <1>2, <1>3, <1>4, <1>5, <1>6, <1>7, Zenon

\* The lemmas of TaskManager that the pipeline needs.
LEMMA PollersKept ==
  ASSUME PollersInv, [TP!Next]_(TP!vars)
  PROVE  PollersInv'
<1>1. TP!IInv'
  BY TP!NextStep, NoneAssumption, MaxAttemptsAssumption, NoOrderAssumption, SMT
     DEF PollersInv, TP!Intent, Intent, TP!WfRecord, WfRecord, TP!IntentStatus, IntentStatus,
     OrderState, TP!OrderState, Resumable, TP!Resumable, Terminal, TP!Terminal
<1>2. TP!DraftInv'
  BY TP!DraftKept, NoneAssumption, MaxAttemptsAssumption, NoOrderAssumption, SMT
     DEF PollersInv, TP!Intent, Intent, TP!WfRecord, WfRecord, TP!IntentStatus, IntentStatus,
     OrderState, TP!OrderState, Resumable, TP!Resumable, Terminal, TP!Terminal
<1> QED
  BY <1>1, <1>2 DEF PollersInv

LEMMA PollersKeep ==
  ASSUME PollersInv, [TP!Next]_(TP!vars)
  PROVE  [TP!Kept]_(TP!vars)
BY TP!HandoffStep, NoneAssumption, MaxAttemptsAssumption, NoOrderAssumption, SMT
   DEF PollersInv, TP!Intent, Intent, TP!WfRecord, WfRecord, TP!IntentStatus, IntentStatus,
   OrderState, TP!OrderState, Resumable, TP!Resumable, Terminal, TP!Terminal

LEMMA PollersWrite ==
  ASSUME PollersInv, NEW c \in Chats, TP!PollerStep(c)
  PROVE  TP!WritesIntents(c)
BY TP!PollerWrites, NoneAssumption, MaxAttemptsAssumption, NoOrderAssumption, SMT
   DEF PollersInv, TP!Intent, Intent, TP!WfRecord, WfRecord, TP!IntentStatus, IntentStatus,
   OrderState, TP!OrderState, Resumable, TP!Resumable, Terminal, TP!Terminal

LEMMA PollersWriteOne ==
  ASSUME PollersInv, NEW c \in Chats, TP!PollerStep(c)
  PROVE  \/ workflow' = workflow
         \/ intents' = intents /\ \E r : workflow' = [workflow EXCEPT ![order[c]] = r]
BY TP!PollerWritesOne, NoneAssumption, MaxAttemptsAssumption, NoOrderAssumption, SMT
   DEF PollersInv, TP!Intent, Intent, TP!WfRecord, WfRecord, TP!IntentStatus, IntentStatus,
   OrderState, TP!OrderState, Resumable, TP!Resumable, Terminal, TP!Terminal

LEMMA PollersPay ==
  ASSUME PollersInv, NEW S, TP!PaidOnly(S),
         (\E c \in Chats : TP!PollerStep(c) \/ TP!SessionStep(c)) \/ TP!Time \/ TP!Crash
  PROVE  TP!PaidOnly(S)'
BY TP!PollersPayNothing, NoneAssumption, MaxAttemptsAssumption, NoOrderAssumption, SMT
   DEF PollersInv, TP!Intent, Intent, TP!WfRecord, WfRecord, TP!IntentStatus, IntentStatus,
   OrderState, TP!OrderState, Resumable, TP!Resumable, Terminal, TP!Terminal

LEMMA WorkerPays ==
  ASSUME PollersInv, NEW S, TP!PaidOnly(S), NEW o \in Orders, o \in S, TP!WorkerConfirms(o)
  PROVE  TP!PaidOnly(S)'
BY TP!WorkerPays, NoneAssumption, MaxAttemptsAssumption, NoOrderAssumption, SMT
   DEF PollersInv, TP!Intent, Intent, TP!WfRecord, WfRecord, TP!IntentStatus, IntentStatus,
   OrderState, TP!OrderState, Resumable, TP!Resumable, Terminal, TP!Terminal

LEMMA PollersStart ==
  ASSUME TP!Init
  PROVE  PollersInv
<1>1. TP!IInv
  BY TP!InitStep, NoneAssumption, MaxAttemptsAssumption, NoOrderAssumption, SMT
     DEF TP!Intent, Intent, TP!WfRecord, WfRecord, TP!IntentStatus, IntentStatus,
     OrderState, TP!OrderState, Resumable, TP!Resumable, Terminal, TP!Terminal
<1>2. TP!DraftInv
  BY DEF TP!Init, TP!DraftInv
<1> QED
  BY <1>1, <1>2 DEF PollersInv

-----------------------------------------------------------------------------
(* Every step: a step of TaskManager, and of the rest of the invariant *)

Rest ==
  /\ IntentsInv /\ PaystackInv /\ HandlersInv
  /\ QueueInv /\ WorkerInv /\ AskedInv /\ PaidInv

\* A handler's or the worker's save is one that TaskManager allows.
LEMMA SaveIsOwners ==
  ASSUME IInv, NEW r, NEW i, IsCopy(i, r), intents' = [intents EXCEPT ![r] = i],
         orderIndex' = orderIndex \/ orderIndex' = [orderIndex EXCEPT ![i.order] = r],
         UNCHANGED <<records, pollers>>
  PROVE  TP!EventOwnerSaves(r) /\ r \in Refs
<1>1. /\ r \in Refs /\ intents[r] # NoIntent /\ intents[r] \in Intent /\ i \in Intent
      /\ i.ref = intents[r].ref /\ i.order = intents[r].order
  BY DEF IInv, IntentsInv, IsCopy, Exists
<1>2. PICK s \in IntentStatus, k \in 0..MaxAttempts, b \in BOOLEAN :
        s = i.status /\ k = i.retry /\ b = i.scheduled
  BY <1>1 DEF Intent
<1>3. i = Rewritten(intents[r], s, k, b)
  <2>1. PICK j \in Intent :
          /\ j = Rewritten(intents[r], s, k, b) /\ j.ref = i.ref /\ j.order = i.order
          /\ j.status = s
    BY <1>1, RewrittenIntent
  <2>2. j.retry = k /\ j.scheduled = b
    BY <1>1, <2>1 DEF Intent, Rewritten
  <2> QED
    BY <1>1, <1>2, <2>1, <2>2 DEF Intent
<1>4. intents' = [intents EXCEPT ![r].status = s, ![r].retry = k, ![r].scheduled = b]
  BY <1>1, <1>3 DEF Rewritten, IInv, PollersInv, TP!IInv, TP!TypeOK
<1>5. orderIndex' = orderIndex \/ orderIndex' = [orderIndex EXCEPT ![intents[r].order] = r]
  BY <1>1
<1> QED
  BY <1>1, <1>4, <1>5 DEF TP!EventOwnerSaves, TP!IntentStatus, IntentStatus, TP!records, records,
     TP!loop, TP!local, pollers

LEMMA PaidFrame ==
  ASSUME PaidInv, UNCHANGED <<workflow, pollers>>, asked \subseteq asked'
  PROVE  PaidInv'
BY DEF PaidInv, TP!PaidOnly, TP!StateIs, pollers

\* A step that neither writes to the stores nor moves a poller.
LEMMA Stutters ==
  ASSUME UNCHANGED <<stores, pollers>>
  PROVE  [TP!Next]_(TP!vars)
BY DEF TP!vars, TP!stores, TP!records, TP!loop, TP!local, stores, records, pollers

LEMMA OwnerStep ==
  ASSUME NEW r \in Refs, TP!EventOwnerSaves(r)
  PROVE  TP!Next
BY DEF TP!Next, TP!EventOwner

LEMMA HandlerStepKeeps ==
  ASSUME IInv, NEW h \in Handlers, HandlerStep(h)
  PROVE  Rest' /\ [TP!Next]_(TP!vars)
<1>1. UNCHANGED <<pollers, worker>>
  BY DEF HandlerStep
<1>2. HandlerKeeps /\ UNCHANGED records
  <2>1. CASE \/ H!MarkWebhookProcessed(h) \/ H!LoadFails(h) \/ H!LoadSuccess(h)
             \/ H!LoadLateFailure(h) \/ H!LoadFailure(h) \/ H!Verified(h) \/ H!NotVerified(h)
    <3>1. UNCHANGED records
      BY <2>1 DEF H!MarkWebhookProcessed, H!LoadFails, H!LoadSuccess, H!LoadLateFailure,
         H!LoadFailure, H!Verified, H!NotVerified, H!stores, H!records, records
    <3> QED
      BY <2>1, <3>1, HandlerReads
  <2>2. CASE H!SaveSuccess(h) \/ H!SaveLast(h)
    BY <2>2, HandlerSaves
  <2>3. CASE H!EnqueueJob(h) \/ H!EnqueueFails(h)
    BY <2>3, HandlerEnqueues DEF stores
  <2> QED
    BY <2>1, <2>2, <2>3 DEF HandlerStep, H!HandlerStep
<1>3. Rest'
  <2>1. WorkerInv' /\ AskedInv'
    BY <1>1, <1>2, WorkerFrame, AskedFrame DEF IInv, HandlerKeeps, worker
  <2>2. PaidInv'
    BY <1>1, <1>2, PaidFrame DEF IInv, worker, records
  <2> QED
    BY <1>2, <2>1, <2>2 DEF Rest, HandlerKeeps
<1>4. UNCHANGED stores \/ \E r \in Refs : TP!EventOwnerSaves(r)
  <2>1. CASE H!SaveSuccess(h) \/ H!SaveLast(h)
    <3>1. \/ UNCHANGED <<intents, orderIndex>>
          \/ /\ IsCopy(hcopy[h], event[h].ref)
             /\ intents' = [intents EXCEPT ![event[h].ref] = hcopy[h]]
             /\ \/ orderIndex' = orderIndex
                \/ orderIndex' = [orderIndex EXCEPT ![hcopy[h].order] = event[h].ref]
      BY <2>1, HandlerSaves
    <3>2. CASE UNCHANGED <<intents, orderIndex>>
      BY <1>2, <3>2 DEF stores
    <3>3. CASE /\ IsCopy(hcopy[h], event[h].ref)
               /\ intents' = [intents EXCEPT ![event[h].ref] = hcopy[h]]
               /\ \/ orderIndex' = orderIndex
                  \/ orderIndex' = [orderIndex EXCEPT ![hcopy[h].order] = event[h].ref]
      BY <1>1, <1>2, <3>3, SaveIsOwners
    <3> QED
      BY <3>1, <3>2, <3>3
  <2>2. CASE H!EnqueueJob(h) \/ H!EnqueueFails(h)
    BY <2>2, HandlerEnqueues
  <2>3. CASE \/ H!MarkWebhookProcessed(h) \/ H!LoadFails(h) \/ H!LoadSuccess(h)
             \/ H!LoadLateFailure(h) \/ H!LoadFailure(h) \/ H!Verified(h) \/ H!NotVerified(h)
    BY <2>3 DEF H!MarkWebhookProcessed, H!LoadFails, H!LoadSuccess, H!LoadLateFailure,
       H!LoadFailure, H!Verified, H!NotVerified, H!stores, H!records, stores, records
  <2> QED
    BY <2>1, <2>2, <2>3 DEF HandlerStep, H!HandlerStep
<1> QED
  BY <1>1, <1>3, <1>4, Stutters, OwnerStep

LEMMA WorkerStepKeeps ==
  ASSUME IInv, WorkerStep
  PROVE  Rest' /\ [TP!Next]_(TP!vars)
<1>1. UNCHANGED <<pollers, paystack, handlers>>
  BY DEF WorkerStep
<1>2. ASSUME WorkerKeeps
      PROVE  PaystackInv' /\ HandlersInv'
  BY <1>1, <1>2, PaystackFrame, HandlersFrame DEF IInv, WorkerKeeps, paystack
<1>3. CASE \/ (\E r \in Refs : W!PromoteDue(r)) \/ W!PromoteJob \/ W!ReadGroup
           \/ W!LoadIntent \/ (\E answered \in BOOLEAN : W!MarkOrderPaid(answered))
           \/ W!RequeueJob \/ W!DeadLetterJob \/ W!AckMessage
  <2>1. WorkerKeeps /\ UNCHANGED stores
    BY <1>1, <1>3, WorkerDequeues, WorkerMarks, WorkerConcludes
  <2>2. asked \subseteq asked'
    BY <1>3 DEF W!PromoteDue, W!PromoteJob, W!ReadGroup, W!LoadIntent, W!MarkOrderPaid,
       W!RequeueJob, W!DeadLetterJob, W!AckMessage, W!bybit
  <2>3. PaidInv'
    BY <1>1, <2>1, <2>2, PaidFrame DEF IInv, stores, records
  <2> QED
    BY <1>1, <1>2, <2>1, <2>3, Stutters DEF Rest, WorkerKeeps
<1>4. CASE W!SaveIntent
  <2>1. WorkerKeeps /\ UNCHANGED records
    BY <1>1, <1>4, WorkerSaves
  <2>2. UNCHANGED stores \/ \E r \in Refs : TP!EventOwnerSaves(r)
    <3>1. \/ UNCHANGED <<intents, orderIndex>>
          \/ /\ IsCopy(copy, job)
             /\ intents' = [intents EXCEPT ![job] = copy]
             /\ \/ orderIndex' = orderIndex
                \/ orderIndex' = [orderIndex EXCEPT ![copy.order] = job]
      BY <1>1, <1>4, WorkerSaves
    <3>2. CASE UNCHANGED <<intents, orderIndex>>
      BY <2>1, <3>2 DEF stores
    <3>3. CASE /\ IsCopy(copy, job)
               /\ intents' = [intents EXCEPT ![job] = copy]
               /\ \/ orderIndex' = orderIndex
                  \/ orderIndex' = [orderIndex EXCEPT ![copy.order] = job]
      BY <1>1, <2>1, <3>3, SaveIsOwners
    <3> QED
      BY <3>1, <3>2, <3>3
  <2>3. asked' = asked
    BY <1>4 DEF W!SaveIntent, W!bybit
  <2>4. PaidInv'
    BY <1>1, <2>1, <2>3, PaidFrame DEF IInv, records
  <2> QED
    BY <1>1, <1>2, <2>1, <2>2, <2>4, Stutters, OwnerStep DEF Rest, WorkerKeeps
<1>5. CASE W!ConfirmPayment
  <2>1. /\ WorkerKeeps
        /\ copy.order \in Orders /\ copy.order \in asked /\ asked' = asked
        /\ UNCHANGED stores \/ TP!WorkerConfirms(copy.order)
    BY <1>1, <1>5, WorkerTells
  <2>2. CASE UNCHANGED stores
    <3>1. PaidInv'
      BY <1>1, <2>1, <2>2, PaidFrame DEF IInv, stores, records
    <3> QED
      BY <1>1, <1>2, <2>1, <2>2, <3>1, Stutters DEF Rest, WorkerKeeps
  <2>3. CASE TP!WorkerConfirms(copy.order)
    <3>1. PICK S : S = asked
      OBVIOUS
    <3>2. PICK o \in Orders : o = copy.order
      BY <2>1
    <3>3. TP!PaidOnly(S)
      BY <3>1 DEF IInv, PaidInv
    <3>4. o \in S /\ TP!WorkerConfirms(o)
      BY <2>1, <2>3, <3>1, <3>2
    <3>5. TP!PaidOnly(S)'
      BY <3>3, <3>4, WorkerPays DEF IInv
    <3>6. PaidInv'
      BY <2>1, <3>1, <3>5 DEF PaidInv, TP!PaidOnly
    <3>7. TP!Next
      BY <3>4 DEF TP!Next, TP!EventOwner
    <3> QED
      BY <1>2, <2>1, <3>6, <3>7 DEF Rest, WorkerKeeps
  <2> QED
    BY <2>1, <2>2, <2>3
<1> QED
  BY <1>3, <1>4, <1>5 DEF WorkerStep, W!WorkerStep

\* What a poller is about to save is a copy of its order's intent.
LEMMA DraftIsCopy ==
  ASSUME IInv, NEW c \in Chats, pc[c] = "save_intent"
  PROVE  IsCopy(draft[c], draft[c].ref)
<1>1. /\ draft[c] \in Intent
      /\ draft[c].order = order[c] /\ intents[draft[c].ref] # NoIntent
      /\ intents[draft[c].ref].order = order[c]
  BY DEF IInv, PollersInv, TP!IInv, TP!IndexInv, TP!HasDraft, TP!TypeOK, TP!Intent,
     TP!IntentStatus, Intent, IntentStatus
<1>2. draft[c].status \notin Claims
  BY DEF IInv, PollersInv, TP!DraftInv, TP!RequestStatus, Claims
<1> QED
  BY <1>1, <1>2 DEF IsCopy, Exists, Intent

\* A poller's step leaves the rest of the process alone but for the intents.
LEMMA PollerStepKeeps ==
  ASSUME IInv, NEW c \in Chats, TP!PollerStep(c) \/ TP!SessionStep(c),
         UNCHANGED <<queue, events, handlers, worker>>,
         UNCHANGED transfer \/ (intents' = intents /\ Grows)
  PROVE  /\ Grows /\ IntentsInv' /\ HandlersInv' /\ QueueInv' /\ WorkerInv' /\ AskedInv' /\ PaidInv'
         /\ [TP!Next]_(TP!vars)
<1>1. Grows /\ IntentsInv'
  <2>1. CASE intents' = intents
    <3>1. Grows
      BY <2>1, SameGrows
    <3> QED
      BY <2>1, <3>1, IntentsFrame DEF IInv
  <2>2. CASE intents' # intents
    <3>1. UNCHANGED transfer
      BY <2>2
    <3>2. TP!PollerStep(c)
      BY <2>2 DEF TP!SessionStep, TP!Schedule, TP!SessionEnds, TP!TaskRemoved, TP!stores
    <3>3. TP!WritesIntents(c)
      BY <3>2, PollersWrite DEF IInv
    <3>4. ASSUME pc[c] \in TP!Working, NEW r \in Refs, intents[r] = NoIntent,
                 intents' = [intents EXCEPT ![r] = TP!NewIntent(r, order[c])]
          PROVE  Grows /\ IntentsInv'
      <4>1. order[c] \in Orders
        BY <3>4 DEF IInv, PollersInv, TP!IInv, TP!LockInv, TP!TypeOK
      <4>2. TP!NewIntent(r, order[c]) = NewIntent(r, order[c])
        BY DEF TP!NewIntent, NewIntent
      <4> QED
        BY <3>1, <3>4, <4>1, <4>2, IntentCreated
    <3>5. ASSUME pc[c] = "save_intent", intents' = [intents EXCEPT ![draft[c].ref] = draft[c]]
          PROVE  Grows /\ IntentsInv'
      BY <3>1, <3>5, DraftIsCopy, CopySaved
    <3> QED
      BY <2>2, <3>3, <3>4, <3>5 DEF TP!WritesIntents
  <2> QED
    BY <2>1, <2>2
<1>2. HandlersInv' /\ QueueInv' /\ WorkerInv' /\ AskedInv'
  BY <1>1, HandlersFrame, QueueFrame, WorkerFrame, AskedFrame DEF IInv, worker
<1>3. PaidInv'
  <2>1. PICK S : S = asked
    OBVIOUS
  <2>2. TP!PaidOnly(S)'
    BY <2>1, PollersPay DEF IInv, PaidInv
  <2> QED
    BY <2>1, <2>2 DEF PaidInv, TP!PaidOnly, worker
<1>4. TP!Next
  BY DEF TP!Next
<1> QED
  BY <1>1, <1>2, <1>3, <1>4

LEMMA RequestKeeps ==
  ASSUME IInv, NEW c \in Chats, NEW outcome \in T!TransferOutcome, RequestTransfer(c, outcome)
  PROVE  Rest' /\ [TP!Next]_(TP!vars)
<1>1. TP!PollerStep(c)
  BY OneModule DEF RequestTransfer, T!PollerStep
<1>2. UNCHANGED <<stores, events, queue, handlers, worker>> /\ pc[c] = "transfer"
  BY DEF RequestTransfer, T!AutoTransfer, T!stores, T!records, stores, records
<1>3. Exists(draft[c].ref)
  BY <1>2 DEF IInv, PollersInv, TP!IInv, TP!TypeOK, TP!IndexInv, TP!HasDraft, TP!Intent, Exists
<1>4. \/ transfer' = transfer
      \/ /\ transfer[draft[c].ref] \in {"none", "failed"}
         /\ transfer' = [transfer EXCEPT ![draft[c].ref] = "pending"]
  BY DEF RequestTransfer, P!Requested, P!TakesUp, P!CanTakeUp
<1>5. intents' = intents /\ Grows
  BY <1>2, <1>3, <1>4 DEF Grows, Moved, IInv, PaystackInv, Exists, stores
<1>6. PaystackInv'
  BY <1>2, <1>3, <1>4, <1>5 DEF IInv, PaystackInv, Exists
<1> QED
  BY <1>1, <1>2, <1>5, <1>6, PollerStepKeeps DEF Rest

\* Paystack settles, or an event arrives.
LEMMA EventsKeep ==
  ASSUME IInv, ReceiveEvent \/ SettleTransfer
  PROVE  Rest' /\ [TP!Next]_(TP!vars)
<1>1. UNCHANGED <<pollers, worker, stores, queue>>
  BY DEF ReceiveEvent, SettleTransfer, H!Receive, H!TransferSettles, H!EarlyEvent,
     H!TransferReversed, H!stores, H!records, H!queue, stores, records, queue
<1>2. Grows /\ PaystackInv' /\ HandlersInv'
  <2>1. CASE SettleTransfer
    <3>1. PICK r \in Refs : H!TransferSettles(r) \/ H!EarlyEvent(r) \/ H!TransferReversed(r)
      BY <2>1 DEF SettleTransfer
    <3>2. /\ transfer[r] \in {"pending", "success"}
          /\ \/ transfer' = transfer
             \/ /\ transfer[r] = "pending"
                /\ \E s \in {"success", "failed"} : transfer' = [transfer EXCEPT ![r] = s]
             \/ transfer' = [transfer EXCEPT ![r] = "reversed"]
          /\ \E k : events' = events \cup {[kind |-> k, ref |-> r, try |-> tries[r]]}
          /\ UNCHANGED handlers
      BY <3>1 DEF H!TransferSettles, H!EarlyEvent, H!TransferReversed, H!Emit, H!handlers, handlers
    <3>3. Exists(r)
      BY <3>2 DEF IInv, PaystackInv
    <3>4. Grows
      BY <1>1, <3>2, <3>3 DEF Grows, Moved, IInv, PaystackInv, Exists, stores
    <3>5. PaystackInv'
      <4>1. \A e \in events' : Exists(e.ref)
        BY <3>2, <3>3 DEF IInv, PaystackInv
      <4>2. /\ transfer' \in [Refs -> {"none", "pending", "success", "failed", "reversed"}]
            /\ \A q \in Refs : transfer'[q] # "none" => Exists(q)
        BY <3>2, <3>3 DEF IInv, PaystackInv
      <4> QED
        BY <1>1, <4>1, <4>2 DEF PaystackInv, Exists, stores
    <3>6. HandlersInv'
      BY <3>2, <3>4, HandlersFrame DEF IInv
    <3> QED
      BY <3>4, <3>5, <3>6
  <2>2. CASE ReceiveEvent
    <3>1. PICK h \in Handlers, e \in events : H!Receive(h, e)
      BY <2>2 DEF ReceiveEvent
    <3>2. /\ hpc' = [hpc EXCEPT ![h] = "mark"] /\ event' = [event EXCEPT ![h] = e]
          /\ hcopy' = hcopy /\ UNCHANGED paystack /\ "mark" \in HandlerPlace
      BY <3>1 DEF H!Receive, H!Goto, H!paystack, paystack, HandlerPlace
    <3>3. Grows
      BY <1>1, <3>2, SameGrows DEF stores, paystack
    <3>4. PaystackInv'
      BY <3>2, <3>3, PaystackFrame DEF IInv
    <3>5. AtPlace(h)'
      BY <3>2 DEF AtPlace, IInv, HandlersInv, WithCopy, paystack
    <3>6. HandlersInv'
      BY <3>2, <3>3, <3>5, HandlerMoves DEF IInv, paystack
    <3> QED
      BY <3>3, <3>4, <3>6
  <2> QED
    BY <2>1, <2>2
<1>3. IntentsInv' /\ QueueInv' /\ WorkerInv' /\ AskedInv' /\ PaidInv'
  BY <1>1, <1>2, IntentsFrame, QueueFrame, WorkerFrame, AskedFrame, PaidFrame
     DEF IInv, stores, records, worker
<1> QED
  BY <1>1, <1>2, <1>3, Stutters DEF Rest

\* Time and crashes: nothing of Paystack's, of the exchange's or of the queue changes.
LEMMA TimeAndCrashKeep ==
  ASSUME IInv, Time \/ Crash
  PROVE  Rest' /\ [TP!Next]_(TP!vars)
<1>1. UNCHANGED <<intents, orderIndex, queue, paystack, asked>>
  <2>1. ASSUME Time
        PROVE  UNCHANGED <<queue, paystack, asked>>
    BY <2>1 DEF Time, worker
  <2>2. ASSUME Time
        PROVE  UNCHANGED <<intents, orderIndex>>
    <3>1. ASSUME T!Time
          PROVE  UNCHANGED <<intents, orderIndex>>
      BY <3>1 DEF T!Time, T!Expire, T!WorkflowKeyExpires, T!stores
    <3> QED
      BY <2>2, <3>1 DEF Time, stores
  <2>3. ASSUME Crash
        PROVE  UNCHANGED <<intents, orderIndex, queue, asked>>
    BY <2>3 DEF Crash, W!Crash, W!stores, W!queue, W!bybit, queue
  <2>4. ASSUME Crash
        PROVE  UNCHANGED paystack
    BY <2>4 DEF Crash, H!Crash, H!paystack, paystack
  <2> QED
    BY <2>1, <2>2, <2>3, <2>4
<1>2. Grows
  BY <1>1, SameGrows DEF paystack
<1>3. IntentsInv' /\ PaystackInv' /\ QueueInv' /\ AskedInv'
  BY <1>1, <1>2, IntentsFrame, PaystackFrame, QueueFrame, AskedFrame DEF IInv
<1>4. HandlersInv' /\ WorkerInv'
  <2>1. CASE Time
    <3>1. UNCHANGED <<hpc, event, hcopy, events, worker>>
      BY <2>1 DEF Time, H!KeyExpires, handlers, paystack
    <3>2. HandlersInv'
      <4>1. \A h \in Handlers : AtPlace(h)'
        BY <1>2, <3>1 DEF IInv, HandlersInv, PaystackInv, AtPlace, IsCopy, Exists, Grows, WithCopy
      <4> QED
        BY <3>1, <4>1 DEF IInv, HandlersInv
    <3> QED
      BY <1>2, <3>1, <3>2, WorkerFrame DEF IInv
  <2>2. CASE Crash
    <3>1. HandlersInv'
      BY <2>2 DEF Crash, H!Crash, HandlersInv, AtPlace, HandlerPlace, WithCopy
    <3>2. WorkerInv'
      BY <2>2, WorkerIdle DEF Crash, W!Crash
    <3> QED
      BY <3>1, <3>2
  <2> QED
    BY <2>1, <2>2
<1>5. PaidInv' /\ [TP!Next]_(TP!vars)
  <2>1. CASE T!Time \/ T!Crash
    <3>1. TP!Time \/ TP!Crash
      BY <2>1, OneModule
    <3>2. PICK S : S = asked
      OBVIOUS
    <3>3. TP!PaidOnly(S)'
      BY <3>1, <3>2, PollersPay DEF IInv, PaidInv
    <3>4. PaidInv'
      BY <1>1, <3>2, <3>3 DEF PaidInv, TP!PaidOnly
    <3>5. TP!Next
      BY <3>1 DEF TP!Next
    <3> QED
      BY <3>4, <3>5
  <2>2. CASE UNCHANGED <<stores, pollers>>
    BY <1>1, <2>2, PaidFrame, Stutters DEF IInv, stores, records
  <2> QED
    BY <2>1, <2>2 DEF Time, Crash
<1> QED
  BY <1>3, <1>4, <1>5 DEF Rest

\* Every step of the process is a step of TaskManager, or one that it does not see.
LEMMA NextStep ==
  ASSUME IInv, [Next]_vars
  PROVE  IInv' /\ [TP!Next]_(TP!vars)
<1>1. ASSUME NEW c \in Chats, PollerStep(c)
      PROVE  Rest' /\ [TP!Next]_(TP!vars)
  <2>1. TP!PollerStep(c) \/ TP!SessionStep(c)
    BY <1>1, OneModule DEF PollerStep, T!PollerStep
  <2>2. UNCHANGED <<queue, paystack, handlers, worker>>
    BY <1>1 DEF PollerStep
  <2>3. UNCHANGED <<transfer, events>>
    BY <2>2 DEF paystack
  <2>4. /\ Grows /\ IntentsInv' /\ HandlersInv' /\ QueueInv' /\ WorkerInv' /\ AskedInv' /\ PaidInv'
        /\ [TP!Next]_(TP!vars)
    BY <2>1, <2>2, <2>3, PollerStepKeeps
  <2>5. PaystackInv'
    BY <2>2, <2>4, PaystackFrame DEF IInv
  <2> QED
    BY <2>4, <2>5 DEF Rest
<1>2. CASE UNCHANGED vars
  <2>1. UNCHANGED <<stores, queue, pollers, paystack, handlers, worker>>
    BY <1>2 DEF vars
  <2>2. Grows
    BY <2>1, SameGrows DEF stores, paystack
  <2>3. UNCHANGED <<intents, workflow, events, asked>>
    BY <2>1 DEF stores, records, paystack, worker
  <2>4. Rest'
    BY <2>1, <2>2, <2>3, IntentsFrame, PaystackFrame, HandlersFrame, QueueFrame, WorkerFrame,
       AskedFrame, PaidFrame DEF IInv, Rest
  <2> QED
    BY <2>1, <2>4, Stutters, PollersKept DEF IInv, Rest
<1>3. CASE Next
  <2>1. Rest' /\ [TP!Next]_(TP!vars)
    BY <1>1, <1>3, RequestKeeps, HandlerStepKeeps, EventsKeep, WorkerStepKeeps, TimeAndCrashKeep
       DEF Next
  <2> QED
    BY <2>1, PollersKept DEF IInv, Rest
<1> QED
  BY <1>2, <1>3

LEMMA InitStep == Init => IInv
<1> SUFFICES ASSUME Init PROVE IInv
  OBVIOUS
<1>1. PollersInv
  BY OneModule, PollersStart DEF Init
<1>2. IntentsInv
  BY DEF Init, T!Init, T!InitStores, IntentsInv
<1>3. PaystackInv
  BY DEF Init, H!Init, PaystackInv
<1>4. HandlersInv
  BY DEF Init, H!Init, HandlersInv, AtPlace, HandlerPlace, WithCopy
<1>5. QueueInv
  BY DEF Init, H!Init, H!InitQueue, QueueInv
<1>6. WorkerInv /\ AskedInv
  BY DEF Init, W!Init, WorkerInv, AskedInv, Loaded
<1>7. PaidInv
  BY DEF Init, T!Init, T!InitStores, T!EmptyList, PaidInv, TP!PaidOnly, TP!StateIs, TP!HasRecord
<1> QED
  BY <1>1, <1>2, <1>3, <1>4, <1>5, <1>6, <1>7 DEF IInv

LEMMA Inductive == Spec => []IInv
<1>1. IInv /\ [Next]_vars => IInv'
  BY NextStep
<1> QED
  BY InitStep, <1>1, PTL DEF Spec

-----------------------------------------------------------------------------
(* The events' keys: what sets a handler to work on an event has set it.   *)

Busy(h) == hpc[h] \notin {"idle", "mark"}

KeysInv ==
  /\ \A h \in Handlers : Busy(h) => event[h] \in processed
  /\ H!OneHandlerPerEvent

\* A handler sets the key of its event, answers, or goes on with the event it has.
LEMMA HandlerTurns ==
  ASSUME NEW h \in Handlers, HandlerStep(h)
  PROVE  \/ /\ hpc[h] = "mark" /\ event[h] \notin processed /\ event' = event
            /\ processed' = processed \cup {event[h]} /\ hpc' = [hpc EXCEPT ![h] = "load"]
         \/ /\ processed \subseteq processed' /\ hpc' = [hpc EXCEPT ![h] = "idle"]
            /\ event' = [event EXCEPT ![h] = NoEvent]
         \/ /\ Busy(h) /\ processed' = processed /\ event' = event
            /\ \E l : hpc' = [hpc EXCEPT ![h] = l]
<1>1. CASE H!MarkWebhookProcessed(h)
  BY <1>1 DEF H!MarkWebhookProcessed, H!Goto, H!Answer
<1>2. CASE H!LoadFails(h) \/ H!LoadSuccess(h) \/ H!LoadLateFailure(h) \/ H!LoadFailure(h)
  BY <1>2 DEF H!LoadFails, H!LoadSuccess, H!LoadLateFailure, H!LoadFailure, H!Goto, H!Answer, Busy
<1>3. CASE H!Verified(h) \/ H!NotVerified(h)
  BY <1>3 DEF H!Verified, H!NotVerified, H!Goto, H!Answer, Busy
<1>4. CASE H!SaveSuccess(h) \/ H!SaveLast(h)
  BY <1>4 DEF H!SaveSuccess, H!SaveLast, H!Goto, H!Answer, Busy
<1>5. CASE H!EnqueueJob(h) \/ H!EnqueueFails(h)
  BY <1>5 DEF H!EnqueueJob, H!EnqueueFails, H!Goto, H!Answer, Busy
<1> QED
  BY <1>1, <1>2, <1>3, <1>4, <1>5 DEF HandlerStep, H!HandlerStep

LEMMA KeysAlone ==
  ASSUME KeysInv, UNCHANGED <<hpc, event>>, processed \subseteq processed'
  PROVE  KeysInv'
BY DEF KeysInv, Busy, H!OneHandlerPerEvent

LEMMA KeysStep ==
  ASSUME HandlersInv, KeysInv, [Next]_vars
  PROVE  KeysInv'
<1>1. ASSUME NEW h \in Handlers, HandlerStep(h)
      PROVE  KeysInv'
  <2>1. \A g \in Handlers \ {h} : hpc'[g] = hpc[g] /\ event'[g] = event[g]
    BY <1>1, HandlerTurns DEF HandlersInv
  <2>2. CASE /\ hpc[h] = "mark" /\ event[h] \notin processed /\ event' = event
             /\ processed' = processed \cup {event[h]} /\ hpc' = [hpc EXCEPT ![h] = "load"]
    BY <2>1, <2>2 DEF KeysInv, Busy, H!OneHandlerPerEvent
  <2>3. CASE /\ processed \subseteq processed' /\ hpc' = [hpc EXCEPT ![h] = "idle"]
             /\ event' = [event EXCEPT ![h] = NoEvent]
    <3>1. hpc'[h] = "idle"
      BY <2>3 DEF HandlersInv
    <3> QED
      BY <2>1, <2>3, <3>1 DEF KeysInv, Busy, H!OneHandlerPerEvent
  <2>4. CASE /\ Busy(h) /\ processed' = processed /\ event' = event
             /\ \E l : hpc' = [hpc EXCEPT ![h] = l]
    BY <2>1, <2>4 DEF KeysInv, Busy, H!OneHandlerPerEvent
  <2> QED
    BY <1>1, <2>2, <2>3, <2>4, HandlerTurns
<1>2. CASE ReceiveEvent
  <2>1. PICK h \in Handlers, e \in events : H!Receive(h, e)
    BY <1>2 DEF ReceiveEvent
  <2>2. /\ processed' = processed /\ hpc'[h] = "mark"
        /\ \A g \in Handlers \ {h} : hpc'[g] = hpc[g] /\ event'[g] = event[g]
    BY <2>1 DEF H!Receive, H!Goto, HandlersInv
  <2> QED
    BY <2>2 DEF KeysInv, Busy, H!OneHandlerPerEvent
<1>3. CASE Crash
  <2>1. \A h \in Handlers : hpc'[h] = "idle"
    BY <1>3 DEF Crash, H!Crash
  <2> QED
    BY <2>1 DEF KeysInv, Busy, H!OneHandlerPerEvent
<1>4. CASE Time
  <2>1. CASE UNCHANGED handlers
    BY <2>1, KeysAlone DEF handlers
  <2>2. ASSUME NEW e \in processed, H!KeyExpires(e)
        PROVE  KeysInv'
    <3>1. /\ UNCHANGED <<hpc, event>> /\ processed' = processed \ {e}
          /\ \A h \in Handlers : event[h] # e
      BY <2>2 DEF H!KeyExpires
    <3> QED
      BY <3>1 DEF KeysInv, Busy, H!OneHandlerPerEvent
  <2> QED
    BY <1>4, <2>1, <2>2 DEF Time
<1>5. ASSUME UNCHANGED handlers
      PROVE  KeysInv'
  BY <1>5, KeysAlone DEF handlers
<1>6. CASE SettleTransfer
  BY <1>5, <1>6 DEF SettleTransfer, H!TransferSettles, H!EarlyEvent, H!TransferReversed,
     H!handlers, handlers
<1>7. CASE WorkerStep \/ UNCHANGED vars
  BY <1>5, <1>7 DEF WorkerStep, vars
<1>8. CASE \E c \in Chats : PollerStep(c) \/ \E t \in T!TransferOutcome : RequestTransfer(c, t)
  BY <1>5, <1>8 DEF PollerStep, RequestTransfer
<1> QED
  BY <1>1, <1>2, <1>3, <1>4, <1>6, <1>7, <1>8 DEF Next

-----------------------------------------------------------------------------
(* The worker's delivery.  Handlers only add to the stream; what is        *)
(* pending, delayed or dead-lettered is the worker's.                      *)

DeliveryInv ==
  /\ W!OneDelivery
  /\ wpc = "confirm" => copy.status = "PROVIDER_MARKED_PAID"
  /\ (wpc = "ack" /\ copy.status = "PROVIDER_MARK_FAILED")
       => (delayed[job] > 0 \/ job \in deadLetters)

\* Nothing in hand, and at most one message pending.
LEMMA DeliveryIdle ==
  ASSUME W!NextMessage, Len(pending') <= 1
  PROVE  DeliveryInv'
BY DEF W!NextMessage, W!OneDelivery, DeliveryInv

\* A sequence of one message at most.
LEMMA OneMessage ==
  ASSUME NEW s \in Seq(Refs), Len(s) <= 1, s # <<>>
  PROVE  s = <<Head(s)>>
<1>1. Len(s) \in Nat \ {0}
  BY EmptySeq, Zenon
<1>2. PICK n \in Nat \ {0} : n = Len(s)
  BY <1>1
<1>3. n <= 1
  BY <1>2
<1>4. Len(s) = 1
  BY <1>2, <1>3
<1> QED
  BY <1>4

LEMMA DeliveryAlone ==
  ASSUME DeliveryInv, UNCHANGED <<pending, delayed, deadLetters, wpc, job, copy>>
  PROVE  DeliveryInv'
BY DEF DeliveryInv, W!OneDelivery

\* Dequeue hands over the oldest pending message, or a new one when there is none.
LEMMA DequeueDelivers ==
  ASSUME QueueInv, DeliveryInv, (\E r \in Refs : W!PromoteDue(r)) \/ W!PromoteJob \/ W!ReadGroup
  PROVE  DeliveryInv'
<1>1. Len(pending) <= 1 /\ pending \in Seq(Refs) /\ stream \in Seq(Refs)
  BY DEF QueueInv, DeliveryInv, W!OneDelivery
<1>2. ASSUME NEW r \in Refs, W!PromoteDue(r)
      PROVE  DeliveryInv'
  BY <1>1, <1>2, DeliveryIdle DEF W!PromoteDue, W!RemoveDelayed, W!Fails, DeliveryInv, W!OneDelivery
<1>3. CASE W!PromoteJob
  BY <1>1, <1>3, DeliveryIdle DEF W!PromoteJob, W!Enqueue, W!Fails, W!queue
<1>4. CASE W!ReadGroup
  <2>1. CASE pending # <<>> /\ job' = Head(pending) /\ wpc' = "load" /\ UNCHANGED queue
    <3>1. pending = <<Head(pending)>>
      BY <1>1, <2>1, OneMessage
    <3>2. pending' = pending
      BY <2>1 DEF queue
    <3> QED
      BY <1>1, <2>1, <3>1, <3>2 DEF DeliveryInv, W!OneDelivery
  <2>2. CASE pending = <<>> /\ stream # <<>> /\ W!Deliver
    <3>1. pending' = <<Head(stream)>> /\ Len(pending') = 1
      BY <1>1, <2>2 DEF W!Deliver
    <3>2. CASE job' = Head(stream) /\ wpc' = "load"
      BY <3>1, <3>2 DEF DeliveryInv, W!OneDelivery
    <3> QED
      BY <1>4, <2>2, <3>1, <3>2, DeliveryIdle DEF W!ReadGroup, W!Fails
  <2> QED
    BY <1>4, <2>1, <2>2 DEF W!ReadGroup, W!queue, queue
<1> QED
  BY <1>2, <1>3, <1>4

\* What processMessage does with it before it parks the job or has it acknowledged.
LEMMA MessageIsHandled ==
  ASSUME QueueInv, WorkerInv, DeliveryInv,
         \/ W!LoadIntent \/ (\E answered \in BOOLEAN : W!MarkOrderPaid(answered))
         \/ W!SaveIntent \/ W!ConfirmPayment
  PROVE  DeliveryInv'
<1>1. UNCHANGED queue /\ Len(pending') <= 1
  BY DEF W!LoadIntent, W!MarkOrderPaid, W!SaveIntent, W!ConfirmPayment, W!queue, queue,
     DeliveryInv, W!OneDelivery
<1>2. ASSUME wpc \notin {"dequeue", "promote"}, job' = job,
             wpc' = "confirm" => copy'.status = "PROVIDER_MARKED_PAID",
             wpc' = "ack" => copy'.status # "PROVIDER_MARK_FAILED"
      PROVE  DeliveryInv'
  BY <1>1, <1>2 DEF DeliveryInv, W!OneDelivery, queue
<1>3. CASE W!LoadIntent
  BY <1>1, <1>2, <1>3, DeliveryIdle DEF W!LoadIntent, W!Markable, W!Fails
<1>4. CASE \E answered \in BOOLEAN : W!MarkOrderPaid(answered)
  BY <1>2, <1>4 DEF W!MarkOrderPaid
<1>5. CASE W!SaveIntent
  BY <1>1, <1>2, <1>5, DeliveryIdle DEF W!SaveIntent, W!AfterSave, W!Fails
<1>6. CASE W!ConfirmPayment
  BY <1>1, <1>2, <1>6, DeliveryIdle DEF W!ConfirmPayment, W!Calls, W!Fails, DeliveryInv
<1> QED
  BY <1>3, <1>4, <1>5, <1>6

\* A refused job is parked first and acknowledged then.
LEMMA MessageIsConcluded ==
  ASSUME QueueInv, WorkerInv, DeliveryInv, W!RequeueJob \/ W!DeadLetterJob \/ W!AckMessage
  PROVE  DeliveryInv'
<1>1. pending = <<job>> /\ job \in Refs /\ delayed \in [Refs -> Nat]
  BY DEF W!RequeueJob, W!DeadLetterJob, W!AckMessage, DeliveryInv, W!OneDelivery, WorkerInv,
     Earned, Exists, QueueInv
<1>2. Len(pending') <= 1
  <2>1. pending' = pending \/ pending' = Tail(pending)
    BY DEF W!RequeueJob, W!DeadLetterJob, W!AckMessage, W!Calls, W!Requeue, W!DeadLetter,
       W!Ack, W!queue
  <2>2. pending \in Seq(Refs) /\ Len(pending) = 1
    BY <1>1
  <2>3. CASE pending' = pending
    <3>1. pending' \in Seq(Refs) /\ Len(pending') = 1
      BY <2>2, <2>3, Zenon
    <3> QED
      BY <3>1
  <2>4. CASE pending' = Tail(pending)
    <3>1. pending' \in Seq(Refs) /\ Len(pending') = Len(pending) - 1
      BY <2>2, <2>4
    <3> QED
      BY <2>2, <3>1
  <2> QED
    BY <2>1, <2>3, <2>4
<1>3. CASE W!NextMessage
  BY <1>2, <1>3, DeliveryIdle
<1>4. CASE W!Requeue(job) /\ wpc' = "ack" /\ UNCHANGED <<job, copy>>
  <2>1. delayed'[job] = delayed[job] + 1
    BY <1>1, <1>4 DEF W!Requeue
  <2>2. delayed'[job] > 0
    BY <1>1, <2>1
  <2> QED
    BY <1>1, <1>4, <2>2 DEF W!Requeue, DeliveryInv, W!OneDelivery
<1>5. CASE W!DeadLetter(job) /\ wpc' = "ack" /\ UNCHANGED <<job, copy>>
  BY <1>1, <1>5 DEF W!DeadLetter, DeliveryInv, W!OneDelivery
<1> QED
  BY <1>3, <1>4, <1>5 DEF W!RequeueJob, W!DeadLetterJob, W!AckMessage, W!Calls, W!Fails

\* What the others leave to the worker.
LEMMA OthersLeaveDelivery ==
  ASSUME [Next]_vars, ~WorkerStep
  PROVE  \/ UNCHANGED <<pending, delayed, deadLetters, wpc, job, copy>>
         \/ W!NextMessage /\ UNCHANGED pending
<1>1. ASSUME NEW h \in Handlers, HandlerStep(h)
      PROVE  UNCHANGED <<pending, delayed, deadLetters, wpc, job, copy>>
  <2>1. UNCHANGED <<pending, delayed, deadLetters>>
    BY <1>1 DEF HandlerStep, H!HandlerStep, H!MarkWebhookProcessed, H!LoadFails, H!LoadSuccess,
       H!LoadLateFailure, H!LoadFailure, H!Verified, H!NotVerified, H!SaveSuccess, H!SaveLast,
       H!EnqueueJob, H!EnqueueFails, H!Enqueue, H!queue
  <2> QED
    BY <1>1, <2>1 DEF HandlerStep, worker
<1>2. CASE Crash
  BY <1>2 DEF Crash, W!Crash, W!queue
<1>3. CASE ReceiveEvent \/ SettleTransfer
  BY <1>3 DEF ReceiveEvent, SettleTransfer, H!Receive, H!TransferSettles, H!EarlyEvent,
     H!TransferReversed, H!queue, worker
<1>4. CASE Time \/ UNCHANGED vars
  BY <1>4 DEF Time, vars, queue, worker
<1>5. CASE \E c \in Chats : PollerStep(c) \/ \E t \in T!TransferOutcome : RequestTransfer(c, t)
  BY <1>5 DEF PollerStep, RequestTransfer, queue, worker
<1> QED
  BY <1>1, <1>2, <1>3, <1>4, <1>5 DEF Next

LEMMA DeliveryStep ==
  ASSUME QueueInv, WorkerInv, DeliveryInv, [Next]_vars
  PROVE  DeliveryInv'
<1>1. CASE WorkerStep
  BY <1>1, DequeueDelivers, MessageIsHandled, MessageIsConcluded DEF WorkerStep, W!WorkerStep
<1>2. CASE ~WorkerStep
  BY <1>2, OthersLeaveDelivery, DeliveryAlone, DeliveryIdle DEF DeliveryInv, W!OneDelivery
<1> QED
  BY <1>1, <1>2

LEMMA Delivers == Spec => [](IInv /\ DeliveryInv)
<1>1. Init => DeliveryInv
  BY DEF Init, W!Init, H!Init, H!InitQueue, DeliveryInv, W!OneDelivery
<1>2. IInv /\ DeliveryInv /\ [Next]_vars => DeliveryInv'
  BY DeliveryStep DEF IInv
<1> QED
  BY <1>1, <1>2, Inductive, PTL DEF Spec

-----------------------------------------------------------------------------
(* The life of an order, which is what OrderLifecycle sees of the process.  *)
(* A step is one of that module's, and it does it to one order, because no  *)
(* other has the intent that the step is about (AtMostOneIntent); most      *)
(* steps are none.                                                          *)

Payments == [o \in Orders |-> PaymentOf(o)]
Told     == {o \in Orders : StateIs(o, "PAID")}

OwnRefs(o) == {q \in Refs : intents[q] # NoIntent /\ intents[q].order = o}

\* A step that creates no intent, and gives none to another order.
SameIntents ==
  \A r \in Refs :
    /\ intents'[r] # NoIntent <=> intents[r] # NoIntent
    /\ intents[r] # NoIntent => intents'[r].order = intents[r].order

LEMMA PaymentsSame ==
  ASSUME SameIntents, transfer' = transfer
  PROVE  Payments' = Payments
<1>1. ASSUME NEW o \in Orders
      PROVE  PaymentOf(o)' = PaymentOf(o)
  <2>1. OwnRefs(o)' = OwnRefs(o)
    BY DEF SameIntents, OwnRefs
  <2> QED
    BY <2>1, Zenon DEF PaymentOf, OwnRefs
<1> QED
  BY <1>1, Zenon DEF Payments

\* The save of a copy of any age.
LEMMA SavedSame ==
  ASSUME IInv, NEW r, NEW i, IsCopy(i, r), intents' = [intents EXCEPT ![r] = i]
  PROVE  SameIntents
<1>1. \A s \in Refs : intents'[s] = IF s = r THEN i ELSE intents[s]
  BY DEF IInv, PollersInv, TP!IInv, TP!TypeOK
<1> QED
  BY <1>1, NoneAssumption DEF SameIntents, IsCopy, Exists

\* The one payment of an intent that exists.
LEMMA PaymentStands ==
  ASSUME IInv, NEW r, Exists(r)
  PROVE  /\ intents[r].order \in Orders
         /\ PaymentOf(intents[r].order) = {[ref |-> r, state |-> transfer[r]]}
         /\ \A o \in Orders \ {intents[r].order} : r \notin OwnRefs(o)
<1>1. r \in Refs /\ intents[r] # NoIntent /\ intents[r].order \in Orders
  BY DEF IInv, IntentsInv, IsCopy, Exists, Intent
<1>2. OwnRefs(intents[r].order) = {r}
  BY <1>1 DEF OwnRefs, IInv, PollersInv, TP!IInv, TP!AtMostOneIntent
<1>3. PaymentOf(intents[r].order) = {[ref |-> q, state |-> transfer[q]] : q \in {r}}
  BY <1>2, Zenon DEF PaymentOf, OwnRefs
<1> QED
  BY <1>1, <1>3 DEF OwnRefs

LEMMA TransferMoves ==
  ASSUME IInv, NEW r, NEW t, Exists(r), intents' = intents, transfer' = [transfer EXCEPT ![r] = t]
  PROVE  Payments' = [Payments EXCEPT ![intents[r].order] = {[ref |-> r, state |-> t]}]
<1>1. PICK p : p = intents[r].order
  OBVIOUS
<1>2. /\ r \in Refs /\ p \in Orders /\ transfer'[r] = t
      /\ \A q \in Refs \ {r} : transfer'[q] = transfer[q]
  BY <1>1, PaymentStands DEF Exists, IInv, PaystackInv
<1>3. \A o : OwnRefs(o)' = OwnRefs(o)
  BY DEF OwnRefs
<1>4. OwnRefs(p) = {r}
  BY <1>1, <1>2 DEF OwnRefs, Exists, IInv, PollersInv, TP!IInv, TP!AtMostOneIntent
<1>5. PaymentOf(p)' = {[ref |-> r, state |-> t]}
  <2>1. PaymentOf(p)' = {[ref |-> q, state |-> transfer'[q]] : q \in {r}}
    BY <1>3, <1>4, Zenon DEF PaymentOf, OwnRefs
  <2> QED
    BY <1>2, <2>1
<1>6. ASSUME NEW o \in Orders \ {p}
      PROVE  PaymentOf(o)' = PaymentOf(o)
  <2>1. \A q \in OwnRefs(o) : transfer'[q] = transfer[q]
    BY <1>1, <1>2, PaymentStands DEF OwnRefs
  <2>2. {[ref |-> q, state |-> transfer'[q]] : q \in OwnRefs(o)}
          = {[ref |-> q, state |-> transfer[q]] : q \in OwnRefs(o)}
    BY <2>1
  <2> QED
    BY <1>3, <2>2, Zenon DEF PaymentOf, OwnRefs
<1>7. Payments' = [o \in Orders |-> IF o = p THEN {[ref |-> r, state |-> t]} ELSE PaymentOf(o)]
  BY <1>5, <1>6 DEF Payments
<1> QED
  BY <1>1, <1>2, <1>7 DEF Payments

\* A new intent is its order's first, since after the step the order has but one.
LEMMA PaymentCreated ==
  ASSUME IInv, IInv', NEW r \in Refs, NEW o \in Orders, intents[r] = NoIntent,
         intents' = [intents EXCEPT ![r] = NewIntent(r, o)], transfer' = transfer
  PROVE  /\ PaymentOf(o) = {}
         /\ \A p \in Orders : \A i \in PaymentOf(p) : i.ref # r
         /\ Payments' = [Payments EXCEPT ![o] = {[ref |-> r, state |-> "none"]}]
<1>1. /\ \A s \in Refs : intents'[s] = IF s = r THEN NewIntent(r, o) ELSE intents[s]
      /\ intents'[r] # NoIntent /\ intents'[r].order = o
  <2>1. \A s \in Refs : intents'[s] = IF s = r THEN NewIntent(r, o) ELSE intents[s]
    BY DEF IInv, PollersInv, TP!IInv, TP!TypeOK
  <2>2. NewIntent(r, o) \in Intent /\ NewIntent(r, o).order = o
    BY MaxAttemptsAssumption DEF NewIntent, Intent, IntentStatus
  <2> QED
    BY <2>1, <2>2, NoneAssumption
<1>2. \A s \in Refs : intents'[s] # NoIntent /\ intents'[s].order = o => s = r
  BY <1>1 DEF IInv, PollersInv, TP!IInv, TP!AtMostOneIntent
<1>3. OwnRefs(o) = {} /\ OwnRefs(o)' = {r}
  BY <1>1, <1>2 DEF OwnRefs
<1>4. ASSUME NEW p \in Orders \ {o}
      PROVE  OwnRefs(p)' = OwnRefs(p)
  BY <1>1 DEF OwnRefs
<1>5. transfer'[r] = "none"
  BY DEF IInv, PaystackInv, Exists
<1>6. PaymentOf(o) = {}
  <2>1. PaymentOf(o) = {[ref |-> q, state |-> transfer[q]] : q \in {}}
    BY <1>3, Zenon DEF PaymentOf, OwnRefs
  <2> QED
    BY <2>1
<1>7. PaymentOf(o)' = {[ref |-> r, state |-> "none"]}
  <2>1. PaymentOf(o)' = {[ref |-> q, state |-> transfer'[q]] : q \in {r}}
    BY <1>3, Zenon DEF PaymentOf, OwnRefs
  <2> QED
    BY <1>5, <2>1
<1>8. ASSUME NEW p \in Orders \ {o}
      PROVE  PaymentOf(p)' = PaymentOf(p)
  BY <1>4, <1>8, Zenon DEF PaymentOf, OwnRefs
<1>9. ASSUME NEW p \in Orders, NEW i \in PaymentOf(p)
      PROVE  i.ref # r
  <2>1. PICK q \in Refs : i = [ref |-> q, state |-> transfer[q]] /\ intents[q] # NoIntent
    BY DEF PaymentOf
  <2> QED
    BY <2>1
<1>10. Payments' =
        [p \in Orders |-> IF p = o THEN {[ref |-> r, state |-> "none"]} ELSE PaymentOf(p)]
  BY <1>7, <1>8 DEF Payments
<1> QED
  BY <1>6, <1>9, <1>10 DEF Payments

\* A step that it does not see.
LEMMA Unseen ==
  ASSUME SameIntents, UNCHANGED <<workflow, transfer, asked, exchange>>
  PROVE  UNCHANGED Life!vars
<1>1. Payments' = Payments
  BY PaymentsSame
<1>2. Told' = Told
  BY DEF Told, StateIs
<1> QED
  BY <1>1, <1>2 DEF Life!vars, Payments, Told

\* A transfer that goes on: Request, Settle or Reverse.
LEMMA PaymentMoves ==
  ASSUME IInv, NEW r, NEW t, Exists(r), intents' = intents,
         transfer' = [transfer EXCEPT ![r] = t],
         \/ transfer[r] \in {"none", "failed"} /\ t = "pending"
         \/ transfer[r] = "pending" /\ t \in {"success", "failed"}
         \/ transfer[r] = "success" /\ t = "reversed",
         UNCHANGED <<workflow, asked, exchange>>
  PROVE  Life!Next
<1>1. PICK o : o = intents[r].order
  OBVIOUS
<1>2. o \in Orders /\ r \in Refs /\ Payments[o] = {[ref |-> r, state |-> transfer[r]]}
  BY <1>1, PaymentStands DEF Payments, Exists
<1>3. Payments' = [Payments EXCEPT ![o] = {[ref |-> r, state |-> t]}]
  BY <1>1, TransferMoves
<1>4. Told' = Told
  BY DEF Told, StateIs
<1>5. Life!Becomes(o, r, t)
  BY <1>3, <1>4 DEF Life!Becomes, Payments, Told
<1>6. Life!Stands(o, r, transfer[r])
  BY <1>2 DEF Life!Stands, Payments
<1>7. Life!Request(o, r) \/ Life!Settle(o, r) \/ Life!Reverse(o, r)
  BY <1>5, <1>6 DEF Life!Request, Life!Settle, Life!Reverse
<1> QED
  BY <1>2, <1>7 DEF Life!Next

\* A write of one order's record.  If the order is told afterwards, it was asked for.
LEMMA RecordWritten ==
  ASSUME IInv, IInv', NEW o \in Orders, NEW r, workflow' = [workflow EXCEPT ![o] = r],
         SameIntents, UNCHANGED <<transfer, asked, exchange>>
  PROVE  Life!Next
<1>1. Payments' = Payments
  BY PaymentsSame
<1>2. \A p \in Orders \ {o} : workflow'[p] = workflow[p]
  BY DEF IInv, PollersInv, TP!IInv, TP!TypeOK
<1>3. o \in Told' => o \in asked
  BY DEF Told, StateIs, IInv, PaidInv, TP!PaidOnly, TP!StateIs
<1>4. CASE o \in Told'
  <2>1. Told' = Told \cup {o}
    BY <1>2, <1>4 DEF Told, StateIs
  <2>2. Life!Tell(o)
    BY <1>1, <1>3, <1>4, <2>1 DEF Life!Tell, Payments, Told
  <2> QED
    BY <2>2 DEF Life!Next
<1>5. CASE o \notin Told'
  <2>1. Told' \subseteq Told
    BY <1>2, <1>5 DEF Told, StateIs
  <2>2. Life!Forget
    BY <1>1, <2>1 DEF Life!Forget, Payments, Told
  <2> QED
    BY <2>2 DEF Life!Next
<1> QED
  BY <1>4, <1>5

\* A poller writes a record or an intent, never both.
LEMMA LifeOfPoller ==
  ASSUME IInv, IInv', NEW c \in Chats, PollerStep(c)
  PROVE  [Life!Next]_(Life!vars)
<1>1. UNCHANGED <<transfer, asked, exchange>>
  BY DEF PollerStep, paystack, worker
<1>2. TP!PollerStep(c) \/ TP!SessionStep(c)
  BY OneModule DEF PollerStep, T!PollerStep
<1>3. CASE TP!SessionStep(c)
  BY <1>1, <1>3, Unseen DEF TP!SessionStep, TP!Schedule, TP!SessionEnds, TP!TaskRemoved,
     TP!stores, TP!records, SameIntents
<1>4. ASSUME TP!PollerStep(c), workflow' # workflow
      PROVE  Life!Next
  <2>1. /\ intents' = intents
        /\ \E r : workflow' = [workflow EXCEPT ![order[c]] = r]
    BY <1>4, PollersWriteOne DEF IInv
  <2>2. order[c] \in Orders
    <3>1. ASSUME order[c] \notin Orders
          PROVE  workflow' = workflow
      BY <2>1, <3>1 DEF IInv, PollersInv, TP!IInv, TP!TypeOK
    <3> QED
      BY <1>4, <3>1
  <2> QED
    BY <1>1, <2>1, <2>2, RecordWritten DEF SameIntents
<1>5. ASSUME TP!PollerStep(c), workflow' = workflow
      PROVE  [Life!Next]_(Life!vars)
  <2>1. TP!WritesIntents(c)
    BY <1>5, PollersWrite DEF IInv
  <2>2. CASE intents' = intents
    BY <1>1, <1>5, <2>2, Unseen DEF SameIntents
  <2>3. ASSUME pc[c] \in TP!Working, NEW r \in Refs, intents[r] = NoIntent,
               intents' = [intents EXCEPT ![r] = TP!NewIntent(r, order[c])]
        PROVE  Life!Next
    <3>1. PICK o \in Orders : o = order[c]
      BY <2>3 DEF IInv, PollersInv, TP!IInv, TP!LockInv, TP!TypeOK
    <3>2. intents' = [intents EXCEPT ![r] = NewIntent(r, o)]
      BY <2>3, <3>1 DEF TP!NewIntent, NewIntent
    <3>3. /\ PaymentOf(o) = {}
          /\ \A p \in Orders : \A i \in PaymentOf(p) : i.ref # r
          /\ Payments' = [Payments EXCEPT ![o] = {[ref |-> r, state |-> "none"]}]
      BY <1>1, <2>3, <3>2, PaymentCreated
    <3>4. Told' = Told
      BY <1>5 DEF Told, StateIs
    <3>5. Life!Becomes(o, r, "none")
      BY <1>1, <3>3, <3>4 DEF Life!Becomes, Payments, Told
    <3>6. Life!Create(o, r)
      BY <3>3, <3>5 DEF Life!Create
    <3> QED
      BY <3>6 DEF Life!Next
  <2>4. ASSUME pc[c] = "save_intent", intents' = [intents EXCEPT ![draft[c].ref] = draft[c]]
        PROVE  UNCHANGED Life!vars
    <3>1. IsCopy(draft[c], draft[c].ref)
      BY <2>4, DraftIsCopy
    <3>2. SameIntents
      BY <2>4, <3>1, SavedSame
    <3> QED
      BY <1>1, <1>5, <3>2, Unseen
  <2> QED
    BY <2>1, <2>2, <2>3, <2>4 DEF TP!WritesIntents
<1> QED
  BY <1>2, <1>3, <1>4, <1>5

\* Its request moves the transfer of its own intent, or nothing.
LEMMA LifeOfRequest ==
  ASSUME IInv, NEW c \in Chats, NEW outcome \in T!TransferOutcome, RequestTransfer(c, outcome)
  PROVE  [Life!Next]_(Life!vars)
<1>1. UNCHANGED <<workflow, intents, asked, exchange>> /\ pc[c] = "transfer"
  BY DEF RequestTransfer, T!AutoTransfer, T!stores, T!records, worker
<1>2. Exists(draft[c].ref)
  BY <1>1 DEF IInv, PollersInv, TP!IInv, TP!TypeOK, TP!IndexInv, TP!HasDraft, TP!Intent, Exists
<1>3. \/ transfer' = transfer
      \/ /\ transfer[draft[c].ref] \in {"none", "failed"}
         /\ transfer' = [transfer EXCEPT ![draft[c].ref] = "pending"]
  BY DEF RequestTransfer, P!Requested, P!TakesUp, P!CanTakeUp
<1>4. SameIntents
  BY <1>1 DEF SameIntents
<1> QED
  BY <1>1, <1>2, <1>3, <1>4, PaymentMoves, Unseen

\* A handler's copies are the intents they were read from.
LEMMA LifeOfHandler ==
  ASSUME IInv, NEW h \in Handlers, HandlerStep(h)
  PROVE  UNCHANGED Life!vars
<1>1. UNCHANGED <<asked, exchange, transfer>>
  <2>1. UNCHANGED <<asked, exchange>>
    BY DEF HandlerStep, worker
  <2>2. UNCHANGED transfer
    BY DEF HandlerStep, H!HandlerStep, H!MarkWebhookProcessed, H!LoadFails, H!LoadSuccess,
       H!LoadLateFailure, H!LoadFailure, H!Verified, H!NotVerified, H!SaveSuccess, H!SaveLast,
       H!EnqueueJob, H!EnqueueFails, H!paystack
  <2> QED
    BY <2>1, <2>2
<1>2. UNCHANGED workflow /\ SameIntents
  <2>1. CASE H!SaveSuccess(h) \/ H!SaveLast(h)
    BY <2>1, HandlerSaves, SavedSame DEF records, SameIntents
  <2>2. CASE H!EnqueueJob(h) \/ H!EnqueueFails(h)
    BY <2>2, HandlerEnqueues DEF stores, records, SameIntents
  <2>3. CASE \/ H!MarkWebhookProcessed(h) \/ H!LoadFails(h) \/ H!LoadSuccess(h)
             \/ H!LoadLateFailure(h) \/ H!LoadFailure(h) \/ H!Verified(h) \/ H!NotVerified(h)
    BY <2>3 DEF H!MarkWebhookProcessed, H!LoadFails, H!LoadSuccess, H!LoadLateFailure,
       H!LoadFailure, H!Verified, H!NotVerified, H!stores, H!records, SameIntents
  <2> QED
    BY <2>1, <2>2, <2>3 DEF HandlerStep, H!HandlerStep
<1> QED
  BY <1>1, <1>2, Unseen

\* Paystack settles and reverses transfers of intents that exist.
LEMMA LifeOfEvents ==
  ASSUME IInv, ReceiveEvent \/ SettleTransfer
  PROVE  [Life!Next]_(Life!vars)
<1>1. UNCHANGED <<workflow, intents, asked, exchange>> /\ SameIntents
  BY DEF ReceiveEvent, SettleTransfer, H!Receive, H!TransferSettles, H!EarlyEvent,
     H!TransferReversed, H!stores, H!records, worker, SameIntents
<1>2. CASE ReceiveEvent
  BY <1>1, <1>2, Unseen DEF ReceiveEvent, H!Receive, H!paystack
<1>3. CASE SettleTransfer
  <2>1. PICK r \in Refs : H!TransferSettles(r) \/ H!EarlyEvent(r) \/ H!TransferReversed(r)
    BY <1>3 DEF SettleTransfer
  <2>2. CASE transfer' = transfer
    BY <1>1, <2>2, Unseen
  <2>3. CASE transfer' # transfer
    <3>1. PICK t : /\ transfer' = [transfer EXCEPT ![r] = t]
                   /\ \/ transfer[r] = "pending" /\ t \in {"success", "failed"}
                      \/ transfer[r] = "success" /\ t = "reversed"
      BY <2>1, <2>3 DEF H!TransferSettles, H!EarlyEvent, H!TransferReversed
    <3>2. Exists(r)
      BY <3>1 DEF IInv, PaystackInv
    <3> QED
      BY <1>1, <3>1, <3>2, PaymentMoves
  <2> QED
    BY <2>2, <2>3
<1> QED
  BY <1>2, <1>3

\* The worker asks for the order of its job, whose money has moved, and tells the
\* workflow of the order that it has asked for.
LEMMA LifeOfWorker ==
  ASSUME IInv, IInv', WorkerStep
  PROVE  [Life!Next]_(Life!vars)
<1>1. UNCHANGED transfer /\ UNCHANGED <<pollers, paystack>>
  BY DEF WorkerStep, paystack
<1>2. CASE \/ (\E r \in Refs : W!PromoteDue(r)) \/ W!PromoteJob \/ W!ReadGroup \/ W!LoadIntent
           \/ W!RequeueJob \/ W!DeadLetterJob \/ W!AckMessage
  BY <1>1, <1>2, Unseen DEF W!PromoteDue, W!PromoteJob, W!ReadGroup, W!LoadIntent, W!RequeueJob,
     W!DeadLetterJob, W!AckMessage, W!stores, W!records, W!bybit, SameIntents
<1>3. CASE W!SaveIntent
  <2>1. SameIntents /\ UNCHANGED workflow
    BY <1>1, <1>3, WorkerSaves, SavedSame DEF records, SameIntents
  <2> QED
    BY <1>1, <1>3, <2>1, Unseen DEF W!SaveIntent, W!bybit
<1>4. ASSUME NEW answered \in BOOLEAN, W!MarkOrderPaid(answered)
      PROVE  Life!Next
  <2>1. PICK o : o = intents[job].order
    OBVIOUS
  <2>2. Earned(job) /\ copy.order = o
    BY <1>4, <2>1 DEF W!MarkOrderPaid, IInv, WorkerInv, Loaded, IsCopy
  <2>3. /\ o \in Orders /\ job \in Refs
        /\ Payments[o] = {[ref |-> job, state |-> transfer[job]]}
    BY <2>1, <2>2, PaymentStands DEF Payments, Earned, Exists
  <2>4. Life!Stands(o, job, transfer[job]) /\ transfer[job] \in {"success", "reversed"}
    BY <2>2, <2>3 DEF Life!Stands, Payments, Earned, Moved
  <2>5. UNCHANGED <<workflow, intents>>
    BY <1>4 DEF W!MarkOrderPaid, W!stores, W!records
  <2>6. Payments' = Payments /\ Told' = Told
    BY <1>1, <2>5, PaymentsSame DEF SameIntents, Told, StateIs
  <2>7. asked' = asked \cup {o} /\ exchange' \in {exchange, exchange \cup {o}}
    BY <1>4, <2>2 DEF W!MarkOrderPaid
  <2>8. Life!Ask(o, job)
    BY <2>4, <2>6, <2>7 DEF Life!Ask, Payments, Told
  <2> QED
    BY <2>3, <2>8 DEF Life!Next
<1>5. CASE W!ConfirmPayment
  <2>1. /\ UNCHANGED <<intents, asked, exchange>>
        /\ copy.order \in Orders
        /\ UNCHANGED workflow \/ \E r : workflow' = [workflow EXCEPT ![copy.order] = r]
    <3>1. UNCHANGED <<intents, asked, exchange>>
      BY <1>5 DEF W!ConfirmPayment, W!bybit
    <3>2. /\ copy.order \in Orders
          /\ UNCHANGED stores \/ TP!WorkerConfirms(copy.order)
      BY <1>1, <1>5, WorkerTells
    <3> QED
      BY <3>1, <3>2 DEF stores, records, TP!WorkerConfirms, TP!PutIndexed, TP!Put
  <2>2. SameIntents
    BY <2>1 DEF SameIntents
  <2> QED
    BY <1>1, <2>1, <2>2, Unseen, RecordWritten
<1> QED
  BY <1>2, <1>3, <1>4, <1>5 DEF WorkerStep, W!WorkerStep

\* A key's TTL can end the record that says PAID; nothing else goes with time or a crash.
LEMMA LifeInTime ==
  ASSUME IInv, IInv', Time \/ Crash \/ UNCHANGED vars
  PROVE  [Life!Next]_(Life!vars)
<1>1. UNCHANGED <<intents, transfer, asked, exchange>> /\ SameIntents
  <2>1. CASE Time
    BY <2>1 DEF Time, T!Time, T!Expire, T!WorkflowKeyExpires, T!stores, stores, paystack, worker,
       SameIntents
  <2>2. CASE Crash
    BY <2>2 DEF Crash, W!Crash, W!stores, W!bybit, H!Crash, H!paystack, SameIntents
  <2>3. CASE UNCHANGED vars
    BY <2>3 DEF vars, stores, paystack, worker, SameIntents
  <2> QED
    BY <2>1, <2>2, <2>3
<1>2. CASE UNCHANGED workflow
  BY <1>1, <1>2, Unseen
<1>3. ASSUME NEW o \in Orders, T!WorkflowKeyExpires(o)
      PROVE  Life!Next
  <2>1. workflow' = [workflow EXCEPT ![o] = NoRecord]
    BY <1>3 DEF T!WorkflowKeyExpires, T!Put
  <2> QED
    BY <1>1, <2>1, RecordWritten
<1>4. UNCHANGED workflow \/ \E o \in Orders : T!WorkflowKeyExpires(o)
  BY DEF Time, T!Time, T!Expire, T!stores, T!records, Crash, W!Crash, W!stores, W!records, vars,
     stores, records
<1> QED
  BY <1>2, <1>3, <1>4

LEMMA LifeStep ==
  ASSUME IInv, IInv', [Next]_vars
  PROVE  [Life!Next]_(Life!vars)
BY LifeOfPoller, LifeOfRequest, LifeOfHandler, LifeOfEvents, LifeOfWorker, LifeInTime DEF Next

-----------------------------------------------------------------------------
(* The theorems *)

\* ImplementsTaskManager: whatever the handlers, the worker, Paystack and the clock
\* of runtime.go's process do, and however often it dies, the pollers see nothing
\* that TaskManager does not let its environment do.
THEOREM PollersRefined == Spec => ImplementsTaskManager
<1>1. Init => T!Init
  BY DEF Init
<1>2. IInv /\ [Next]_vars => [T!Next]_(T!vars)
  <2> SUFFICES ASSUME IInv, [Next]_vars
               PROVE  [T!Next]_(T!vars)
    OBVIOUS
  <2>1. [TP!Next]_(TP!vars)
    BY NextStep
  <2>2. CASE TP!Next
    BY <2>2, OneModule
  <2>3. CASE UNCHANGED (TP!vars)
    BY <2>3 DEF TP!vars, T!vars, TP!stores, T!stores, TP!records, T!records, TP!loop, T!loop,
       TP!local, T!local
  <2> QED
    BY <2>1, <2>2, <2>3
<1> QED
  BY <1>1, <1>2, Inductive, PTL DEF Spec, ImplementsTaskManager, T!Spec

\* So the whole process creates at most one intent for an order, and transfers with
\* the account details of a successful fetch.
THEOREM PollersSafe == Spec => [](T!AtMostOneIntent /\ T!TransferHasDetails)
<1>1. IInv => T!AtMostOneIntent
  BY DEF IInv, PollersInv, TP!IInv, TP!AtMostOneIntent, T!AtMostOneIntent
<1>2. IInv => T!TransferHasDetails
  <2> SUFFICES ASSUME IInv, NEW c \in Chats, pc[c] \in {"create_intent", "transfer"}
               PROVE  rec[c].detail
    BY DEF T!TransferHasDetails
  <2> QED
    BY DEF IInv, PollersInv, TP!IInv, TP!LocalInv, TP!DetailInv, TP!HasRecord, TP!HasDetails
<1> QED
  BY <1>1, <1>2, Inductive, PTL

\* H!OnlyMovedIsSettled, in the whole process: an intent says that its transfer
\* succeeded, and a job asks to mark its order paid, only when the money has moved,
\* also where the worker and the pollers save copies of any age.
THEOREM SettledIsMoved == Spec => []H!OnlyMovedIsSettled
<1>1. IInv => H!OnlyMovedIsSettled
  <2> SUFFICES ASSUME IInv, NEW r \in Refs,
                      \/ intents[r] # NoIntent /\ intents[r].status \in Claims
                      \/ H!Queued(r)
               PROVE  H!Moved(r)
    BY DEF H!OnlyMovedIsSettled, H!Settled, Claims
  <2>1. CASE intents[r] # NoIntent /\ intents[r].status \in Claims
    BY <2>1 DEF IInv, IntentsInv, IsCopy, Moved, H!Moved
  <2>2. CASE H!Queued(r)
    BY <2>2 DEF IInv, QueueInv, H!Queued, H!Contains, Earned, Moved, H!Moved
  <2> QED
    BY <2>1, <2>2
<1> QED
  BY <1>1, Inductive, PTL

\* H!OneHandlerPerEvent: in the whole process too, of all the deliveries of an event
\* one handler works on it at a time.
THEOREM EventsApart == Spec => []H!OneHandlerPerEvent
<1>1. Init => KeysInv
  BY DEF Init, H!Init, KeysInv, Busy, H!OneHandlerPerEvent
<1>2. IInv /\ KeysInv /\ [Next]_vars => KeysInv'
  BY KeysStep DEF IInv
<1>3. KeysInv => H!OneHandlerPerEvent
  BY DEF KeysInv
<1> QED
  BY <1>1, <1>2, <1>3, Inductive, PTL DEF Spec

\* W!PaidWasAsked: nobody but the worker that has asked the exchange, neither a
\* poller nor the end of a record's TTL, makes a workflow say PAID.
THEOREM PaidIsAsked == Spec => []W!PaidWasAsked
<1>1. IInv => W!PaidWasAsked
  BY DEF IInv, PaidInv, TP!PaidOnly, TP!StateIs, W!PaidWasAsked, W!StateIs
<1> QED
  BY <1>1, Inductive, PTL

\* T!HandoffIsNotUndone: no save of a workflow, the worker's included, puts an order
\* back before its handoff.
THEOREM HandoffStands == Spec => T!HandoffIsNotUndone
<1> DEFINE kept == \A o \in Orders :
             (workflow[o] # NoRecord /\ workflow[o].state \in {"PAYMENT_PENDING_EXTERNAL", "PAID"})
               => (workflow'[o] = NoRecord \/ workflow'[o].state \in T!HandedOff)
<1>1. IInv /\ [Next]_vars => [kept]_(T!vars)
  <2> SUFFICES ASSUME IInv, [Next]_vars
               PROVE  [kept]_(T!vars)
    OBVIOUS
  <2>1. [TP!Next]_(TP!vars)
    BY NextStep
  <2>2. [TP!Kept]_(TP!vars)
    BY <2>1, PollersKeep DEF IInv
  <2>3. TP!vars = T!vars
    BY OneModule
  <2>4. TP!Kept => kept
    BY DEF TP!Kept, TP!HandedOff, T!HandedOff
  <2> HIDE DEF kept
  <2> QED
    BY <2>2, <2>3, <2>4 DEF TP!vars, T!vars, TP!stores, T!stores, TP!records, T!records, TP!loop,
       T!loop, TP!local, T!local
<1> QED
  BY <1>1, Inductive, PTL DEF Spec, T!HandoffIsNotUndone

\* W!OneDelivery and W!FailedJobIsKept: next to the real handlers too, the worker has
\* one delivery in hand, and a job that the exchange refused is requeued or
\* dead-lettered before it is acknowledged, whatever fails or crashes in between.
THEOREM JobsAreKept == Spec => []W!OneDelivery /\ W!FailedJobIsKept
<1> DEFINE kept == \A r \in Refs :
             (pending = <<r>> /\ pending' = <<>> /\ copy.status = "PROVIDER_MARK_FAILED")
               => (delayed'[r] > 0 \/ r \in deadLetters')
<1>1. IInv /\ DeliveryInv /\ [Next]_vars => [kept]_(W!vars)
  <2> SUFFICES ASSUME IInv, DeliveryInv, [Next]_vars, NEW r \in Refs,
                      pending = <<r>>, pending' = <<>>, copy.status = "PROVIDER_MARK_FAILED"
               PROVE  delayed'[r] > 0 \/ r \in deadLetters'
    OBVIOUS
  <2>1. WorkerStep
    BY OthersLeaveDelivery
  <2>2. ~UNCHANGED queue /\ ~UNCHANGED pending
    BY DEF queue
  <2>3. ~W!Deliver
    BY DEF W!Deliver
  <2>4. W!AckMessage
    BY <2>1, <2>2, <2>3 DEF WorkerStep, W!WorkerStep, W!PromoteDue, W!RemoveDelayed, W!PromoteJob,
       W!ReadGroup, W!LoadIntent, W!MarkOrderPaid, W!SaveIntent, W!ConfirmPayment, W!RequeueJob,
       W!DeadLetterJob, W!Calls, W!Enqueue, W!Requeue, W!DeadLetter, W!queue, queue
  <2>5. wpc = "ack" /\ job = r /\ UNCHANGED <<delayed, deadLetters>>
    BY <2>2, <2>4 DEF W!AckMessage, W!Ack, W!queue, queue, DeliveryInv, W!OneDelivery
  <2> QED
    BY <2>5 DEF DeliveryInv
<1>2. DeliveryInv => W!OneDelivery
  BY DEF DeliveryInv
<1> QED
  BY <1>1, <1>2, Delivers, PTL DEF Spec, W!FailedJobIsKept

\* PaidIsPaidFor: the worker asks the exchange to mark an order paid, and the order's
\* record says so, only when Paystack has moved the money of the order's own intent.
THEOREM PaidForMoved == Spec => []PaidIsPaidFor
<1>1. IInv => PaidIsPaidFor
  <2> SUFFICES ASSUME IInv, NEW o \in Orders, o \in asked \/ StateIs(o, "PAID")
               PROVE  \E r \in Refs : intents[r] # NoIntent /\ intents[r].order = o /\ H!Moved(r)
    BY DEF PaidIsPaidFor
  <2>1. o \in asked
    BY DEF IInv, PaidInv, TP!PaidOnly, TP!StateIs, StateIs
  <2> QED
    BY <2>1 DEF IInv, AskedInv, Exists, Moved, H!Moved
<1> QED
  BY <1>1, Inductive, PTL

\* OneTransferPerOrder: of the references of an order, and of those that nobody has
\* stored, Paystack has at most one under way or done.
THEOREM OneTransfer == Spec => []OneTransferPerOrder
<1>1. IInv => OneTransferPerOrder
  <2> SUFFICES ASSUME IInv, NEW o \in Orders
               PROVE  Cardinality({r \in Refs :
                        /\ transfer[r] \in {"pending", "success", "reversed"}
                        /\ intents[r] = NoIntent \/ intents[r].order = o}) <= 1
    BY DEF OneTransferPerOrder
  <2> DEFINE mine == {r \in Refs : /\ transfer[r] \in {"pending", "success", "reversed"}
                                   /\ intents[r] = NoIntent \/ intents[r].order = o}
  <2>1. \A r, s \in mine : r = s
    BY DEF IInv, PaystackInv, Exists, PollersInv, TP!IInv, TP!AtMostOneIntent
  <2>2. CASE mine = {}
    BY <2>2, FS_EmptySet
  <2>3. ASSUME NEW r \in mine
        PROVE  Cardinality(mine) <= 1
    <3>1. mine = {r}
      BY <2>1, <2>3
    <3>2. Cardinality({r}) = 1
      BY FS_Singleton
    <3> QED
      BY <3>1, <3>2
  <2> QED
    BY <2>2, <2>3
<1> QED
  BY <1>1, Inductive, PTL

\* ImplementsLifecycle: pollers, handlers, worker and Paystack, each with copies of
\* their own, take every order the one way of OrderLifecycle: one reference, a transfer
\* asked for only while none is under way or done, the exchange asked only when the
\* money has moved, the workflow told only when the exchange was asked.
THEOREM LifecycleImplemented == Spec => ImplementsLifecycle
<1>1. Init => Life!Init
  <2> SUFFICES ASSUME Init PROVE Life!Init
    OBVIOUS
  <2>1. /\ workflow = [o \in Orders |-> NoRecord] /\ intents = [r \in Refs |-> NoIntent]
        /\ asked = {} /\ exchange = {}
    BY DEF Init, T!Init, T!InitStores, T!EmptyList, W!Init
  <2>2. \A o \in Orders : PaymentOf(o) = {} /\ ~StateIs(o, "PAID")
    BY <2>1 DEF PaymentOf, StateIs
  <2> QED
    BY <2>1, <2>2 DEF Life!Init
<1>2. IInv /\ IInv' /\ [Next]_vars => [Life!Next]_(Life!vars)
  BY LifeStep
<1> QED
  BY <1>1, <1>2, Inductive, PTL DEF Spec, ImplementsLifecycle, Life!Spec
=============================================================================
