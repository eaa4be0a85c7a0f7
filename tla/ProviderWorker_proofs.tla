----------------------- MODULE ProviderWorker_proofs -----------------------
(***************************************************************************)
(* TLAPS proofs about ProviderWorker, for every value of its constants.    *)
(***************************************************************************)
EXTENDS ProviderWorker, SequenceTheorems, TLAPS

(* The inductive invariant.  OneDelivery and PaidWasAsked say nothing of   *)
(* how a message got into the worker's hand; what they rest on is that a   *)
(* queued reference has an intent (JobInv), that the worker's copy is of   *)
(* an order it has asked about before it tells anyone (CopyInv), and that  *)
(* a refused job is parked before it is acknowledged (ParkedInv).  The     *)
(* parts are grouped by the state they speak of: the stores and the        *)
(* exchange, the queue, and the worker's own variables.                    *)

IntentType == [Refs -> Intent \cup {NoIntent}]
RecordType == [Orders -> WfRecord \cup {NoRecord}]

StoresInv ==
  /\ workflow \in RecordType
  /\ chatIndex \in [Chats -> SUBSET Orders]
  /\ intents \in IntentType
  /\ orderIndex \in [Orders -> Refs \cup {NoRef}]
  /\ asked \subseteq Orders /\ exchange \subseteq Orders
  /\ \A r \in Refs : intents[r] # NoIntent => intents[r].ref = r
  /\ PaidWasAsked

\* Every job in the queue is of a stored intent, wherever it is.
JobInv ==
  /\ \A i \in 1..Len(stream) : intents[stream[i]] # NoIntent
  /\ \A i \in 1..Len(pending) : intents[pending[i]] # NoIntent
  /\ \A r \in Refs : delayed[r] > 0 => intents[r] # NoIntent

QueueInv ==
  /\ stream \in Seq(Refs) /\ pending \in Seq(Refs)
  /\ delayed \in [Refs -> Nat] /\ deadLetters \subseteq Refs
  /\ Len(pending) <= 1
  /\ JobInv

WithCopy == {"mark", "save", "confirm", "requeue", "deadletter", "ack"}
Place    == {"dequeue", "promote", "load"} \cup WithCopy

\* The worker has a job in hand, then a copy of its intent, and it has asked the
\* exchange before it saves the answer or tells the workflow.
CopyInv ==
  /\ wpc # "dequeue" => job \in Refs /\ intents[job] # NoIntent
  /\ wpc \in WithCopy => copy \in Intent
  /\ wpc \in {"save", "confirm"} => copy.order \in asked
  /\ wpc = "confirm" => copy.status = "PROVIDER_MARKED_PAID"

\* A job that the exchange refused waits or is dead-lettered when it is about to be
\* acknowledged.
ParkedInv ==
  (wpc = "ack" /\ copy.status = "PROVIDER_MARK_FAILED")
    => (delayed[job] > 0 \/ job \in deadLetters)

WorkerInv ==
  /\ wpc \in Place
  /\ job \in Refs \cup {NoRef} /\ copy \in Intent \cup {NoIntent}
  /\ wpc \notin {"dequeue", "promote"} => pending = <<job>>
  /\ CopyInv
  /\ ParkedInv

IInv == StoresInv /\ QueueInv /\ WorkerInv

\* Intents are never removed.
IntentsKept == \A r \in Refs : intents[r] # NoIntent => intents'[r] # NoIntent

-----------------------------------------------------------------------------
(* Lemmas about the operators *)

\* The two edges that leave PAYMENT_PENDING_EXTERNAL.
LEMMA PendingEdges ==
  /\ ApplyOrderEvent("PAYMENT_PENDING_EXTERNAL", "PAYMENT_CONFIRMED") = "PAID"
  /\ ApplyOrderEvent("PAYMENT_PENDING_EXTERNAL", "ORDER_EXPIRED") = "TIMED_OUT"
  BY SMT DEF ApplyOrderEvent, OrderTransitions, OrderState, Resumable, Terminal

\* A record written and indexed: the types hold, and no other order is touched.
LEMMA PutIndexedTypes ==
  ASSUME workflow \in RecordType, chatIndex \in [Chats -> SUBSET Orders],
         NEW o \in Orders, NEW r \in WfRecord, PutIndexed(o, r)
  PROVE  /\ workflow' \in RecordType
         /\ chatIndex' \in [Chats -> SUBSET Orders]
         /\ workflow'[o] = r
         /\ \A p \in Orders \ {o} : workflow'[p] = workflow[p]
<1>1. r.chat \in Chats
  BY DEF WfRecord
<1>2. chatIndex' \in [Chats -> SUBSET Orders]
  BY <1>1 DEF PutIndexed, AddToChat
<1> QED
  BY <1>2 DEF PutIndexed, Put, RecordType

\* A record that ends its wait, by either edge, is a record.
LEMMA AfterPending ==
  ASSUME NEW r \in WfRecord, r.state = "PAYMENT_PENDING_EXTERNAL",
         NEW e \in {"PAYMENT_CONFIRMED", "ORDER_EXPIRED"}
  PROVE  /\ After(r, e) \in WfRecord
         /\ After(r, e).state = IF e = "PAYMENT_CONFIRMED" THEN "PAID" ELSE "TIMED_OUT"
<1> DEFINE s == ApplyOrderEvent("PAYMENT_PENDING_EXTERNAL", e)
<1>1. s = IF e = "PAYMENT_CONFIRMED" THEN "PAID" ELSE "TIMED_OUT"
  BY PendingEdges
<1>2. s \in OrderState
  BY <1>1 DEF OrderState, Terminal
<1>3. After(r, e) = [r EXCEPT !.state = s]
  BY DEF After
<1> HIDE DEF s
<1> QED
  BY <1>1, <1>2, <1>3 DEF WfRecord

\* An intent written under its own reference, alone or with its index entry.
LEMMA PutIntentTypes ==
  ASSUME intents \in IntentType, orderIndex \in [Orders -> Refs \cup {NoRef}],
         NEW i \in Intent,
         \/ SaveIntentKeys(i)
         \/ PutIntent(i) /\ UNCHANGED orderIndex
  PROVE  /\ intents' \in IntentType
         /\ orderIndex' \in [Orders -> Refs \cup {NoRef}]
         /\ intents'[i.ref] = i
         /\ \A r \in Refs \ {i.ref} : intents'[r] = intents[r]
<1>1. i.ref \in Refs /\ i.order \in Orders
  BY DEF Intent
<1> QED
  BY <1>1 DEF SaveIntentKeys, PutIntent, IntentType

\* The retry count stays in its range.
LEMMA BumpType ==
  ASSUME NEW n \in 0..MaxAttempts
  PROVE  Bump(n) \in 0..MaxAttempts
  BY MaxAttemptsAssumption DEF Bump, IsExhausted

\* Both answers of the exchange make an intent of the same order.
LEMMA MarkTypes ==
  ASSUME NEW i \in Intent
  PROVE  /\ MarkPaid(i) \in Intent /\ MarkPaid(i).order = i.order
         /\ MarkFailed(i) \in Intent /\ MarkFailed(i).order = i.order
<1>1. 0 \in 0..MaxAttempts /\ FALSE \in BOOLEAN
  BY MaxAttemptsAssumption
<1>2. MarkPaid(i) \in Intent /\ MarkPaid(i).order = i.order
  BY <1>1 DEF MarkPaid, Intent, IntentStatus
<1> DEFINE n == Bump(i.retry)
           b == ~IsExhausted(n)
<1>3. n \in 0..MaxAttempts
  BY BumpType DEF Intent
<1>4. b \in BOOLEAN
  BY Zenon
<1>5. MarkFailed(i) =
        [i EXCEPT !.status = "PROVIDER_MARK_FAILED", !.retry = n, !.scheduled = b]
  BY DEF MarkFailed
<1> HIDE DEF n, b
<1>6. MarkFailed(i) \in Intent /\ MarkFailed(i).order = i.order
  BY <1>3, <1>4, <1>5 DEF Intent, IntentStatus
<1> QED
  BY <1>2, <1>6

-----------------------------------------------------------------------------
(* The queue's commands *)

\* Nothing that leaves the queue alone and removes no intent takes a job's intent away.
LEMMA QueueKept ==
  ASSUME QueueInv, UNCHANGED queue, IntentsKept
  PROVE  QueueInv'
  BY DEF QueueInv, JobInv, queue, IntentsKept

\* A pending message is the only one.
LEMMA OnePending ==
  ASSUME QueueInv, pending # <<>>
  PROVE  /\ pending = <<pending[1]>> /\ Head(pending) = pending[1]
         /\ pending[1] \in Refs /\ intents[pending[1]] # NoIntent
         /\ Tail(pending) = <<>>
<1>1. pending \in Seq(Refs) /\ Len(pending) <= 1
  BY DEF QueueInv
<1>2. Len(pending) \in Nat \ {0}
  BY <1>1, EmptySeq, Zenon
<1>3. Len(pending) = 1
  BY <1>1, <1>2
<1>4. pending = <<pending[1]>> /\ Head(pending) = pending[1] /\ pending[1] \in Refs
  BY <1>1, <1>3
<1>5. intents[pending[1]] # NoIntent
  BY <1>3 DEF QueueInv, JobInv
<1>6. Tail(pending) = <<>>
  <2>1. Tail(pending) \in Seq(Refs) /\ Len(Tail(pending)) = 0
    BY <1>1, <1>3
  <2> QED
    BY <2>1, EmptySeq, Zenon
<1> QED
  BY <1>4, <1>5, <1>6

\* Each command of the queue keeps its invariant: only a job that has an intent is
\* added, and a message is delivered only when none is pending.
LEMMA QueueCommands ==
  ASSUME QueueInv, UNCHANGED intents
  PROVE  /\ \A r \in Refs : intents[r] # NoIntent /\ Enqueue(r) => QueueInv'
         /\ \A r \in Refs : RemoveDelayed(r) => QueueInv' /\ intents[r] # NoIntent
         /\ stream # <<>> /\ pending = <<>> /\ Deliver
              => /\ QueueInv' /\ pending' = <<Head(stream)>>
                 /\ Head(stream) \in Refs /\ intents[Head(stream)] # NoIntent
         /\ \A r \in Refs : intents[r] # NoIntent /\ Requeue(r)
              => QueueInv' /\ delayed'[r] > 0
         /\ \A r \in Refs : DeadLetter(r) => QueueInv' /\ r \in deadLetters'
         /\ pending # <<>> /\ Ack => QueueInv' /\ pending' = <<>>
<1> USE DEF QueueInv, JobInv
<1>1. ASSUME NEW r \in Refs, intents[r] # NoIntent, Enqueue(r)  PROVE QueueInv'
  BY <1>1 DEF Enqueue
<1>2. ASSUME NEW r \in Refs, RemoveDelayed(r)  PROVE QueueInv' /\ intents[r] # NoIntent
  BY <1>2 DEF RemoveDelayed
<1>3. ASSUME stream # <<>>, pending = <<>>, Deliver
      PROVE  /\ QueueInv' /\ pending' = <<Head(stream)>>
             /\ Head(stream) \in Refs /\ intents[Head(stream)] # NoIntent
  <2>1. Len(stream) > 0 /\ Head(stream) = stream[1] /\ Head(stream) \in Refs
    BY <1>3
  <2>2. pending' = <<Head(stream)>>
    BY <1>3, <2>1 DEF Deliver
  <2>3. \A i \in 1..Len(stream') : stream'[i] = stream[i + 1] /\ i + 1 \in 1..Len(stream)
    BY <1>3, <2>1 DEF Deliver
  <2>4. stream' \in Seq(Refs)
    BY <1>3, <2>1 DEF Deliver
  <2> QED
    BY <1>3, <2>1, <2>2, <2>3, <2>4 DEF Deliver
<1>4. ASSUME NEW r \in Refs, intents[r] # NoIntent, Requeue(r)
      PROVE  QueueInv' /\ delayed'[r] > 0
  BY <1>4 DEF Requeue
<1>5. ASSUME NEW r \in Refs, DeadLetter(r)  PROVE QueueInv' /\ r \in deadLetters'
  BY <1>5 DEF DeadLetter
<1>6. ASSUME pending # <<>>, Ack  PROVE QueueInv' /\ pending' = <<>>
  <2>1. pending' = <<>>
    BY <1>6, OnePending DEF Ack
  <2> QED
    BY <1>6, <2>1 DEF Ack
<1> QED
  BY <1>1, <1>2, <1>3, <1>4, <1>5, <1>6

\* With nothing in hand there is nothing to keep.
LEMMA Idle ==
  ASSUME NextMessage
  PROVE  WorkerInv'
  BY DEF NextMessage, WorkerInv, CopyInv, ParkedInv, Place, WithCopy

\* What only the queue and the worker do leaves the stores' part alone.
LEMMA StoresKept ==
  ASSUME StoresInv, UNCHANGED <<stores, bybit>>
  PROVE  StoresInv' /\ IntentsKept /\ UNCHANGED intents
  BY DEF StoresInv, PaidWasAsked, StateIs, stores, records, bybit, IntentsKept

-----------------------------------------------------------------------------
(* One lemma per action *)

\* promoteDue takes a job that has an intent into the worker's hand, or drops it.
LEMMA PromoteDuePreserves ==
  ASSUME IInv, NEW r \in Refs, PromoteDue(r)
  PROVE  IInv'
<1>1. StoresInv' /\ IntentsKept /\ UNCHANGED intents
  BY StoresKept DEF IInv, PromoteDue
<1>2. QueueInv' /\ intents[r] # NoIntent
  BY <1>1, QueueCommands DEF IInv, PromoteDue
<1>3. WorkerInv'
  <2>1. CASE Fails
    BY <2>1, Idle DEF Fails
  <2>2. CASE wpc' = "promote" /\ job' = r /\ UNCHANGED copy
    BY <1>1, <1>2, <2>2 DEF IInv, WorkerInv, CopyInv, ParkedInv, Place, WithCopy
  <2> QED
    BY <2>1, <2>2 DEF PromoteDue
<1> QED
  BY <1>1, <1>2, <1>3 DEF IInv

\* ... and puts it into the stream.
LEMMA PromoteJobPreserves ==
  ASSUME IInv, PromoteJob
  PROVE  IInv'
<1>1. StoresInv' /\ IntentsKept /\ UNCHANGED intents
  BY StoresKept DEF IInv, PromoteJob
<1>2. job \in Refs /\ intents[job] # NoIntent
  BY DEF IInv, WorkerInv, CopyInv, PromoteJob
<1>3. QueueInv'
  BY <1>1, <1>2, QueueCommands, QueueKept DEF IInv, PromoteJob
<1>4. WorkerInv'
  BY Idle DEF PromoteJob, Fails
<1> QED
  BY <1>1, <1>3, <1>4 DEF IInv

\* What readGroup hands over is the one pending message, the old one or a new one.
LEMMA ReadGroupPreserves ==
  ASSUME IInv, ReadGroup
  PROVE  IInv'
<1>1. StoresInv' /\ IntentsKept /\ UNCHANGED intents
  BY StoresKept DEF IInv, ReadGroup
<1>2. CASE pending # <<>> /\ job' = Head(pending) /\ wpc' = "load"
           /\ UNCHANGED <<queue, copy>>
  <2>1. QueueInv'
    BY <1>1, <1>2, QueueKept DEF IInv
  <2>2. /\ pending = <<pending[1]>> /\ Head(pending) = pending[1]
        /\ pending[1] \in Refs /\ intents[pending[1]] # NoIntent
    BY <1>2, OnePending DEF IInv
  <2>3. pending' = <<job'>> /\ job' \in Refs /\ intents'[job'] # NoIntent
    BY <1>1, <1>2, <2>2 DEF queue
  <2>4. WorkerInv'
    BY <1>2, <2>3 DEF IInv, WorkerInv, CopyInv, ParkedInv, Place, WithCopy
  <2> QED
    BY <1>1, <2>1, <2>4 DEF IInv
<1>3. CASE pending = <<>> /\ stream # <<>> /\ Deliver
           /\ ((job' = Head(stream) /\ wpc' = "load" /\ UNCHANGED copy) \/ Fails)
  <2>1. /\ QueueInv' /\ pending' = <<Head(stream)>>
        /\ Head(stream) \in Refs /\ intents[Head(stream)] # NoIntent
    BY <1>1, <1>3, QueueCommands DEF IInv
  <2>2. CASE Fails
    BY <1>1, <2>1, <2>2, Idle DEF IInv, Fails
  <2>3. CASE job' = Head(stream) /\ wpc' = "load" /\ UNCHANGED copy
    <3>1. WorkerInv'
      BY <1>1, <2>1, <2>3 DEF IInv, WorkerInv, CopyInv, ParkedInv, Place, WithCopy
    <3> QED
      BY <1>1, <2>1, <3>1 DEF IInv
  <2> QED
    BY <1>3, <2>2, <2>3
<1> QED
  BY <1>2, <1>3 DEF ReadGroup

\* The job's intent is found, and what is not to be marked is only acknowledged.
LEMMA LoadIntentPreserves ==
  ASSUME IInv, LoadIntent
  PROVE  IInv'
<1>1. StoresInv' /\ IntentsKept /\ UNCHANGED intents
  BY StoresKept DEF IInv, LoadIntent
<1>2. QueueInv' /\ UNCHANGED queue
  BY <1>1, QueueKept DEF IInv, LoadIntent
<1>3. WorkerInv'
  <2>1. CASE Fails
    BY <2>1, Idle DEF Fails
  <2>2. CASE /\ copy' = intents[job]
             /\ wpc' = IF intents[job].status \in Markable THEN "mark" ELSE "ack"
             /\ UNCHANGED job
    <3>1. job \in Refs /\ intents[job] # NoIntent /\ pending = <<job>>
      BY DEF IInv, WorkerInv, CopyInv, LoadIntent
    <3>2. copy' \in Intent
      BY <2>2, <3>1 DEF IInv, StoresInv, IntentType
    <3>3. wpc' = "ack" => copy'.status # "PROVIDER_MARK_FAILED"
      BY <2>2 DEF Markable
    <3>4. wpc' \in {"mark", "ack"}
      BY <2>2
    <3> QED
      BY <1>1, <1>2, <2>2, <3>1, <3>2, <3>3, <3>4
      DEF WorkerInv, CopyInv, ParkedInv, Place, WithCopy, queue
  <2> QED
    BY <2>1, <2>2 DEF LoadIntent
<1> QED
  BY <1>1, <1>2, <1>3 DEF IInv

\* The order is asked about before its answer is looked at.
LEMMA MarkOrderPaidPreserves ==
  ASSUME IInv, NEW answered \in BOOLEAN, MarkOrderPaid(answered)
  PROVE  IInv'
<1>1. /\ copy \in Intent /\ job \in Refs /\ intents[job] # NoIntent /\ pending = <<job>>
      /\ UNCHANGED <<stores, queue>> /\ wpc' = "save" /\ job' = job
  BY DEF IInv, WorkerInv, CopyInv, WithCopy, MarkOrderPaid
<1>2. copy.order \in Orders
  BY <1>1 DEF Intent
<1>3. copy' \in Intent /\ copy'.order = copy.order
  BY <1>1, MarkTypes DEF MarkOrderPaid
<1>4. asked' = asked \cup {copy.order} /\ exchange' \subseteq Orders
  BY <1>2 DEF MarkOrderPaid, IInv, StoresInv
<1>5. StoresInv' /\ IntentsKept
  BY <1>1, <1>2, <1>4
  DEF IInv, StoresInv, PaidWasAsked, StateIs, stores, records, IntentsKept
<1>6. QueueInv'
  BY <1>1, <1>5, QueueKept DEF IInv
<1>7. WorkerInv'
  BY <1>1, <1>3, <1>4 DEF WorkerInv, CopyInv, ParkedInv, Place, WithCopy, stores, queue
<1> QED
  BY <1>5, <1>6, <1>7 DEF IInv

\* A save of the worker or of anybody else, of an intent under its own reference,
\* whole or cut short, keeps the stores' part.
LEMMA StoresAfterSave ==
  ASSUME StoresInv, NEW i \in Intent,
         \/ SaveIntentKeys(i)
         \/ PutIntent(i) /\ UNCHANGED orderIndex
         \/ UNCHANGED <<intents, orderIndex>>,
         UNCHANGED <<records, bybit>>
  PROVE  StoresInv' /\ IntentsKept
<1>1. i.ref \in Refs /\ i # NoIntent
  BY NoneAssumption DEF Intent
<1>2. CASE UNCHANGED <<intents, orderIndex>>
  BY <1>2 DEF StoresInv, PaidWasAsked, StateIs, records, bybit, IntentsKept
<1>3. CASE SaveIntentKeys(i) \/ (PutIntent(i) /\ UNCHANGED orderIndex)
  <2>1. /\ intents' \in IntentType
        /\ orderIndex' \in [Orders -> Refs \cup {NoRef}]
        /\ intents'[i.ref] = i
        /\ \A r \in Refs \ {i.ref} : intents'[r] = intents[r]
    BY <1>3, PutIntentTypes DEF StoresInv
  <2>2. IntentsKept /\ \A r \in Refs : intents'[r] # NoIntent => intents'[r].ref = r
    BY <1>1, <2>1 DEF IntentsKept, StoresInv
  <2> QED
    BY <2>1, <2>2 DEF StoresInv, PaidWasAsked, StateIs, records, bybit
<1> QED
  BY <1>2, <1>3

\* The worker's save, with all that an error may leave of it.
LEMMA SaveIntentPreserves ==
  ASSUME IInv, SaveIntent
  PROVE  IInv'
<1>1. /\ wpc = "save" /\ copy \in Intent /\ job \in Refs /\ intents[job] # NoIntent
      /\ pending = <<job>> /\ copy.order \in asked
      /\ UNCHANGED <<records, queue, bybit>>
  BY DEF IInv, WorkerInv, CopyInv, WithCopy, SaveIntent
<1>2. StoresInv' /\ IntentsKept
  <2>1. \/ SaveIntentKeys(copy)
        \/ PutIntent(copy) /\ UNCHANGED orderIndex
        \/ UNCHANGED <<intents, orderIndex>>
    BY DEF SaveIntent
  <2> QED
    BY <1>1, <2>1, StoresAfterSave DEF IInv
<1>3. QueueInv'
  BY <1>1, <1>2, QueueKept DEF IInv
<1>4. WorkerInv'
  <2>1. CASE Fails
    BY <2>1, Idle DEF Fails
  <2>2. CASE wpc' = AfterSave /\ UNCHANGED <<job, copy>>
    <3>1. /\ wpc' \in {"confirm", "requeue", "deadletter"}
          /\ wpc' = "confirm" => copy.status = "PROVIDER_MARKED_PAID"
      BY <2>2 DEF AfterSave
    <3>2. intents'[job] # NoIntent
      BY <1>1, <1>2 DEF IntentsKept
    <3> QED
      BY <1>1, <2>2, <3>1, <3>2
      DEF WorkerInv, CopyInv, ParkedInv, Place, WithCopy, queue, bybit
  <2> QED
    BY <2>1, <2>2 DEF SaveIntent
<1> QED
  BY <1>2, <1>3, <1>4 DEF IInv

\* A record written and indexed keeps the stores' part, if what it says of a payment
\* is true.
LEMMA StoresAfterPut ==
  ASSUME StoresInv, NEW o \in Orders, NEW r \in WfRecord, PutIndexed(o, r),
         r.state = "PAID" => o \in asked,
         intents' \in IntentType, orderIndex' \in [Orders -> Refs \cup {NoRef}],
         \A q \in Refs : intents'[q] # NoIntent => intents'[q].ref = q,
         UNCHANGED bybit
  PROVE  StoresInv'
<1>1. /\ workflow' \in RecordType /\ chatIndex' \in [Chats -> SUBSET Orders]
      /\ workflow'[o] = r
      /\ \A p \in Orders \ {o} : workflow'[p] = workflow[p]
  BY PutIndexedTypes DEF StoresInv
<1>2. asked' = asked /\ exchange' = exchange
  BY DEF bybit
<1>3. PaidWasAsked'
  BY <1>1, <1>2 DEF StoresInv, PaidWasAsked, StateIs
<1> QED
  BY <1>1, <1>2, <1>3 DEF StoresInv

\* Only an order that the exchange was asked about becomes PAID.
LEMMA ConfirmPaymentPreserves ==
  ASSUME IInv, ConfirmPayment
  PROVE  IInv'
<1>1. /\ wpc = "confirm" /\ copy \in Intent /\ job \in Refs /\ intents[job] # NoIntent
      /\ pending = <<job>> /\ copy.order \in asked
      /\ copy.status = "PROVIDER_MARKED_PAID"
      /\ UNCHANGED <<queue, intents, orderIndex, bybit>>
  BY DEF IInv, WorkerInv, CopyInv, WithCopy, ConfirmPayment
<1> DEFINE r == After(workflow[copy.order], "PAYMENT_CONFIRMED")
<1>2. /\ \/ UNCHANGED records
         \/ StateIs(copy.order, "PAYMENT_PENDING_EXTERNAL") /\ PutIndexed(copy.order, r)
      /\ (wpc' = "ack" /\ UNCHANGED <<job, copy>>) \/ Fails
  BY <1>1, Zenon DEF ConfirmPayment, Calls
<1>3. StoresInv'
  <2>1. CASE UNCHANGED records
    BY <1>1, <2>1, StoresKept DEF IInv, stores
  <2>2. CASE StateIs(copy.order, "PAYMENT_PENDING_EXTERNAL") /\ PutIndexed(copy.order, r)
    <3>1. copy.order \in Orders
      BY <1>1 DEF Intent
    <3>2. workflow[copy.order] \in WfRecord
      BY <2>2, <3>1 DEF IInv, StoresInv, RecordType, StateIs
    <3>3. r \in WfRecord
      BY <2>2, <3>2, AfterPending DEF StateIs
    <3> HIDE DEF r
    <3> QED
      BY <1>1, <2>2, <3>1, <3>3, StoresAfterPut DEF IInv, StoresInv
  <2> QED
    BY <1>2, <2>1, <2>2
<1>4. QueueInv'
  BY <1>1, QueueKept DEF IInv, IntentsKept
<1>5. WorkerInv'
  <2>1. CASE Fails
    BY <2>1, Idle DEF Fails
  <2>2. CASE wpc' = "ack" /\ UNCHANGED <<job, copy>>
    BY <1>1, <2>2 DEF WorkerInv, CopyInv, ParkedInv, Place, WithCopy, queue
  <2> QED
    BY <1>2, <2>1, <2>2
<1> QED
  BY <1>3, <1>4, <1>5 DEF IInv

\* A refused job is in the sorted set ...
LEMMA RequeueJobPreserves ==
  ASSUME IInv, RequeueJob
  PROVE  IInv'
<1>1. StoresInv' /\ IntentsKept /\ UNCHANGED intents
  BY StoresKept DEF IInv, RequeueJob
<1>2. /\ wpc = "requeue" /\ copy \in Intent /\ job \in Refs /\ intents[job] # NoIntent
      /\ pending = <<job>>
  BY DEF IInv, WorkerInv, CopyInv, WithCopy, RequeueJob
<1>3. \/ Requeue(job) /\ wpc' = "ack" /\ UNCHANGED <<job, copy>>
      \/ (Requeue(job) \/ UNCHANGED queue) /\ Fails
  BY DEF RequeueJob, Calls
<1>4. QueueInv'
  BY <1>1, <1>2, <1>3, QueueKept, QueueCommands DEF IInv
<1>5. WorkerInv'
  <2>1. CASE Fails
    BY <2>1, Idle DEF Fails
  <2>2. CASE Requeue(job) /\ wpc' = "ack" /\ UNCHANGED <<job, copy>>
    <3>1. delayed'[job] > 0 /\ pending' = pending
      BY <1>1, <1>2, <2>2, QueueCommands DEF IInv, Requeue
    <3> QED
      BY <1>1, <1>2, <2>2, <3>1 DEF WorkerInv, CopyInv, ParkedInv, Place, WithCopy
  <2> QED
    BY <1>3, <2>1, <2>2
<1> QED
  BY <1>1, <1>4, <1>5 DEF IInv

\* ... or in the dead-letter stream before it is acknowledged.
LEMMA DeadLetterJobPreserves ==
  ASSUME IInv, DeadLetterJob
  PROVE  IInv'
<1>1. StoresInv' /\ IntentsKept /\ UNCHANGED intents
  BY StoresKept DEF IInv, DeadLetterJob
<1>2. /\ wpc = "deadletter" /\ copy \in Intent /\ job \in Refs /\ intents[job] # NoIntent
      /\ pending = <<job>>
  BY DEF IInv, WorkerInv, CopyInv, WithCopy, DeadLetterJob
<1>3. \/ DeadLetter(job) /\ wpc' = "ack" /\ UNCHANGED <<job, copy>>
      \/ (DeadLetter(job) \/ UNCHANGED queue) /\ Fails
  BY DEF DeadLetterJob, Calls
<1>4. QueueInv'
  BY <1>1, <1>2, <1>3, QueueKept, QueueCommands DEF IInv
<1>5. WorkerInv'
  <2>1. CASE Fails
    BY <2>1, Idle DEF Fails
  <2>2. CASE DeadLetter(job) /\ wpc' = "ack" /\ UNCHANGED <<job, copy>>
    <3>1. job \in deadLetters' /\ pending' = pending
      BY <1>1, <1>2, <2>2, QueueCommands DEF IInv, DeadLetter
    <3> QED
      BY <1>1, <1>2, <2>2, <3>1 DEF WorkerInv, CopyInv, ParkedInv, Place, WithCopy
  <2> QED
    BY <1>3, <2>1, <2>2
<1> QED
  BY <1>1, <1>4, <1>5 DEF IInv

\* The acknowledged message is the one in hand, and nothing stays in hand.
LEMMA AckMessagePreserves ==
  ASSUME IInv, AckMessage
  PROVE  IInv'
<1>1. StoresInv' /\ IntentsKept /\ UNCHANGED intents
  BY StoresKept DEF IInv, AckMessage
<1>2. Len(pending) = 1 /\ pending # <<>>
  <2>1. pending = <<job>>
    BY DEF IInv, WorkerInv, AckMessage
  <2> QED
    BY <2>1
<1>3. QueueInv'
  BY <1>1, <1>2, QueueKept, QueueCommands DEF IInv, AckMessage
<1>4. WorkerInv'
  BY Idle DEF AckMessage, Fails
<1> QED
  BY <1>1, <1>3, <1>4 DEF IInv

\* What the other components do leaves the worker's part alone, as long as they remove
\* no intent and take nothing off the queue.
LEMMA WorkerKept ==
  ASSUME WorkerInv, UNCHANGED <<worker, asked, pending, delayed, deadLetters>>, IntentsKept
  PROVE  WorkerInv'
  BY DEF WorkerInv, CopyInv, ParkedInv, worker, IntentsKept, Place, WithCopy

\* A poller's handoff creates an intent under its own reference.
LEMMA PollerCreatesPreserves ==
  ASSUME IInv, NEW c \in Chats, NEW r \in Refs, NEW o \in Orders, PollerCreates(c, r, o)
  PROVE  IInv'
<1> DEFINE i == NewIntent(r, o)
           w == [NewOrderWorkflowRecord(c) EXCEPT !.state = "PAYMENT_PENDING_EXTERNAL",
                                                  !.detail = TRUE]
<1>1. i \in Intent /\ i.ref = r
  BY MaxAttemptsAssumption DEF NewIntent, Intent, IntentStatus
<1>2. w \in WfRecord /\ w.state # "PAID"
  <2> DEFINE new == NewOrderWorkflowRecord(c)
  <2>1. new \in WfRecord
    BY MaxAttemptsAssumption
    DEF NewOrderWorkflowRecord, WfRecord, OrderState, Resumable, Terminal
  <2>2. w = [new EXCEPT !.state = "PAYMENT_PENDING_EXTERNAL", !.detail = TRUE]
    OBVIOUS
  <2>3. TRUE \in BOOLEAN
    OBVIOUS
  <2> HIDE DEF new, w
  <2> QED
    BY <2>1, <2>2, <2>3 DEF WfRecord, OrderState, Resumable, Terminal
<1>3. SaveIntentKeys(i) /\ PutIndexed(o, w) /\ UNCHANGED <<queue, worker, bybit>>
  BY DEF PollerCreates
<1> HIDE DEF i, w
<1>4. /\ intents' \in IntentType /\ orderIndex' \in [Orders -> Refs \cup {NoRef}]
      /\ intents'[r] = i
      /\ \A q \in Refs \ {r} : intents'[q] = intents[q]
  BY <1>1, <1>3, PutIntentTypes DEF IInv, StoresInv
<1>5. IntentsKept /\ \A q \in Refs : intents'[q] # NoIntent => intents'[q].ref = q
  BY <1>1, <1>4, NoneAssumption DEF IntentsKept, IInv, StoresInv
<1>6. StoresInv'
  BY <1>2, <1>3, <1>4, <1>5, StoresAfterPut DEF IInv
<1>7. QueueInv' /\ WorkerInv'
  BY <1>3, <1>5, QueueKept, WorkerKept DEF IInv, queue, bybit
<1> QED
  BY <1>6, <1>7 DEF IInv

\* A poller's copy of a record that waits is a record.
LEMMA WaitingRecord ==
  ASSUME IInv, NEW o \in Orders, Waits(o)
  PROVE  Waiting(o) \in WfRecord /\ Waiting(o).state = "PAYMENT_PENDING_EXTERNAL"
<1>1. workflow[o] \in WfRecord
  BY DEF IInv, StoresInv, RecordType, Waits, StateIs
<1>2. "PAYMENT_PENDING_EXTERNAL" \in OrderState
  BY DEF OrderState, Resumable
<1> QED
  BY <1>1, <1>2 DEF Waiting, WfRecord

\* A record that a poller saves without a word of payment keeps everything.
LEMMA UnpaidSaved ==
  ASSUME IInv, NEW o \in Orders, NEW r \in WfRecord, r.state # "PAID", PutIndexed(o, r),
         UNCHANGED <<intents, orderIndex, queue, worker, bybit>>
  PROVE  IInv'
<1>1. StoresInv'
  BY StoresAfterPut DEF IInv, StoresInv
<1>2. QueueInv' /\ WorkerInv'
  BY QueueKept, WorkerKept DEF IInv, IntentsKept, queue, bybit
<1> QED
  BY <1>1, <1>2 DEF IInv

\* An expired order's record ends its wait, and not as PAID.
LEMMA PollerTimesOutPreserves ==
  ASSUME IInv, NEW o \in Orders, PollerTimesOut(o)
  PROVE  IInv'
<1> DEFINE r == After(Waiting(o), "ORDER_EXPIRED")
<1>1. /\ Waits(o) /\ PutIndexed(o, r)
      /\ UNCHANGED <<intents, orderIndex, queue, worker, bybit>>
  BY DEF PollerTimesOut
<1>2. r \in WfRecord /\ r.state = "TIMED_OUT"
  BY <1>1, WaitingRecord, AfterPending
<1> HIDE DEF r
<1> QED
  BY <1>1, <1>2, UnpaidSaved

\* A record that is saved as told of is not PAID either.
LEMMA PollerNotifiesPreserves ==
  ASSUME IInv, NEW o \in Orders, PollerNotifies(o)
  PROVE  IInv'
<1> DEFINE r == [Waiting(o) EXCEPT !.notified = "PAYMENT_PENDING_EXTERNAL"]
<1>1. /\ Waits(o) /\ PutIndexed(o, r)
      /\ UNCHANGED <<intents, orderIndex, queue, worker, bybit>>
  BY DEF PollerNotifies
<1>2. "PAYMENT_PENDING_EXTERNAL" \in OrderState
  BY DEF OrderState, Resumable
<1>3. r \in WfRecord /\ r.state = "PAYMENT_PENDING_EXTERNAL"
  BY <1>1, <1>2, WaitingRecord DEF WfRecord
<1> HIDE DEF r
<1> QED
  BY <1>1, <1>3, UnpaidSaved

\* The statuses the others may save are statuses.
LEMMA SavedIsIntent ==
  ASSUME NEW i \in Intent, NEW s \in IntentStatus, NEW k \in 0..MaxAttempts
  PROVE  [i EXCEPT !.status = s, !.retry = k] \in Intent
  BY DEF Intent

\* A save from another component's copy keeps the intent and its reference.
LEMMA OthersSavePreserves ==
  ASSUME IInv, NEW r \in Refs, OthersSave(r)
  PROVE  IInv'
<1>1. UNCHANGED <<records, queue, worker, bybit>> /\ intents[r] \in Intent
  BY DEF OthersSave, IInv, StoresInv, IntentType
<1>2. PICK s \in OthersStatus, k \in 0..MaxAttempts :
        SaveIntentKeys([intents[r] EXCEPT !.status = s, !.retry = k])
  BY DEF OthersSave
<1>3. [intents[r] EXCEPT !.status = s, !.retry = k] \in Intent
  BY <1>1, OthersStatusAssumption, SavedIsIntent
<1>4. StoresInv' /\ IntentsKept
  BY <1>1, <1>2, <1>3, StoresAfterSave DEF IInv
<1>5. QueueInv' /\ WorkerInv'
  BY <1>1, <1>4, QueueKept, WorkerKept DEF IInv, queue, bybit
<1> QED
  BY <1>4, <1>5 DEF IInv

\* The job that the webhook handler adds has the intent that it has just saved.
LEMMA WebhookConfirmsPreserves ==
  ASSUME IInv, NEW r \in Refs, WebhookConfirms(r)
  PROVE  IInv'
<1>1. /\ UNCHANGED <<records, worker, bybit>> /\ Enqueue(r)
      /\ intents[r] \in Intent /\ intents[r] # NoIntent
  BY DEF WebhookConfirms, IInv, StoresInv, IntentType
<1>2. PICK k \in 0..MaxAttempts :
        SaveIntentKeys([intents[r] EXCEPT !.status = "TRANSFER_SUCCESS", !.retry = k])
  BY DEF WebhookConfirms
<1>3. [intents[r] EXCEPT !.status = "TRANSFER_SUCCESS", !.retry = k] \in Intent
  BY <1>1, SavedIsIntent DEF IntentStatus
<1>4. StoresInv' /\ IntentsKept
  BY <1>1, <1>2, <1>3, StoresAfterSave DEF IInv
<1>5. QueueInv'
  <2>1. stream \in Seq(Refs) /\ stream' = Append(stream, r) /\ intents'[r] # NoIntent
    BY <1>1, <1>4 DEF IInv, QueueInv, Enqueue, IntentsKept
  <2>2. stream' \in Seq(Refs) /\ \A n \in 1..Len(stream') : intents'[stream'[n]] # NoIntent
    BY <1>4, <2>1 DEF IInv, QueueInv, JobInv, IntentsKept
  <2>3. /\ \A n \in 1..Len(pending) : intents'[pending[n]] # NoIntent
        /\ \A q \in Refs : delayed[q] > 0 => intents'[q] # NoIntent
    BY <1>4 DEF IInv, QueueInv, JobInv, IntentsKept
  <2> QED
    BY <1>1, <2>2, <2>3 DEF IInv, QueueInv, JobInv, Enqueue
<1>6. WorkerInv'
  BY <1>1, <1>4, WorkerKept DEF IInv, Enqueue, bybit
<1> QED
  BY <1>4, <1>5, <1>6 DEF IInv

\* A crash takes the worker's memory and nothing else.
LEMMA CrashPreserves ==
  ASSUME IInv, Crash
  PROVE  IInv'
<1>1. StoresInv' /\ IntentsKept
  BY StoresKept DEF IInv, Crash
<1>2. QueueInv'
  BY <1>1, QueueKept DEF IInv, Crash
<1> QED
  BY <1>1, <1>2, Idle DEF IInv, Crash

-----------------------------------------------------------------------------
(* The theorems *)

\* With empty stores, an empty queue and nothing in hand there is nothing to break.
LEMMA Initially ==
  Init => IInv
<1> SUFFICES ASSUME Init PROVE IInv
  OBVIOUS
<1>1. StoresInv
  BY DEF Init, InitStores, EmptyList, StoresInv, RecordType, IntentType, PaidWasAsked, StateIs
<1>2. QueueInv
  BY DEF Init, InitQueue, QueueInv, JobInv
<1>3. WorkerInv
  BY DEF Init, WorkerInv, CopyInv, ParkedInv, Place, WithCopy
<1> QED
  BY <1>1, <1>2, <1>3 DEF IInv

\* Every step keeps the inductive invariant, one action at a time.
LEMMA Step ==
  IInv /\ [Next]_vars => IInv'
<1> SUFFICES ASSUME IInv, [Next]_vars PROVE IInv'
  OBVIOUS
<1>1. CASE UNCHANGED vars
  <2>1. StoresInv' /\ IntentsKept
    BY <1>1, StoresKept DEF IInv, vars
  <2>2. QueueInv' /\ WorkerInv'
    BY <1>1, <2>1, QueueKept, WorkerKept DEF IInv, vars, queue, bybit
  <2> QED
    BY <2>1, <2>2 DEF IInv
<1>2. CASE WorkerStep
  BY <1>2, PromoteJobPreserves, ReadGroupPreserves, LoadIntentPreserves,
     MarkOrderPaidPreserves, SaveIntentPreserves, ConfirmPaymentPreserves,
     RequeueJobPreserves, DeadLetterJobPreserves, AckMessagePreserves
  DEF WorkerStep
<1>3. CASE \E r \in Refs : PromoteDue(r)
  BY <1>3, PromoteDuePreserves
<1>4. CASE Others
  BY <1>4, PollerCreatesPreserves, PollerTimesOutPreserves, PollerNotifiesPreserves,
     OthersSavePreserves, WebhookConfirmsPreserves
  DEF Others
<1>5. CASE Crash
  BY <1>5, CrashPreserves
<1> QED
  BY <1>1, <1>2, <1>3, <1>4, <1>5 DEF Next

\* What a run checks is part of the inductive invariant.
LEMMA Parts ==
  IInv => TypeOK /\ OneDelivery /\ PaidWasAsked
  BY DEF IInv, StoresInv, QueueInv, WorkerInv, IntentType, RecordType, Place, WithCopy,
     TypeOK, OneDelivery

\* The inductive invariant holds in every reachable state.
LEMMA Invariance ==
  Spec => []IInv
  BY Initially, Step, PTL DEF Spec

\* Every variable of the worker, its queue and the stores has its type.
THEOREM WorkerTypeCorrect ==
  Spec => []TypeOK
  BY Invariance, Parts, PTL

\* The worker never has two deliveries open, and acknowledges the one it handles.
THEOREM WorkerOneDelivery ==
  Spec => []OneDelivery
  BY Invariance, Parts, PTL

\* A workflow that says PAID is of an order that the exchange was asked to mark paid.
THEOREM WorkerPaidWasAsked ==
  Spec => []PaidWasAsked
  BY Invariance, Parts, PTL

\* Of all steps only the acknowledgement takes the last pending message away.
LEMMA OnlyAckTakes ==
  ASSUME IInv, [Next]_vars, pending # <<>>, pending' = <<>>
  PROVE  wpc = "ack" /\ Ack /\ pending = <<job>>
<1>1. ~UNCHANGED pending
  OBVIOUS
<1>2. ~Deliver
  <2>1. pending \in Seq(Refs)
    BY DEF IInv, QueueInv
  <2> QED
    BY <2>1 DEF Deliver
<1>3. CASE WorkerStep
  <2>1. AckMessage
    BY <1>1, <1>2, <1>3
    DEF WorkerStep, PromoteJob, ReadGroup, LoadIntent, MarkOrderPaid, SaveIntent,
        ConfirmPayment, RequeueJob, DeadLetterJob, Calls, Enqueue, Requeue, DeadLetter, queue
  <2> QED
    BY <1>1, <2>1 DEF AckMessage, queue, IInv, WorkerInv
<1>4. ~Others
  BY <1>1 DEF Others, PollerCreates, PollerTimesOut, PollerNotifies, OthersSave, WebhookConfirms, Enqueue, queue
<1> QED
  BY <1>1, <1>3, <1>4 DEF Next, PromoteDue, RemoveDelayed, Crash, vars, queue

\* A job that the exchange refused is parked before it is acknowledged, whatever fails
\* or crashes in between.
THEOREM WorkerKeepsFailedJobs ==
  Spec => FailedJobIsKept
<1> DEFINE A == \A r \in Refs :
       (pending = <<r>> /\ pending' = <<>> /\ copy.status = "PROVIDER_MARK_FAILED")
         => (delayed'[r] > 0 \/ r \in deadLetters')
<1>1. IInv /\ [Next]_vars => A
  <2> SUFFICES ASSUME IInv, [Next]_vars, NEW r \in Refs, pending = <<r>>, pending' = <<>>,
                      copy.status = "PROVIDER_MARK_FAILED"
               PROVE  delayed'[r] > 0 \/ r \in deadLetters'
    OBVIOUS
  <2>1. pending # <<>>
    OBVIOUS
  <2>2. wpc = "ack" /\ Ack /\ pending = <<job>>
    BY <2>1, OnlyAckTakes
  <2>3. job = r
    BY <2>2
  <2> QED
    BY <2>2, <2>3 DEF IInv, WorkerInv, ParkedInv, Ack
<1> QED
  BY <1>1, Invariance, PTL DEF Spec, FailedJobIsKept

=============================================================================
