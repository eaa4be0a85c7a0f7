----------------------- MODULE PaystackWebhook_proofs -----------------------
(***************************************************************************)
(* For any number of handlers, events, references and attempts, with keys  *)
(* that expire, Redis calls that fail and crashes: an event is in the      *)
(* hands of one handler at a time, and an intent or a job says that its    *)
(* transfer succeeded only when Paystack has moved the money.              *)
(***************************************************************************)
EXTENDS PaystackWebhook, TLAPS

(* The inductive invariant.  OnlyMovedIsSettled speaks of the stored       *)
(* intents and the jobs; a claim of success also waits in the copies of    *)
(* the handlers, from the read of an intent, or from its verification, to  *)
(* a save that may come much later, and AtPlace follows it there.          *)
(* OneHandlerPerEvent rests on the key of every event that is worked on.   *)

\* The statuses that say that the transfer succeeded.
Claims == Settled \cup {"PROVIDER_MARK_FAILED"}

IntentType == [Refs -> Intent \cup {NoIntent}]
EventType  == [Handlers -> Event \cup {NoEvent}]

StoresInv ==
  /\ intents \in IntentType /\ orderIndex \in [Orders -> Refs \cup {NoRef}]
  /\ \A r \in Refs : intents[r] # NoIntent
       => intents[r].ref = r /\ (intents[r].status \in Claims => Moved(r))

\* The environment here takes jobs from the stream alone.
QueueInv ==
  /\ stream \in Seq(Refs) /\ pending = <<>> /\ delayed = [r \in Refs |-> 0]
  /\ \A i \in 1..Len(stream) : Moved(stream[i])

\* Paystack knows no reference that is not stored.
PaystackInv ==
  /\ transfer \in [Refs -> {"none", "pending", "success", "failed", "reversed"}]
  /\ tries \in [Refs -> 0..MaxTries]
  /\ events \subseteq Event
  /\ \A r \in Refs : transfer[r] # "none" => tries[r] >= 1 /\ intents[r] # NoIntent
  /\ \A e \in events : intents[e.ref] # NoIntent

WithCopy == {"verify", "save_success", "enqueue", "save_last"}
Place    == {"idle", "mark", "load"} \cup WithCopy

HandlerTypes ==
  /\ hpc \in [Handlers -> Place]
  /\ event \in EventType
  /\ hcopy \in [Handlers -> Intent \cup {NoIntent}]
  /\ reply \in [Handlers -> {"none", "200", "500"}]

Working(h) == hpc[h] \notin {"idle", "mark"}

\* What a handler knows of its event and its copy.
AtPlace(h) ==
  /\ hpc[h] # "idle" => event[h] \in events
  /\ Working(h) => event[h] \in processed
  /\ hpc[h] \in WithCopy
       => /\ hcopy[h] \in Intent /\ hcopy[h].ref = event[h].ref
          /\ hcopy[h].status \in Claims => Moved(event[h].ref)
  /\ hpc[h] \in {"save_success", "enqueue"} => Moved(event[h].ref)

HandlersInv ==
  /\ HandlerTypes
  /\ processed \subseteq Event
  /\ \A h \in Handlers : AtPlace(h)
  /\ OneHandlerPerEvent

IInv == StoresInv /\ QueueInv /\ PaystackInv /\ HandlersInv

-----------------------------------------------------------------------------
(* What the parts of the invariant read *)

\* Money that has moved stays moved, in the sense of this module: a reversal is a
\* transfer that was made.
MovedStays == \A r \in Refs : Moved(r) => Moved(r)'

\* The jobs only say that money has moved.
LEMMA QueueKept == ASSUME QueueInv, MovedStays, UNCHANGED queue PROVE QueueInv'
BY DEF QueueInv, MovedStays, queue

\* The handlers look at the events and at what has moved, and both only grow.
LEMMA HandlersKept ==
  ASSUME HandlersInv, PaystackInv, MovedStays, events \subseteq events', UNCHANGED handlers
  PROVE  HandlersInv'
<1>1. HandlerTypes' /\ processed' \subseteq Event /\ OneHandlerPerEvent'
  BY DEF HandlersInv, HandlerTypes, OneHandlerPerEvent, handlers
<1>2. ASSUME NEW h \in Handlers PROVE AtPlace(h)'
  <2>1. hpc[h] # "idle" => event[h].ref \in Refs
    BY DEF HandlersInv, AtPlace, PaystackInv, Event
  <2> QED
    BY <2>1 DEF HandlersInv, AtPlace, Working, WithCopy, MovedStays, handlers
<1> QED BY <1>1, <1>2 DEF HandlersInv

\* A step that writes neither key of an intent and leaves Paystack alone.
LEMMA StoresKept ==
  ASSUME StoresInv, PaystackInv, UNCHANGED <<intents, orderIndex, paystack>>
  PROVE  StoresInv' /\ PaystackInv' /\ MovedStays
BY DEF StoresInv, PaystackInv, MovedStays, Moved, paystack

\* The save of an intent whose claim, if it makes one, is true: in full, or cut off
\* between its two keys.
LEMMA SaveKeeps ==
  ASSUME StoresInv, PaystackInv, UNCHANGED paystack,
         NEW i \in Intent, i.status \in Claims => Moved(i.ref),
         \/ SaveIntentKeys(i)
         \/ PutIntent(i) /\ UNCHANGED orderIndex
  PROVE  StoresInv' /\ PaystackInv' /\ MovedStays
<1>1. i.ref \in Refs /\ i.order \in Orders /\ i # NoIntent
  BY NoneAssumption DEF Intent
<1>2. /\ intents' \in IntentType /\ orderIndex' \in [Orders -> Refs \cup {NoRef}]
      /\ intents'[i.ref] = i
      /\ \A r \in Refs : r # i.ref => intents'[r] = intents[r]
  BY <1>1 DEF StoresInv, SaveIntentKeys, PutIntent, IntentType
<1>3. MovedStays /\ \A r \in Refs : Moved(r)' <=> Moved(r)
  BY DEF MovedStays, Moved, paystack
<1>4. StoresInv'
  BY <1>1, <1>2, <1>3 DEF StoresInv
<1>5. PaystackInv'
  <2>1. \A e \in events : e.ref \in Refs
    BY DEF PaystackInv, Event
  <2> QED BY <1>1, <1>2, <2>1 DEF PaystackInv, paystack
<1> QED BY <1>3, <1>4, <1>5

\* An intent that exists is an intent.
LEMMA StoredIntent ==
  ASSUME StoresInv, NEW r \in Refs, intents[r] # NoIntent
  PROVE  /\ intents[r] \in Intent /\ intents[r].ref = r
         /\ intents[r].status \in Claims => Moved(r)
BY DEF StoresInv, IntentType

\* A new status makes an intent of the same reference.
LEMMA StatusType ==
  ASSUME NEW i \in Intent, NEW s \in IntentStatus
  PROVE  /\ [i EXCEPT !.status = s] \in Intent
         /\ [i EXCEPT !.status = s].ref = i.ref /\ [i EXCEPT !.status = s].status = s
BY DEF Intent

\* A step of one handler: it may start to work only on an event without a key.
LEMMA HandlerMoves ==
  ASSUME HandlersInv, NEW h \in Handlers, UNCHANGED paystack,
         HandlerTypes', AtPlace(h)',
         processed \subseteq processed', processed' \subseteq Event,
         \A g \in Handlers : g # h => /\ hpc'[g] = hpc[g] /\ event'[g] = event[g]
                                      /\ hcopy'[g] = hcopy[g],
         Working(h)' => \/ Working(h) /\ event'[h] = event[h]
                        \/ event'[h] \notin processed
  PROVE  HandlersInv'
<1>1. \A g \in Handlers : g # h => AtPlace(g)'
  BY DEF HandlersInv, AtPlace, Working, Moved, paystack
<1>2. OneHandlerPerEvent'
  <2>1. ASSUME NEW g \in Handlers, g # h, Working(g)', Working(h)'
        PROVE  event'[g] # event'[h]
    <3>1. Working(g) /\ event'[g] = event[g] /\ event[g] \in processed
      BY <2>1 DEF HandlersInv, AtPlace, Working
    <3> QED BY <2>1, <3>1 DEF HandlersInv, OneHandlerPerEvent, Working
  <2>2. ASSUME NEW f \in Handlers, NEW g \in Handlers, f # g, f # h, g # h,
               Working(f)', Working(g)'
        PROVE  event'[f] # event'[g]
    BY <2>2 DEF HandlersInv, OneHandlerPerEvent, Working
  <2> QED BY <2>1, <2>2 DEF OneHandlerPerEvent, Working
<1> QED BY <1>1, <1>2 DEF HandlersInv

\* A handler that answers is done with its event.
LEMMA AnswerPreserves ==
  ASSUME HandlersInv, NEW h \in Handlers, UNCHANGED paystack,
         processed \subseteq processed', processed' \subseteq Event,
         Answer(h, "200") \/ Answer(h, "500")
  PROVE  HandlersInv'
<1>1. HandlerTypes'
  BY DEF Answer, Goto, HandlersInv, HandlerTypes, EventType, Place
<1>2. hpc'[h] = "idle"
  BY DEF Answer, Goto, HandlersInv, HandlerTypes
<1>3. \A g \in Handlers : g # h => /\ hpc'[g] = hpc[g] /\ event'[g] = event[g]
                                   /\ hcopy'[g] = hcopy[g]
  BY DEF Answer, Goto, HandlersInv, HandlerTypes, EventType
<1> QED BY <1>1, <1>2, <1>3, HandlerMoves DEF AtPlace, Working, WithCopy

-----------------------------------------------------------------------------
(* One lemma per action of the handler *)

\* A handler goes to another place with the copy it has, or with a new one.
LEMMA GoesOn ==
  ASSUME HandlersInv, NEW h \in Handlers, NEW l \in Place, Goto(h, l),
         \/ hcopy' = hcopy
         \/ \E c \in Intent : hcopy' = [hcopy EXCEPT ![h] = c],
         UNCHANGED <<event, reply>>
  PROVE  /\ HandlerTypes' /\ hpc'[h] = l /\ event'[h] = event[h]
         /\ \A g \in Handlers : g # h => /\ hpc'[g] = hpc[g] /\ event'[g] = event[g]
                                         /\ hcopy'[g] = hcopy[g]
<1>1. HandlerTypes'
  BY DEF Goto, HandlersInv, HandlerTypes, EventType
<1> QED BY <1>1 DEF Goto, HandlersInv, HandlerTypes

\* The event a handler has is one that Paystack sent, of an intent that is stored.
LEMMA EventInHand ==
  ASSUME IInv, NEW h \in Handlers, hpc[h] # "idle"
  PROVE  /\ event[h] \in events /\ event[h] \in Event /\ event[h].ref \in Refs
         /\ intents[event[h].ref] # NoIntent
BY DEF IInv, HandlersInv, AtPlace, PaystackInv, Event

\* A step of a handler that leaves the stores, the queue and Paystack alone.
LEMMA HandlersOnly ==
  ASSUME IInv, UNCHANGED <<stores, queue, paystack>>, HandlersInv' PROVE IInv'
BY StoresKept, QueueKept DEF IInv, stores

\* Receive hands an event that Paystack has sent to an idle handler.
LEMMA ReceivePreserves ==
  ASSUME IInv, NEW h \in Handlers, NEW e \in events, Receive(h, e) PROVE IInv'
<1> USE DEF Receive
<1>1. e \in Event
  BY DEF IInv, PaystackInv
<1>2. HandlerTypes' /\ hpc'[h] = "mark" /\ event'[h] = e
  BY <1>1 DEF IInv, HandlersInv, HandlerTypes, EventType, Place, Goto
<1>3. \A g \in Handlers : g # h => /\ hpc'[g] = hpc[g] /\ event'[g] = event[g]
                                   /\ hcopy'[g] = hcopy[g]
  BY DEF IInv, HandlersInv, HandlerTypes, EventType, Goto
<1>4. AtPlace(h)'
  BY <1>2 DEF AtPlace, Working, WithCopy, paystack
<1>5. ~Working(h)'
  BY <1>2 DEF Working
<1>6. HandlersInv'
  BY <1>2, <1>3, <1>4, <1>5, HandlerMoves DEF IInv, HandlersInv
<1> QED BY <1>6, HandlersOnly

\* SET NX: the one handler that finds no key goes on, with the key set.
LEMMA MarkWebhookPreserves ==
  ASSUME IInv, NEW h \in Handlers, MarkWebhookProcessed(h) PROVE IInv'
<1>1. event[h] \in Event /\ event[h] \in events /\ UNCHANGED <<stores, queue, paystack>>
  BY EventInHand DEF MarkWebhookProcessed
<1>2. CASE /\ event[h] \notin processed
           /\ processed' = processed \cup {event[h]}
           /\ Goto(h, "load")
           /\ UNCHANGED <<event, hcopy, reply>>
  <2>1. /\ HandlerTypes' /\ hpc'[h] = "load" /\ event'[h] = event[h]
        /\ \A g \in Handlers : g # h => /\ hpc'[g] = hpc[g] /\ event'[g] = event[g]
                                        /\ hcopy'[g] = hcopy[g]
    BY <1>2, GoesOn DEF IInv, Place
  <2>2. AtPlace(h)'
    BY <1>1, <1>2, <2>1 DEF AtPlace, Working, WithCopy, paystack
  <2>3. HandlersInv'
    BY <1>1, <1>2, <2>1, <2>2, HandlerMoves DEF IInv, HandlersInv
  <2> QED BY <1>1, <2>3, HandlersOnly
<1>3. CASE /\ processed' = processed \/ processed' = processed \cup {event[h]}
           /\ Answer(h, "500")
  <2>1. HandlersInv'
    BY <1>1, <1>3, AnswerPreserves DEF IInv, HandlersInv
  <2> QED BY <1>1, <2>1, HandlersOnly
<1> QED BY <1>2, <1>3 DEF MarkWebhookProcessed

\* The load fails, or finds a failure that comes too late: the event is dropped.
LEMMA DropPreserves ==
  ASSUME IInv, NEW h \in Handlers, LoadFails(h) \/ LoadLateFailure(h) PROVE IInv'
<1>1. UNCHANGED <<stores, queue, paystack>> /\ processed' = processed /\ Answer(h, "200")
  BY DEF LoadFails, LoadLateFailure
<1>2. HandlersInv'
  BY <1>1, AnswerPreserves DEF IInv, HandlersInv
<1> QED BY <1>1, <1>2, HandlersOnly

\* A handler that works goes on with a copy of its event's intent whose claim, if it
\* makes one, is true; and it goes to save or to enqueue a success only then.
LEMMA CopyPreserves ==
  ASSUME IInv, NEW h \in Handlers, Working(h), NEW l \in WithCopy, Goto(h, l),
         NEW c \in Intent, c.ref = event[h].ref,
         c.status \in Claims => Moved(event[h].ref),
         l \in {"save_success", "enqueue"} => Moved(event[h].ref),
         \/ hcopy' = [hcopy EXCEPT ![h] = c]
         \/ hcopy' = hcopy /\ hcopy[h] = c,
         UNCHANGED <<processed, event, reply, paystack>>
  PROVE  HandlersInv'
<1>1. /\ HandlerTypes' /\ hpc'[h] = l /\ event'[h] = event[h]
      /\ \A g \in Handlers : g # h => /\ hpc'[g] = hpc[g] /\ event'[g] = event[g]
                                      /\ hcopy'[g] = hcopy[g]
  BY GoesOn DEF IInv, Place
<1>2. hcopy'[h] = c
  BY DEF IInv, HandlersInv, HandlerTypes
<1>3. AtPlace(h)'
  <2>1. AtPlace(h)
    BY DEF IInv, HandlersInv
  <2>2. event[h] \in events' /\ event[h] \in processed'
    BY <2>1 DEF AtPlace, Working, paystack
  <2>3. Moved(event[h].ref)' <=> Moved(event[h].ref)
    BY <1>1 DEF Moved, paystack
  <2> QED BY <1>1, <1>2, <2>2, <2>3 DEF AtPlace
<1> QED BY <1>1, <1>3, HandlerMoves DEF IInv, HandlersInv, Working

\* Each load of an intent that is gone on with, and each answer of VerifyTransfer.
LEMMA LoadPreserves ==
  ASSUME IInv, NEW h \in Handlers,
         LoadSuccess(h) \/ LoadFailure(h) \/ Verified(h) \/ NotVerified(h)
  PROVE  IInv'
<1> DEFINE r == event[h].ref
<1>1. Working(h) /\ UNCHANGED <<stores, queue, paystack>>
      /\ UNCHANGED <<processed, event, reply>>
  BY DEF LoadSuccess, LoadFailure, Verified, NotVerified, Working
<1>2. r \in Refs /\ intents[r] # NoIntent
  BY <1>1, EventInHand DEF Working
<1>3. /\ intents[r] \in Intent /\ intents[r].ref = r
      /\ intents[r].status \in Claims => Moved(r)
  BY <1>2, StoredIntent DEF IInv
<1>4. hpc[h] = "verify" => /\ hcopy[h] \in Intent /\ hcopy[h].ref = r
                           /\ hcopy[h].status \in Claims => Moved(r)
  BY DEF IInv, HandlersInv, AtPlace, WithCopy
<1>5. HandlersInv'
  <2>1. CASE LoadSuccess(h)
    BY <1>1, <1>3, <2>1, CopyPreserves DEF LoadSuccess, WithCopy
  <2>2. CASE LoadFailure(h)
    <3> DEFINE c == [intents[r] EXCEPT !.status = "TRANSFER_FAILED"]
    <3>1. c \in Intent /\ c.ref = r /\ c.status \notin Claims
      BY <1>3, StatusType DEF IntentStatus, Claims, Settled
    <3>2. hcopy' = [hcopy EXCEPT ![h] = c] /\ Goto(h, "save_last")
      BY <2>2 DEF LoadFailure
    <3> HIDE DEF c
    <3> QED BY <1>1, <3>1, <3>2, CopyPreserves DEF WithCopy
  <2>3. CASE Verified(h)
    <3> DEFINE c == [hcopy[h] EXCEPT !.status = "TRANSFER_SUCCESS"]
    <3>1. c \in Intent /\ c.ref = r
      BY <1>4, <2>3, StatusType DEF Verified, IntentStatus
    <3>2. hcopy' = [hcopy EXCEPT ![h] = c] /\ Goto(h, "save_success") /\ Moved(r)
      BY <2>3 DEF Verified, Moved
    <3> HIDE DEF c
    <3> QED BY <1>1, <3>1, <3>2, CopyPreserves DEF WithCopy
  <2>4. CASE NotVerified(h)
    BY <1>1, <1>4, <2>4, CopyPreserves DEF NotVerified, WithCopy
  <2> QED BY <2>1, <2>2, <2>3, <2>4
<1> QED BY <1>1, <1>5, HandlersOnly

\* The saves: whatever reaches Redis claims no more than the copy did.
LEMMA SavePreserves ==
  ASSUME IInv, NEW h \in Handlers, SaveSuccess(h) \/ SaveLast(h) PROVE IInv'
<1>1. /\ Working(h) /\ hpc[h] \in WithCopy
      /\ UNCHANGED <<queue, paystack>> /\ processed' = processed
  BY DEF SaveSuccess, SaveLast, Working, WithCopy
<1>2. /\ hcopy[h] \in Intent /\ hcopy[h].ref = event[h].ref
      /\ hcopy[h].status \in Claims => Moved(event[h].ref)
  BY <1>1 DEF IInv, HandlersInv, AtPlace
<1>3. StoresInv' /\ PaystackInv' /\ MovedStays
  <2>1. \/ SaveIntentKeys(hcopy[h])
        \/ PutIntent(hcopy[h]) /\ UNCHANGED orderIndex
        \/ UNCHANGED <<intents, orderIndex>>
    BY DEF SaveSuccess, SaveLast, SaveSucceeds, SaveFails
  <2> QED BY <1>1, <1>2, <2>1, SaveKeeps, StoresKept DEF IInv
<1>4. HandlersInv'
  <2>1. CASE Answer(h, "200")
    BY <1>1, <2>1, AnswerPreserves DEF IInv, HandlersInv
  <2>2. CASE SaveSuccess(h) /\ Goto(h, "enqueue") /\ UNCHANGED <<event, hcopy, reply>>
    <3>1. Moved(event[h].ref)
      BY <2>2 DEF SaveSuccess, IInv, HandlersInv, AtPlace
    <3> QED BY <1>1, <1>2, <2>2, <3>1, CopyPreserves DEF WithCopy
  <2> QED BY <2>1, <2>2 DEF SaveSuccess, SaveLast
<1> QED BY <1>1, <1>3, <1>4, QueueKept DEF IInv

\* XADD of the handler: the job's money has moved.
LEMMA EnqueueKeeps ==
  ASSUME QueueInv, NEW r \in Refs, Moved(r), MovedStays, Enqueue(r) PROVE QueueInv'
BY DEF QueueInv, Enqueue, MovedStays

\* The job is added and the handler answers.
LEMMA EnqueueJobPreserves ==
  ASSUME IInv, NEW h \in Handlers, EnqueueJob(h) PROVE IInv'
<1>1. /\ hpc[h] = "enqueue" /\ Enqueue(event[h].ref) /\ Answer(h, "200")
      /\ UNCHANGED <<stores, paystack>> /\ processed' = processed
  BY DEF EnqueueJob
<1>2. event[h].ref \in Refs /\ Moved(event[h].ref)
  BY <1>1, EventInHand DEF IInv, HandlersInv, AtPlace
<1>3. StoresInv' /\ PaystackInv' /\ MovedStays
  BY <1>1, StoresKept DEF IInv, stores
<1>4. HandlersInv'
  BY <1>1, AnswerPreserves DEF IInv, HandlersInv
<1> QED BY <1>1, <1>2, <1>3, <1>4, EnqueueKeeps DEF IInv

\* The job may have been added or not: the handler saves that it could not be.
LEMMA EnqueueFailsPreserves ==
  ASSUME IInv, NEW h \in Handlers, EnqueueFails(h) PROVE IInv'
<1> DEFINE c == [hcopy[h] EXCEPT !.status = "PROVIDER_MARK_FAILED", !.retry = 1,
                                 !.scheduled = TRUE]
<1>1. /\ hpc[h] = "enqueue"
      /\ UNCHANGED queue \/ Enqueue(event[h].ref)
      /\ hcopy' = [hcopy EXCEPT ![h] = c] /\ Goto(h, "save_last")
      /\ UNCHANGED <<stores, paystack>> /\ UNCHANGED <<processed, event, reply>>
  BY DEF EnqueueFails
<1>2. event[h].ref \in Refs /\ Moved(event[h].ref)
      /\ hcopy[h] \in Intent /\ hcopy[h].ref = event[h].ref
  BY <1>1, EventInHand DEF IInv, HandlersInv, AtPlace, WithCopy
<1>3. c \in Intent /\ c.ref = event[h].ref
  <2>1. 1 \in 0..MaxAttempts
    BY MaxAttemptsAssumption
  <2> QED BY <1>2, <2>1 DEF Intent, IntentStatus
<1>4. StoresInv' /\ PaystackInv' /\ MovedStays
  BY <1>1, StoresKept DEF IInv, stores
<1>5. QueueInv'
  BY <1>1, <1>2, <1>4, EnqueueKeeps, QueueKept DEF IInv
<1> HIDE DEF c
<1>6. HandlersInv'
  BY <1>1, <1>2, <1>3, CopyPreserves DEF WithCopy, Working
<1> QED BY <1>4, <1>5, <1>6 DEF IInv

\* The end of a key lets in a delivery of an event that nobody has in hand.
LEMMA KeyExpiresPreserves ==
  ASSUME IInv, NEW e \in processed, KeyExpires(e) PROVE IInv'
<1> USE DEF KeyExpires
<1>1. HandlerTypes' /\ processed' \subseteq Event /\ OneHandlerPerEvent'
  BY DEF IInv, HandlersInv, HandlerTypes, OneHandlerPerEvent
<1>2. \A h \in Handlers : AtPlace(h)'
  BY DEF IInv, HandlersInv, AtPlace, Working, Moved, paystack
<1> QED BY <1>1, <1>2, HandlersOnly DEF HandlersInv

\* A crash takes the handlers with it, and nothing else.
LEMMA CrashPreserves == ASSUME IInv, Crash PROVE IInv'
<1> USE DEF Crash
<1>1. HandlerTypes' /\ processed' \subseteq Event
  BY DEF IInv, HandlersInv, HandlerTypes, EventType, Place
<1>2. \A h \in Handlers : hpc'[h] = "idle"
  OBVIOUS
<1>3. OneHandlerPerEvent' /\ \A h \in Handlers : AtPlace(h)'
  BY <1>2 DEF OneHandlerPerEvent, AtPlace, Working, WithCopy
<1> QED BY <1>1, <1>3, HandlersOnly DEF HandlersInv

-----------------------------------------------------------------------------
(* Paystack, the pollers and the worker *)

\* A transfer moves on: money that has moved stays moved, and the references that
\* Paystack knows are stored.
LEMMA TransferMoves ==
  ASSUME StoresInv, PaystackInv, QueueInv, HandlersInv,
         NEW r \in Refs, intents[r] # NoIntent, UNCHANGED <<stores, queue, handlers>>,
         NEW s \in {"pending", "success", "failed", "reversed"},
         transfer' = [transfer EXCEPT ![r] = s],
         Moved(r) => s \in {"success", "reversed"},
         NEW n \in 1..MaxTries, tries' = [tries EXCEPT ![r] = n],
         \/ events' = events
         \/ \E kind \in Kinds : events' = events \cup {[kind |-> kind, ref |-> r, try |-> n]}
  PROVE  IInv'
<1>1. MovedStays
  BY DEF MovedStays, Moved, PaystackInv
<1>2. StoresInv'
  BY <1>1 DEF StoresInv, MovedStays, stores
<1>3. PaystackInv'
  <2>1. events' \subseteq Event /\ \A e \in events' : intents[e.ref] # NoIntent
    BY DEF PaystackInv, Event
  <2>2. n \in 0..MaxTries /\ n >= 1
    BY BoundsAssumption
  <2> QED BY <2>1, <2>2 DEF PaystackInv, stores
<1> QED BY <1>1, <1>2, <1>3, QueueKept, HandlersKept DEF IInv

\* Paystack's own steps.
LEMMA PaystackPreserves ==
  ASSUME IInv, NEW r \in Refs,
         TransferStarts(r) \/ TransferSettles(r) \/ EarlyEvent(r) \/ TransferReversed(r)
  PROVE  IInv'
<1> USE BoundsAssumption DEF IInv
<1>1. CASE TransferStarts(r)
  <2>1. tries[r] + 1 \in 1..MaxTries /\ tries' = [tries EXCEPT ![r] = tries[r] + 1]
    BY <1>1 DEF TransferStarts, P!TakesUp, PaystackInv
  <2>2. /\ transfer' = [transfer EXCEPT ![r] = "pending"] /\ ~Moved(r)
        /\ intents[r] # NoIntent /\ events' = events
        /\ UNCHANGED <<stores, queue, handlers>>
    BY <1>1 DEF TransferStarts, P!TakesUp, P!CanTakeUp, Moved
  <2> QED BY <2>1, <2>2, TransferMoves
<1>2. CASE TransferSettles(r) \/ EarlyEvent(r) \/ TransferReversed(r)
  <2>1. intents[r] # NoIntent /\ tries[r] \in 1..MaxTries
    BY <1>2 DEF TransferSettles, EarlyEvent, TransferReversed, PaystackInv
  <2>2. tries' = [tries EXCEPT ![r] = tries[r]] /\ UNCHANGED <<stores, queue, handlers>>
    BY <1>2 DEF TransferSettles, EarlyEvent, TransferReversed, PaystackInv
  <2>3. \E kind \in Kinds :
          events' = events \cup {[kind |-> kind, ref |-> r, try |-> tries[r]]}
    BY <1>2 DEF TransferSettles, EarlyEvent, TransferReversed, Emit, Kinds
  <2>4. \E s \in {"pending", "success", "failed", "reversed"} :
          /\ transfer' = [transfer EXCEPT ![r] = s]
          /\ Moved(r) => s \in {"success", "reversed"}
    BY <1>2 DEF TransferSettles, EarlyEvent, TransferReversed, PaystackInv, Moved
  <2> QED BY <2>1, <2>2, <2>3, <2>4, TransferMoves
<1> QED BY <1>1, <1>2

\* A save by the pollers or the worker that claims nothing that is not true.
LEMMA OthersSave ==
  ASSUME IInv, UNCHANGED <<paystack, handlers>>,
         NEW i \in Intent, i.status \in Claims => Moved(i.ref), SaveIntentKeys(i)
  PROVE  StoresInv' /\ PaystackInv' /\ HandlersInv' /\ MovedStays
<1>1. StoresInv' /\ PaystackInv' /\ MovedStays
  BY SaveKeeps DEF IInv
<1> QED BY <1>1, HandlersKept DEF IInv, paystack

\* A poller creates an intent, or saves one without a claim.
LEMMA PollersPreserve ==
  ASSUME IInv, NEW r \in Refs, PollerSaves(r) \/ \E o \in Orders : PollerCreates(r, o)
  PROVE  IInv'
<1>1. UNCHANGED <<queue, paystack, handlers>>
  BY DEF PollerSaves, PollerCreates
<1>2. PICK i \in Intent : i.status \notin Claims /\ SaveIntentKeys(i)
  <2>1. CASE PollerSaves(r)
    <3>1. PICK s \in {"TRANSFER_PENDING", "INSUFFICIENT_FUNDS", "TRANSFER_FAILED"} :
            SaveIntentKeys([intents[r] EXCEPT !.status = s])
      BY <2>1 DEF PollerSaves
    <3>2. intents[r] \in Intent
      BY <2>1, StoredIntent DEF PollerSaves, IInv
    <3>3. [intents[r] EXCEPT !.status = s] \in Intent
          /\ [intents[r] EXCEPT !.status = s].status \notin Claims
      BY <3>2, StatusType DEF IntentStatus, Claims, Settled
    <3> QED BY <3>1, <3>3
  <2>2. ASSUME NEW o \in Orders, PollerCreates(r, o)
        PROVE  \E i \in Intent : i.status \notin Claims /\ SaveIntentKeys(i)
    <3>1. 0 \in 0..MaxAttempts
      BY MaxAttemptsAssumption
    <3>2. NewIntent(r, o) \in Intent /\ NewIntent(r, o).status \notin Claims
      BY <3>1 DEF NewIntent, Intent, IntentStatus, Claims, Settled
    <3> QED BY <2>2, <3>2 DEF PollerCreates
  <2> QED BY <2>1, <2>2
<1> QED BY <1>1, <1>2, OthersSave, QueueKept DEF IInv

\* The worker takes the oldest job; what it saves was claimed by the intent before.
LEMMA WorkerPreserves == ASSUME IInv, WorkerHandles PROVE IInv'
<1> DEFINE r == Head(stream)
<1>1. /\ stream # <<>> /\ stream' = Tail(stream)
      /\ UNCHANGED <<pending, delayed, paystack, handlers>>
  BY DEF WorkerHandles
<1>2. stream \in Seq(Refs) /\ Len(stream) > 0 /\ r = stream[1] /\ r \in Refs
  BY <1>1 DEF IInv, QueueInv
<1>3. Moved(r) /\ intents[r] # NoIntent
  BY <1>2 DEF IInv, QueueInv, PaystackInv, Moved
<1>4. intents[r] \in Intent /\ intents[r].ref = r
  BY <1>2, <1>3, StoredIntent DEF IInv
<1>5. StoresInv' /\ PaystackInv' /\ HandlersInv' /\ MovedStays
  <2>1. CASE UNCHANGED <<intents, orderIndex>>
    BY <1>1, <2>1, StoresKept, HandlersKept DEF IInv, paystack
  <2>2. ASSUME NEW s \in {"PROVIDER_MARKED_PAID", "PROVIDER_MARK_FAILED"},
               SaveIntentKeys([intents[r] EXCEPT !.status = s])
        PROVE  StoresInv' /\ PaystackInv' /\ HandlersInv' /\ MovedStays
    <3>1. s \in IntentStatus
      BY DEF IntentStatus
    <3>2. [intents[r] EXCEPT !.status = s] \in Intent
          /\ [intents[r] EXCEPT !.status = s].ref = r
      BY <1>4, <3>1, StatusType
    <3> QED BY <1>1, <1>3, <2>2, <3>2, OthersSave
  <2> QED BY <2>1, <2>2 DEF WorkerHandles
<1>6. QueueInv'
  <2>1. stream' \in Seq(Refs)
        /\ \A i \in 1..Len(stream') : stream'[i] = stream[i + 1] /\ i + 1 \in 1..Len(stream)
    BY <1>1, <1>2
  <2>2. \A i \in 1..Len(stream) : stream[i] \in Refs
    BY <1>2
  <2> QED BY <1>1, <1>5, <2>1, <2>2 DEF IInv, QueueInv, MovedStays
<1> QED BY <1>5, <1>6 DEF IInv

-----------------------------------------------------------------------------
(* The invariants *)

\* Nothing is stored, queued or in hand at the start.
LEMMA Initially == Init => IInv
<1> SUFFICES ASSUME Init PROVE IInv
  OBVIOUS
<1> USE DEF Init, InitStores, InitQueue
<1>1. StoresInv
  BY DEF StoresInv, IntentType
<1>2. QueueInv
  BY DEF QueueInv
<1>3. PaystackInv
  BY BoundsAssumption DEF PaystackInv
<1>4. HandlersInv
  BY DEF HandlersInv, HandlerTypes, EventType, Place, AtPlace, Working, WithCopy,
         OneHandlerPerEvent
<1> QED BY <1>1, <1>2, <1>3, <1>4 DEF IInv

\* Every step keeps the invariant.
LEMMA StepPreserves == IInv /\ [Next]_vars => IInv'
<1> SUFFICES ASSUME IInv, [Next]_vars PROVE IInv'
  OBVIOUS
<1>1. CASE UNCHANGED vars
  <2>1. MovedStays
    BY <1>1 DEF MovedStays, Moved, vars, paystack
  <2> QED
    BY <1>1, <2>1, StoresKept, QueueKept, HandlersKept DEF IInv, vars, paystack, stores
<1>2. CASE \E h \in Handlers : HandlerStep(h)
  BY <1>2, MarkWebhookPreserves, DropPreserves, LoadPreserves, SavePreserves,
     EnqueueJobPreserves, EnqueueFailsPreserves DEF HandlerStep
<1>3. CASE Paystack
  BY <1>3, PaystackPreserves, ReceivePreserves DEF Paystack
<1>4. CASE Others
  BY <1>4, PollersPreserve, WorkerPreserves DEF Others
<1>5. CASE Crash \/ \E e \in processed : KeyExpires(e)
  BY <1>5, CrashPreserves, KeyExpiresPreserves
<1> QED BY <1>1, <1>2, <1>3, <1>4, <1>5 DEF Next

\* The invariant holds in every state of a behaviour.
LEMMA Invariance == Spec => []IInv
BY Initially, StepPreserves, PTL DEF Spec

\* What the invariant says.
LEMMA Parts == IInv => TypeOK /\ OnlyMovedIsSettled /\ OneHandlerPerEvent
<1> SUFFICES ASSUME IInv PROVE TypeOK /\ OnlyMovedIsSettled /\ OneHandlerPerEvent
  OBVIOUS
<1>1. TypeOK
  BY DEF IInv, StoresInv, QueueInv, PaystackInv, HandlersInv, HandlerTypes, IntentType,
         EventType, Place, WithCopy, TypeOK
<1>2. OnlyMovedIsSettled
  <2> SUFFICES ASSUME NEW r \in Refs,
                      \/ intents[r] # NoIntent /\ intents[r].status \in Claims
                      \/ Queued(r)
               PROVE  Moved(r)
    BY DEF OnlyMovedIsSettled, Claims
  <2>1. Queued(r) => Contains(stream, r)
    BY DEF Queued, Contains, IInv, QueueInv
  <2> QED BY <2>1 DEF IInv, StoresInv, QueueInv, Contains
<1> QED BY <1>1, <1>2 DEF IInv, HandlersInv

\* Every variable keeps its type.
THEOREM TypeCorrect == Spec => []TypeOK
BY Invariance, Parts, PTL

\* Over copies of any age, events of earlier attempts and events that run ahead,
\* failed calls and crashes: an intent, or a job, says that its transfer succeeded
\* only when the money has moved.
THEOREM SettledIsMoved == Spec => []OnlyMovedIsSettled
BY Invariance, Parts, PTL

\* Of all the deliveries of an event, one is worked on at a time.
THEOREM EventsApart == Spec => []OneHandlerPerEvent
BY Invariance, Parts, PTL
=============================================================================
