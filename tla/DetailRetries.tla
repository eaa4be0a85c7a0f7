--------------------------- MODULE DetailRetries ---------------------------
(***************************************************************************)
(* The detail fetch of one order with its clock: what TaskManager says of  *)
(* DETECTED, DETAIL_FETCHING and RETRYING_DETAIL, with the retry time, the *)
(* attempts and ExpiresAt as numbers instead of choices.  Every poller of  *)
(* Chats may find the order among the pending ones, and then reads its     *)
(* record under the order's lock; Owner, the chat in whose index it is,    *)
(* also works on the copy it listed before it took the lock.               *)
(*                                                                         *)
(* A poller takes two steps under the lock: it gets as far as sending the  *)
(* request, and it acts on the answer.  Time may pass between any two.     *)
(***************************************************************************)
EXTENDS RetryPolicy, OrderStates

CONSTANTS
  Chats, Owner,
  ExpiresAt,    \* of the order; time stops there, when nothing is left to wait for
  MaxLost,      \* bound on the requests that the stored record does not count
  Nobody

ASSUME OwnerAssumption == Owner \in Chats /\ Nobody \notin Chats
ASSUME BoundsAssumption == ExpiresAt \in Nat /\ MaxLost \in Nat

VARIABLES
  now,      \* the clock
  stored,   \* the order's record in Redis
  pc,       \* where each chat's poller stands with this order
  copy,     \* its copy of the record, meaningful unless pc is "idle"
  holder,   \* the poller that holds the order's lock
  fetches,  \* history: requests for the order's detail
  lost      \* history: those that the stored record does not count, as their
            \* outcome was not saved, they went out on an old copy, or an old
            \* copy was saved over their count

vars == <<now, stored, pc, copy, holder, fetches, lost>>

Record == [state : OrderState, retry : 0..MaxAttempts,
           due : Nat, updated : Nat]    \* NextRetryAt (0: not set), UpdatedAt

Detected == [state |-> "DETECTED", retry |-> 0, due |-> 0, updated |-> 0]

Init ==
  /\ now = 0
  /\ stored = Detected
  /\ pc = [c \in Chats |-> "idle"]
  /\ copy = [c \in Chats |-> Detected]
  /\ holder = Nobody
  /\ fetches = 0 /\ lost = 0

IsExpired == now >= ExpiresAt

\* The record after an event, as transitionRecord saves it.
Moved(r, event) ==
  [r EXCEPT !.state = ApplyOrderEvent(r.state, event), !.updated = now]

\* The end of a poller's work on the order: the deferred unlockOrder.  (notifyState,
\* which comes before it, saves the record once more as it has just been saved.)
Leave(c) ==
  /\ pc' = [pc EXCEPT ![c] = "idle"]
  /\ copy' = [copy EXCEPT ![c] = Detected]
  /\ holder' = Nobody

\* The request goes out.
Request(c, r) ==
  /\ pc' = [pc EXCEPT ![c] = "fetch"]
  /\ copy' = [copy EXCEPT ![c] = r]
  /\ fetches' = fetches + 1
  /\ UNCHANGED holder

\* SaveIfState compares the stored state, and nothing else of the record.
StateIs(r) == stored.state = r.state

\* A copy that another poller has written over since it was listed.
IsOld(r) == r # stored

\* The requests that the stored count forgets when record r is written over it.
Overwritten(r) == IF r.retry < stored.retry THEN stored.retry - r.retry ELSE 0

Uncounted(n) == lost + n <= MaxLost /\ lost' = lost + n

-----------------------------------------------------------------------------
(* The way to the lock *)

\* ListByChat
List ==
  /\ pc[Owner] = "idle" /\ ~IsTerminalOrderState(stored.state)
  /\ pc' = [pc EXCEPT ![Owner] = "listed"]
  /\ copy' = [copy EXCEPT ![Owner] = stored]
  /\ UNCHANGED <<now, stored, holder, fetches, lost>>

\* resumeWorkflowRecord; an order that is locked is skipped.
ResumeWorkflowRecord ==
  /\ pc[Owner] = "listed"
  /\ IF holder = Nobody
       THEN /\ holder' = Owner
            /\ pc' = [pc EXCEPT ![Owner] = "advance"]
            /\ UNCHANGED copy
       ELSE /\ pc' = [pc EXCEPT ![Owner] = "idle"]
            /\ copy' = [copy EXCEPT ![Owner] = Detected]
            /\ UNCHANGED holder
  /\ UNCHANGED <<now, stored, fetches, lost>>

\* processPendingOrder; only the holder of the lock writes the record, so its
\* Get may as well happen when the lock is taken.
ProcessPendingOrder(c) ==
  /\ pc[c] = "idle" /\ holder = Nobody
  /\ holder' = c
  /\ pc' = [pc EXCEPT ![c] = "advance"]
  /\ copy' = [copy EXCEPT ![c] = stored]
  /\ UNCHANGED <<now, stored, fetches, lost>>

-----------------------------------------------------------------------------
(* advanceWorkflowRecord *)

\* markTimedOut saves whatever is stored by now.
MarkTimedOut(c) ==
  /\ stored' = Moved(copy[c], "ORDER_EXPIRED")
  /\ Leave(c)

AdvanceExpired(c) ==
  /\ pc[c] = "advance" /\ IsExpired /\ ~IsTerminalOrderState(copy[c].state)
  /\ MarkTimedOut(c)
  /\ UNCHANGED <<now, fetches, lost>>

\* Mutant: the retry time is not looked at.
EventToFetchAnyTime(r) ==
  IF r.state = "DETECTED" THEN {"ORDER_INGESTED"}
  ELSE IF r.state = "RETRYING_DETAIL" THEN {"RETRY_TIMER_FIRED"} ELSE {}

\* The event that takes record r to DETAIL_FETCHING now, if there is one.
EventToFetch(r) ==
  IF r.state = "DETECTED" THEN {"ORDER_INGESTED"}
  ELSE IF r.state = "RETRYING_DETAIL" /\ now >= r.due THEN {"RETRY_TIMER_FIRED"} ELSE {}

AdvanceToFetch(c) ==
  /\ pc[c] = "advance" /\ ~IsExpired /\ StateIs(copy[c])
  /\ \E event \in EventToFetch(copy[c]) :
       /\ stored' = Moved(copy[c], event)
       /\ Request(c, Moved(copy[c], event))
  /\ Uncounted(Overwritten(copy[c]))
  /\ UNCHANGED now

\* A record found at DETAIL_FETCHING: its poller stopped before it saved, or has
\* gone on since the copy was listed.  Nothing is compared on the way to the request.
AdvanceFetching(c) ==
  /\ pc[c] = "advance" /\ ~IsExpired /\ copy[c].state = "DETAIL_FETCHING"
  /\ Request(c, copy[c])
  /\ Uncounted(IF IsOld(copy[c]) THEN 1 ELSE 0)
  /\ UNCHANGED <<now, stored>>

\* The other ways out: nothing to do for the detail, a comparison that fails, or
\* an error of Redis; the reply of a write that was carried out may be lost.
AdvanceEnds(c) ==
  /\ pc[c] = "advance"
  /\ \/ UNCHANGED <<stored, lost>>
     \/ /\ ~IsExpired /\ StateIs(copy[c])
        /\ \E event \in EventToFetch(copy[c]) : stored' = Moved(copy[c], event)
        /\ Uncounted(Overwritten(copy[c]))
     \/ /\ IsExpired /\ ~IsTerminalOrderState(copy[c].state)
        /\ stored' = Moved(copy[c], "ORDER_EXPIRED")
        /\ UNCHANGED lost
  /\ Leave(c)
  /\ UNCHANGED <<now, fetches>>

-----------------------------------------------------------------------------
(* fetchOrderDetail and handleDetailFetchError: the answer *)

\* transitionRecord from the poller's copy, with what changed in it.
SaveOutcome(c, r, event) ==
  /\ pc[c] = "fetch" /\ StateIs(r)
  /\ stored' = Moved(r, event)
  /\ Leave(c)
  /\ UNCHANGED <<now, fetches>>

DetailFetched(c) ==
  /\ SaveOutcome(c, [copy[c] EXCEPT !.retry = 0, !.due = 0], "DETAIL_FETCH_OK")
  /\ UNCHANGED lost

DetailFailed(c) ==
  /\ ~IsExpired
  /\ SaveOutcome(c, copy[c], "DETAIL_FETCH_FATAL_ERR")
  /\ UNCHANGED lost

\* Mutant: one attempt more.
MayTryAgainTooOften(r) == r.retry + 1 <= MaxAttempts + 1

MayTryAgain(r) == r.retry + 1 <= MaxAttempts

RetryFits(delay) == now + delay < ExpiresAt

DetailRetry(c) ==
  /\ ~IsExpired /\ MayTryAgain(copy[c])
  /\ \E delay \in NextDelay(copy[c].retry + 1) :
       /\ RetryFits(delay)
       /\ SaveOutcome(c, [copy[c] EXCEPT !.retry = @ + 1, !.due = now + delay],
                      "DETAIL_FETCH_RETRYABLE_ERR")
  /\ Uncounted(Overwritten(stored'))

DetailTimedOut(c) ==
  /\ pc[c] = "fetch"
  /\ \/ IsExpired
     \/ /\ MayTryAgain(copy[c])
        /\ \E delay \in NextDelay(copy[c].retry + 1) : ~RetryFits(delay)
  /\ MarkTimedOut(c)
  /\ UNCHANGED <<now, fetches, lost>>

\* The request of poller c ends without its outcome in the record; one that went
\* out on an old copy has been counted as lost already.
RequestLost(c) == Uncounted(IF pc[c] = "fetch" /\ ~IsOld(copy[c]) THEN 1 ELSE 0)

\* The outcome is not saved: the comparison or the save fails.
OutcomeLost(c) ==
  /\ pc[c] = "fetch"
  /\ RequestLost(c)
  /\ Leave(c)
  /\ UNCHANGED <<now, stored, fetches>>

-----------------------------------------------------------------------------

\* The process dies; a request that was out is lost.
Crash ==
  /\ \/ holder = Nobody /\ UNCHANGED lost
     \/ holder # Nobody /\ RequestLost(holder)
  /\ pc' = [c \in Chats |-> "idle"]
  /\ copy' = [c \in Chats |-> Detected]
  /\ holder' = Nobody
  /\ UNCHANGED <<now, stored, fetches>>

Tick ==
  /\ ~IsExpired
  /\ now' = now + 1
  /\ UNCHANGED <<stored, pc, copy, holder, fetches, lost>>

PollerStep(c) ==
  \/ ProcessPendingOrder(c)
  \/ AdvanceExpired(c) \/ AdvanceToFetch(c) \/ AdvanceFetching(c) \/ AdvanceEnds(c)
  \/ DetailFetched(c) \/ DetailFailed(c) \/ DetailRetry(c) \/ DetailTimedOut(c)
  \/ OutcomeLost(c)

Next ==
  \/ List \/ ResumeWorkflowRecord
  \/ \E c \in Chats : PollerStep(c)
  \/ Crash \/ Tick

Spec == Init /\ [][Next]_vars

-----------------------------------------------------------------------------
(* Properties *)

TypeOK ==
  /\ now \in 0..ExpiresAt
  /\ stored \in Record
  /\ pc \in [Chats -> {"idle", "listed", "advance", "fetch"}]
  /\ copy \in [Chats -> Record]
  /\ holder \in Chats \cup {Nobody}
  /\ fetches \in Nat /\ lost \in 0..MaxLost

\* The retry time that the last failure stored is kept by every poller that looks
\* at the record under the lock: a request goes out before it only from the order's
\* own chat, on a copy that it listed before another poller's fetch failed.
EarlyOnlyForOldCopy ==
  [][\A c \in Chats :
       (pc[c] = "advance" /\ pc'[c] = "fetch" /\ now < stored.due)
         => (c = Owner /\ IsOld(copy[c]))]_vars

\* The comment at runtime.go:40 speaks of a consistent backoff for all of them.
BackoffKept == [][fetches' > fetches => now >= stored.due]_vars

\* MaxAttempts bounds the retries of an order over restarts and for any number of
\* pollers, as the attempts are counted in the record: each request beyond one and
\* the retries is one that the record does not count, for one of the reasons that
\* lost names.
FetchesBounded == fetches <= MaxAttempts + 1 + lost

\* The time between a failed request and the next follows the comment of
\* NextDelay: min(BaseBackoff * 2^(attempt-1), MaxBackoff) * (1 +- JitterFrac),
\* for the attempt that the record counts, and a retry is only ever scheduled
\* for a time at which the order can still be paid.
BackoffIsExponential ==
  stored.state = "RETRYING_DETAIL" =>
    LET wait   == stored.due - stored.updated
        double == BaseBackoff * 2^(stored.retry - 1)
        delay  == IF double < MaxBackoff THEN double ELSE MaxBackoff
    IN /\ 100 * wait \in (100 - JitterPercent) * delay..(100 + JitterPercent) * delay
       /\ stored.due < ExpiresAt
=============================================================================
