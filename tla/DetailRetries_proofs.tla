------------------------ MODULE DetailRetries_proofs ------------------------
(***************************************************************************)
(* For every retry policy, clock and number of chats: the types, the time *)
(* between a failed fetch and the next, the number of requests, and that   *)
(* only a copy listed before the lock was taken can go out too early.      *)
(***************************************************************************)
EXTENDS DetailRetries, WellFoundedInduction, TLAPS

TypeInv ==
  /\ TypeOK
  /\ \A c \in Chats : pc[c] = "fetch" => copy[c].state = "DETAIL_FETCHING"

\* A retry waits for a delay of the policy, and not beyond the expiry.
WaitInv ==
  stored.state = "RETRYING_DETAIL" =>
    /\ stored.retry > 0 /\ stored.due < ExpiresAt
    /\ stored.due - stored.updated \in NextDelay(stored.retry)

AtWork(c) == pc[c] \in {"advance", "fetch"}

\* One poller at a time works on the order, and all but the owner's work on what is
\* stored, ...
LockInv ==
  /\ \A c \in Chats : AtWork(c) => holder = c
  /\ \A c \in Chats \ {Owner} : AtWork(c) => copy[c] = stored

NewIsDue(r) == r.state = "DETECTED" => r.due = 0

\* ... where a record at DETAIL_FETCHING has waited for its retry time.
DueInv ==
  /\ NewIsDue(stored) /\ \A c \in Chats : NewIsDue(copy[c])
  /\ stored.state = "DETAIL_FETCHING" => stored.due <= now

\* A request that the stored record knows of is out.
Awaited == \E c \in Chats : pc[c] = "fetch" /\ copy[c] = stored

ToBeFetched == stored.state \in {"DETECTED", "DETAIL_FETCHING", "RETRYING_DETAIL"}

\* The requests are the retries that are counted, one more when one is out, and
\* those that the record does not count.
CountInv ==
  /\ ToBeFetched => fetches <= stored.retry + lost + (IF Awaited THEN 1 ELSE 0)
  /\ FetchesBounded

PollersInv == LockInv /\ DueInv /\ CountInv

-----------------------------------------------------------------------------
(* What is written *)

LEMMA TransitionTable ==
  /\ ApplyOrderEvent("DETECTED", "ORDER_INGESTED") = "DETAIL_FETCHING"
  /\ ApplyOrderEvent("RETRYING_DETAIL", "RETRY_TIMER_FIRED") = "DETAIL_FETCHING"
  /\ ApplyOrderEvent("DETAIL_FETCHING", "DETAIL_FETCH_OK") = "DETAIL_READY"
  /\ ApplyOrderEvent("DETAIL_FETCHING", "DETAIL_FETCH_RETRYABLE_ERR") = "RETRYING_DETAIL"
  /\ ApplyOrderEvent("DETAIL_FETCHING", "DETAIL_FETCH_FATAL_ERR") = "FAILED_DETAIL"
  /\ \A s \in Resumable : ApplyOrderEvent(s, "ORDER_EXPIRED") = "TIMED_OUT"
BY SMT DEF ApplyOrderEvent, OrderTransitions, OrderState, Resumable, Terminal

LEMMA MovedRecord ==
  ASSUME NEW r \in Record, now \in Nat, NEW event, NEW to \in OrderState,
         to = ApplyOrderEvent(r.state, event)
  PROVE  /\ Moved(r, event) \in Record
         /\ Moved(r, event).state = to /\ Moved(r, event).updated = now
         /\ Moved(r, event).retry = r.retry /\ Moved(r, event).due = r.due
BY DEF Moved, Record

LEMMA TimedOut ==
  ASSUME NEW r \in Record, now \in Nat, ~IsTerminalOrderState(r.state)
  PROVE  Moved(r, "ORDER_EXPIRED") \in Record /\ Moved(r, "ORDER_EXPIRED").state = "TIMED_OUT"
<1>1. r.state \in Resumable
  BY DEF Record, OrderState, IsTerminalOrderState
<1> QED
  BY <1>1, MovedRecord, TransitionTable DEF OrderState, Terminal

\* The record that is fetched: a new one, or one whose retry time has come.
IsDue(r) ==
  \/ r.state = "DETECTED"
  \/ r.state = "RETRYING_DETAIL" /\ now >= r.due

LEMMA ToFetch ==
  ASSUME NEW r \in Record, now \in Nat, NEW event \in EventToFetch(r)
  PROVE  /\ Moved(r, event) \in Record /\ Moved(r, event).state = "DETAIL_FETCHING"
         /\ Moved(r, event).retry = r.retry /\ Moved(r, event).due = r.due
         /\ IsDue(r)
<1>1. \/ r.state = "DETECTED" /\ event = "ORDER_INGESTED"
      \/ r.state = "RETRYING_DETAIL" /\ now >= r.due /\ event = "RETRY_TIMER_FIRED"
  BY DEF EventToFetch
<1>2. ApplyOrderEvent(r.state, event) = "DETAIL_FETCHING"
  BY <1>1, TransitionTable
<1>3. "DETAIL_FETCHING" \in OrderState
  BY DEF OrderState, Resumable
<1>4. /\ Moved(r, event) \in Record /\ Moved(r, event).state = "DETAIL_FETCHING"
      /\ Moved(r, event).retry = r.retry /\ Moved(r, event).due = r.due
  BY <1>2, <1>3, MovedRecord
<1> QED
  BY <1>1, <1>4 DEF IsDue

\* Half the base, or a positive number.
LEMMA DelayIsNat ==
  ASSUME NEW n, NEW delay \in NextDelay(n)
  PROVE  delay \in Nat
<1> DEFINE nominal == NominalDelay(n)
           spread  == (nominal * JitterPercent) \div 100
<1>1. PICK d \in (nominal - spread)..(nominal + spread) :
        delay = IF d <= 0 THEN BaseBackoff \div 2 ELSE d
  BY DEF NextDelay
<1>2. d \in Int
  OBVIOUS
<1> QED
  BY <1>1, <1>2, PolicyAssumption

\* What the answer to a request, or its loss, leaves in the store.
Settled(c) ==
  \/ stored' = stored /\ RequestLost(c)
  \/ stored' \in Record
     /\ \/ lost' = lost /\ stored'.state \in {"DETAIL_READY", "FAILED_DETAIL", "TIMED_OUT"}
        \/ /\ stored.state = "DETAIL_FETCHING" /\ stored'.state = "RETRYING_DETAIL"
           /\ Uncounted(Overwritten(stored'))
           /\ stored'.retry = copy[c].retry + 1 /\ stored'.due < ExpiresAt
           /\ stored'.due - stored'.updated \in NextDelay(stored'.retry)

Answer(c) ==
  DetailFetched(c) \/ DetailFailed(c) \/ DetailRetry(c) \/ DetailTimedOut(c) \/ OutcomeLost(c)

LEMMA OverwrittenRetries ==
  ASSUME TypeInv, NEW r, r.retry \in Nat
  PROVE  Overwritten(r) \in Nat /\ r.retry + Overwritten(r) >= stored.retry
<1>1. stored.retry \in Nat
  BY PolicyAssumption DEF TypeInv, TypeOK, Record
<1> QED
  BY <1>1 DEF Overwritten

LEMMA AnswerSettles ==
  ASSUME TypeInv, NEW c \in Chats, Answer(c)
  PROVE  /\ pc[c] = "fetch" /\ Settled(c) /\ lost' \in 0..MaxLost
         /\ Leave(c) /\ UNCHANGED <<now, fetches>>
<1>1. /\ copy[c] \in Record /\ now \in Nat /\ lost \in 0..MaxLost
      /\ pc[c] = "fetch" => copy[c].state = "DETAIL_FETCHING"
  BY BoundsAssumption DEF TypeInv, TypeOK
<1>2. CASE DetailFetched(c)
  <2> DEFINE r == [copy[c] EXCEPT !.retry = 0, !.due = 0]
  <2>1. pc[c] = "fetch" /\ SaveOutcome(c, r, "DETAIL_FETCH_OK")
    BY <1>2 DEF DetailFetched, SaveOutcome
  <2>4. lost' = lost
    BY <1>2 DEF DetailFetched
  <2>2. r \in Record /\ r.state = "DETAIL_FETCHING"
    <3>1. 0 \in 0..MaxAttempts
      BY PolicyAssumption
    <3>2. r \in Record
      BY <1>1, <3>1 DEF Record
    <3>3. r.state = copy[c].state
      BY <1>1 DEF Record
    <3> QED
      BY <1>1, <2>1, <3>2, <3>3
  <2> HIDE DEF r
  <2>3. Moved(r, "DETAIL_FETCH_OK") \in Record /\ Moved(r, "DETAIL_FETCH_OK").state = "DETAIL_READY"
    BY <1>1, <2>2, MovedRecord, TransitionTable DEF OrderState, Resumable
  <2> QED
    BY <1>1, <2>1, <2>3, <2>4 DEF SaveOutcome, Settled
<1>3. CASE DetailFailed(c)
  <2>1. pc[c] = "fetch" /\ lost' = lost /\ SaveOutcome(c, copy[c], "DETAIL_FETCH_FATAL_ERR")
    BY <1>3 DEF DetailFailed, SaveOutcome
  <2>2. /\ Moved(copy[c], "DETAIL_FETCH_FATAL_ERR") \in Record
        /\ Moved(copy[c], "DETAIL_FETCH_FATAL_ERR").state = "FAILED_DETAIL"
    BY <1>1, <2>1, MovedRecord, TransitionTable DEF OrderState, Terminal
  <2> QED
    BY <1>1, <2>1, <2>2 DEF SaveOutcome, Settled
<1>4. CASE DetailRetry(c)
  <2>1. PICK delay \in NextDelay(copy[c].retry + 1) :
          /\ RetryFits(delay)
          /\ SaveOutcome(c, [copy[c] EXCEPT !.retry = @ + 1, !.due = now + delay],
                         "DETAIL_FETCH_RETRYABLE_ERR")
    BY <1>4 DEF DetailRetry
  <2>2. PICK n : n = copy[c].retry + 1
    OBVIOUS
  <2>3. PICK due : due = now + delay
    OBVIOUS
  <2>4. n \in 0..MaxAttempts
    BY <1>1, <1>4, <2>2, PolicyAssumption DEF DetailRetry, MayTryAgain, Record
  <2>5. delay \in Nat /\ due \in Nat /\ due < ExpiresAt /\ due - now = delay
    BY <1>1, <2>1, <2>3, DelayIsNat DEF RetryFits
  <2> DEFINE r == [copy[c] EXCEPT !.retry = n, !.due = due]
  <2>6. pc[c] = "fetch" /\ SaveOutcome(c, r, "DETAIL_FETCH_RETRYABLE_ERR")
    BY <2>1, <2>2, <2>3 DEF SaveOutcome
  <2>7. r \in Record /\ r.state = "DETAIL_FETCHING" /\ r.retry = n /\ r.due = due
    BY <1>1, <2>4, <2>5, <2>6 DEF Record
  <2> HIDE DEF r
  <2> DEFINE m == Moved(r, "DETAIL_FETCH_RETRYABLE_ERR")
  <2>8. m \in Record /\ m.state = "RETRYING_DETAIL" /\ m.updated = now /\ m.retry = n /\ m.due = due
    BY <1>1, <2>7, MovedRecord, TransitionTable DEF OrderState, Resumable
  <2>9. stored' = m /\ Leave(c) /\ UNCHANGED <<now, fetches>>
    BY <2>6 DEF SaveOutcome
  <2>10. stored.state = "DETAIL_FETCHING"
    BY <2>6, <2>7 DEF SaveOutcome, StateIs
  <2> HIDE DEF m
  <2>11. Uncounted(Overwritten(stored'))
    BY <1>4 DEF DetailRetry
  <2>12. lost' \in 0..MaxLost
    <3>1. stored'.retry \in Nat
      BY <2>4, <2>8, <2>9, PolicyAssumption
    <3>2. PICK k \in Nat : k = Overwritten(stored')
      BY <3>1, OverwrittenRetries
    <3> QED
      BY <1>1, <2>11, <3>2, BoundsAssumption DEF Uncounted
  <2>13. Settled(c)
    BY <2>1, <2>2, <2>5, <2>8, <2>9, <2>10, <2>11 DEF Settled
  <2> QED
    BY <1>1, <2>6, <2>9, <2>12, <2>13
<1>5. CASE DetailTimedOut(c)
  <2>1. pc[c] = "fetch" /\ MarkTimedOut(c) /\ UNCHANGED <<now, fetches, lost>>
    BY <1>5 DEF DetailTimedOut
  <2>2. ~IsTerminalOrderState(copy[c].state)
    BY <1>1, <2>1 DEF IsTerminalOrderState, Terminal
  <2> QED
    BY <1>1, <2>1, <2>2, TimedOut DEF MarkTimedOut, Settled
<1>6. CASE OutcomeLost(c)
  BY <1>1, <1>6, BoundsAssumption DEF OutcomeLost, RequestLost, Uncounted, Settled
<1> QED
  BY <1>2, <1>3, <1>4, <1>5, <1>6 DEF Answer

\* What a poller that gives up leaves in the store.
LEMMA EndLeaves ==
  ASSUME TypeInv, NEW c \in Chats, AdvanceExpired(c) \/ AdvanceEnds(c)
  PROVE  /\ pc[c] = "advance" /\ Leave(c) /\ lost' \in 0..MaxLost /\ UNCHANGED <<now, fetches>>
         /\ \/ stored' = stored /\ lost' = lost
            \/ stored' \in Record /\ stored'.state = "TIMED_OUT" /\ lost' = lost
            \/ /\ stored' \in Record /\ stored'.state = "DETAIL_FETCHING"
               /\ stored'.retry = copy[c].retry /\ stored'.due = copy[c].due
               /\ IsDue(copy[c]) /\ copy[c].state = stored.state
               /\ Uncounted(Overwritten(copy[c]))
<1>1. copy[c] \in Record /\ now \in Nat /\ lost \in 0..MaxLost /\ copy[c].retry \in Nat
  BY BoundsAssumption, PolicyAssumption DEF TypeInv, TypeOK, Record
<1>2. pc[c] = "advance" /\ Leave(c) /\ UNCHANGED <<now, fetches>>
  BY DEF AdvanceExpired, AdvanceEnds, MarkTimedOut
<1>3. \/ stored' = stored /\ lost' = lost
      \/ /\ stored' = Moved(copy[c], "ORDER_EXPIRED") /\ lost' = lost
         /\ ~IsTerminalOrderState(copy[c].state)
      \/ /\ \E event \in EventToFetch(copy[c]) : stored' = Moved(copy[c], event)
         /\ StateIs(copy[c]) /\ Uncounted(Overwritten(copy[c]))
  BY DEF AdvanceExpired, AdvanceEnds, MarkTimedOut
<1>4. PICK k \in Nat : k = Overwritten(copy[c])
  BY <1>1, OverwrittenRetries
<1>5. lost' \in 0..MaxLost
  BY <1>1, <1>3, <1>4, BoundsAssumption DEF Uncounted
<1> QED
  BY <1>1, <1>2, <1>3, <1>5, TimedOut, ToFetch DEF StateIs

\* The record that a request goes out with, and what of it is counted.
LEMMA RequestWrites ==
  ASSUME TypeInv, NEW c \in Chats, AdvanceToFetch(c) \/ AdvanceFetching(c)
  PROVE  /\ pc[c] = "advance"
         /\ \E r \in Record :
              /\ Request(c, r)
              /\ r.state = "DETAIL_FETCHING" /\ r.retry = copy[c].retry /\ r.due = copy[c].due
              /\ \/ /\ IsDue(copy[c]) /\ copy[c].state = stored.state /\ stored' = r
                    /\ lost' = lost + Overwritten(copy[c])
                 \/ /\ r = copy[c] /\ stored' = stored
                    /\ lost' = lost + (IF IsOld(r) THEN 1 ELSE 0)
         /\ now' = now /\ lost' \in 0..MaxLost
<1>1. copy[c] \in Record /\ now \in Nat /\ lost \in 0..MaxLost /\ copy[c].retry \in Nat
  BY BoundsAssumption, PolicyAssumption DEF TypeInv, TypeOK, Record
<1>2. CASE AdvanceToFetch(c)
  <2>1. PICK event \in EventToFetch(copy[c]) :
          /\ stored' = Moved(copy[c], event)
          /\ Request(c, Moved(copy[c], event))
    BY <1>2 DEF AdvanceToFetch
  <2>2. PICK r : r = Moved(copy[c], event)
    OBVIOUS
  <2>3. /\ r \in Record /\ r.state = "DETAIL_FETCHING"
        /\ r.retry = copy[c].retry /\ r.due = copy[c].due /\ IsDue(copy[c])
    BY <1>1, <2>1, <2>2, ToFetch
  <2>4. /\ copy[c].state = stored.state /\ pc[c] = "advance" /\ now' = now
        /\ Uncounted(Overwritten(copy[c]))
    BY <1>2 DEF AdvanceToFetch, StateIs
  <2>5. PICK k \in Nat : k = Overwritten(copy[c])
    BY <1>1, OverwrittenRetries
  <2>6. lost' = lost + k /\ lost' \in 0..MaxLost
    BY <1>1, <2>4, <2>5, BoundsAssumption DEF Uncounted
  <2> QED
    BY <2>1, <2>2, <2>3, <2>4, <2>5, <2>6
<1>3. CASE AdvanceFetching(c)
  <2>1. /\ pc[c] = "advance" /\ copy[c].state = "DETAIL_FETCHING" /\ Request(c, copy[c])
        /\ UNCHANGED <<now, stored>> /\ Uncounted(IF IsOld(copy[c]) THEN 1 ELSE 0)
    BY <1>3 DEF AdvanceFetching
  <2>2. lost' = lost + (IF IsOld(copy[c]) THEN 1 ELSE 0) /\ lost' \in 0..MaxLost
    BY <1>1, <2>1, BoundsAssumption DEF Uncounted
  <2> QED
    BY <1>1, <2>1, <2>2
<1> QED
  BY <1>2, <1>3

-----------------------------------------------------------------------------
(* The types, and the wait *)

LEMMA DetectedRecord == Detected \in Record /\ Detected.state = "DETECTED" /\ Detected.due = 0
BY PolicyAssumption DEF Detected, Record, OrderState, Resumable

\* A poller goes, or gets somewhere with a record.
LEMMA Left ==
  ASSUME TypeInv, NEW c \in Chats, Leave(c), stored' \in Record, lost' \in 0..MaxLost,
         UNCHANGED <<now, fetches>>
  PROVE  TypeInv'
BY DetectedRecord DEF TypeInv, TypeOK, Leave

LEMMA Went ==
  ASSUME TypeInv, NEW c \in Chats, NEW r \in Record,
         NEW place \in {"idle", "listed", "advance", "fetch"},
         place = "fetch" => r.state = "DETAIL_FETCHING",
         pc' = [pc EXCEPT ![c] = place], copy' = [copy EXCEPT ![c] = r],
         holder' \in Chats \cup {Nobody}, stored' \in Record, fetches' \in Nat,
         lost' \in 0..MaxLost, now' = now
  PROVE  TypeInv'
BY DEF TypeInv, TypeOK

LEMMA TypeStep ==
  ASSUME TypeInv, [Next]_vars
  PROVE  TypeInv'
<1>1. /\ Owner \in Chats /\ stored \in Record /\ holder \in Chats \cup {Nobody}
      /\ fetches \in Nat /\ now \in Nat /\ lost \in 0..MaxLost
      /\ \A c \in Chats : copy[c] \in Record
  BY OwnerAssumption, BoundsAssumption DEF TypeInv, TypeOK
<1>2. CASE List
  BY <1>1, <1>2, Went DEF List
<1>3. CASE ResumeWorkflowRecord
  <2>1. CASE holder = Nobody
    <3>1. copy' = [copy EXCEPT ![Owner] = copy[Owner]]
      BY <1>3, <2>1 DEF ResumeWorkflowRecord, TypeInv, TypeOK
    <3> QED
      BY <1>1, <1>3, <2>1, <3>1, Went DEF ResumeWorkflowRecord
  <2>2. CASE holder # Nobody
    BY <1>1, <1>3, <2>2, DetectedRecord, Went DEF ResumeWorkflowRecord
  <2> QED
    BY <2>1, <2>2
<1>4. ASSUME NEW c \in Chats, ProcessPendingOrder(c)
      PROVE  TypeInv'
  BY <1>1, <1>4, Went DEF ProcessPendingOrder
<1>5. ASSUME NEW c \in Chats, AdvanceToFetch(c) \/ AdvanceFetching(c)
      PROVE  TypeInv'
  <2>1. PICK r \in Record :
          /\ Request(c, r)
          /\ r.state = "DETAIL_FETCHING" /\ stored' \in {stored, r}
    BY <1>5, RequestWrites
  <2>2. now' = now /\ lost' \in 0..MaxLost
    BY <1>5, RequestWrites
  <2> QED
    <3>1. /\ pc' = [pc EXCEPT ![c] = "fetch"] /\ copy' = [copy EXCEPT ![c] = r]
          /\ fetches' = fetches + 1 /\ holder' = holder
      BY <2>1 DEF Request
    <3>2. fetches' \in Nat /\ holder' \in Chats \cup {Nobody} /\ stored' \in Record
      BY <1>1, <2>1, <3>1
    <3>3. "fetch" \in {"idle", "listed", "advance", "fetch"}
      OBVIOUS
    <3> QED
      BY <2>1, <2>2, <3>1, <3>2, <3>3, Went
<1>6. ASSUME NEW c \in Chats, AdvanceExpired(c) \/ AdvanceEnds(c)
      PROVE  TypeInv'
  <2>1. stored' \in Record /\ Leave(c) /\ lost' \in 0..MaxLost /\ UNCHANGED <<now, fetches>>
    BY <1>1, <1>6, EndLeaves
  <2> QED
    BY <2>1, Left
<1>7. ASSUME NEW c \in Chats, Answer(c)
      PROVE  TypeInv'
  <2>1. stored' \in Record
    BY <1>1, <1>7, AnswerSettles DEF Settled
  <2> QED
    BY <1>7, <2>1, AnswerSettles, Left
<1>8. CASE Crash
  <2>1. lost' \in 0..MaxLost
    BY <1>1, <1>8, BoundsAssumption DEF Crash, RequestLost, Uncounted
  <2> QED
    BY <1>8, <2>1, DetectedRecord DEF Crash, TypeInv, TypeOK
<1>9. CASE Tick
  BY <1>9, BoundsAssumption DEF Tick, IsExpired, TypeInv, TypeOK
<1>10. CASE UNCHANGED vars
  BY <1>10 DEF vars, TypeInv, TypeOK
<1> QED
  BY <1>2, <1>3, <1>4, <1>5, <1>6, <1>7, <1>8, <1>9, <1>10 DEF Next, PollerStep, Answer

LEMMA TypeInit == Init => TypeInv
BY DetectedRecord, BoundsAssumption DEF Init, TypeInv, TypeOK

\* Only an answer that is to be retried leaves a record to wait.
LEMMA WaitStep ==
  ASSUME TypeInv, WaitInv, [Next]_vars
  PROVE  WaitInv'
<1>1. CASE UNCHANGED stored
  BY <1>1 DEF WaitInv, NextDelay, NominalDelay
<1>2. ASSUME stored'.state # "RETRYING_DETAIL"
      PROVE  WaitInv'
  BY <1>2 DEF WaitInv
<1>3. ASSUME NEW c \in Chats, AdvanceToFetch(c) \/ AdvanceFetching(c)
      PROVE  WaitInv'
  <2>1. stored' = stored \/ stored'.state # "RETRYING_DETAIL"
    BY <1>3, RequestWrites
  <2> QED
    BY <1>1, <1>2, <2>1
<1>4. ASSUME NEW c \in Chats, AdvanceExpired(c) \/ AdvanceEnds(c)
      PROVE  WaitInv'
  <2>1. stored' = stored \/ stored'.state # "RETRYING_DETAIL"
    BY <1>4, EndLeaves
  <2> QED
    BY <1>1, <1>2, <2>1
<1>5. ASSUME NEW c \in Chats, Answer(c)
      PROVE  WaitInv'
  <2>1. Settled(c)
    BY <1>5, AnswerSettles
  <2>2. CASE stored' = stored \/ stored'.state # "RETRYING_DETAIL"
    BY <1>1, <1>2, <2>2
  <2>3. CASE /\ stored'.retry = copy[c].retry + 1 /\ stored'.due < ExpiresAt
             /\ stored'.due - stored'.updated \in NextDelay(stored'.retry)
    <3>1. copy[c].retry \in Nat
      BY DEF TypeInv, TypeOK, Record
    <3>2. stored'.retry > 0
      BY <2>3, <3>1
    <3> QED
      BY <2>3, <3>2 DEF WaitInv, NextDelay, NominalDelay
  <2> QED
    BY <2>1, <2>2, <2>3 DEF Settled
<1>6. CASE List \/ ResumeWorkflowRecord \/ Crash \/ Tick \/ UNCHANGED vars
  BY <1>1, <1>6 DEF List, ResumeWorkflowRecord, Crash, Tick, vars
<1>7. ASSUME NEW c \in Chats, ProcessPendingOrder(c)
      PROVE  WaitInv'
  BY <1>1, <1>7 DEF ProcessPendingOrder
<1> QED
  BY <1>3, <1>4, <1>5, <1>6, <1>7 DEF Next, PollerStep, Answer

-----------------------------------------------------------------------------
(* The lock, the retry time and the count, for every number of chats *)

LEMMA LeaveKeeps ==
  ASSUME TypeInv, LockInv, NEW c \in Chats, AtWork(c), Leave(c)
  PROVE  LockInv' /\ ~Awaited'
<1>1. pc \in [Chats -> {"idle", "listed", "advance", "fetch"}]
  BY DEF TypeInv, TypeOK
<1>2. \A d \in Chats : pc'[d] \notin {"advance", "fetch"}
  BY <1>1 DEF LockInv, AtWork, Leave
<1> QED
  BY <1>2 DEF LockInv, AtWork, Awaited

\* The record that a request goes out with is the stored one, or else an old copy
\* of the owner's.
LEMMA RequestKeeps ==
  ASSUME TypeInv, LockInv, NEW c \in Chats, pc[c] = "advance", NEW r, Request(c, r),
         stored' = r \/ (r = copy[c] /\ stored' = stored)
  PROVE  LockInv' /\ ~Awaited /\ (Awaited' <=> r = stored')
<1>1. /\ pc \in [Chats -> {"idle", "listed", "advance", "fetch"}]
      /\ copy \in [Chats -> Record]
  BY DEF TypeInv, TypeOK
<1>2. holder = c /\ \A d \in Chats \ {c} : pc[d] \notin {"advance", "fetch"}
  BY DEF LockInv, AtWork
<1>3. /\ pc'[c] = "fetch" /\ copy'[c] = r /\ holder' = c
      /\ \A d \in Chats \ {c} : pc'[d] = pc[d] /\ copy'[d] = copy[d]
  BY <1>1, <1>2 DEF Request
<1>4. c # Owner => r = stored'
  BY DEF LockInv, AtWork
<1> QED
  BY <1>2, <1>3, <1>4 DEF LockInv, AtWork, Awaited

\* Steps that neither write the record nor send anything: a poller comes nearer.
LEMMA NearerKeeps ==
  ASSUME TypeInv, PollersInv, NEW c \in Chats, ~AtWork(c), NEW place, NEW r,
         pc' = [pc EXCEPT ![c] = place], copy' = [copy EXCEPT ![c] = r],
         \/ place \in {"idle", "listed"} /\ holder' = holder
         \/ place = "advance" /\ holder = Nobody /\ holder' = c /\ (c # Owner => r = stored),
         NewIsDue(r), UNCHANGED <<now, stored, fetches, lost>>
  PROVE  PollersInv'
<1>1. /\ pc \in [Chats -> {"idle", "listed", "advance", "fetch"}]
      /\ copy \in [Chats -> Record]
  BY DEF TypeInv, TypeOK
<1>2. /\ pc'[c] = place /\ copy'[c] = r
      /\ \A d \in Chats \ {c} : pc'[d] = pc[d] /\ copy'[d] = copy[d]
  BY <1>1
<1>3. LockInv'
  BY <1>2, OwnerAssumption DEF PollersInv, LockInv, AtWork
<1>4. DueInv'
  BY <1>2 DEF PollersInv, DueInv, NewIsDue
<1>5. Awaited' <=> Awaited
  BY <1>2 DEF Awaited, AtWork
<1> QED
  BY <1>3, <1>4, <1>5 DEF PollersInv, CountInv, ToBeFetched, FetchesBounded

LEMMA PollersStep ==
  ASSUME TypeInv, PollersInv, [Next]_vars
  PROVE  PollersInv'
<1>1. /\ fetches \in Nat /\ now \in Nat /\ lost \in Nat /\ MaxAttempts \in Nat
      /\ stored.retry \in 0..MaxAttempts /\ stored.due \in Nat /\ Owner \in Chats
  BY OwnerAssumption, BoundsAssumption, PolicyAssumption DEF TypeInv, TypeOK, Record
<1>2. \A c \in Chats : /\ copy[c].retry \in Nat /\ copy[c].due \in Nat /\ NewIsDue(copy[c])
                       /\ pc[c] = "fetch" => copy[c].state = "DETAIL_FETCHING"
  BY <1>1 DEF TypeInv, TypeOK, Record, PollersInv, DueInv
<1>3. LockInv /\ NewIsDue(stored) /\ FetchesBounded
  BY DEF PollersInv, DueInv, CountInv
<1>4. CASE List
  BY <1>1, <1>3, <1>4, NearerKeeps DEF List, AtWork
<1>5. CASE ResumeWorkflowRecord
  <2>1. CASE holder = Nobody
    <3>1. copy' = [copy EXCEPT ![Owner] = copy[Owner]]
      BY <1>5, <2>1 DEF ResumeWorkflowRecord, TypeInv, TypeOK
    <3> QED
      BY <1>1, <1>2, <1>5, <2>1, <3>1, NearerKeeps DEF ResumeWorkflowRecord, AtWork
  <2>2. CASE holder # Nobody
    BY <1>1, <1>5, <2>2, NearerKeeps DEF ResumeWorkflowRecord, AtWork, NewIsDue, Detected
  <2> QED
    BY <2>1, <2>2
<1>6. ASSUME NEW c \in Chats, ProcessPendingOrder(c)
      PROVE  PollersInv'
  BY <1>3, <1>6, NearerKeeps DEF ProcessPendingOrder, AtWork
<1>7. ASSUME NEW c \in Chats, AdvanceToFetch(c) \/ AdvanceFetching(c)
      PROVE  PollersInv'
  <2>1. pc[c] = "advance" /\ now' = now /\ lost' \in Nat
    BY <1>7, RequestWrites, BoundsAssumption
  <2>2. PICK r \in Record :
          /\ Request(c, r)
          /\ r.state = "DETAIL_FETCHING" /\ r.retry = copy[c].retry /\ r.due = copy[c].due
          /\ \/ /\ IsDue(copy[c]) /\ copy[c].state = stored.state /\ stored' = r
                /\ lost' = lost + Overwritten(copy[c])
             \/ /\ r = copy[c] /\ stored' = stored
                /\ lost' = lost + (IF IsOld(r) THEN 1 ELSE 0)
    BY <1>7, RequestWrites
  <2>3. LockInv' /\ ~Awaited /\ (Awaited' <=> r = stored')
    <3>1. stored' = r \/ (r = copy[c] /\ stored' = stored)
      BY <2>2
    <3> QED
      <4>1. LockInv /\ pc[c] = "advance" /\ Request(c, r)
        BY <1>3, <2>1, <2>2
      <4> QED
        BY <3>1, <4>1, RequestKeeps
  <2>4. fetches' = fetches + 1 /\ \A d \in Chats : NewIsDue(copy'[d])
    BY <1>2, <2>2 DEF Request, NewIsDue, TypeInv, TypeOK
  <2>5. NewIsDue(stored') /\ (stored'.state = "DETAIL_FETCHING" => stored'.due <= now)
    BY <1>1, <1>2, <2>2 DEF PollersInv, DueInv, IsDue, NewIsDue
  <2>6. ToBeFetched => fetches <= stored.retry + lost
    BY <1>1, <2>3 DEF PollersInv, CountInv
  <2>7. CountInv'
    <3>1. CASE /\ IsDue(copy[c]) /\ copy[c].state = stored.state /\ stored' = r
               /\ lost' = lost + Overwritten(copy[c])
      <4>1. PICK k \in Nat : k = Overwritten(copy[c]) /\ r.retry + k >= stored.retry
        BY <1>2, <2>2, OverwrittenRetries
      <4>2. fetches <= stored.retry + lost
        BY <2>6, <3>1 DEF IsDue, ToBeFetched
      <4>3. fetches' <= stored'.retry + 1 + lost' /\ r.retry \in 0..MaxAttempts
        BY <1>1, <1>2, <2>2, <2>4, <3>1, <4>1, <4>2 DEF Record
      <4> QED
        BY <1>1, <2>1, <2>3, <2>4, <3>1, <4>3 DEF CountInv, FetchesBounded
    <3>2. CASE r = copy[c] /\ stored' = stored /\ IsOld(r) /\ lost' = lost + 1
      BY <1>1, <1>3, <2>3, <2>4, <2>6, <3>2 DEF CountInv, FetchesBounded, ToBeFetched, IsOld
    <3>3. CASE r = stored /\ stored' = stored /\ lost' = lost
      <4>1. fetches <= stored.retry + lost
        BY <2>2, <2>6, <3>3 DEF ToBeFetched
      <4> QED
        BY <1>1, <2>3, <2>4, <3>3, <4>1 DEF CountInv, FetchesBounded
    <3> QED
      BY <1>1, <2>2, <3>1, <3>2, <3>3 DEF IsOld
  <2> QED
    BY <2>1, <2>3, <2>4, <2>5, <2>7 DEF PollersInv, DueInv
<1>8. ASSUME NEW c \in Chats, AtWork(c), Leave(c), now' = now, fetches' = fetches,
             NewIsDue(stored'), stored'.state = "DETAIL_FETCHING" => stored'.due <= now,
             ToBeFetched' => fetches <= stored'.retry + lost', stored'.retry \in Nat,
             lost' \in Nat, lost' >= lost
      PROVE  PollersInv'
  <2>1. LockInv' /\ ~Awaited'
    BY <1>3, <1>8, LeaveKeeps
  <2>2. \A d \in Chats : NewIsDue(copy'[d])
    BY <1>2, <1>8 DEF Leave, NewIsDue, Detected, TypeInv, TypeOK
  <2>3. FetchesBounded'
    <3>1. fetches <= MaxAttempts + 1 + lost
      BY <1>3 DEF FetchesBounded
    <3>2. fetches' = fetches /\ lost' \in Nat /\ lost' >= lost
      BY <1>8
    <3>3. PICK a, b, m, f \in Nat : a = lost /\ b = lost' /\ m = MaxAttempts /\ f = fetches
      BY <1>1, <3>2
    <3>4. f <= m + 1 + b
      <4>1. f <= m + 1 + a /\ b >= a
        BY <3>1, <3>2, <3>3
      <4> QED
        BY <4>1
    <3>5. fetches' <= MaxAttempts + 1 + lost'
      BY <3>2, <3>3, <3>4
    <3> QED
      BY <3>5 DEF FetchesBounded
  <2>4. DueInv'
    BY <1>8, <2>2 DEF DueInv
  <2>5. CountInv'
    BY <1>8, <2>1, <2>3 DEF CountInv
  <2> QED
    BY <2>1, <2>4, <2>5 DEF PollersInv
<1>9. ASSUME NEW c \in Chats, AdvanceExpired(c) \/ AdvanceEnds(c)
      PROVE  PollersInv'
  <2>1. /\ AtWork(c) /\ Leave(c) /\ UNCHANGED <<now, fetches>> /\ stored'.retry \in Nat
        /\ \/ stored' = stored /\ lost' = lost
           \/ stored'.state = "TIMED_OUT" /\ lost' = lost
           \/ /\ stored'.state = "DETAIL_FETCHING"
              /\ stored'.retry = copy[c].retry /\ stored'.due = copy[c].due
              /\ IsDue(copy[c]) /\ copy[c].state = stored.state
              /\ lost' = lost + Overwritten(copy[c])
    BY <1>1, <1>2, <1>9, EndLeaves DEF AtWork, Uncounted, Record
  <2>2. ToBeFetched => fetches <= stored.retry + lost
    <3>1. pc[c] = "advance"
      BY <1>9, EndLeaves
    <3>2. ~Awaited
      BY <1>3, <3>1 DEF LockInv, AtWork, Awaited
    <3> QED
      BY <1>1, <3>2 DEF PollersInv, CountInv
  <2>3. PICK k \in Nat : k = Overwritten(copy[c]) /\ copy[c].retry + k >= stored.retry
    BY <1>2, OverwrittenRetries
  <2>4. lost' \in Nat /\ lost' >= lost /\ (ToBeFetched' => fetches <= stored'.retry + lost')
    BY <1>1, <1>2, <2>1, <2>2, <2>3 DEF ToBeFetched, IsDue
  <2>5. NewIsDue(stored') /\ (stored'.state = "DETAIL_FETCHING" => stored'.due <= now)
    BY <1>1, <1>2, <1>3, <2>1 DEF NewIsDue, IsDue, PollersInv, DueInv
  <2> QED
    BY <1>8, <2>1, <2>4, <2>5
<1>10. ASSUME NEW c \in Chats, Answer(c)
       PROVE  PollersInv'
  <2>1. /\ pc[c] = "fetch" /\ Settled(c) /\ Leave(c) /\ UNCHANGED <<now, fetches>>
        /\ lost' \in Nat /\ stored'.retry \in Nat
    BY <1>1, <1>10, AnswerSettles, BoundsAssumption DEF Settled, Record
  <2>2. Awaited <=> copy[c] = stored
    BY <1>3, <2>1 DEF LockInv, AtWork, Awaited
  <2>3. /\ ToBeFetched => fetches <= stored.retry + lost + 1
        /\ ToBeFetched /\ copy[c] # stored => fetches <= stored.retry + lost
    BY <1>1, <2>2 DEF PollersInv, CountInv
  <2>4. CASE stored' = stored /\ RequestLost(c)
    <3>1. lost' = lost + (IF copy[c] = stored THEN 1 ELSE 0)
      BY <2>1, <2>4 DEF RequestLost, Uncounted, IsOld
    <3> QED
      BY <1>1, <1>3, <1>8, <2>1, <2>3, <2>4, <3>1 DEF AtWork, ToBeFetched, PollersInv, DueInv
  <2>5. CASE lost' = lost /\ stored'.state \in {"DETAIL_READY", "FAILED_DETAIL", "TIMED_OUT"}
    BY <1>1, <1>8, <2>1, <2>5 DEF AtWork, ToBeFetched, NewIsDue
  <2>6. CASE /\ stored.state = "DETAIL_FETCHING" /\ stored'.state = "RETRYING_DETAIL"
             /\ Uncounted(Overwritten(stored')) /\ stored'.retry = copy[c].retry + 1
    <3>1. stored'.retry \in Nat
      BY <1>2, <2>6
    <3>2. PICK k \in Nat : k = Overwritten(stored') /\ stored'.retry + k >= stored.retry
      BY <3>1, OverwrittenRetries
    <3>3. lost' = lost + k
      BY <2>6, <3>2 DEF Uncounted
    <3>4. fetches <= stored'.retry + lost'
      BY <1>1, <2>3, <2>6, <3>1, <3>2, <3>3 DEF ToBeFetched
    <3>5. lost' >= lost /\ NewIsDue(stored') /\ stored'.state # "DETAIL_FETCHING"
      BY <1>1, <2>6, <3>2, <3>3 DEF NewIsDue
    <3> QED
      BY <1>8, <2>1, <3>4, <3>5 DEF AtWork
  <2> QED
    BY <2>1, <2>4, <2>5, <2>6 DEF Settled
<1>11. CASE Crash
  <2>1. /\ UNCHANGED <<now, stored, fetches>> /\ holder' = Nobody
        /\ \A c \in Chats : pc'[c] = "idle" /\ copy'[c] = Detected
    BY <1>11 DEF Crash
  <2>2. LockInv' /\ ~Awaited' /\ DueInv'
    BY <1>3, <2>1 DEF LockInv, AtWork, Awaited, DueInv, NewIsDue, Detected, PollersInv
  <2>3. lost' \in Nat /\ lost' >= lost /\ (Awaited => lost' = lost + 1)
    <3>1. Awaited => holder \in Chats /\ pc[holder] = "fetch" /\ copy[holder] = stored
      BY <1>3 DEF LockInv, AtWork, Awaited
    <3>2. CASE holder = Nobody /\ lost' = lost
      BY <1>1, <3>1, <3>2, OwnerAssumption
    <3>3. CASE RequestLost(holder)
      BY <1>1, <3>1, <3>3 DEF RequestLost, Uncounted, IsOld
    <3> QED
      BY <1>11, <3>2, <3>3 DEF Crash
  <2>4. CountInv'
    BY <1>1, <1>3, <2>1, <2>2, <2>3 DEF PollersInv, CountInv, ToBeFetched, FetchesBounded
  <2> QED
    BY <2>2, <2>4 DEF PollersInv
<1>12. CASE Tick
  BY <1>1, <1>12 DEF Tick, PollersInv, LockInv, AtWork, DueInv, NewIsDue, CountInv, Awaited,
                     ToBeFetched, FetchesBounded
<1>13. CASE UNCHANGED vars
  BY <1>13 DEF vars, PollersInv, LockInv, AtWork, DueInv, NewIsDue, CountInv, Awaited,
               ToBeFetched, FetchesBounded
<1> QED
  BY <1>4, <1>5, <1>6, <1>7, <1>9, <1>10, <1>11, <1>12, <1>13 DEF Next, PollerStep, Answer

LEMMA PollersInit == Init => PollersInv
<1> SUFFICES ASSUME Init PROVE PollersInv
  OBVIOUS
<1>1. /\ fetches = 0 /\ lost = 0 /\ stored = Detected
      /\ \A c \in Chats : pc[c] = "idle" /\ copy[c] = Detected
  BY DEF Init
<1>2. stored.state = "DETECTED" /\ stored.due = 0 /\ stored.retry = 0 /\ MaxAttempts \in Nat
  BY <1>1, PolicyAssumption DEF Detected
<1> QED
  BY <1>1, <1>2 DEF PollersInv, LockInv, AtWork, DueInv, NewIsDue, CountInv, Awaited,
                    ToBeFetched, FetchesBounded, Detected

-----------------------------------------------------------------------------
(* The delay of the n-th retry.  The prover knows nothing of powers: what  *)
(* is used of them is their definition, a hypothesis of the theorem.       *)

PowersOfTwo ==
  /\ 2^0 = 1
  /\ \A n \in Nat : 2^n \in Nat /\ 2^(n + 1) = 2 * 2^n

\* Induction over the natural numbers, for a set of them.
LEMMA Induction ==
  ASSUME NEW S, 0 \in S, \A n \in Nat : n \in S => n + 1 \in S
  PROVE  Nat \subseteq S
<1> DEFINE T == Nat \ S
           less == OpToRel(<, Nat)
<1>1. CASE T = {}
  BY <1>1
<1>2. CASE T # {}
  <2>1. IsWellFoundedOn(less, Nat) /\ T \subseteq Nat
    BY NatLessThanWellFounded
  <2>2. \E n \in T : \A m \in T : ~(<<m, n>> \in less)
    <3> HIDE DEF T, less
    <3> QED
      BY <1>2, <2>1, WFMin
  <2>3. PICK n \in T : \A m \in T : ~(<<m, n>> \in less)
    BY <2>2
  <2>4. n \in Nat \ {0} /\ n - 1 \in Nat /\ (n - 1) + 1 = n /\ n - 1 < n
    OBVIOUS
  <2>5. n - 1 \notin T
    BY <2>3, <2>4 DEF OpToRel
  <2> QED
    BY <2>4, <2>5
<1> QED
  BY <1>1, <1>2

LEMMA CapTwice ==
  ASSUME NEW d \in Nat
  PROVE  /\ Cap(d) \in Nat /\ Cap(Cap(d)) = Cap(d)
         /\ Cap(2 * Cap(d)) = Cap(2 * d)
BY PolicyAssumption DEF Cap

\* The loop of NextDelay computes what its comment says.
LEMMA DoubledIsPower ==
  ASSUME NEW p, p[0] = 1, \A n \in Nat : p[n] \in Nat /\ p[n + 1] = 2 * p[n]
  PROVE  \A n \in Nat : Doubled[n] \in Nat /\ Cap(Doubled[n]) = Cap(BaseBackoff * p[n])
<1> DEFINE G == [n \in Nat |-> IF n = 0 THEN BaseBackoff ELSE Cap(BaseBackoff * p[n])]
           F(g) == [n \in Nat |-> IF n = 0 THEN BaseBackoff ELSE Cap(2 * g[n - 1])]
<1>1. BaseBackoff \in Nat
  BY PolicyAssumption
<1>2. ASSUME NEW n \in Nat
      PROVE  /\ BaseBackoff * p[n] \in Nat
             /\ BaseBackoff * p[n + 1] = 2 * (BaseBackoff * p[n])
  <2>1. PICK q \in Nat : q = p[n] /\ p[n + 1] = 2 * q
    OBVIOUS
  <2>2. BaseBackoff * q \in Nat /\ BaseBackoff * (2 * q) = 2 * (BaseBackoff * q)
    BY <1>1
  <2> QED
    BY <2>1, <2>2
<1>3. ASSUME NEW n \in Nat
      PROVE  G[n + 1] = Cap(2 * G[n])
  <2>1. G[n + 1] = Cap(2 * (BaseBackoff * p[n]))
    BY <1>2
  <2>2. CASE n = 0
    <3>1. BaseBackoff * p[0] = BaseBackoff
      BY <1>1
    <3> QED
      BY <2>1, <2>2, <3>1
  <2>3. CASE n # 0
    <3>1. G[n] = Cap(BaseBackoff * p[n])
      BY <2>3
    <3> QED
      BY <1>2, <2>1, <3>1, CapTwice
  <2> QED
    BY <2>2, <2>3
<1>4. G = F(G)
  <2>1. ASSUME NEW n \in Nat
        PROVE  G[n] = F(G)[n]
    <3>1. CASE n = 0
      BY <3>1
    <3>2. CASE n # 0
      <4>1. PICK m \in Nat : m + 1 = n /\ n - 1 = m
        BY <3>2
      <4>2. G[m + 1] = Cap(2 * G[m])
        BY <1>3
      <4>3. F(G)[n] = Cap(2 * G[n - 1])
        BY <3>2
      <4> QED
        BY <4>1, <4>2, <4>3
    <3> QED
      BY <3>1, <3>2
  <2> QED
    BY <2>1
<1>5. Doubled = CHOOSE g : g = F(g)
  BY DEF Doubled
<1> HIDE DEF G
<1>6. Doubled = F(Doubled)
  BY <1>4, <1>5
<1> DEFINE S == {n \in Nat : Doubled[n] \in Nat /\ Cap(Doubled[n]) = Cap(BaseBackoff * p[n])}
<1>7. 0 \in S
  <2>1. Doubled[0] = BaseBackoff
    BY <1>6
  <2>2. BaseBackoff * p[0] = BaseBackoff
    BY <1>1
  <2> QED
    BY <1>1, <2>1, <2>2
<1>8. ASSUME NEW n \in Nat, n \in S
      PROVE  n + 1 \in S
  <2>1. Doubled[n + 1] = Cap(2 * Doubled[n])
    <3>1. n + 1 # 0 /\ n + 1 \in Nat /\ (n + 1) - 1 = n
      OBVIOUS
    <3> QED
      BY <1>6, <3>1
  <2>2. Doubled[n] \in Nat /\ 2 * Doubled[n] \in Nat /\ Cap(Doubled[n]) = Cap(BaseBackoff * p[n])
    BY <1>8
  <2>3. Doubled[n + 1] \in Nat
    BY <2>1, <2>2, CapTwice
  <2>4. Cap(Doubled[n + 1]) = Cap(2 * Cap(Doubled[n]))
    BY <2>1, <2>2, CapTwice
  <2>5. Cap(2 * Cap(BaseBackoff * p[n])) = Cap(BaseBackoff * p[n + 1])
    BY <1>2, CapTwice
  <2> QED
    BY <2>2, <2>3, <2>4, <2>5
<1>9. Nat \subseteq S
  <2> HIDE DEF S
  <2> QED
    BY <1>7, <1>8, Induction
<1> QED
  BY <1>9

LEMMA NominalIsPower ==
  ASSUME PowersOfTwo, NEW n \in Nat \ {0}
  PROVE  NominalDelay(n) = Cap(BaseBackoff * 2^(n - 1)) /\ NominalDelay(n) \in Nat
<1> DEFINE p == [k \in Nat |-> 2^k]
<1>1. p[0] = 1 /\ \A k \in Nat : p[k] \in Nat /\ p[k + 1] = 2 * p[k]
  <2>1. 0 \in Nat /\ p[0] = 2^0
    OBVIOUS
  <2>2. ASSUME NEW k \in Nat
        PROVE  p[k] \in Nat /\ p[k + 1] = 2 * p[k]
    <3>1. k + 1 \in Nat
      OBVIOUS
    <3>2. p[k] = 2^k /\ p[k + 1] = 2^(k + 1)
      BY <3>1, Zenon
    <3>3. 2^k \in Nat /\ 2^(k + 1) = 2 * 2^k
      BY Zenon DEF PowersOfTwo
    <3> HIDE DEF p
    <3> QED
      BY <3>2, <3>3, Zenon
  <2> QED
    BY <2>1, <2>2, Zenon DEF PowersOfTwo
<1>2. PICK m \in Nat : m = n - 1
  OBVIOUS
<1>3. p[m] = 2^m
  OBVIOUS
<1> HIDE DEF p
<1>4. Doubled[m] \in Nat /\ Cap(Doubled[m]) = Cap(BaseBackoff * p[m])
  BY <1>1, DoubledIsPower
<1>5. NominalDelay(n) = Cap(Doubled[m])
  BY <1>2 DEF NominalDelay
<1> QED
  BY <1>2, <1>3, <1>4, <1>5, CapTwice

\* The draw stays within the jitter of the nominal delay, also where it would come
\* out as zero.
LEMMA DelayNearNominal ==
  ASSUME NEW n, NEW m \in Nat, m = NominalDelay(n), m >= BaseBackoff,
         NEW delay \in NextDelay(n)
  PROVE  100 * delay \in (100 - JitterPercent) * m..(100 + JitterPercent) * m
<1>1. PICK s : s = (m * JitterPercent) \div 100
  OBVIOUS
<1>2. PICK d \in (m - s)..(m + s) : delay = IF d <= 0 THEN BaseBackoff \div 2 ELSE d
  BY <1>1 DEF NextDelay
<1>3. JitterPercent \in Nat /\ BaseBackoff \in Nat \ {0}
  BY PolicyAssumption
<1>4. PICK p \in Nat : p = m * JitterPercent
  BY <1>3
<1>5. s \in Nat /\ 100 * s <= p
  BY <1>1, <1>4
<1>6. d \in Int /\ 100 * d >= 100 * m - p /\ 100 * d <= 100 * m + p
  BY <1>2, <1>5
<1>7. (100 - JitterPercent) * m = 100 * m - p /\ (100 + JitterPercent) * m = 100 * m + p
  BY <1>3, <1>4
<1>8. 100 * delay >= 100 * m - p /\ 100 * delay <= 100 * m + p /\ delay \in Nat
  <2>1. CASE d > 0
    BY <1>2, <1>6, <2>1
  <2>2. CASE d <= 0
    <3>1. 100 * m <= p
      BY <1>6, <2>2
    <3>2. delay = BaseBackoff \div 2
      BY <1>2, <2>2, <1>6
    <3>3. delay \in Nat /\ 100 * delay <= 100 * m
      BY <1>3, <3>2
    <3> QED
      BY <1>4, <3>1, <3>3
  <2> QED
    BY <1>6, <2>1, <2>2
<1> QED
  BY <1>7, <1>8

-----------------------------------------------------------------------------
(* The theorems *)

LEMMA TypeAndWait == Spec => [](TypeInv /\ WaitInv)
<1>1. Init => TypeInv /\ WaitInv
  BY TypeInit, DetectedRecord DEF Init, WaitInv
<1>2. TypeInv /\ WaitInv /\ [Next]_vars => TypeInv' /\ WaitInv'
  BY TypeStep, WaitStep
<1> QED
  BY <1>1, <1>2, PTL DEF Spec

\* TypeOK: with any number of chats, the stored record and every copy of it are
\* records of the order, with at most MaxAttempts retries counted.
THEOREM TypeCorrect == Spec => []TypeOK
BY TypeAndWait, PTL DEF TypeInv

\* BackoffIsExponential: with any number of chats, a record that waits for a retry
\* waits for what the comment of NextDelay says, and not beyond its expiry.
\* DefaultRetryPolicy's cap is not below its first delay.
THEOREM Exponential ==
  ASSUME PowersOfTwo, BaseBackoff <= MaxBackoff
  PROVE  Spec => []BackoffIsExponential
<1>1. TypeInv /\ WaitInv => BackoffIsExponential
  <2> SUFFICES ASSUME TypeInv, WaitInv, stored.state = "RETRYING_DETAIL"
               PROVE  BackoffIsExponential
    BY DEF BackoffIsExponential
  <2>1. PICK n \in Nat \ {0} : n = stored.retry
    BY PolicyAssumption DEF WaitInv, TypeInv, TypeOK, Record
  <2>2. PICK wait \in NextDelay(n) : wait = stored.due - stored.updated
    BY <2>1 DEF WaitInv
  <2>3. PICK m \in Nat : m = NominalDelay(n) /\ m = Cap(BaseBackoff * 2^(n - 1))
    BY NominalIsPower
  <2>4. PICK double \in Nat : double = BaseBackoff * 2^(n - 1) /\ double >= BaseBackoff
    <3>1. PICK k \in Nat : k = n - 1
      OBVIOUS
    <3>2. 2^k \in Nat /\ 2^k > 0
      <4> DEFINE S == {i \in Nat : 2^i \in Nat /\ 2^i > 0}
      <4>1. 0 \in S
        BY DEF PowersOfTwo
      <4>2. ASSUME NEW i \in Nat, i \in S
            PROVE  i + 1 \in S
        <5>1. PICK q \in Nat : q = 2^i /\ q > 0
          BY <4>2
        <5>2. 2^(i + 1) = 2 * q
          BY <5>1 DEF PowersOfTwo
        <5> QED
          BY <5>1, <5>2
      <4>3. Nat \subseteq S
        <5> HIDE DEF S
        <5> QED
          BY <4>1, <4>2, Induction
      <4> QED
        BY <4>3
    <3>3. PICK q \in Nat : q = 2^k /\ q > 0
      BY <3>2
    <3>4. BaseBackoff * q \in Nat /\ BaseBackoff * q >= BaseBackoff
      BY <3>3, PolicyAssumption
    <3> QED
      BY <3>1, <3>3, <3>4
  <2>5. m >= BaseBackoff /\ m = IF double < MaxBackoff THEN double ELSE MaxBackoff
    BY <2>3, <2>4, PolicyAssumption DEF Cap
  <2>6. 100 * wait \in (100 - JitterPercent) * m..(100 + JitterPercent) * m
    BY <2>3, <2>5, DelayNearNominal
  <2>7. stored.due < ExpiresAt
    BY DEF WaitInv
  <2> QED
    BY <2>1, <2>2, <2>4, <2>5, <2>6, <2>7 DEF BackoffIsExponential
<1> QED
  BY <1>1, TypeAndWait, PTL

LEMMA TypeAndPollers == Spec => [](TypeInv /\ PollersInv)
<1>1. Init => TypeInv /\ PollersInv
  BY TypeInit, PollersInit
<1>2. TypeInv /\ PollersInv /\ [Next]_vars => TypeInv' /\ PollersInv'
  BY TypeStep, PollersStep
<1> QED
  BY <1>1, <1>2, PTL DEF Spec

\* FetchesBounded: however many chats poll an order, its details are asked for at most
\* once and for each retry, and once more for each request the record does not count.
THEOREM Bounded == Spec => []FetchesBounded
<1>1. PollersInv => FetchesBounded
  BY DEF PollersInv, CountInv
<1> QED
  BY <1>1, TypeAndPollers, PTL

\* EarlyOnlyForOldCopy: however many chats poll an order, a request goes out before the
\* stored retry time only from the order's own chat, on a copy that is no longer what
\* is stored.
THEOREM EarlyIsOld == Spec => EarlyOnlyForOldCopy
<1> DEFINE A == \A c \in Chats :
                  (pc[c] = "advance" /\ pc'[c] = "fetch" /\ now < stored.due)
                    => (c = Owner /\ IsOld(copy[c]))
<1>1. TypeInv /\ PollersInv /\ [Next]_vars => A
  <2> SUFFICES ASSUME TypeInv, PollersInv, [Next]_vars,
                      NEW c \in Chats, pc[c] = "advance", pc'[c] = "fetch",
                      copy[c] = stored
               PROVE  ~(now < stored.due)
    BY DEF PollersInv, LockInv, AtWork, IsOld
  <2>1. now \in Nat /\ stored.due \in Nat /\ pc \in [Chats -> {"idle", "listed", "advance", "fetch"}]
    BY BoundsAssumption DEF TypeInv, TypeOK, Record
  <2>2. AdvanceToFetch(c) \/ AdvanceFetching(c)
    <3>1. \A d \in Chats : pc'[d] # pc[d] /\ pc'[d] = "fetch"
                             => AdvanceToFetch(d) \/ AdvanceFetching(d)
      <4> SUFFICES ASSUME NEW d \in Chats, pc'[d] # pc[d], pc'[d] = "fetch"
                   PROVE  AdvanceToFetch(d) \/ AdvanceFetching(d)
        OBVIOUS
      <4>1. \A e \in Chats : ~(Leave(e) \/ ProcessPendingOrder(e))
        BY <2>1 DEF Leave, ProcessPendingOrder
      <4>2. \A e \in Chats \ {d} : ~(AdvanceToFetch(e) \/ AdvanceFetching(e))
        BY <2>1 DEF AdvanceToFetch, AdvanceFetching, Request
      <4>3. \A e \in Chats : ~(AdvanceExpired(e) \/ AdvanceEnds(e) \/ Answer(e))
        BY <4>1, EndLeaves, AnswerSettles
      <4>4. ~(List \/ ResumeWorkflowRecord \/ Crash \/ Tick \/ UNCHANGED vars)
        BY <2>1 DEF List, ResumeWorkflowRecord, Crash, Tick, vars
      <4> QED
        BY <4>1, <4>2, <4>3, <4>4 DEF Next, PollerStep, Answer
    <3> QED
      BY <3>1
  <2>3. IsDue(stored) \/ stored.state = "DETAIL_FETCHING"
    BY <2>2, RequestWrites
  <2> QED
    BY <2>1, <2>3 DEF IsDue, PollersInv, DueInv, NewIsDue
<1> QED
  BY <1>1, TypeAndPollers, PTL DEF Spec, EarlyOnlyForOldCopy
=============================================================================
