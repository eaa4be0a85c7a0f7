----------------------- MODULE TransferRetries_proofs -----------------------
(***************************************************************************)
(* For every retry policy, clock and order: the types, the bound on the    *)
(* transient errors of a transfer, the backoff between two requests, and   *)
(* the amount in kobo that is asked for and shown.                         *)
(***************************************************************************)
EXTENDS TransferRetries, WellFoundedInduction, TLAPS

-----------------------------------------------------------------------------
(* The backoff.  That Doubled is a function at all needs a proof: it is    *)
(* put together from the delays up to k, for every k.                      *)

\* Induction over the natural numbers, for a set of them.
LEMMA Induction ==
  ASSUME NEW S, 0 \in S, \A n \in Nat : n \in S => n + 1 \in S
  PROVE  Nat \subseteq S
<1> DEFINE T == Nat \ S
           less == OpToRel(<, Nat)
<1>1. CASE T = {}
  BY <1>1
<1>2. CASE T # {}
  <2>1. IsWellFoundedOn(less, Nat) /\ T \subseteq Nat
    BY NatLessThanWellFounded
  <2>2. \E n \in T : \A m \in T : ~(<<m, n>> \in less)
    <3> HIDE DEF T, less
    <3> QED
      BY <1>2, <2>1, WFMin
  <2>3. PICK n \in T : \A m \in T : ~(<<m, n>> \in less)
    BY <2>2
  <2>4. n \in Nat \ {0} /\ n - 1 \in Nat /\ (n - 1) + 1 = n /\ n - 1 < n
    OBVIOUS
  <2>5. n - 1 \notin T
    BY <2>3, <2>4 DEF OpToRel
  <2> QED
    BY <2>4, <2>5
<1> QED
  BY <1>1, <1>2

\* g is Doubled up to k.
UpTo(k, g) ==
  /\ g \in [0..k -> Nat]
  /\ g[0] = BaseBackoff
  /\ \A i \in 1..k : g[i] = Cap(2 * g[i - 1])

LEMMA CapNat ==
  ASSUME NEW d \in Nat
  PROVE  Cap(d) \in Nat
BY PolicyAssumption DEF Cap

LEMMA UpToExists == \A k \in Nat : \E g : UpTo(k, g)
<1> DEFINE S == {k \in Nat : \E g : UpTo(k, g)}
<1>1. 0 \in S
  <2>1. UpTo(0, [i \in 0..0 |-> BaseBackoff])
    BY PolicyAssumption DEF UpTo
  <2> QED
    BY <2>1
<1>2. ASSUME NEW k \in Nat, k \in S
      PROVE  k + 1 \in S
  <2>1. PICK g : UpTo(k, g)
    BY <1>2
  <2> DEFINE h == [i \in 0..(k + 1) |-> IF i = k + 1 THEN Cap(2 * g[k]) ELSE g[i]]
  <2>2. g[k] \in Nat /\ Cap(2 * g[k]) \in Nat
    BY <2>1, CapNat DEF UpTo
  <2>3. h \in [0..(k + 1) -> Nat] /\ h[0] = BaseBackoff
    BY <2>1, <2>2 DEF UpTo
  <2>4. ASSUME NEW i \in 1..(k + 1)
        PROVE  h[i] = Cap(2 * h[i - 1])
    <3>1. h[i - 1] = g[i - 1]
      OBVIOUS
    <3>2. CASE i = k + 1
      BY <3>1, <3>2
    <3>3. CASE i # k + 1
      BY <2>1, <3>1, <3>3 DEF UpTo
    <3> QED
      BY <3>2, <3>3
  <2>5. UpTo(k + 1, h)
    <3> HIDE DEF h
    <3> QED
      BY <2>3, <2>4 DEF UpTo
  <2> QED
    BY <2>5
<1>3. Nat \subseteq S
  <2> HIDE DEF S
  <2> QED
    BY <1>1, <1>2, Induction
<1> QED
  BY <1>3

LEMMA UpToUnique ==
  ASSUME NEW k \in Nat, NEW g, NEW h, UpTo(k, g), UpTo(k + 1, h)
  PROVE  g[k] = h[k]
<1> DEFINE S == {i \in Nat : i <= k => g[i] = h[i]}
<1>1. 0 \in S
  BY DEF UpTo
<1>2. ASSUME NEW i \in Nat, i \in S
      PROVE  i + 1 \in S
  <2>1. SUFFICES ASSUME i + 1 <= k PROVE g[i + 1] = h[i + 1]
    OBVIOUS
  <2>2. g[i] = h[i]
    BY <1>2, <2>1
  <2>3. i + 1 \in 1..k /\ i + 1 \in 1..(k + 1) /\ (i + 1) - 1 = i
    BY <2>1
  <2>4. g[i + 1] = Cap(2 * g[i]) /\ h[i + 1] = Cap(2 * h[i])
    BY <2>3 DEF UpTo
  <2> QED
    BY <2>2, <2>4
<1>3. Nat \subseteq S
  <2> HIDE DEF S
  <2> QED
    BY <1>1, <1>2, Induction
<1> QED
  BY <1>3

LEMMA DoubledDefined ==
  Doubled = [n \in Nat |-> IF n = 0 THEN BaseBackoff ELSE Cap(2 * Doubled[n - 1])]
<1> DEFINE up(k) == CHOOSE g : UpTo(k, g)
           G == [n \in Nat |-> up(n)[n]]
<1>1. \A k \in Nat : UpTo(k, up(k))
  BY UpToExists
<1>2. ASSUME NEW n \in Nat
      PROVE  G[n] = IF n = 0 THEN BaseBackoff ELSE Cap(2 * G[n - 1])
  <2>1. CASE n = 0
    <3>1. G[0] = up(0)[0]
      OBVIOUS
    <3>2. up(0)[0] = BaseBackoff
      BY <1>1 DEF UpTo
    <3> QED
      BY <2>1, <3>1, <3>2
  <2>2. CASE n # 0
    <3>1. n - 1 \in Nat /\ (n - 1) + 1 = n /\ n \in 1..n
      BY <2>2
    <3>2. UpTo(n, up(n)) /\ UpTo(n - 1, up(n - 1))
      BY <1>1, <3>1
    <3>3. up(n)[n] = Cap(2 * up(n)[n - 1])
      BY <3>1, <3>2 DEF UpTo
    <3>4. up(n - 1)[n - 1] = up(n)[n - 1]
      <4> HIDE DEF up
      <4> QED
        BY <3>1, <3>2, UpToUnique
    <3>5. G[n] = up(n)[n] /\ G[n - 1] = up(n - 1)[n - 1]
      BY <3>1
    <3> QED
      BY <2>2, <3>3, <3>4, <3>5
  <2> QED
    BY <2>1, <2>2
<1>3. G = [n \in Nat |-> IF n = 0 THEN BaseBackoff ELSE Cap(2 * G[n - 1])]
  <2> DEFINE F == [n \in Nat |-> IF n = 0 THEN BaseBackoff ELSE Cap(2 * G[n - 1])]
  <2>1. \A n \in Nat : G[n] = F[n]
    BY <1>2
  <2> QED
    BY <2>1
<1> HIDE DEF G
<1>4. Doubled = CHOOSE g : g = [n \in Nat |-> IF n = 0 THEN BaseBackoff ELSE Cap(2 * g[n - 1])]
  BY DEF Doubled
<1> QED
  BY <1>3, <1>4

\* No delay is shorter than the first, and none is longer than the cap once it is cut.
LEMMA DoubledBounds ==
  ASSUME BaseBackoff <= MaxBackoff
  PROVE  \A n \in Nat : Doubled[n] \in Nat /\ Doubled[n] >= BaseBackoff
<1> DEFINE S == {n \in Nat : Doubled[n] \in Nat /\ Doubled[n] >= BaseBackoff}
<1>1. 0 \in S
  BY DoubledDefined, PolicyAssumption
<1>2. ASSUME NEW n \in Nat, n \in S
      PROVE  n + 1 \in S
  <2>1. Doubled[n + 1] = Cap(2 * Doubled[n])
    <3>1. n + 1 # 0 /\ n + 1 \in Nat /\ (n + 1) - 1 = n
      OBVIOUS
    <3> QED
      BY <3>1, DoubledDefined
  <2> QED
    BY <1>2, <2>1, PolicyAssumption DEF Cap
<1>3. Nat \subseteq S
  <2> HIDE DEF S
  <2> QED
    BY <1>1, <1>2, Induction
<1> QED
  BY <1>3

LEMMA NominalBounds ==
  ASSUME BaseBackoff <= MaxBackoff, NEW n \in Nat
  PROVE  NominalDelay(n) \in Nat /\ NominalDelay(n) >= BaseBackoff
<1> DEFINE k == IF n <= 0 THEN 0 ELSE n - 1
<1>1. k \in Nat
  OBVIOUS
<1>2. Doubled[k] \in Nat /\ Doubled[k] >= BaseBackoff
  BY <1>1, DoubledBounds
<1>3. NominalDelay(n) = Cap(Doubled[k])
  BY DEF NominalDelay
<1> HIDE DEF k
<1> QED
  BY <1>2, <1>3, PolicyAssumption DEF Cap

\* Half the base, or a positive number.
LEMMA DelayIsNat ==
  ASSUME NEW n, NEW delay \in NextDelay(n)
  PROVE  delay \in Nat
<1> DEFINE nominal == NominalDelay(n)
           spread  == (nominal * JitterPercent) \div 100
<1>1. PICK d \in (nominal - spread)..(nominal + spread) :
        delay = IF d <= 0 THEN BaseBackoff \div 2 ELSE d
  BY DEF NextDelay
<1>2. d \in Int
  OBVIOUS
<1> QED
  BY <1>1, <1>2, PolicyAssumption

\* The shortest backoff, in hundredths.
Shortest == (100 - JitterPercent) * BaseBackoff

LEMMA DelayIsLong ==
  ASSUME BaseBackoff <= MaxBackoff, NEW n \in Nat, NEW delay \in NextDelay(n)
  PROVE  100 * delay >= Shortest
<1>1. PICK m \in Nat : m = NominalDelay(n) /\ m >= BaseBackoff
  BY NominalBounds
<1>2. PICK s : s = (m * JitterPercent) \div 100
  OBVIOUS
<1>3. PICK d \in (m - s)..(m + s) : delay = IF d <= 0 THEN BaseBackoff \div 2 ELSE d
  BY <1>1, <1>2 DEF NextDelay
<1>4. PICK p \in Nat : p = m * JitterPercent
  BY PolicyAssumption
<1>5. s \in Nat /\ 100 * s <= p
  BY <1>2, <1>4
<1>6. d \in Int /\ 100 * d >= 100 * m - p
  BY <1>3, <1>5
<1>7. JitterPercent \in Nat /\ BaseBackoff \in Nat
  BY PolicyAssumption
<1>8. 100 * m - p = (100 - JitterPercent) * m
  BY <1>4, <1>7
<1>9. CASE JitterPercent >= 100
  <2>1. Shortest <= 0
    BY <1>7, <1>9 DEF Shortest
  <2> QED
    BY <2>1, <1>7, DelayIsNat DEF Shortest
<1>10. CASE JitterPercent < 100
  <2>1. PICK q \in Nat : q = 100 - JitterPercent /\ q > 0
    BY <1>7, <1>10
  <2>2. q * m >= q * BaseBackoff
    <3>1. PICK e \in Nat : m = BaseBackoff + e
      BY <1>1, <1>7
    <3>2. q * (BaseBackoff + e) = q * BaseBackoff + q * e /\ q * e \in Nat
      BY <1>7
    <3>3. q * BaseBackoff \in Nat
      BY <1>7
    <3> QED
      BY <3>1, <3>2, <3>3
  <2>3. q * BaseBackoff \in Nat /\ q * BaseBackoff > 0 /\ Shortest = q * BaseBackoff
    BY <1>7, <2>1, PolicyAssumption DEF Shortest
  <2>4. 100 * d >= Shortest
    BY <1>6, <1>8, <2>1, <2>2, <2>3
  <2>5. d > 0
    BY <1>6, <2>3, <2>4
  <2> QED
    BY <1>3, <1>6, <2>4, <2>5
<1> QED
  BY <1>7, <1>9, <1>10

-----------------------------------------------------------------------------
(* The inductive invariants.  The bound on the transient errors is kept by *)
(* the count of the intent, of which the handler and lost saves take some  *)
(* away; but a lack of balance is retried however high the count is, so    *)
(* such an intent must not stand at the bound.                             *)

\* One transient error more would still be within the bound.
OneMore == transients < MaxAttempts + lost

CountedInv ==
  /\ pc = "initiate" => transients = 0 /\ draft = New
  /\ pc \in {"idle", "request"} => transients <= intent.retry + lost
  /\ pc = "request" => transients <= draft.retry + lost /\ OneMore
  /\ pc = "save" => /\ transients <= intent.retry + lost + 1
                    /\ \/ draft.status = "TRANSFER_PENDING"
                       \/ transients <= draft.retry + lost
                    /\ draft.status = "INSUFFICIENT_FUNDS" => OneMore
  /\ pc = "idle" /\ intent.status = "INSUFFICIENT_FUNDS" => OneMore

BoundInv == TypeOK /\ CountedInv /\ TransientsBounded

\* Retry time due is a backoff after the poll that has set it.
Backoff(due) == due # 0 => 100 * (due - begun) >= Shortest

SpacedInv ==
  /\ pc = "save" => Backoff(draft.due)
  /\ pc = "idle" /\ lost = 0 => Backoff(intent.due)

-----------------------------------------------------------------------------
(* The types *)

LEMMA NoneIsNone == None \notin Intent /\ New \in Intent /\ New.status = "INITIATED" /\ New.due = 0
BY DEF None, New, Intent

\* A retry that is scheduled: one more of them, and a time for it.
LEMMA Refused ==
  ASSUME TypeOK, TransferRefused
  PROVE  /\ pc = "request" /\ pc' = "save"
         /\ draft' \in Intent /\ draft'.retry = draft.retry + 1
         /\ \E from \in {begun, now} : \E delay \in NextDelay(draft.retry + 1) :
              draft'.due = from + delay
         /\ \/ draft'.status = "INSUFFICIENT_FUNDS" /\ transients' = transients
            \/ draft'.status = "TRANSFER_FAILED" /\ transients' = transients + 1
         /\ transfer' \in BOOLEAN /\ failedAt' = now
         /\ UNCHANGED <<amount, now, intent, begun, event, handler, requests, lost>>
<1>1. draft \in Intent /\ draft.retry \in Nat /\ begun \in Nat /\ now \in Nat /\ transfer \in BOOLEAN
  BY BoundsAssumption DEF TypeOK, Intent
<1>2. ScheduledFrom \in {begun, now} /\ ScheduledFrom \in Nat
  BY <1>1 DEF ScheduledFrom
<1>3. PICK delay \in NextDelay(draft.retry + 1) :
        LET retried == ScheduleIntentRetry(draft, delay)
        IN \/ /\ "balance" \in Outcomes
              /\ Answered([retried EXCEPT !.status = "INSUFFICIENT_FUNDS"])
              /\ UNCHANGED <<transfer, transients>>
           \/ /\ "transient" \in Outcomes
              /\ Answered([retried EXCEPT !.status = "TRANSFER_FAILED"])
              /\ transients' = transients + 1
              /\ transfer' \in {transfer, TRUE}
  BY DEF TransferRefused
<1>4. delay \in Nat
  BY DelayIsNat
<1> DEFINE retried == ScheduleIntentRetry(draft, delay)
<1>5. /\ retried \in Intent
      /\ retried.retry = draft.retry + 1 /\ retried.due = ScheduledFrom + delay
  <2>1. PICK n \in Nat : n = draft.retry + 1
    BY <1>1
  <2>2. PICK t \in Nat : t = ScheduledFrom + delay
    BY <1>2, <1>4
  <2>3. retried = [draft EXCEPT !.retry = n, !.due = t]
    BY <2>1, <2>2 DEF ScheduleIntentRetry
  <2> QED
    BY <1>1, <2>1, <2>2, <2>3 DEF Intent
<1>6. failedAt' = now
  BY DEF TransferRefused
<1> HIDE DEF retried
<1>7. ASSUME NEW status \in {"INSUFFICIENT_FUNDS", "TRANSFER_FAILED"}
      PROVE  LET i == [retried EXCEPT !.status = status]
             IN /\ i \in Intent /\ i.status = status
                /\ i.retry = draft.retry + 1 /\ i.due = ScheduledFrom + delay
  BY <1>5 DEF Intent
<1>8. CASE /\ Answered([retried EXCEPT !.status = "INSUFFICIENT_FUNDS"])
           /\ UNCHANGED <<transfer, transients>>
  BY <1>1, <1>2, <1>6, <1>7, <1>8 DEF Answered
<1>9. CASE /\ Answered([retried EXCEPT !.status = "TRANSFER_FAILED"])
           /\ transients' = transients + 1
           /\ transfer' \in {transfer, TRUE}
  BY <1>1, <1>2, <1>6, <1>7, <1>9 DEF Answered
<1> QED
  BY <1>3, <1>8, <1>9 DEF retried

\* An error that is not retried keeps the count.
LEMMA Terminal ==
  ASSUME TypeOK, TransferTerminal
  PROVE  /\ pc = "request" /\ pc' = "save"
         /\ draft' \in Intent /\ draft'.status = "TRANSFER_FAILED"
         /\ draft'.retry = draft.retry /\ draft'.due = 0
         /\ failedAt' = now /\ transfer' \in {transfer, TRUE}
         /\ UNCHANGED <<amount, now, intent, begun, event, handler, requests, lost, transients>>
BY DEF TypeOK, TransferTerminal, Answered, Intent

LEMMA Accepted ==
  ASSUME TransferAccepted
  PROVE  /\ pc = "request" /\ pc' = "save"
         /\ draft' \in Intent /\ draft'.status = "TRANSFER_PENDING" /\ draft'.due = 0
         /\ transfer' = TRUE
         /\ UNCHANGED <<amount, now, intent, begun, event, handler, requests, lost, transients,
                        failedAt>>
BY DEF TransferAccepted, Answered, Intent

\* What a save writes over is counted.
LEMMA BehindCounts ==
  ASSUME TypeOK, NEW i \in Intent
  PROVE  Behind(i) \in Nat /\ i.retry \in Nat /\ intent.retry \in Nat
         /\ i.retry + Behind(i) >= intent.retry
BY DEF Behind, TypeOK, Intent

\* The webhook handler writes its copy over the intent: what is lost is counted,
\* unless the copy is what is stored.
LEMMA FailureSaved ==
  ASSUME TypeOK, SaveFailure
  PROVE  /\ intent' \in Intent /\ intent'.status = "TRANSFER_FAILED"
         /\ lost' \in 0..MaxLost
         /\ intent'.retry + lost' >= intent.retry + lost /\ lost' >= lost
         /\ lost' > lost \/ intent'.due = intent.due
         /\ handler' = None
         /\ UNCHANGED <<amount, now, pc, draft, begun, transfer, event, history>>
<1>1. handler \in Intent /\ handler # None /\ lost \in Nat
  BY BoundsAssumption DEF SaveFailure, TypeOK
<1>2. intent' = [handler EXCEPT !.status = "TRANSFER_FAILED"]
  BY DEF SaveFailure
<1>3. /\ intent' \in Intent /\ intent'.status = "TRANSFER_FAILED"
      /\ intent'.retry = handler.retry /\ intent'.due = handler.due
  BY <1>1, <1>2 DEF Intent
<1>4. lost' = IF handler = intent THEN lost ELSE lost + 1 + Behind(handler)
  BY DEF SaveFailure
<1>5. lost' <= MaxLost
  BY DEF SaveFailure
<1>6. Behind(handler) \in Nat /\ handler.retry \in Nat /\ intent.retry \in Nat
      /\ handler.retry + Behind(handler) >= intent.retry
  BY <1>1, BehindCounts
<1>7. lost' \in Nat /\ lost' >= lost
  BY <1>1, <1>4, <1>6
<1>8. intent'.retry + lost' >= intent.retry + lost
  BY <1>1, <1>3, <1>4, <1>6
<1>9. lost' > lost \/ intent'.due = intent.due
  BY <1>1, <1>3, <1>4, <1>6
<1> QED
  BY <1>3, <1>5, <1>7, <1>8, <1>9, BoundsAssumption DEF SaveFailure

LEMMA TypeStep ==
  ASSUME TypeOK, [Next]_vars
  PROVE  TypeOK'
<1> USE BoundsAssumption
<1>1. CASE InitiatePayment
  BY <1>1, AmountAssumption DEF TypeOK, InitiatePayment
<1>2. CASE Reconcile
  BY <1>2 DEF TypeOK, Reconcile
<1>3. CASE TransferAccepted
  BY <1>3, Accepted DEF TypeOK
<1>4. CASE TransferRefused
  <2>1. transients' \in Nat
    BY <1>4, Refused DEF TypeOK
  <2> QED
    BY <1>4, <2>1, Refused DEF TypeOK
<1>5. CASE TransferTerminal
  <2>1. /\ transfer' \in BOOLEAN /\ failedAt' = now /\ pc' = "save" /\ draft' \in Intent
        /\ UNCHANGED <<amount, now, intent, begun, event, handler, requests, lost, transients>>
    BY <1>5, Terminal DEF TypeOK
  <2>2. event' \in BOOLEAN
    BY <2>1, Zenon DEF TypeOK
  <2> QED
    BY <2>1, <2>2 DEF TypeOK
<1>6. CASE SaveIntent
  <2>1. lost' \in 0..MaxLost /\ requests' \in Nat /\ transients' \in Nat
    <3>1. Behind(draft) \in Nat
      BY BehindCounts DEF TypeOK
    <3> QED
      BY <1>6, <3>1 DEF TypeOK, SaveIntent
  <2> QED
    BY <1>6, <2>1, NoneIsNone DEF TypeOK, SaveIntent
<1>7. CASE SaveLost
  BY <1>7, NoneIsNone DEF TypeOK, SaveLost, history
<1>8. CASE TransferFails
  BY <1>8 DEF TypeOK, TransferFails, history
<1>9. CASE LoadFailure
  BY <1>9 DEF TypeOK, LoadFailure, history
<1>10. CASE SaveFailure
  BY <1>10, FailureSaved DEF TypeOK, history
<1>11. CASE FailureLost
  BY <1>11 DEF TypeOK, FailureLost, history
<1>12. CASE Tick
  BY <1>12 DEF TypeOK, Tick, history, IsExpired
<1>13. CASE UNCHANGED vars
  BY <1>13 DEF TypeOK, vars, history
<1> QED
  BY <1>1, <1>2, <1>3, <1>4, <1>5, <1>6, <1>7, <1>8, <1>9, <1>10, <1>11, <1>12, <1>13
     DEF Next, Poller

LEMMA TypeInit == Init => TypeOK
<1> SUFFICES ASSUME Init PROVE TypeOK
  OBVIOUS
<1>1. amount \in 0..MaxAmount
  BY AmountAssumption DEF Init
<1>2. /\ now \in 0..ExpiresAt /\ begun \in 0..now /\ failedAt \in 0..now
      /\ requests \in Nat /\ transients \in Nat /\ lost \in 0..MaxLost
  BY BoundsAssumption DEF Init
<1>3. /\ intent \in Intent /\ draft \in Intent /\ handler \in Intent \cup {None}
      /\ pc \in {"initiate", "idle", "request", "save"}
      /\ transfer \in BOOLEAN /\ event \in BOOLEAN
  BY NoneIsNone DEF Init
<1> QED
  BY <1>1, <1>2, <1>3 DEF TypeOK

-----------------------------------------------------------------------------
(* The count *)

\* More may be lost.
LEMMA StaysBelow ==
  ASSUME NEW t \in Nat, NEW a \in Nat, NEW k \in Nat, NEW l \in Nat, l <= k
  PROVE  /\ t <= a + l => t <= a + k
         /\ t < a + l => t < a + k
OBVIOUS

LEMMA BoundStep ==
  ASSUME MaxAttempts > 0, BoundInv, [Next]_vars
  PROVE  BoundInv'
<1> USE DEF BoundInv, CountedInv, TransientsBounded, OneMore
<1>1. TypeOK'
  BY TypeStep
<1>2. /\ transients \in Nat /\ lost \in Nat /\ MaxAttempts \in Nat
      /\ intent.retry \in Nat /\ draft.retry \in Nat
  BY BoundsAssumption, PolicyAssumption DEF TypeOK, Intent
<1>3. CASE InitiatePayment
  BY <1>1, <1>2, <1>3, NoneIsNone DEF InitiatePayment
<1>4. CASE Reconcile
  <2>1. intent.status = "TRANSFER_FAILED" => intent.retry < MaxAttempts
    BY <1>2, <1>4 DEF Reconcile, IsEligible
  <2>2. intent.status \in {"TRANSFER_FAILED", "INSUFFICIENT_FUNDS"}
    BY <1>4 DEF Reconcile, IsEligible
  <2>3. OneMore
    BY <1>2, <1>4, <2>1, <2>2 DEF Reconcile
  <2> QED
    BY <1>1, <1>2, <1>4, <2>3 DEF Reconcile
<1>5. CASE TransferAccepted
  BY <1>1, <1>2, <1>5, Accepted
<1>6. CASE TransferRefused
  <2>1. /\ pc = "request" /\ pc' = "save" /\ draft'.retry = draft.retry + 1
        /\ UNCHANGED <<intent, lost>>
    BY <1>6, Refused
  <2>2. \/ draft'.status = "INSUFFICIENT_FUNDS" /\ transients' = transients
        \/ draft'.status = "TRANSFER_FAILED" /\ transients' = transients + 1
    BY <1>6, Refused
  <2> QED
    BY <1>1, <1>2, <2>1, <2>2
<1>7. CASE TransferTerminal
  <2>1. /\ pc = "request" /\ pc' = "save" /\ draft'.retry = draft.retry
        /\ draft'.status = "TRANSFER_FAILED"
        /\ UNCHANGED <<intent, lost, transients>>
    BY <1>7, Terminal
  <2> QED
    BY <1>1, <1>2, <2>1
<1>8. CASE SaveIntent
  <2>1. Behind(draft) \in Nat
    BY BehindCounts DEF TypeOK
  <2>2. CASE draft.status = "TRANSFER_PENDING"
    <3>1. transients' = 0 /\ lost' = lost /\ pc' = "idle" /\ intent' = draft
      BY <1>8, <2>2 DEF SaveIntent
    <3> QED
      BY <1>1, <1>2, <2>2, <3>1
  <2>3. CASE draft.status # "TRANSFER_PENDING"
    <3>1. /\ pc = "save" /\ pc' = "idle" /\ intent' = draft
          /\ transients' = transients /\ lost' = lost + Behind(draft)
      BY <1>8, <2>3 DEF SaveIntent
    <3> QED
      BY <1>1, <1>2, <2>1, <2>3, <3>1
  <2> QED
    BY <2>2, <2>3
<1>9. CASE SaveLost
  BY <1>1, <1>2, <1>9 DEF SaveLost, history
<1>10. CASE TransferFails
  BY <1>1, <1>10 DEF TransferFails, history
<1>11. CASE LoadFailure
  BY <1>1, <1>11 DEF LoadFailure, history
<1>12. CASE SaveFailure
  <2>1. /\ intent'.status = "TRANSFER_FAILED" /\ intent'.retry \in Nat /\ lost' \in Nat
        /\ intent'.retry + lost' >= intent.retry + lost /\ lost' >= lost
        /\ UNCHANGED <<pc, draft, transients>>
    BY <1>12, BoundsAssumption, FailureSaved DEF history, Intent
  <2>2. PICK n \in Nat : n = intent'.retry + lost'
    BY <2>1
  <2>3. intent.retry + lost <= n
    BY <2>1, <2>2
  <2>4. pc' \in {"idle", "request"} => transients' <= n
    BY <1>2, <2>1, <2>2, <2>3
  <2>5. pc' = "save" => transients' <= n + 1
    BY <1>2, <2>1, <2>2, <2>3
  <2>6. PICK k \in Nat : k = lost' /\ k >= lost
    BY <2>1
  <2>7. ASSUME OneMore
        PROVE  transients < MaxAttempts + k
    BY <1>2, <2>6, <2>7, StaysBelow
  <2>8. OneMore => OneMore'
    BY <2>1, <2>6, <2>7
  <2>9. transients <= draft.retry + lost => transients' <= draft'.retry + k
    BY <1>2, <2>1, <2>6, StaysBelow
  <2>10. transients' <= MaxAttempts + k
    BY <1>2, <2>1, <2>6, StaysBelow
  <2> QED
    BY <1>1, <1>2, <2>1, <2>2, <2>4, <2>5, <2>6, <2>8, <2>9, <2>10
<1>13. CASE FailureLost
  BY <1>1, <1>13 DEF FailureLost, history
<1>14. CASE Tick
  BY <1>1, <1>14 DEF Tick, history
<1>15. CASE UNCHANGED vars
  BY <1>1, <1>15 DEF vars, history
<1> QED
  BY <1>3, <1>4, <1>5, <1>6, <1>7, <1>8, <1>9, <1>10, <1>11, <1>12, <1>13, <1>14, <1>15
     DEF Next, Poller

-----------------------------------------------------------------------------
(* The backoff of the stored retry time *)

LEMMA SpacedStep ==
  ASSUME BaseBackoff <= MaxBackoff, TypeOK, SpacedInv, [Next]_vars
  PROVE  SpacedInv'
<1> USE DEF SpacedInv, Backoff
<1>1. /\ begun \in Nat /\ now \in Nat /\ begun <= now /\ lost \in Nat /\ draft.retry \in Nat
  BY BoundsAssumption DEF TypeOK, Intent
<1>2. CASE InitiatePayment \/ Reconcile
  BY <1>2 DEF InitiatePayment, Reconcile
<1>3. CASE TransferAccepted
  BY <1>3, Accepted
<1>4. CASE TransferTerminal
  BY <1>4, Terminal
<1>5. CASE TransferRefused
  <2>1. pc' = "save" /\ begun' = begun
    BY <1>5, Refused
  <2>2. PICK from \in {begun, now} :
          \E delay \in NextDelay(draft.retry + 1) : draft'.due = from + delay
    BY <1>5, Refused
  <2>3. PICK delay \in NextDelay(draft.retry + 1) : draft'.due = from + delay
    BY <2>2
  <2>4. PICK s : s = Shortest
    OBVIOUS
  <2>5. s \in Int /\ delay \in Nat /\ 100 * delay >= s
    <3>1. draft.retry + 1 \in Nat
      BY <1>1
    <3> QED
      BY <2>4, <3>1, DelayIsNat, DelayIsLong, PolicyAssumption DEF Shortest
  <2>6. 100 * (draft'.due - begun) >= s
    BY <1>1, <2>2, <2>3, <2>5
  <2>7. Shortest' = Shortest
    BY DEF Shortest
  <2> QED
    BY <2>1, <2>4, <2>6, <2>7
<1>6. CASE SaveIntent
  BY <1>6 DEF SaveIntent, Shortest
<1>7. CASE SaveLost
  BY <1>1, <1>7 DEF SaveLost, history, Shortest
<1>8. CASE TransferFails
  BY <1>8 DEF TransferFails, history, Shortest
<1>9. CASE LoadFailure
  BY <1>9 DEF LoadFailure, history, Shortest
<1>10. CASE SaveFailure
  <2>1. /\ lost' \in Nat /\ lost' >= lost
        /\ lost' > lost \/ intent'.due = intent.due
        /\ UNCHANGED <<pc, draft, begun>>
    BY <1>10, BoundsAssumption, FailureSaved
  <2>2. Backoff(draft.due)' <=> Backoff(draft.due)
    BY <2>1 DEF Shortest
  <2>3. ASSUME lost' = 0
        PROVE  intent'.due = intent.due /\ lost = 0
    BY <1>1, <2>1, <2>3
  <2>4. intent'.due = intent.due => (Backoff(intent.due)' <=> Backoff(intent.due))
    BY <2>1 DEF Shortest
  <2> QED
    BY <2>1, <2>2, <2>3, <2>4
<1>11. CASE FailureLost
  BY <1>11 DEF FailureLost, history, Shortest
<1>12. CASE Tick
  BY <1>12 DEF Tick, history, Shortest
<1>13. CASE UNCHANGED vars
  BY <1>13 DEF vars, history, Shortest
<1> QED
  BY <1>2, <1>3, <1>4, <1>5, <1>6, <1>7, <1>8, <1>9, <1>10, <1>11, <1>12, <1>13 DEF Next, Poller

-----------------------------------------------------------------------------
(* The amount.  A float is m / 2^e, and what is used of the powers of two  *)
(* is their definition, a hypothesis of the theorems: the prover knows     *)
(* nothing of them.  Each of the three roundings on the way to the kobo is *)
(* off by at most half of the last bit; that the amount has five bits less *)
(* than a mantissa makes t = 2^e larger than 1600, so that together they   *)
(* stay below a tenth of a kobo.                                           *)

PowersOfTwo ==
  /\ 2^0 = 1
  /\ \A n \in Nat : 2^n \in Nat /\ 2^(n + 1) = 2 * 2^n

\* What is used of division: quotient and remainder.
LEMMA Division ==
  ASSUME NEW a \in Nat, NEW b \in Nat \ {0}
  PROVE  \E q \in Nat, r \in 0..(b - 1) : q = a \div b /\ r = a % b /\ a = (b * q) + r
OBVIOUS

\* A quotient lies between two numbers when the dividend lies between their products.
LEMMA Between ==
  ASSUME NEW a \in Nat, NEW b \in Nat \ {0}, NEW l \in Nat, NEW h \in Nat
  PROVE  /\ l * b <= a <=> l <= a \div b
         /\ a < h * b <=> a \div b < h
OBVIOUS

\* Rounded is off by half a unit, and is the quotient or the next number.
LEMMA RoundedIs ==
  ASSUME NEW a \in Nat, NEW b \in Nat \ {0}
  PROVE  \E x \in Nat : /\ x = Rounded(a, b)
                        /\ 2 * (x * b) <= 2 * a + b /\ 2 * a <= 2 * (x * b) + b
                        /\ x \in {a \div b, (a \div b) + 1}
<1>1. PICK q \in Nat, r \in 0..(b - 1) : q = a \div b /\ r = a % b /\ a = (b * q) + r
  BY Division
<1>2. PICK p \in Nat : p = b * q /\ q * b = p /\ (q + 1) * b = p + b
  OBVIOUS
<1>3. CASE Rounded(a, b) = q /\ 2 * r <= b
  BY <1>1, <1>2, <1>3
<1>4. CASE Rounded(a, b) = q + 1 /\ 2 * r >= b
  BY <1>1, <1>2, <1>4
<1> QED
  BY <1>1, <1>3, <1>4 DEF Rounded

\* Powers of two are positive.
LEMMA PowerPositive ==
  ASSUME PowersOfTwo
  PROVE  \A n \in Nat : 2^n \in Nat \ {0}
<1> DEFINE S == {n \in Nat : 2^n \in Nat \ {0}}
<1>1. 0 \in S
  BY DEF PowersOfTwo
<1>2. ASSUME NEW n \in Nat, n \in S
      PROVE  n + 1 \in S
  <2>1. PICK p \in Nat \ {0} : p = 2^n
    BY <1>2
  <2>2. 2^(n + 1) = 2 * p
    BY <2>1 DEF PowersOfTwo
  <2>3. 2 * p \in Nat \ {0}
    OBVIOUS
  <2>4. 2^(n + 1) \in Nat \ {0}
    BY <2>2, <2>3, Zenon
  <2> QED
    BY <2>4
<1>3. Nat \subseteq S
  <2> HIDE DEF S
  <2> QED
    BY <1>1, <1>2, Induction
<1> QED
  BY <1>3

\* The power of a sum is the product of the powers.
LEMMA PowerSum ==
  ASSUME PowersOfTwo, NEW m \in Nat
  PROVE  \A n \in Nat : 2^(m + n) = 2^m * 2^n
<1> DEFINE S == {n \in Nat : 2^(m + n) = 2^m * 2^n}
<1>0. PICK q \in Nat \ {0} : q = 2^m
  BY PowerPositive
<1>1. 0 \in S
  <2>1. m + 0 = m /\ q * 1 = q
    OBVIOUS
  <2>2. 2^(m + 0) = 2^m * 2^0
    BY <1>0, <2>1, Zenon DEF PowersOfTwo
  <2> QED
    BY <2>2
<1>2. ASSUME NEW n \in Nat, n \in S
      PROVE  n + 1 \in S
  <2>1. PICK p \in Nat \ {0} : p = 2^n
    BY PowerPositive
  <2>2. 2^(n + 1) = 2 * p
    BY <2>1 DEF PowersOfTwo
  <2>3. 2^(m + n) = q * p
    BY <1>0, <1>2, <2>1, Zenon
  <2>4. 2^((m + n) + 1) = 2 * (q * p)
    <3>1. m + n \in Nat
      OBVIOUS
    <3>2. 2^((m + n) + 1) = 2 * 2^(m + n)
      BY <3>1, Zenon DEF PowersOfTwo
    <3> QED
      BY <2>3, <3>2, Zenon
  <2>5. 2 * (q * p) = q * (2 * p) /\ (m + n) + 1 = m + (n + 1)
    OBVIOUS
  <2>6. 2^(m + (n + 1)) = 2^m * 2^(n + 1)
    BY <1>0, <2>2, <2>4, <2>5, Zenon
  <2> QED
    BY <2>6
<1>3. Nat \subseteq S
  <2> HIDE DEF S
  <2> QED
    BY <1>1, <1>2, Induction
<1> QED
  BY <1>3

\* The larger power has the larger exponent.
LEMMA PowerDivides ==
  ASSUME PowersOfTwo, NEW m \in Nat, NEW n \in Nat, 2^m <= 2^n
  PROVE  n >= m /\ \E w \in Nat \ {0} : w = 2^(n - m) /\ 2^n = 2^m * w
<1>1. PICK p \in Nat \ {0} : p = 2^m
  BY PowerPositive
<1>2. PICK q \in Nat \ {0} : q = 2^n
  BY PowerPositive
<1>3. p <= q
  BY <1>1, <1>2
<1>4. ASSUME n < m PROVE FALSE
  <2>1. PICK d \in Nat : d + 1 = m - n /\ n + (d + 1) = m
    BY <1>4
  <2>2. PICK x \in Nat \ {0} : x = 2^d
    BY PowerPositive
  <2>3. 2^(d + 1) = 2 * x
    BY <2>2 DEF PowersOfTwo
  <2>4. p = q * (2 * x)
    <3>1. d + 1 \in Nat
      OBVIOUS
    <3>2. 2^(n + (d + 1)) = 2^n * 2^(d + 1)
      BY <3>1, PowerSum
    <3> QED
      BY <1>1, <1>2, <2>1, <2>3, <3>2, Zenon
  <2>5. q * (2 * x) > q
    <3>1. PICK y \in Nat : x = y + 1
      BY <2>2
    <3>2. q * (2 * (y + 1)) = 2 * (q * y) + 2 * q /\ q * y \in Nat
      OBVIOUS
    <3> QED
      BY <3>1, <3>2
  <2> QED
    BY <1>3, <2>4, <2>5
<1>5. PICK d \in Nat : d = n - m /\ m + d = n
  BY <1>4
<1>6. PICK w \in Nat \ {0} : w = 2^d
  BY PowerPositive
<1>7. 2^(m + d) = 2^m * 2^d
  BY PowerSum
<1> QED
  BY <1>4, <1>5, <1>6, <1>7

\* A set that has k has a least member up to k: one whose predecessor is not in it.
LEMMA Least ==
  ASSUME NEW S, S \subseteq Nat
  PROVE  \A k \in Nat : k \in S => \E e \in S : e <= k /\ (e = 0 \/ ~(e - 1 \in S))
<1> DEFINE T == {k \in Nat : k \in S => \E e \in S : e <= k /\ (e = 0 \/ ~(e - 1 \in S))}
<1>1. 0 \in T
  OBVIOUS
<1>2. ASSUME NEW k \in Nat, k \in T
      PROVE  k + 1 \in T
  <2>1. CASE k \in S
    <3>1. PICK e \in S : e <= k /\ (e = 0 \/ ~(e - 1 \in S))
      BY <1>2, <2>1
    <3>2. e <= k + 1
      BY <3>1
    <3> QED
      BY <3>1, <3>2
  <2>2. CASE ~(k \in S)
    <3>1. (k + 1) - 1 = k /\ k + 1 <= k + 1
      OBVIOUS
    <3> QED
      BY <2>2, <3>1
  <2> QED
    BY <2>1, <2>2
<1>3. Nat \subseteq T
  <2> HIDE DEF T
  <2> QED
    BY <1>1, <1>2, Induction
<1> QED
  BY <1>3

\* One step of the table below.
LEMMA Doubling ==
  ASSUME PowersOfTwo, NEW n \in Nat, NEW k \in Nat, NEW p \in Nat, 2^n = p, k = n + 1
  PROVE  2^k = 2 * p
BY Zenon DEF PowersOfTwo

\* The two powers that the bounds compare with.
LEMMA SmallPowers ==
  ASSUME PowersOfTwo
  PROVE  2^7 = 128 /\ 2^10 = 1024
<1>1. 2^0 = 1
  BY DEF PowersOfTwo
<1>2. 2^1 = 2
  BY <1>1, Doubling
<1>3. 2^2 = 4
  BY <1>2, Doubling
<1>4. 2^3 = 8
  BY <1>3, Doubling
<1>5. 2^4 = 16
  BY <1>4, Doubling
<1>6. 2^5 = 32
  BY <1>5, Doubling
<1>7. 2^6 = 64
  BY <1>6, Doubling
<1>8. 2^7 = 128
  BY <1>7, Doubling
<1>9. 2^8 = 256
  BY <1>8, Doubling
<1>10. 2^9 = 512
  BY <1>9, Doubling
<1>11. 2^10 = 1024
  BY <1>10, Doubling
<1> QED
  BY <1>8, <1>11

\* Mantissas go from a power of two to twice that.
LEMMA Halves ==
  ASSUME PowersOfTwo
  PROVE  \E h \in Nat \ {0} : /\ h = 2^(Precision - 1) /\ 2^Precision = 2 * h
                              /\ Mantissas = h..(2 * h - 1)
<1>1. PICK p \in Nat : p = Precision - 1 /\ p + 1 = Precision
  BY PrecisionAssumption
<1>2. PICK h \in Nat \ {0} : h = 2^p
  BY PowerPositive
<1>3. 2^(p + 1) = 2 * h
  BY <1>2 DEF PowersOfTwo
<1>4. 2^Precision = 2 * h
  BY <1>1, <1>3, Zenon
<1>5. 2^(Precision - 1) = h
  BY <1>1, <1>2, Zenon
<1>6. Mantissas = h..(2 * h - 1)
  BY <1>4, <1>5, Zenon DEF Mantissas
<1> QED
  BY <1>4, <1>5, <1>6

\* Rounding up leaves the mantissas by at most one.
LEMMA NextOne ==
  ASSUME NEW h \in Nat, NEW q \in h..(2 * h - 1), NEW m \in {q, q + 1}
  PROVE  h <= m /\ m <= 2 * h
OBVIOUS

\* What is below a bound stays below twice the bound when it is doubled.
LEMMA TwiceBelow ==
  ASSUME NEW a \in Nat, NEW x \in Nat, NEW b \in Nat, NEW h \in Nat, ~(b * h <= a * x)
  PROVE  a * (2 * x) < b * (2 * h)
<1>1. PICK p \in Nat, q \in Nat : p = a * x /\ q = b * h
  OBVIOUS
<1>2. a * (2 * x) = 2 * p /\ b * (2 * h) = 2 * q
  BY <1>1
<1> QED
  BY <1>1, <1>2

\* Of two products with the same factor.
LEMMA Cancel ==
  ASSUME NEW c \in Nat \ {0}, NEW x \in Nat, NEW y \in Nat
  PROVE  /\ c * x <= c * y => x <= y
         /\ c * x < c * y => x < y
OBVIOUS

\* The float nearest to a/b has an exponent, and is off by half of its last bit.
LEMMA NearestIs ==
  ASSUME PowersOfTwo, NEW h \in Nat \ {0}, h = 2^(Precision - 1), 2^Precision = 2 * h,
         Mantissas = h..(2 * h - 1),
         NEW a \in Nat \ {0}, NEW b \in Nat \ {0}, b <= 2^(Precision + 1), a < b * (2 * h)
  PROVE  \E e \in Nat, t \in Nat \ {0}, m \in Nat :
           /\ t = 2^e /\ Nearest(a, b) = [m |-> m, e |-> e]
           /\ h <= m /\ m <= 2 * h /\ b * h <= a * t
           /\ 2 * (m * b) <= 2 * (a * t) + b /\ 2 * (a * t) <= 2 * (m * b) + b
<1> DEFINE S == {n \in Nat : b * h <= a * 2^n}
           InRange(e) == (a * 2^e) \div b \in Mantissas
<1>1. PICK top \in Nat : top = 2 * Precision /\ top = (Precision + 1) + (Precision - 1)
  BY PrecisionAssumption
<1>2. PICK p \in Nat : p = Precision - 1
  BY PrecisionAssumption
<1>3. top \in S
  <2>1. PICK c \in Nat \ {0} : c = 2^(Precision + 1)
    BY PowerPositive, PrecisionAssumption
  <2>2. 2^((Precision + 1) + p) = 2^(Precision + 1) * 2^p
    BY <1>2, PowerSum, PrecisionAssumption
  <2>3. 2^top = c * h
    BY <1>1, <1>2, <2>1, <2>2, Zenon
  <2>4. b * h <= a * (c * h)
    <3>1. b <= c
      BY <2>1
    <3>2. b * h <= c * h
      BY <3>1
    <3>3. PICK d \in Nat : d = c * h
      BY <2>1
    <3>4. d <= a * d
      <4>1. PICK y \in Nat : a = y + 1
        OBVIOUS
      <4>2. (y + 1) * d = y * d + d /\ y * d \in Nat
        OBVIOUS
      <4> QED
        BY <4>1, <4>2
    <3> QED
      BY <3>2, <3>3, <3>4
  <2> QED
    BY <2>3, <2>4
<1>4. PICK e \in S : e <= top /\ (e = 0 \/ ~(e - 1 \in S))
  <2> HIDE DEF S
  <2>1. S \subseteq Nat
    BY DEF S
  <2> QED
    BY <1>3, <2>1, Least
<1>5. e \in 0..2 * Precision /\ e \in Nat /\ b * h <= a * 2^e
  BY <1>1, <1>4
<1>6. e = 0 \/ ~(b * h <= a * 2^(e - 1))
  BY <1>4, <1>5
<1> HIDE DEF S
<1>20. PICK t \in Nat \ {0} : t = 2^e /\ b * h <= a * t
  BY <1>5, PowerPositive
<1>7. a * t < b * (2 * h)
  <2>1. CASE e = 0
    <3>1. t = 1
      BY <1>20, <2>1 DEF PowersOfTwo
    <3> QED
      BY <3>1
  <2>2. CASE e # 0
    <3>1. PICK d \in Nat : d = e - 1 /\ d + 1 = e
      BY <1>5, <2>2, PrecisionAssumption
    <3>2. PICK x \in Nat \ {0} : x = 2^d
      BY PowerPositive
    <3>3. 2^(d + 1) = 2 * x
      BY <3>2 DEF PowersOfTwo
    <3>4. t = 2 * x
      BY <1>20, <3>1, <3>3, Zenon
    <3>5. ~(b * h <= a * x)
      BY <1>6, <2>2, <3>1, <3>2, Zenon
    <3> QED
      BY <3>4, <3>5, TwiceBelow
  <2> QED
    BY <2>1, <2>2
<1>8. InRange(e)
  <2>1. PICK at \in Nat : at = a * t
    OBVIOUS
  <2>2. h * b <= at /\ at < (2 * h) * b
    BY <1>20, <1>7, <2>1
  <2>3. h <= at \div b /\ at \div b < 2 * h
    <3>1. PICK hh \in Nat : hh = 2 * h
      OBVIOUS
    <3>2. h * b <= at <=> h <= at \div b
      BY Between
    <3>3. at < hh * b <=> at \div b < hh
      BY Between
    <3> QED
      BY <2>2, <3>1, <3>2, <3>3
  <2>4. at \div b \in h..(2 * h - 1)
    <3>1. PICK q \in Nat : q = at \div b
      BY Division
    <3> QED
      BY <2>3, <3>1
  <2> QED
    BY <1>20, <2>1, <2>4, Zenon
<1> DEFINE x == CHOOSE n \in 0..2 * Precision : InRange(n)
<1>9. x \in 0..2 * Precision /\ InRange(x)
  BY <1>5, <1>8
<1> HIDE DEF InRange, x
<1>10. PICK f \in Nat : f = x
  BY <1>9, PrecisionAssumption
<1>11. PICK u \in Nat \ {0} : u = 2^f
  BY PowerPositive
<1>12. PICK au \in Nat, q \in Nat, r \in 0..(b - 1) : /\ au = a * u /\ q = au \div b /\ r = au % b
                                                     /\ au = (b * q) + r
  <2>1. PICK au \in Nat : au = a * u
    OBVIOUS
  <2>2. \E q \in Nat, r \in 0..(b - 1) : q = au \div b /\ r = au % b /\ au = (b * q) + r
    BY Division
  <2> QED
    BY <2>1, <2>2
<1>13. q \in h..(2 * h - 1)
  <2> USE DEF InRange
  <2> QED
    BY <1>9, <1>10, <1>11, <1>12, Zenon
<1>14. PICK m \in Nat : /\ m = Rounded(au, b)
                        /\ 2 * (m * b) <= 2 * au + b /\ 2 * au <= 2 * (m * b) + b
                        /\ m \in {q, q + 1}
  BY <1>12, RoundedIs
<1>15. h <= m /\ m <= 2 * h
  BY <1>13, <1>14, NextOne
<1>16. b * h <= au
  <2>1. h * b <= au <=> h <= au \div b
    BY Between
  <2>2. h * b = b * h
    OBVIOUS
  <2> QED
    BY <1>12, <1>13, <2>1, <2>2
<1>17. Nearest(a, b) = [m |-> m, e |-> f]
  <2>1. Nearest(a, b) = [m |-> Rounded(a * 2^x, b), e |-> x]
    BY Zenon DEF Nearest, x, InRange
  <2> HIDE DEF x
  <2> QED
    BY <1>10, <1>11, <1>12, <1>14, <2>1, Zenon
<1> QED
  BY <1>11, <1>12, <1>14, <1>15, <1>16, <1>17

\* A product by a hundred loses at most seven bits, and is off by half of the last one kept.
LEMMA NormalIs ==
  ASSUME PowersOfTwo, Precision >= 7, NEW h \in Nat \ {0}, 2^Precision = 2 * h,
         Mantissas = h..(2 * h - 1),
         NEW a \in Nat, 100 * h <= a, a <= 200 * h, NEW e
  PROVE  \E s \in Nat, u \in Nat \ {0}, n \in Nat :
           /\ u = 2^s /\ u <= 200 /\ Normal(a, e) = [m |-> n, e |-> e - s]
           /\ 2 * (n * u) <= 2 * a + u /\ 2 * a <= 2 * (n * u) + u
<1> DEFINE S == {n \in Nat : a < (2 * h) * 2^n}
           InRange(n) == a \div 2^n \in Mantissas
<1>1. 7 \in S
  <2>1. (2 * h) * 2^7 = 256 * h
    <3>1. 2^7 = 128
      BY SmallPowers
    <3>2. (2 * h) * 128 = 256 * h
      OBVIOUS
    <3> QED
      BY <3>1, <3>2, Zenon
  <2>2. a < 256 * h
    OBVIOUS
  <2> QED
    BY <2>1, <2>2
<1>2. \E s \in S : s <= 7 /\ (s = 0 \/ ~(s - 1 \in S))
  <2>1. S \subseteq Nat
    OBVIOUS
  <2> HIDE DEF S
  <2> QED
    BY <1>1, <2>1, Least
<1>3. PICK s \in Nat : a < (2 * h) * 2^s /\ s <= 7 /\ (s = 0 \/ ~(s - 1 \in S))
  BY <1>2
<1>4. s = 0 \/ ~(a < (2 * h) * 2^(s - 1))
  BY <1>3
<1> HIDE DEF S, InRange
<1>5. PICK v \in Nat \ {0} : v = 2^s /\ a < (2 * h) * v
  BY <1>3, PowerPositive
<1>6. h * v <= a
  <2>1. CASE s = 0
    <3>1. v = 1
      BY <1>5, <2>1 DEF PowersOfTwo
    <3> QED
      BY <3>1
  <2>2. CASE s # 0
    <3>1. PICK d \in Nat : d = s - 1 /\ s = d + 1
      BY <2>2
    <3>2. PICK x \in Nat \ {0} : x = 2^d
      BY PowerPositive
    <3>3. v = 2 * x
      BY <1>5, <3>1, <3>2, Doubling
    <3>4. ~(a < (2 * h) * x)
      BY <1>4, <2>2, <3>1, <3>2, Zenon
    <3>5. (2 * h) * x = h * (2 * x)
      OBVIOUS
    <3> QED
      BY <3>3, <3>4, <3>5
  <2> QED
    BY <2>1, <2>2
<1>7. InRange(s)
  <2>1. PICK q \in Nat : q = a \div v
    BY Division
  <2>2. PICK hh \in Nat : hh = 2 * h
    OBVIOUS
  <2>3. h * v <= a <=> h <= a \div v
    BY Between
  <2>4. a < hh * v <=> a \div v < hh
    BY Between
  <2>5. q \in h..(2 * h - 1)
    BY <1>5, <1>6, <2>1, <2>2, <2>3, <2>4
  <2> QED
    BY <1>5, <2>1, <2>5, Zenon DEF InRange
<1>8. s \in 0..Precision
  BY <1>3, PrecisionAssumption
<1> DEFINE x == CHOOSE n \in 0..Precision : InRange(n)
<1>9. x \in 0..Precision /\ InRange(x)
  BY <1>7, <1>8
<1> HIDE DEF x
<1>10. PICK f \in Nat : f = x
  BY <1>9, PrecisionAssumption
<1>11. PICK u \in Nat \ {0} : u = 2^f
  BY PowerPositive
<1>12. PICK q \in Nat : q = a \div u
  BY Division
<1>13. q \in h..(2 * h - 1)
  BY <1>9, <1>10, <1>11, <1>12, Zenon DEF InRange
<1>14. PICK n \in Nat : /\ n = Rounded(a, u)
                        /\ 2 * (n * u) <= 2 * a + u /\ 2 * a <= 2 * (n * u) + u
  BY RoundedIs
<1>15. u <= 200
  <2>1. h * u <= a <=> h <= a \div u
    BY Between
  <2>2. h * u <= h * 200
    BY <1>12, <1>13, <2>1
  <2>3. 200 \in Nat
    OBVIOUS
  <2> QED
    BY <2>2, <2>3, Cancel
<1>16. Normal(a, e) = [m |-> n, e |-> e - f]
  <2>1. Normal(a, e) = [m |-> Rounded(a, 2^x), e |-> e - x]
    BY Zenon DEF Normal, x, InRange
  <2> QED
    BY <1>10, <1>11, <1>14, <2>1, Zenon
<1> QED
  BY <1>11, <1>14, <1>15, <1>16

\* The arithmetic of the product: the errors of the two roundings together are below
\* the distance to the next whole kobo.
LEMMA ProductIsNear ==
  ASSUME NEW k \in 1..10, NEW a \in Nat, NEW x \in Nat,
         NEW t \in Nat, NEW u \in Nat \ {0}, NEW w \in Nat \ {0}, NEW m \in Nat, NEW n \in Nat,
         t = u * w, t > 1600, u <= 200,
         2 * (m * (100 * k)) <= 2 * (a * t) + 100 * k, 2 * (a * t) <= 2 * (m * (100 * k)) + 100 * k,
         2 * (n * u) <= 2 * (100 * m) + u, 2 * (100 * m) <= 2 * (n * u) + u,
         k * x <= a, a < k * (x + 1)
  PROVE  n < (x + 1) * w /\ x * w <= n + w
<1>1. PICK mk \in Nat, at \in Nat, nu \in Nat, xt \in Nat :
        mk = k * m /\ at = a * t /\ nu = n * u /\ xt = x * t
  OBVIOUS
<1>2. m * (100 * k) = 100 * mk
  BY <1>1
<1>3. 100 * mk <= at + 50 * k /\ at <= 100 * mk + 50 * k
  BY <1>1, <1>2
<1>4. nu <= 100 * m + 100 /\ 100 * m <= nu + 100
  BY <1>1
<1>5. k * nu <= k * (100 * m + 100) /\ k * (100 * m) <= k * (nu + 100)
  BY <1>4
<1>6. k * (100 * m + 100) = 100 * mk + 100 * k /\ k * (100 * m) = 100 * mk
      /\ k * (nu + 100) = k * nu + 100 * k
  BY <1>1
<1>7. PICK knu \in Nat, kxt \in Nat : knu = k * nu /\ kxt = k * xt
  BY <1>1
<1>8. knu <= at + 150 * k /\ at <= knu + 150 * k
  BY <1>3, <1>5, <1>6, <1>7
<1>9. kxt <= at /\ at + t <= kxt + k * t
  <2>1. (k * x) * t <= at
    BY <1>1
  <2>2. (k * x) * t = kxt
    BY <1>1, <1>7
  <2>3. (a + 1) * t <= (k * (x + 1)) * t
    OBVIOUS
  <2>4. (a + 1) * t = at + t /\ (k * (x + 1)) * t = kxt + k * t
    BY <1>1, <1>7
  <2> QED
    BY <2>1, <2>2, <2>3, <2>4
<1>10. knu < kxt + k * t /\ kxt < knu + k * t
  <2>1. 150 * k < t
    OBVIOUS
  <2>2. 150 * k < k * t
    OBVIOUS
  <2> QED
    BY <1>7, <1>8, <1>9, <2>1, <2>2
<1>11. nu < xt + t /\ xt < nu + t
  <2>1. k * nu < k * (xt + t) /\ k * xt < k * (nu + t)
    BY <1>1, <1>7, <1>10
  <2> QED
    BY <1>1, <2>1, Cancel
<1>12. u * n < u * ((x + 1) * w) /\ u * (x * w) <= u * (n + w)
  <2>1. u * ((x + 1) * w) = xt + t /\ u * (x * w) = xt /\ u * (n + w) = nu + t /\ u * n = nu
    BY <1>1
  <2> QED
    BY <1>11, <2>1
<1>13. (x + 1) * w \in Nat /\ x * w \in Nat /\ n + w \in Nat
  OBVIOUS
<1> QED
  BY <1>12, <1>13, Cancel

\* For an amount of whole naira no rounding changes anything.
LEMMA ExactAmount ==
  ASSUME NEW s \in Nat \ {0}, NEW j \in Nat, NEW a \in Nat, a = s * j,
         NEW t \in Nat, NEW u \in Nat \ {0}, NEW w \in Nat \ {0}, NEW m \in Nat, NEW n \in Nat,
         t = u * w,
         2 * (m * s) <= 2 * (a * t) + s, 2 * (a * t) <= 2 * (m * s) + s,
         2 * (n * u) <= 2 * (100 * m) + u, 2 * (100 * m) <= 2 * (n * u) + u
  PROVE  n = (100 * j) * w
<1>1. PICK jt \in Nat : jt = j * t
  OBVIOUS
<1>2. a * t = s * jt /\ m * s = s * m
  BY <1>1
<1>3. s * (2 * m) <= s * (2 * jt + 1) /\ s * (2 * jt) <= s * (2 * m + 1)
  BY <1>1, <1>2
<1>4. 2 * m <= 2 * jt + 1 /\ 2 * jt <= 2 * m + 1
  <2>1. 2 * m \in Nat /\ 2 * jt + 1 \in Nat /\ 2 * jt \in Nat /\ 2 * m + 1 \in Nat
    OBVIOUS
  <2> QED
    BY <1>3, <2>1, Cancel
<1>5. m = jt
  BY <1>4
<1>6. PICK y \in Nat : y = (100 * j) * w
  OBVIOUS
<1>7. 100 * m = u * y /\ n * u = u * n
  BY <1>1, <1>5, <1>6
<1>8. u * (2 * n) <= u * (2 * y + 1) /\ u * (2 * y) <= u * (2 * n + 1)
  BY <1>7
<1>9. 2 * n <= 2 * y + 1 /\ 2 * y <= 2 * n + 1
  <2>1. 2 * n \in Nat /\ 2 * y + 1 \in Nat /\ 2 * y \in Nat /\ 2 * n + 1 \in Nat
    OBVIOUS
  <2> QED
    BY <1>8, <2>1, Cancel
<1> QED
  BY <1>6, <1>9

\* What is assumed of the numbers: units of at least a tenth of a kobo, and mantissas
\* that hold a hundred.
AmountsFit ==
  /\ PowersOfTwo
  /\ Precision >= 9
  /\ \E k \in 1..10 : Scale = 100 * k

\* The amount in kobo, of every amount that the constants allow.
LEMMA KoboOfAmount ==
  ASSUME AmountsFit, NEW a \in 1..MaxAmount
  PROVE  LET whole == (100 * a) \div Scale
         IN /\ AmountKobo(a) \in Nat /\ AmountKobo(a) \in {whole - 1, whole}
            /\ a % Scale = 0 => AmountKobo(a) = whole
<1>0. PowersOfTwo /\ Precision \in Nat /\ Precision >= 9 /\ \E k \in 1..10 : Scale = 100 * k
  BY PrecisionAssumption DEF AmountsFit
<1>1. PICK h \in Nat \ {0} : /\ h = 2^(Precision - 1) /\ 2^Precision = 2 * h
                              /\ Mantissas = h..(2 * h - 1)
  BY <1>0, Halves
<1>2. PICK k \in 1..10 : Scale = 100 * k
  BY <1>0
<1>3. PICK s \in Nat \ {0} : s = Scale /\ s = 100 * k /\ s <= 1000
  BY <1>2, PrecisionAssumption
<1>4. a \in Nat \ {0} /\ a <= MaxAmount /\ MaxAmount \in Nat
  BY AmountAssumption
<1>5. 1600 * a < s * h
  <2>1. 100 * MaxAmount * 32 < s * (2 * h)
    BY <1>1, <1>3, AmountAssumption, Zenon
  <2>2. s * (2 * h) = 2 * (s * h) /\ s * h \in Nat
    OBVIOUS
  <2>3. PICK sh \in Nat : sh = s * h
    BY <2>2
  <2> QED
    BY <1>4, <2>1, <2>2, <2>3
<1>6. s <= 2^(Precision + 1)
  <2>1. PICK d \in Nat : 10 + d = Precision + 1
    BY <1>0
  <2>2. PICK x \in Nat \ {0} : x = 2^d
    BY <1>0, PowerPositive
  <2>3. 2^(10 + d) = 2^10 * 2^d
    <3>1. 10 \in Nat
      OBVIOUS
    <3> QED
      BY <1>0, <3>1, PowerSum
  <2>4. PICK y \in Nat : y = 2^10 /\ y = 1024
    BY <1>0, SmallPowers
  <2>5. 2^(Precision + 1) = y * x
    BY <2>1, <2>2, <2>3, <2>4, Zenon
  <2>6. s <= y * x
    BY <1>3, <2>4
  <2> QED
    BY <2>5, <2>6, Zenon
<1>7. a < s * (2 * h)
  <2>1. PICK sh \in Nat : sh = s * h /\ s * (2 * h) = 2 * sh
    OBVIOUS
  <2> QED
    BY <1>4, <1>5, <2>1
<1>8. PICK e \in Nat, t \in Nat \ {0}, m \in Nat :
        /\ t = 2^e /\ Nearest(a, s) = [m |-> m, e |-> e]
        /\ h <= m /\ m <= 2 * h /\ s * h <= a * t
        /\ 2 * (m * s) <= 2 * (a * t) + s /\ 2 * (a * t) <= 2 * (m * s) + s
  BY <1>0, <1>1, <1>4, <1>6, <1>7, NearestIs
<1>9. t > 1600
  <2>1. a * 1600 < a * t
    BY <1>4, <1>5, <1>8
  <2> QED
    BY <1>4, <2>1, Cancel
<1>10. PICK c \in Nat : c = 100 * m /\ 100 * h <= c /\ c <= 200 * h
  BY <1>8
<1>11. Precision >= 7
  BY <1>0
<1>12. PICK z \in Nat, u \in Nat \ {0}, n \in Nat :
         /\ u = 2^z /\ u <= 200 /\ Normal(c, e) = [m |-> n, e |-> e - z]
         /\ 2 * (n * u) <= 2 * c + u /\ 2 * c <= 2 * (n * u) + u
  <2>1. 100 * h <= c /\ c <= 200 * h
    BY <1>10
  <2>2. PowersOfTwo /\ 2^Precision = 2 * h /\ Mantissas = h..(2 * h - 1)
    BY <1>0, <1>1
  <2> QED
    BY <1>11, <2>1, <2>2, NormalIs
<1>13. PICK w \in Nat \ {0} : w = 2^(e - z) /\ t = u * w
  <2>1. 2^z <= 2^e
    BY <1>8, <1>9, <1>12
  <2>2. \E w \in Nat \ {0} : w = 2^(e - z) /\ 2^e = 2^z * w
    BY <1>0, <2>1, PowerDivides
  <2> QED
    BY <1>8, <1>12, <2>2, Zenon
<1>14. AmountKobo(a) = n \div w
  <2>1. AmountKobo(a) = Truncate(Normal(100 * Nearest(a, s).m, Nearest(a, s).e))
    BY <1>3, Zenon DEF AmountKobo
  <2>2. Nearest(a, s).m = m /\ Nearest(a, s).e = e
    BY <1>8
  <2>3. AmountKobo(a) = Truncate([m |-> n, e |-> e - z])
    BY <1>10, <1>12, <2>1, <2>2, Zenon
  <2>4. Truncate([m |-> n, e |-> e - z]) = n \div 2^(e - z)
    BY Zenon DEF Truncate
  <2> QED
    BY <1>13, <2>3, <2>4, Zenon
<1>15. PICK x \in Nat, r \in 0..(s - 1) : x = (100 * a) \div s /\ 100 * a = (s * x) + r
  <2>1. PICK b \in Nat : b = 100 * a
    BY <1>4
  <2>2. \E x \in Nat, r \in 0..(s - 1) : x = b \div s /\ r = b % s /\ b = (s * x) + r
    BY Division
  <2> QED
    BY <2>1, <2>2, Zenon
<1>16. k * x <= a /\ a < k * (x + 1)
  <2>1. PICK kx \in Nat : kx = k * x /\ k * (x + 1) = kx + k /\ s * x = 100 * kx
    BY <1>3
  <2> QED
    BY <1>3, <1>4, <1>15, <2>1
<1>17. n < (x + 1) * w /\ x * w <= n + w
  <2>1. /\ 2 * (m * (100 * k)) <= 2 * (a * t) + 100 * k
        /\ 2 * (a * t) <= 2 * (m * (100 * k)) + 100 * k
    BY <1>3, <1>8
  <2>2. 2 * (n * u) <= 2 * (100 * m) + u /\ 2 * (100 * m) <= 2 * (n * u) + u
    BY <1>10, <1>12
  <2> QED
    BY <1>4, <1>9, <1>12, <1>13, <1>16, <2>1, <2>2, ProductIsNear
<1>18. PICK y \in Nat : y = n \div w
  BY Division
<1>19. y \in {x - 1, x}
  <2>1. PICK x1 \in Nat : x1 = x + 1
    OBVIOUS
  <2>2. n < x1 * w <=> n \div w < x1
    BY Between
  <2>3. y < x + 1
    BY <1>17, <1>18, <2>1, <2>2
  <2>4. y >= x - 1
    <3>1. CASE x = 0
      BY <3>1
    <3>2. CASE x # 0
      <4>1. PICK x0 \in Nat : x0 = x - 1 /\ x = x0 + 1
        BY <3>2
      <4>2. x0 * w <= n
        BY <1>17, <4>1
      <4>3. x0 * w <= n <=> x0 <= n \div w
        BY Between
      <4> QED
        BY <1>18, <4>1, <4>2, <4>3
    <3> QED
      BY <3>1, <3>2
  <2> QED
    BY <2>3, <2>4
<1>20. ASSUME a % s = 0
       PROVE  y = x
  <2>1. PICK j \in Nat : a = s * j
    <3>1. \E j \in Nat, i \in 0..(s - 1) : j = a \div s /\ i = a % s /\ a = (s * j) + i
      BY <1>4, Division
    <3>2. PICK j \in Nat, i \in 0..(s - 1) : i = a % s /\ a = (s * j) + i
      BY <3>1
    <3>3. i = 0
      BY <1>20, <3>2, Zenon
    <3>4. a = s * j
      BY <3>2, <3>3
    <3> QED
      BY <3>4
  <2>2. n = (100 * j) * w
    <3>1. 2 * (n * u) <= 2 * (100 * m) + u /\ 2 * (100 * m) <= 2 * (n * u) + u
      BY <1>10, <1>12
    <3> QED
      BY <1>4, <1>8, <1>12, <1>13, <2>1, <3>1, ExactAmount
  <2>3. PICK v \in Nat : v = 100 * j /\ n = v * w
    BY <2>2
  <2>4. y = v
    <3>1. v * w <= n <=> v <= n \div w
      BY Between
    <3>2. n < (v + 1) * w
      BY <2>3
    <3>3. PICK v1 \in Nat : v1 = v + 1
      OBVIOUS
    <3>4. n < v1 * w <=> n \div w < v1
      BY Between
    <3> QED
      BY <1>18, <2>3, <3>1, <3>2, <3>3, <3>4
  <2>5. x = v
    <3>1. 100 * a = s * v
      BY <2>1, <2>3
    <3>2. s * x + r = s * v /\ r < s
      BY <1>15, <3>1
    <3>3. s * x <= s * v /\ s * v < s * (x + 1)
      BY <3>2
    <3>4. x + 1 \in Nat
      OBVIOUS
    <3>5. x <= v /\ v < x + 1
      BY <3>3, <3>4, Cancel
    <3> QED
      BY <3>5
  <2> QED
    BY <2>4, <2>5
<1> QED
  BY <1>3, <1>14, <1>15, <1>18, <1>19, <1>20, Zenon

\* An amount in kobo has five bits less than a mantissa.
LEMMA WholeIsSmall ==
  ASSUME AmountsFit, NEW a \in 1..MaxAmount, NEW h \in Nat \ {0}, 2^Precision = 2 * h
  PROVE  16 * ((100 * a) \div Scale) < h
<1>1. PICK k \in 1..10 : Scale = 100 * k
  BY DEF AmountsFit
<1>2. PICK s \in Nat \ {0} : s = Scale /\ s = 100 * k
  BY <1>1, PrecisionAssumption
<1>3. a \in Nat /\ a <= MaxAmount /\ MaxAmount \in Nat
  BY AmountAssumption
<1>4. 16 * a < k * h
  <2>1. 100 * MaxAmount * 32 < s * (2 * h)
    BY <1>2, AmountAssumption, Zenon
  <2>2. PICK kh \in Nat : kh = k * h /\ s * (2 * h) = 200 * kh
    BY <1>2
  <2> QED
    BY <1>3, <2>1, <2>2
<1>5. PICK x \in Nat : x = (100 * a) \div s /\ k * x <= a
  <2>1. PICK b \in Nat : b = 100 * a
    BY <1>3
  <2>2. PICK x \in Nat, r \in 0..(s - 1) : x = b \div s /\ r = b % s /\ b = (s * x) + r
    BY Division
  <2>3. PICK kx \in Nat : kx = k * x /\ s * x = 100 * kx
    BY <1>2
  <2>4. k * x <= a
    BY <1>3, <2>1, <2>2, <2>3
  <2> QED
    BY <2>1, <2>2, <2>4, Zenon
<1>6. k * (16 * x) < k * h
  <2>1. PICK kx \in Nat : kx = k * x /\ k * (16 * x) = 16 * kx
    OBVIOUS
  <2> QED
    BY <1>3, <1>4, <1>5, <2>1
<1>7. 16 * x < h
  BY <1>6, Cancel
<1> QED
  BY <1>2, <1>5, <1>7, Zenon

\* The arithmetic of the quotient by 100, multiplied by 100 again.
LEMMA QuotientIsNear ==
  ASSUME NEW t \in Nat \ {0}, t > 1600, NEW a \in Nat, NEW n \in Nat, NEW c \in Nat,
         2 * c <= 2 * (a * t) + 100, 2 * (a * t) <= 2 * c + 100,
         2 * (n * t) <= 2 * c + t, 2 * c <= 2 * (n * t) + t
  PROVE  n = a
<1>1. PICK nt \in Nat, at \in Nat : nt = n * t /\ at = a * t
  OBVIOUS
<1>2. nt < at + t /\ at < nt + t
  BY <1>1
<1>3. t * n < t * (a + 1) /\ t * a < t * (n + 1)
  BY <1>1, <1>2
<1>4. a + 1 \in Nat /\ n + 1 \in Nat
  OBVIOUS
<1>5. n < a + 1 /\ a < n + 1
  BY <1>3, <1>4, Cancel
<1> QED
  BY <1>5

\* Divided by a hundred and printed, an amount in kobo comes out as it is.
LEMMA ShownOfKobo ==
  ASSUME AmountsFit, NEW a \in Nat \ {0}, NEW h \in Nat \ {0}, h = 2^(Precision - 1),
         2^Precision = 2 * h, Mantissas = h..(2 * h - 1), 16 * a < h
  PROVE  Shown(a) = a
<1>0. PowersOfTwo /\ Precision \in Nat /\ Precision >= 9
  BY PrecisionAssumption DEF AmountsFit
<1>1. 100 <= 2^(Precision + 1)
  <2>1. PICK d \in Nat : 10 + d = Precision + 1
    BY <1>0
  <2>2. PICK x \in Nat \ {0} : x = 2^d
    BY <1>0, PowerPositive
  <2>3. 2^(10 + d) = 2^10 * 2^d
    <3>1. 10 \in Nat
      OBVIOUS
    <3> QED
      BY <1>0, <3>1, PowerSum
  <2>4. PICK y \in Nat : y = 2^10 /\ y = 1024
    BY <1>0, SmallPowers
  <2>5. 2^(Precision + 1) = y * x
    BY <2>1, <2>2, <2>3, <2>4, Zenon
  <2>6. 100 <= y * x
    BY <2>4
  <2> QED
    BY <2>5, <2>6, Zenon
<1>2. PICK b \in Nat \ {0} : b = 100 /\ b <= 2^(Precision + 1) /\ a < b * (2 * h)
  BY <1>1
<1>3. PICK e \in Nat, t \in Nat \ {0}, m \in Nat :
        /\ t = 2^e /\ Nearest(a, 100) = [m |-> m, e |-> e]
        /\ 100 * h <= a * t
        /\ 2 * (m * 100) <= 2 * (a * t) + 100 /\ 2 * (a * t) <= 2 * (m * 100) + 100
  <2>1. PowersOfTwo /\ b <= 2^(Precision + 1) /\ a < b * (2 * h)
    BY <1>0, <1>2
  <2>2. \E e \in Nat, t \in Nat \ {0}, m \in Nat :
          /\ t = 2^e /\ Nearest(a, b) = [m |-> m, e |-> e]
          /\ h <= m /\ m <= 2 * h /\ b * h <= a * t
          /\ 2 * (m * b) <= 2 * (a * t) + b /\ 2 * (a * t) <= 2 * (m * b) + b
    BY <2>1, NearestIs
  <2> QED
    BY <1>2, <2>2, Zenon
<1>4. t > 1600
  <2>1. a * 1600 < a * t
    BY <1>3
  <2> QED
    BY <2>1, Cancel
<1>5. PICK c \in Nat : c = m * 100
  OBVIOUS
<1>6. PICK n \in Nat : n = Rounded(c, t) /\ 2 * (n * t) <= 2 * c + t /\ 2 * c <= 2 * (n * t) + t
  BY RoundedIs
<1>7. Shown(a) = n
  <2>1. Shown(a) = Rounded(Nearest(a, 100).m * 100, 2^Nearest(a, 100).e)
    BY Zenon DEF Shown
  <2>2. Nearest(a, 100).m = m /\ Nearest(a, 100).e = e
    BY <1>3
  <2> QED
    BY <1>3, <1>5, <1>6, <2>1, <2>2, Zenon
<1>8. n = a
  <2>1. 2 * c <= 2 * (a * t) + 100 /\ 2 * (a * t) <= 2 * c + 100
    BY <1>3, <1>5
  <2>2. 2 * (n * t) <= 2 * c + t /\ 2 * c <= 2 * (n * t) + t
    BY <1>6
  <2> QED
    BY <1>4, <2>1, <2>2, QuotientIsNear
<1> QED
  BY <1>7, <1>8

\* And so does the one of initiatePayment.
LEMMA ShownAmount ==
  ASSUME AmountsFit, NEW a \in 1..MaxAmount, AmountKobo(a) > 0
  PROVE  Shown(AmountKobo(a)) = AmountKobo(a)
<1>1. PICK h \in Nat \ {0} : /\ h = 2^(Precision - 1) /\ 2^Precision = 2 * h
                              /\ Mantissas = h..(2 * h - 1)
  BY Halves DEF AmountsFit
<1>2. PICK x : x = (100 * a) \div Scale
  OBVIOUS
<1>3. AmountKobo(a) \in Nat /\ AmountKobo(a) \in {x - 1, x}
  BY <1>2, KoboOfAmount
<1>4. PICK y \in Nat : y = AmountKobo(a)
  BY <1>3
<1>5. x \in Int
  <2>1. 100 * a \in Nat /\ Scale \in Nat \ {0}
    BY PrecisionAssumption, AmountAssumption
  <2> QED
    BY <1>2, <2>1, Division
<1>6. 16 * x < h
  BY <1>1, <1>2, WholeIsSmall
<1>7. 16 * y < h /\ y # 0
  BY <1>3, <1>4, <1>5, <1>6
<1>8. Shown(y) = y
  BY <1>1, <1>7, ShownOfKobo
<1> QED
  BY <1>4, <1>8, Zenon

\* The amount is there until the transfer is asked for.
AmountInv == pc = "initiate" => amount \in 1..MaxAmount

LEMMA AmountStep ==
  ASSUME AmountInv, [Next]_vars
  PROVE  AmountInv'
<1> USE DEF AmountInv
<1>1. CASE InitiatePayment \/ Reconcile
  BY <1>1 DEF InitiatePayment, Reconcile
<1>2. CASE TransferAccepted
  BY <1>2 DEF TransferAccepted, Answered
<1>3. CASE TransferRefused
  <2>1. pc' = "save"
    BY <1>3 DEF TransferRefused, Answered
  <2> QED
    BY <2>1
<1>4. CASE TransferTerminal
  BY <1>4 DEF TransferTerminal, Answered
<1>5. CASE SaveIntent \/ SaveLost
  BY <1>5 DEF SaveIntent, SaveLost
<1>6. CASE TransferFails \/ LoadFailure \/ SaveFailure \/ FailureLost \/ Tick
  BY <1>6 DEF TransferFails, LoadFailure, SaveFailure, FailureLost, Tick
<1>7. CASE UNCHANGED vars
  BY <1>7 DEF vars
<1> QED
  BY <1>1, <1>2, <1>3, <1>4, <1>5, <1>6, <1>7 DEF Next, Poller

-----------------------------------------------------------------------------
(* The theorems *)

\* TypeOK: the numbers and the copies of the intent are of their types.
THEOREM TypeCorrect == Spec => []TypeOK
BY TypeInit, TypeStep, PTL DEF Spec

\* TransientsBounded: a transfer meets at most MaxAttempts transient errors, and one
\* more for each count that was lost, when the policy has a limit at all (runtime's
\* DefaultRetryPolicy has five; IsExhausted takes zero for none).
THEOREM Bounded ==
  ASSUME MaxAttempts > 0
  PROVE  Spec => []TransientsBounded
<1>1. Init => BoundInv
  <2>1. MaxAttempts \in Nat
    BY PolicyAssumption
  <2> QED
    BY <2>1, TypeInit DEF Init, BoundInv, CountedInv, OneMore, TransientsBounded
<1>2. BoundInv /\ [Next]_vars => BoundInv'
  BY BoundStep
<1>3. BoundInv => TransientsBounded
  BY DEF BoundInv
<1> QED
  BY <1>1, <1>2, <1>3, PTL DEF Spec

\* RequestsAreSpaced: between the starts of two polls' requests lies the shortest
\* backoff, unless no retry time is stored or one was lost.  The cap is not below the
\* first delay in DefaultRetryPolicy: 15 seconds and 2 minutes.
THEOREM Spaced ==
  ASSUME BaseBackoff <= MaxBackoff
  PROVE  Spec => RequestsAreSpaced
<1>1. Init => TypeOK /\ SpacedInv
  BY TypeInit DEF Init, SpacedInv
<1>2. TypeOK /\ SpacedInv /\ [Next]_vars => TypeOK' /\ SpacedInv'
  BY TypeStep, SpacedStep
<1>3. TypeOK /\ SpacedInv
        => (Reconcile => \/ intent.due = 0 \/ lost > 0
                         \/ 100 * (now - begun) >= (100 - JitterPercent) * BaseBackoff)
  <2> SUFFICES ASSUME TypeOK, SpacedInv, Reconcile, intent.due # 0, ~(lost > 0)
               PROVE  100 * (now - begun) >= (100 - JitterPercent) * BaseBackoff
    OBVIOUS
  <2>1. now \in Nat /\ begun \in Nat /\ lost = 0 /\ intent.due \in Nat
    BY BoundsAssumption DEF TypeOK, Intent
  <2>2. PICK s \in Int : s = Shortest
    BY PolicyAssumption DEF Shortest
  <2>3. pc = "idle" /\ now >= intent.due
    BY DEF Reconcile, IsEligible
  <2>4. 100 * (intent.due - begun) >= s
    BY <2>1, <2>2, <2>3 DEF SpacedInv, Backoff
  <2>5. 100 * (now - begun) >= s
    BY <2>1, <2>2, <2>3, <2>4
  <2> QED
    BY <2>2, <2>5 DEF Shortest
<1> QED
  BY <1>1, <1>2, <1>3, PTL DEF Spec, RequestsAreSpaced

\* NeverMoreThanAmount: the kobo that initiatePayment asks for are the order's amount
\* cut to whole kobo or one kobo less, and exactly the amount when it is in whole
\* naira, for every amount in steps of at least a tenth of a kobo (the exchange's
\* have two decimals) with five bits less than a mantissa.
THEOREM AmountIsCut ==
  ASSUME AmountsFit
  PROVE  Spec => []NeverMoreThanAmount
<1>1. Init => AmountInv
  BY DEF Init, AmountInv
<1>2. AmountInv /\ [Next]_vars => AmountInv'
  BY AmountStep
<1>3. AmountInv => NeverMoreThanAmount
  BY KoboOfAmount DEF AmountInv, NeverMoreThanAmount, Whole
<1> QED
  BY <1>1, <1>2, <1>3, PTL DEF Spec

\* ShownIsPaid: the user reads the very amount, to the kobo, that Paystack was asked
\* to transfer.
THEOREM AmountIsShown ==
  ASSUME AmountsFit
  PROVE  Spec => []ShownIsPaid
<1>1. Init => AmountInv
  BY DEF Init, AmountInv
<1>2. AmountInv /\ [Next]_vars => AmountInv'
  BY AmountStep
<1>3. AmountInv => ShownIsPaid
  BY ShownAmount DEF AmountInv, ShownIsPaid
<1> QED
  BY <1>1, <1>2, <1>3, PTL DEF Spec
=============================================================================
