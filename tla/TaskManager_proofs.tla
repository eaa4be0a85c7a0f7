------------------------- MODULE TaskManager_proofs -------------------------
(***************************************************************************)
(* TLAPS proofs about TaskManager, for every value of its constants.       *)
(***************************************************************************)
EXTENDS TaskManager, TLAPS

(* The inductive invariant.  AtMostOneIntent alone says nothing of a poller *)
(* about to create an intent; what keeps it is that such a poller is alone  *)
(* on an order that has just been handed off (LockInv, CreateInv), and that *)
(* an order with an intent never again looks as if it had not been handed   *)
(* off, unless it has expired (IntentInv, CopyInv).                         *)

HasRecord  == {"advance", "fetch", "create_intent", "transfer", "save_intent", "notify"}
HasDraft   == {"transfer", "save_intent"}
SavesCopy  == {"create_intent", "transfer", "save_intent", "notify"}

\* The copies a goroutine is about to use exist.
LocalInv ==
  \A c \in Chats :
    /\ pc[c] \in HasRecord => rec[c] # NoRecord
    /\ pc[c] = "fetch" => rec[c].state = "DETAIL_FETCHING"
    /\ pc[c] \in {"create_intent", "transfer", "save_intent"}
         => rec[c].state = "PAYMENT_PENDING_EXTERNAL"
    /\ phase[c] = "resume" => \A o \in todo[c] : list[c][o] # NoRecord

\* A working goroutine owns its order's lock, and nobody shares it.
LockInv ==
  /\ \A c \in Chats : pc[c] \in Working <=> order[c] # NoOrder
  /\ \A c \in Chats : order[c] # NoOrder => order[c] \in processing
  /\ \A c, d \in Chats : order[c] # NoOrder /\ order[c] = order[d] => c = d

\* Keys and indexes name what they should.
IndexInv ==
  /\ \A r \in Refs : intents[r] # NoIntent => intents[r].ref = r
  /\ \A o \in Orders : orderIndex[o] # NoRef =>
       intents[orderIndex[o]] # NoIntent /\ intents[orderIndex[o]].order = o
  /\ \A c \in Chats : pc[c] \in HasDraft =>
       /\ draft[c] # NoIntent
       /\ draft[c].order = order[c]
       /\ intents[draft[c].ref] # NoIntent
       /\ intents[draft[c].ref].order = order[c]

StateIn(o, S) == workflow[o] # NoRecord /\ workflow[o].state \in S

\* An order that has an intent has been handed off, or it has expired.
IntentInv ==
  \A r \in Refs : intents[r] # NoIntent =>
    \/ intents[r].order \in expired
    \/ StateIn(intents[r].order, HandedOff)

\* A copy that may be saved does not undo a handoff.
CopyInv ==
  \A c \in Chats : pc[c] \in SavesCopy =>
    \/ rec[c].state \in HandedOff
    \/ /\ ~StateIn(order[c], {"PAYMENT_PENDING_EXTERNAL", "PAID"})
       /\ \A r \in Refs : intents[r] # NoIntent /\ intents[r].order = order[c]
                            => order[c] \in expired

\* A goroutine about to create an intent has just handed its order off.
CreateInv ==
  \A c \in Chats : pc[c] = "create_intent" =>
    /\ StateIs(order[c], "PAYMENT_PENDING_EXTERNAL")
    /\ ~HasIntent(order[c])

HasDetails(r) ==
  r # NoRecord => (r.state \in {"DETAIL_READY", "PAYMENT_PENDING_EXTERNAL", "PAID"} => r.detail)

\* Wherever a record is, stored or copied, its details come before its handoff.
DetailInv ==
  /\ \A o \in Orders : HasDetails(workflow[o])
  /\ \A c \in Chats : HasDetails(rec[c])
  /\ \A c \in Chats, o \in Orders : HasDetails(list[c][o])

IInv ==
  /\ TypeOK /\ LocalInv /\ LockInv /\ IndexInv /\ IntentInv
  /\ CopyInv /\ CreateInv /\ DetailInv /\ AtMostOneIntent

-----------------------------------------------------------------------------
(* The transition table *)

\* Every event but ORDER_EXPIRED leaves exactly one state, which is why the
\* second attempt of transitionRecord, on the record it found instead of its
\* own, cannot succeed.
THEOREM SingleSource ==
  ASSUME NEW s \in OrderState, NEW t \in OrderState,
         NEW e \in OrderEvent \ {"ORDER_EXPIRED"}, CanApply(s, e), CanApply(t, e)
  PROVE  s = t
  BY SMT DEF CanApply, OrderTransitions, OrderState, Resumable, Terminal, OrderEvent

\* What ApplyOrderEvent returns for each event that a poller applies: the entries of
\* orderTransitions, one by one.
LEMMA TransitionTable ==
  /\ ApplyOrderEvent("DETECTED", "ORDER_INGESTED") = "DETAIL_FETCHING"
  /\ ApplyOrderEvent("RETRYING_DETAIL", "RETRY_TIMER_FIRED") = "DETAIL_FETCHING"
  /\ ApplyOrderEvent("DETAIL_FETCHING", "DETAIL_FETCH_OK") = "DETAIL_READY"
  /\ ApplyOrderEvent("DETAIL_FETCHING", "DETAIL_FETCH_RETRYABLE_ERR") = "RETRYING_DETAIL"
  /\ ApplyOrderEvent("DETAIL_FETCHING", "DETAIL_FETCH_FATAL_ERR") = "FAILED_DETAIL"
  /\ ApplyOrderEvent("DETAIL_READY", "HANDOFF_TO_PAYMENT") = "PAYMENT_PENDING_EXTERNAL"
  /\ \A s \in Resumable : ApplyOrderEvent(s, "ORDER_EXPIRED") = "TIMED_OUT"
  BY SMT DEF ApplyOrderEvent, OrderTransitions, OrderState, Resumable, Terminal

-----------------------------------------------------------------------------
(* Types *)

Place == {"idle", "loop"} \cup Working

MaybeRecord == WfRecord \cup {NoRecord}

\* What every step of a goroutine on its order's record leaves alone or in type.
RecordAction ==
  /\ UNCHANGED <<intents, orderIndex, expired, processing, loop, order, draft>>
  /\ chatIndex' \in [Chats -> SUBSET Orders]
  /\ session' \in [Chats -> {"none", "running", "done"}]

\* The intents of an order, as the invariant speaks of them.
IntentsExpired(o) ==
  \A r \in Refs : intents[r] # NoIntent /\ intents[r].order = o => o \in expired

\* What a step of the goroutine of chat c may do to its order's record, to its
\* copy and to its place so that the invariant still holds, when it touches
\* neither intents nor locks.
LEMMA RecordStep ==
  ASSUME IInv, NEW c \in Chats, pc[c] \in Working,
         RecordAction,
         workflow' \in [Orders -> MaybeRecord], rec' \in [Chats -> MaybeRecord],
         pc' \in [Chats -> Place], after' \in [Chats -> {"advance", "notify", "unlock"}],
         \A o \in Orders \ {order[c]} : workflow'[o] = workflow[o],
         \A d \in Chats \ {c} : rec'[d] = rec[d] /\ pc'[d] = pc[d],
         HasDetails(workflow'[order[c]]), HasDetails(rec'[c]),
         pc'[c] \in Working \ HasDraft,
         pc'[c] \in HasRecord => rec'[c] # NoRecord,
         pc'[c] = "fetch" => rec'[c].state = "DETAIL_FETCHING",
         pc'[c] = "create_intent" =>
           /\ rec'[c].state = "PAYMENT_PENDING_EXTERNAL"
           /\ workflow'[order[c]] # NoRecord
           /\ workflow'[order[c]].state = "PAYMENT_PENDING_EXTERNAL"
           /\ ~HasIntent(order[c]),
         \/ IntentsExpired(order[c])
         \/ workflow'[order[c]] # NoRecord /\ workflow'[order[c]].state \in HandedOff,
         pc'[c] = "notify" =>
           \/ rec'[c].state \in HandedOff
           \/ /\ workflow'[order[c]] = NoRecord
                   \/ workflow'[order[c]].state \notin {"PAYMENT_PENDING_EXTERNAL", "PAID"}
              /\ IntentsExpired(order[c])
  PROVE  IInv'
<1> USE DEF IInv
<1>1. order[c] \in Orders
  BY DEF TypeOK, LockInv
<1>a. /\ UNCHANGED <<intents, orderIndex, expired, processing, loop, order, draft>>
      /\ chatIndex' \in [Chats -> SUBSET Orders]
      /\ session' \in [Chats -> {"none", "running", "done"}]
  BY DEF RecordAction
<1>2. TypeOK'
  BY <1>a DEF TypeOK, MaybeRecord, Place, loop
<1>3. LocalInv'
  BY <1>a DEF LocalInv, loop, HasRecord, HasDraft
<1>4. LockInv'
  BY <1>a DEF LockInv, Working, loop
<1>5. IndexInv'
  BY <1>a DEF IndexInv, HasDraft, loop
<1>. HIDE DEF IInv
<1>6. \A r \in Refs : intents[r] # NoIntent => intents[r].order \in Orders
  BY DEF IInv, TypeOK, Intent
<1>7. IntentInv'
  BY <1>a, <1>1, <1>6 DEF IInv, IntentInv, IntentsExpired, StateIn
<1>8. CopyInv'
  <2> SUFFICES ASSUME NEW d \in Chats, pc'[d] \in SavesCopy
               PROVE  \/ rec'[d].state \in HandedOff
                      \/ /\ ~(/\ workflow'[order[d]] # NoRecord
                              /\ workflow'[order[d]].state \in {"PAYMENT_PENDING_EXTERNAL", "PAID"})
                         /\ IntentsExpired(order[d])
    BY <1>a DEF CopyInv, StateIn, IntentsExpired
  <2>1. CASE d = c
    BY <2>1 DEF SavesCopy, HasDraft, HandedOff
  <2>2. CASE d # c
    <3>1. pc[d] = pc'[d] /\ rec'[d] = rec[d]
      BY <2>2
    <3>2. order[d] \in Orders \ {order[c]}
      BY <2>2, <3>1, <1>1 DEF IInv, TypeOK, LockInv, SavesCopy, Working
    <3> QED
      BY <3>1, <3>2 DEF IInv, CopyInv, StateIn, IntentsExpired
  <2> QED
    BY <2>1, <2>2
<1>9. CreateInv'
  <2> SUFFICES ASSUME NEW d \in Chats, pc'[d] = "create_intent"
               PROVE  /\ workflow'[order[d]] # NoRecord
                      /\ workflow'[order[d]].state = "PAYMENT_PENDING_EXTERNAL"
                      /\ ~HasIntent(order[d])
    BY <1>a DEF CreateInv, StateIs, HasIntent
  <2>1. CASE d = c
    BY <2>1
  <2>2. CASE d # c
    <3>1. pc[d] = pc'[d]
      BY <2>2
    <3>2. order[d] \in Orders \ {order[c]}
      BY <2>2, <3>1, <1>1 DEF IInv, TypeOK, LockInv, Working
    <3> QED
      BY <3>1, <3>2 DEF IInv, CreateInv, StateIs
  <2> QED
    BY <2>1, <2>2
<1>10. DetailInv'
  BY <1>a, <1>1 DEF IInv, DetailInv, loop
<1>11. AtMostOneIntent'
  BY <1>a DEF IInv, AtMostOneIntent
<1> QED
  BY <1>2, <1>3, <1>4, <1>5, <1>7, <1>8, <1>9, <1>10, <1>11 DEF IInv

\* The order of a working goroutine: its intents have expired or its record
\* shows the handoff.
LEMMA OwnOrder ==
  ASSUME IInv, NEW c \in Chats, pc[c] \in Working
  PROVE  /\ order[c] \in Orders
         /\ IntentsExpired(order[c]) \/ StateIn(order[c], HandedOff)
         /\ HasDetails(workflow[order[c]]) /\ HasDetails(rec[c])
<1>1. order[c] \in Orders
  BY DEF IInv, TypeOK, LockInv
<1>2. IntentsExpired(order[c]) \/ StateIn(order[c], HandedOff)
  BY DEF IInv, IntentInv, IntentsExpired
<1>3. HasDetails(workflow[order[c]]) /\ HasDetails(rec[c])
  BY <1>1 DEF IInv, DetailInv
<1> QED
  BY <1>1, <1>2, <1>3

\* What a save does to the index of a chat and to the session keeps their types.
LEMMA SaveTypes ==
  ASSUME IInv, NEW c \in Chats, order[c] \in Orders, NEW d \in Chats,
         \/ chatIndex' = chatIndex
         \/ chatIndex' = [chatIndex EXCEPT ![d] = @ \cup {order[c]}],
         session' = session \/ session' = [session EXCEPT ![c] = "done"]
  PROVE  /\ chatIndex' \in [Chats -> SUBSET Orders]
         /\ session' \in [Chats -> {"none", "running", "done"}]
<1>1. chatIndex' \in [Chats -> SUBSET Orders]
  <2>1. chatIndex \in [Chats -> SUBSET Orders]
    BY DEF IInv, TypeOK
  <2>2. chatIndex[d] \cup {order[c]} \in SUBSET Orders
    BY <2>1
  <2> QED
    BY <2>1, <2>2
<1>2. session' \in [Chats -> {"none", "running", "done"}]
  <2>1. session \in [Chats -> {"none", "running", "done"}]
    BY DEF IInv, TypeOK
  <2> QED
    BY <2>1
<1> QED
  BY <1>1, <1>2

\* A step that only moves the goroutine.
LEMMA PlaceStep ==
  ASSUME IInv, NEW c \in Chats, pc[c] \in Working,
         RecordAction,
         workflow' = workflow, rec' = rec,
         NEW k \in {"fetch", "advance", "notify", "unlock"}, pc' = [pc EXCEPT ![c] = k],
         after' \in [Chats -> {"advance", "notify", "unlock"}],
         k # "unlock" => rec[c] # NoRecord,
         k = "fetch" => rec[c].state = "DETAIL_FETCHING",
         k = "notify" => pc[c] \in SavesCopy
  PROVE  IInv'
<1>1. /\ workflow' \in [Orders -> MaybeRecord] /\ rec' \in [Chats -> MaybeRecord]
      /\ pc' \in [Chats -> Place]
  BY DEF IInv, TypeOK, MaybeRecord, Place, Working
<1>2. pc'[c] = k /\ \A d \in Chats \ {c} : rec'[d] = rec[d] /\ pc'[d] = pc[d]
  BY DEF IInv, TypeOK
<1>3. \A o \in Orders \ {order[c]} : workflow'[o] = workflow[o]
  OBVIOUS
<1>4. k = "notify" =>
        \/ rec'[c].state \in HandedOff
        \/ /\ workflow'[order[c]] = NoRecord
                \/ workflow'[order[c]].state \notin {"PAYMENT_PENDING_EXTERNAL", "PAID"}
           /\ IntentsExpired(order[c])
  BY DEF IInv, CopyInv, StateIn, SavesCopy, IntentsExpired
<1>5. \/ IntentsExpired(order[c])
      \/ workflow'[order[c]] # NoRecord /\ workflow'[order[c]].state \in HandedOff
  BY OwnOrder DEF StateIn
<1>6. HasDetails(workflow'[order[c]]) /\ HasDetails(rec'[c])
  BY OwnOrder
<1>7. /\ pc'[c] \in Working \ HasDraft
      /\ pc'[c] \in HasRecord => rec'[c] # NoRecord
      /\ pc'[c] = "fetch" => rec'[c].state = "DETAIL_FETCHING"
      /\ pc'[c] # "create_intent"
  BY <1>2 DEF Working, HasDraft, HasRecord
<1> QED
  BY <1>1, <1>2, <1>3, <1>4, <1>5, <1>6, <1>7, RecordStep

\* A step that saves record r of the goroutine's order, or fails to, and keeps r
\* as the copy.
LEMMA SaveStep ==
  ASSUME IInv, NEW c \in Chats, pc[c] \in Working,
         RecordAction,
         NEW r \in WfRecord, HasDetails(r),
         workflow' = workflow \/ workflow' = [workflow EXCEPT ![order[c]] = r],
         rec' = [rec EXCEPT ![c] = r],
         NEW k \in {"advance", "notify", "unlock"}, pc' = [pc EXCEPT ![c] = k],
         after' \in [Chats -> {"advance", "notify", "unlock"}],
         \/ r.state \in HandedOff
         \/ /\ ~StateIn(order[c], {"PAYMENT_PENDING_EXTERNAL", "PAID"})
            /\ r.state \notin {"PAYMENT_PENDING_EXTERNAL", "PAID"}
            /\ IntentsExpired(order[c])
  PROVE  IInv'
<1>0. order[c] \in Orders /\ r # NoRecord
  BY OwnOrder, NoneAssumption, NoOrderAssumption
<1>1. workflow' \in [Orders -> MaybeRecord]
  BY <1>0 DEF IInv, TypeOK, MaybeRecord
<1>2. rec' \in [Chats -> MaybeRecord]
  BY DEF IInv, TypeOK, MaybeRecord
<1>3. pc' \in [Chats -> Place]
  BY DEF IInv, TypeOK, Place, Working
<1>4. /\ pc'[c] = k /\ rec'[c] = r
      /\ \A d \in Chats \ {c} : rec'[d] = rec[d] /\ pc'[d] = pc[d]
  BY DEF IInv, TypeOK
<1>5. \A o \in Orders \ {order[c]} : workflow'[o] = workflow[o]
  BY DEF IInv, TypeOK
<1>6. workflow'[order[c]] = workflow[order[c]] \/ workflow'[order[c]] = r
  BY <1>0 DEF IInv, TypeOK
<1>7. HasDetails(workflow'[order[c]]) /\ HasDetails(rec'[c])
  BY <1>4, <1>6, OwnOrder
<1>8. \/ IntentsExpired(order[c])
      \/ workflow'[order[c]] # NoRecord /\ workflow'[order[c]].state \in HandedOff
  BY <1>0, <1>6, OwnOrder DEF StateIn
<1>9. \/ rec'[c].state \in HandedOff
      \/ /\ workflow'[order[c]] = NoRecord
              \/ workflow'[order[c]].state \notin {"PAYMENT_PENDING_EXTERNAL", "PAID"}
         /\ IntentsExpired(order[c])
  BY <1>4, <1>6 DEF StateIn
<1>10. /\ pc'[c] \in Working \ HasDraft
       /\ pc'[c] \in HasRecord => rec'[c] # NoRecord
       /\ pc'[c] # "fetch" /\ pc'[c] # "create_intent"
  BY <1>0, <1>4 DEF Working, HasDraft
<1> QED
  BY <1>1, <1>2, <1>3, <1>4, <1>5, <1>7, <1>8, <1>9, <1>10, RecordStep

\* A step whose compare-and-set from the stored state found it and wrote n; the
\* goroutine goes on with n, or gives up because the reply was lost.
LEMMA MoveStep ==
  ASSUME IInv, NEW c \in Chats, pc[c] \in Working,
         RecordAction,
         after' = after,
         NEW n \in WfRecord, HasDetails(n),
         workflow[order[c]] # NoRecord, workflow[order[c]].state \notin HandedOff,
         workflow' = [workflow EXCEPT ![order[c]] = n],
         NEW k \in {"fetch", "create_intent", "notify", "unlock"},
         pc' = [pc EXCEPT ![c] = k],
         \/ rec' = [rec EXCEPT ![c] = n]
         \/ rec' = rec /\ k = "unlock",
         n.state # "PAID",
         n.state = "PAYMENT_PENDING_EXTERNAL" => order[c] \notin expired,
         k = "fetch" => n.state = "DETAIL_FETCHING",
         k = "create_intent" => n.state = "PAYMENT_PENDING_EXTERNAL"
  PROVE  IInv'
<1>0. order[c] \in Orders /\ n # NoRecord
  BY OwnOrder, NoneAssumption, NoOrderAssumption
<1>a. IntentsExpired(order[c])
  BY OwnOrder DEF StateIn
<1>1. workflow' \in [Orders -> MaybeRecord]
  BY <1>0 DEF IInv, TypeOK, MaybeRecord
<1>2. rec' \in [Chats -> MaybeRecord]
  BY DEF IInv, TypeOK, MaybeRecord
<1>3. /\ pc' \in [Chats -> Place]
      /\ after' \in [Chats -> {"advance", "notify", "unlock"}]
  BY DEF IInv, TypeOK, Place, Working
<1>4. /\ pc'[c] = k
      /\ \A d \in Chats \ {c} : rec'[d] = rec[d] /\ pc'[d] = pc[d]
      /\ rec'[c] = n \/ (rec'[c] = rec[c] /\ k = "unlock")
  BY DEF IInv, TypeOK
<1>5. \A o \in Orders \ {order[c]} : workflow'[o] = workflow[o]
  BY DEF IInv, TypeOK
<1>6. workflow'[order[c]] = n
  BY <1>0 DEF IInv, TypeOK
<1>7. HasDetails(workflow'[order[c]]) /\ HasDetails(rec'[c])
  BY <1>4, <1>6, OwnOrder
<1>8. k = "create_intent" => ~HasIntent(order[c])
  BY <1>a DEF IntentsExpired, HasIntent
<1>9. k = "notify" =>
        \/ rec'[c].state \in HandedOff
        \/ /\ workflow'[order[c]] = NoRecord
                \/ workflow'[order[c]].state \notin {"PAYMENT_PENDING_EXTERNAL", "PAID"}
           /\ IntentsExpired(order[c])
  BY <1>4, <1>6, <1>a DEF HandedOff
<1>10. /\ pc'[c] \in Working \ HasDraft
       /\ pc'[c] \in HasRecord => rec'[c] # NoRecord
       /\ pc'[c] = "fetch" => rec'[c].state = "DETAIL_FETCHING"
  BY <1>0, <1>4 DEF Working, HasDraft, HasRecord
<1>11. pc'[c] = "create_intent" =>
         /\ rec'[c].state = "PAYMENT_PENDING_EXTERNAL"
         /\ workflow'[order[c]] # NoRecord
         /\ workflow'[order[c]].state = "PAYMENT_PENDING_EXTERNAL"
         /\ ~HasIntent(order[c])
  BY <1>0, <1>4, <1>6, <1>8
<1> QED
  BY <1>1, <1>2, <1>3, <1>4, <1>5, <1>7, <1>9, <1>10, <1>11, <1>a, RecordStep

\* The ways transitionRecord ends, when it moves a record from the given state
\* to the record n and goes on at l.
LEMMA TransitionStep ==
  ASSUME IInv, NEW c \in Chats, pc[c] \in Working,
         RecordAction,
         after' = after,
         NEW n \in WfRecord, HasDetails(n), NEW from \in OrderState \ HandedOff,
         NEW l \in {"fetch", "create_intent", "notify", "unlock"},
         \/ /\ workflow' = workflow /\ rec' = rec
            /\ pc' = [pc EXCEPT ![c] = "unlock"]
         \/ /\ workflow[order[c]] # NoRecord /\ workflow[order[c]].state = from
            /\ workflow' = [workflow EXCEPT ![order[c]] = n]
            /\ \/ rec' = rec /\ pc' = [pc EXCEPT ![c] = "unlock"]
               \/ rec' = [rec EXCEPT ![c] = n] /\ pc' = [pc EXCEPT ![c] = l],
         n.state # "PAID",
         n.state = "PAYMENT_PENDING_EXTERNAL" => order[c] \notin expired,
         l = "fetch" => n.state = "DETAIL_FETCHING",
         l = "create_intent" => n.state = "PAYMENT_PENDING_EXTERNAL"
  PROVE  IInv'
<1>1. after' \in [Chats -> {"advance", "notify", "unlock"}]
  BY DEF IInv, TypeOK
<1>2. CASE workflow' = workflow /\ rec' = rec /\ pc' = [pc EXCEPT ![c] = "unlock"]
  BY <1>1, <1>2, PlaceStep
<1>3. CASE /\ workflow[order[c]] # NoRecord /\ workflow[order[c]].state = from
           /\ workflow' = [workflow EXCEPT ![order[c]] = n]
  <2>1. CASE rec' = rec /\ pc' = [pc EXCEPT ![c] = "unlock"]
    BY <1>3, <2>1, MoveStep
  <2>2. CASE rec' = [rec EXCEPT ![c] = n] /\ pc' = [pc EXCEPT ![c] = l]
    BY <1>3, <2>2, MoveStep
  <2>3. \/ rec' = rec /\ pc' = [pc EXCEPT ![c] = "unlock"]
        \/ rec' = [rec EXCEPT ![c] = n] /\ pc' = [pc EXCEPT ![c] = l]
    BY <1>3
  <2> QED
    BY <2>1, <2>2, <2>3
<1> QED
  BY <1>2, <1>3

\* A record moved by an event that applies is a record, and only its state differs.
LEMMA AfterRecord ==
  ASSUME NEW r \in WfRecord, NEW e, ApplyOrderEvent(r.state, e) \in OrderState
  PROVE  /\ After(r, e) \in WfRecord
         /\ After(r, e).state = ApplyOrderEvent(r.state, e)
         /\ After(r, e).detail = r.detail
<1> DEFINE s == ApplyOrderEvent(r.state, e)
<1>1. s \in OrderState
  OBVIOUS
<1>2. After(r, e) = [r EXCEPT !.state = s]
  BY DEF After
<1> HIDE DEF s
<1>3. /\ [r EXCEPT !.state = s] \in WfRecord
      /\ [r EXCEPT !.state = s].state = s
      /\ [r EXCEPT !.state = s].detail = r.detail
  BY <1>1 DEF WfRecord, OrderState, Resumable, Terminal
<1>4. s = ApplyOrderEvent(r.state, e)
  BY DEF s
<1> QED
  BY <1>2, <1>3, <1>4

-----------------------------------------------------------------------------
(* The handlers *)

\* A new order taken in (StateDetected of advanceWorkflowRecord) keeps the invariant.
LEMMA AdvanceDetectedStep ==
  ASSUME IInv, NEW c \in Chats, AdvanceDetected(c)
  PROVE  IInv'
<1>1. pc[c] = "advance" /\ rec[c].state = "DETECTED" /\ rec[c] \in WfRecord
  BY DEF AdvanceDetected, Advances, IInv, LocalInv, HasRecord, TypeOK
<1> DEFINE n == After(rec[c], "ORDER_INGESTED")
<1>2. n \in WfRecord /\ n.state = "DETAIL_FETCHING"
  BY <1>1, AfterRecord, TransitionTable DEF OrderState, Resumable
<1>3. HasDetails(n)
  BY <1>2 DEF HasDetails
<1>4. \/ /\ workflow' = workflow /\ rec' = rec
         /\ pc' = [pc EXCEPT ![c] = "unlock"]
      \/ /\ workflow[order[c]] # NoRecord /\ workflow[order[c]].state = "DETECTED"
         /\ workflow' = [workflow EXCEPT ![order[c]] = n]
         /\ \/ rec' = rec /\ pc' = [pc EXCEPT ![c] = "unlock"]
            \/ rec' = [rec EXCEPT ![c] = n] /\ pc' = [pc EXCEPT ![c] = "fetch"]
  BY <1>1 DEF AdvanceDetected, TransitionRecord, PutIndexed, Put, Goto, StateIs, records
<1>o. order[c] \in Orders
  BY <1>1, OwnOrder DEF Working
<1>5. RecordAction /\ after' = after
  BY <1>o DEF AdvanceDetected, TransitionRecord, PutIndexed, AddToChat, KeepsPayment, RecordAction,
             records, IInv, TypeOK
<1> HIDE DEF n
<1> QED
  BY <1>1, <1>2, <1>3, <1>4, <1>5, TransitionStep
     DEF Working, OrderState, Resumable, Terminal, HandedOff

\* A detail fetch taken up again after its retry time keeps the invariant.
LEMMA AdvanceRetryingStep ==
  ASSUME IInv, NEW c \in Chats, AdvanceRetrying(c)
  PROVE  IInv'
<1>1. pc[c] = "advance" /\ rec[c].state = "RETRYING_DETAIL" /\ rec[c] \in WfRecord
  BY DEF AdvanceRetrying, Advances, IInv, LocalInv, HasRecord, TypeOK
<1> DEFINE n == After(rec[c], "RETRY_TIMER_FIRED")
<1>2. n \in WfRecord /\ n.state = "DETAIL_FETCHING"
  BY <1>1, AfterRecord, TransitionTable DEF OrderState, Resumable, Terminal
<1>3. HasDetails(n)
  BY <1>2 DEF HasDetails
<1>4. \/ /\ workflow' = workflow /\ rec' = rec
         /\ pc' = [pc EXCEPT ![c] = "unlock"]
      \/ /\ workflow[order[c]] # NoRecord /\ workflow[order[c]].state = "RETRYING_DETAIL"
         /\ workflow' = [workflow EXCEPT ![order[c]] = n]
         /\ \/ rec' = rec /\ pc' = [pc EXCEPT ![c] = "unlock"]
            \/ rec' = [rec EXCEPT ![c] = n] /\ pc' = [pc EXCEPT ![c] = "fetch"]
  BY <1>1 DEF AdvanceRetrying, TransitionRecord, PutIndexed, Put, Goto, StateIs, records
<1>o. order[c] \in Orders
  BY <1>1, OwnOrder DEF Working
<1>5. RecordAction /\ after' = after
  BY <1>o DEF AdvanceRetrying, TransitionRecord, PutIndexed, AddToChat, KeepsPayment, RecordAction,
             records, IInv, TypeOK
<1> HIDE DEF n
<1> QED
  BY <1>1, <1>2, <1>3, <1>4, <1>5, TransitionStep
     DEF Working, OrderState, Resumable, Terminal, HandedOff

\* The handoff to payment keeps the invariant: the compare-and-set is where an order
\* without an intent becomes one whose intent this poller alone may create.
LEMMA AdvanceReadyStep ==
  ASSUME IInv, NEW c \in Chats, AdvanceReady(c)
  PROVE  IInv'
<1>1. pc[c] = "advance" /\ rec[c].state = "DETAIL_READY" /\ rec[c] \in WfRecord
  BY DEF AdvanceReady, Advances, IInv, LocalInv, HasRecord, TypeOK
<1> DEFINE n == After(rec[c], "HANDOFF_TO_PAYMENT")
<1>2. n \in WfRecord /\ n.state = "PAYMENT_PENDING_EXTERNAL" /\ n.detail = rec[c].detail
  BY <1>1, AfterRecord, TransitionTable DEF OrderState, Resumable, Terminal
<1>3. HasDetails(n)
  BY <1>1, <1>2, NoneAssumption, NoOrderAssumption DEF HasDetails, IInv, DetailInv
<1>4. \/ /\ workflow' = workflow /\ rec' = rec
         /\ pc' = [pc EXCEPT ![c] = "unlock"]
      \/ /\ workflow[order[c]] # NoRecord /\ workflow[order[c]].state = "DETAIL_READY"
         /\ workflow' = [workflow EXCEPT ![order[c]] = n]
         /\ \/ rec' = rec /\ pc' = [pc EXCEPT ![c] = "unlock"]
            \/ rec' = [rec EXCEPT ![c] = n] /\ pc' = [pc EXCEPT ![c] = "create_intent"]
  BY <1>1 DEF AdvanceReady, TransitionRecord, PutIndexed, Put, Goto, StateIs, records
<1>o. order[c] \in Orders
  BY <1>1, OwnOrder DEF Working
<1>5. RecordAction /\ after' = after
  BY <1>o DEF AdvanceReady, TransitionRecord, PutIndexed, AddToChat, KeepsPayment, RecordAction,
             records, IInv, TypeOK
<1>6. order[c] \notin expired
  BY DEF AdvanceReady, Advances
<1> HIDE DEF n
<1> QED
  BY <1>1, <1>2, <1>3, <1>4, <1>5, <1>6, TransitionStep
     DEF Working, OrderState, Resumable, Terminal, HandedOff

\* A successful detail fetch keeps the invariant: the details are stored with the
\* state that promises them.
LEMMA DetailFetchedStep ==
  ASSUME IInv, NEW c \in Chats, DetailFetched(c)
  PROVE  IInv'
<1>1. pc[c] = "fetch" /\ rec[c].state = "DETAIL_FETCHING" /\ rec[c] \in WfRecord
  BY DEF DetailFetched, IInv, LocalInv, HasRecord, TypeOK
<1> DEFINE r == [rec[c] EXCEPT !.detail = TRUE, !.retry = 0]
<1>r. r \in WfRecord /\ r.state = "DETAIL_FETCHING" /\ r.detail = TRUE
  <2> DEFINE q == [rec[c] EXCEPT !.detail = TRUE]
  <2>1. q \in WfRecord /\ q.state = "DETAIL_FETCHING" /\ q.detail = TRUE
    BY <1>1 DEF WfRecord, OrderState, Resumable, Terminal
  <2>2. r = [q EXCEPT !.retry = 0]
    BY <1>1 DEF WfRecord
  <2> HIDE DEF q, r
  <2>3. [q EXCEPT !.retry = 0] \in WfRecord
    BY <2>1, MaxAttemptsAssumption DEF WfRecord, OrderState, Resumable, Terminal
  <2>4. /\ [q EXCEPT !.retry = 0].state = "DETAIL_FETCHING"
        /\ [q EXCEPT !.retry = 0].detail = TRUE
    BY <2>1 DEF WfRecord, OrderState, Resumable, Terminal
  <2> QED
    BY <2>2, <2>3, <2>4
<1> DEFINE n == After(r, "DETAIL_FETCH_OK")
<1> HIDE DEF r
<1>2. n \in WfRecord /\ n.state = "DETAIL_READY" /\ n.detail = r.detail
  BY <1>r, AfterRecord, TransitionTable DEF OrderState, Resumable, Terminal
<1>3. HasDetails(n)
  BY <1>r, <1>2 DEF HasDetails
<1>4. \/ /\ workflow' = workflow /\ rec' = rec
         /\ pc' = [pc EXCEPT ![c] = "unlock"]
      \/ /\ workflow[order[c]] # NoRecord /\ workflow[order[c]].state = "DETAIL_FETCHING"
         /\ workflow' = [workflow EXCEPT ![order[c]] = n]
         /\ \/ rec' = rec /\ pc' = [pc EXCEPT ![c] = "unlock"]
            \/ rec' = [rec EXCEPT ![c] = n] /\ pc' = [pc EXCEPT ![c] = "unlock"]
  BY <1>r DEF DetailFetched, TransitionRecord, PutIndexed, Put, Goto, StateIs, records, r
<1>o. order[c] \in Orders
  BY <1>1, OwnOrder DEF Working
<1>p. \/ chatIndex' = chatIndex
      \/ \E d \in Chats : chatIndex' = [chatIndex EXCEPT ![d] = @ \cup {order[c]}]
  <2>1. \/ chatIndex' = chatIndex
        \/ chatIndex' = [chatIndex EXCEPT ![n.chat] = @ \cup {order[c]}]
    BY DEF DetailFetched, TransitionRecord, PutIndexed, AddToChat, records, r
  <2>2. n.chat \in Chats
    BY <1>2 DEF WfRecord
  <2> QED
    BY <2>1, <2>2
<1>5. RecordAction /\ after' = after
  <2>1. chatIndex' \in [Chats -> SUBSET Orders]
    BY <1>o, <1>p DEF IInv, TypeOK
  <2>2. /\ UNCHANGED <<intents, orderIndex, expired, processing, loop, order, draft>>
        /\ session' = session /\ after' = after
    BY DEF DetailFetched, TransitionRecord, KeepsPayment
  <2> QED
    BY <2>1, <2>2 DEF RecordAction, IInv, TypeOK
<1> HIDE DEF n
<1> QED
  BY <1>1, <1>2, <1>3, <1>4, <1>5, TransitionStep
     DEF Working, OrderState, Resumable, Terminal, HandedOff

\* A detail fetch that fails for good keeps the invariant.
LEMMA DetailFailedStep ==
  ASSUME IInv, NEW c \in Chats, DetailFailed(c)
  PROVE  IInv'
<1>1. pc[c] = "fetch" /\ rec[c].state = "DETAIL_FETCHING" /\ rec[c] \in WfRecord
  BY DEF DetailFailed, IInv, LocalInv, HasRecord, TypeOK
<1> DEFINE n == After(rec[c], "DETAIL_FETCH_FATAL_ERR")
<1>2. n \in WfRecord /\ n.state = "FAILED_DETAIL"
  BY <1>1, AfterRecord, TransitionTable DEF OrderState, Resumable, Terminal
<1>3. HasDetails(n)
  BY <1>2 DEF HasDetails
<1>4. \/ /\ workflow' = workflow /\ rec' = rec
         /\ pc' = [pc EXCEPT ![c] = "unlock"]
      \/ /\ workflow[order[c]] # NoRecord /\ workflow[order[c]].state = "DETAIL_FETCHING"
         /\ workflow' = [workflow EXCEPT ![order[c]] = n]
         /\ \/ rec' = rec /\ pc' = [pc EXCEPT ![c] = "unlock"]
            \/ rec' = [rec EXCEPT ![c] = n] /\ pc' = [pc EXCEPT ![c] = "notify"]
  BY <1>1 DEF DetailFailed, TransitionRecord, PutIndexed, Put, Goto, StateIs, records
<1>o. order[c] \in Orders
  BY <1>1, OwnOrder DEF Working
<1>5. RecordAction /\ after' = after
  BY <1>o DEF DetailFailed, TransitionRecord, PutIndexed, AddToChat, KeepsPayment, RecordAction,
             records, IInv, TypeOK
<1> HIDE DEF n
<1> QED
  BY <1>1, <1>2, <1>3, <1>4, <1>5, TransitionStep
     DEF Working, OrderState, Resumable, Terminal, HandedOff

\* A detail fetch that is to be retried keeps the invariant, its count within bounds.
LEMMA DetailRetryStep ==
  ASSUME IInv, NEW c \in Chats, DetailRetry(c)
  PROVE  IInv'
<1>1. pc[c] = "fetch" /\ rec[c].state = "DETAIL_FETCHING" /\ rec[c] \in WfRecord
  BY DEF DetailRetry, IInv, LocalInv, HasRecord, TypeOK
<1>g. rec[c].retry < MaxAttempts
  BY DEF DetailRetry
<1> DEFINE r == [rec[c] EXCEPT !.retry = @ + 1]
<1>r. r \in WfRecord /\ r.state = "DETAIL_FETCHING"
  BY <1>1, MaxAttemptsAssumption, <1>g DEF WfRecord, OrderState, Resumable, Terminal
<1> DEFINE n == After(r, "DETAIL_FETCH_RETRYABLE_ERR")
<1> HIDE DEF r
<1>2. n \in WfRecord /\ n.state = "RETRYING_DETAIL"
  BY <1>r, AfterRecord, TransitionTable DEF OrderState, Resumable, Terminal
<1>3. HasDetails(n)
  BY <1>2 DEF HasDetails
<1>4. \/ /\ workflow' = workflow /\ rec' = rec
         /\ pc' = [pc EXCEPT ![c] = "unlock"]
      \/ /\ workflow[order[c]] # NoRecord /\ workflow[order[c]].state = "DETAIL_FETCHING"
         /\ workflow' = [workflow EXCEPT ![order[c]] = n]
         /\ \/ rec' = rec /\ pc' = [pc EXCEPT ![c] = "unlock"]
            \/ rec' = [rec EXCEPT ![c] = n] /\ pc' = [pc EXCEPT ![c] = "notify"]
  BY <1>r DEF DetailRetry, TransitionRecord, PutIndexed, Put, Goto, StateIs, records, r
<1>o. order[c] \in Orders
  BY <1>1, OwnOrder DEF Working
<1>p. \/ chatIndex' = chatIndex
      \/ \E d \in Chats : chatIndex' = [chatIndex EXCEPT ![d] = @ \cup {order[c]}]
  <2>1. \/ chatIndex' = chatIndex
        \/ chatIndex' = [chatIndex EXCEPT ![n.chat] = @ \cup {order[c]}]
    BY DEF DetailRetry, TransitionRecord, PutIndexed, AddToChat, records, r
  <2>2. n.chat \in Chats
    BY <1>2 DEF WfRecord
  <2> QED
    BY <2>1, <2>2
<1>5. RecordAction /\ after' = after
  <2>1. chatIndex' \in [Chats -> SUBSET Orders]
    BY <1>o, <1>p DEF IInv, TypeOK
  <2>2. /\ UNCHANGED <<intents, orderIndex, expired, processing, loop, order, draft>>
        /\ session' = session /\ after' = after
    BY DEF DetailRetry, TransitionRecord, KeepsPayment
  <2> QED
    BY <2>1, <2>2 DEF RecordAction, IInv, TypeOK
<1> HIDE DEF n
<1> QED
  BY <1>1, <1>2, <1>3, <1>4, <1>5, TransitionStep
     DEF Working, OrderState, Resumable, Terminal, HandedOff

\* markTimedOut, whose save is unconditional, keeps the invariant from wherever it is
\* called.
LEMMA TimedOutStep ==
  ASSUME IInv, NEW c \in Chats, pc[c] \in {"advance", "fetch"},
         rec[c].state \in Resumable, MarkTimedOut(c), KeepsPayment
  PROVE  IInv'
<1>1. rec[c] \in WfRecord
  BY DEF IInv, LocalInv, HasRecord, TypeOK
<1> DEFINE n == After(rec[c], "ORDER_EXPIRED")
<1>2. n \in WfRecord /\ n.state = "TIMED_OUT"
  BY <1>1, AfterRecord, TransitionTable DEF OrderState, Terminal
<1>3. HasDetails(n) /\ n.state \in HandedOff
  BY <1>2 DEF HasDetails, HandedOff
<1>4. /\ workflow' = workflow \/ workflow' = [workflow EXCEPT ![order[c]] = n]
      /\ rec' = [rec EXCEPT ![c] = n]
      /\ pc' = [pc EXCEPT ![c] = "notify"] \/ pc' = [pc EXCEPT ![c] = "unlock"]
  BY DEF MarkTimedOut, SaveRecord, Put, Goto, records
<1>o. order[c] \in Orders
  BY OwnOrder DEF Working
<1>p. /\ \/ chatIndex' = chatIndex
         \/ chatIndex' = [chatIndex EXCEPT ![n.chat] = @ \cup {order[c]}]
      /\ session' = session \/ session' = [session EXCEPT ![c] = "done"]
  BY DEF MarkTimedOut, SaveRecord, AddToChat, records
<1>q. n.chat \in Chats
  BY <1>2 DEF WfRecord
<1>s. /\ chatIndex' \in [Chats -> SUBSET Orders]
      /\ session' \in [Chats -> {"none", "running", "done"}]
  BY <1>o, <1>p, <1>q, SaveTypes
<1>k. RecordAction
  BY <1>s DEF KeepsPayment, RecordAction
<1>5. /\ RecordAction
      /\ after' \in [Chats -> {"advance", "notify", "unlock"}]
  BY <1>k DEF KeepsPayment, IInv, TypeOK
<1>6. pc[c] \in Working
  BY DEF Working
<1> HIDE DEF n
<1>7. CASE pc' = [pc EXCEPT ![c] = "notify"]
  BY <1>2, <1>3, <1>4, <1>5, <1>6, <1>7, SaveStep
<1>8. CASE pc' = [pc EXCEPT ![c] = "unlock"]
  BY <1>2, <1>3, <1>4, <1>5, <1>6, <1>8, SaveStep
<1> QED
  BY <1>4, <1>7, <1>8

\* An order found expired by advanceWorkflowRecord.
LEMMA AdvanceExpiredStep ==
  ASSUME IInv, NEW c \in Chats, AdvanceExpired(c)
  PROVE  IInv'
<1>1. pc[c] = "advance" /\ rec[c].state \notin Terminal /\ rec[c] \in WfRecord
  BY DEF AdvanceExpired, IInv, LocalInv, HasRecord, TypeOK, IsTerminalOrderState
<1>2. rec[c].state \in Resumable
  BY <1>1 DEF WfRecord, OrderState
<1>3. MarkTimedOut(c) /\ KeepsPayment
  BY DEF AdvanceExpired
<1> QED
  BY <1>1, <1>2, <1>3, TimedOutStep

\* An order found expired by handleDetailFetchError.
LEMMA DetailTimedOutStep ==
  ASSUME IInv, NEW c \in Chats, DetailTimedOut(c)
  PROVE  IInv'
<1>1. pc[c] = "fetch" /\ rec[c].state \in Resumable
  BY DEF DetailTimedOut, IInv, LocalInv, Resumable
<1>2. MarkTimedOut(c) /\ KeepsPayment
  BY DEF DetailTimedOut
<1> QED
  BY <1>1, <1>2, TimedOutStep

\* The save after a notification, of a whole copy that may be old, keeps the
\* invariant.
LEMMA NotifyStateStep ==
  ASSUME IInv, NEW c \in Chats, NotifyState(c)
  PROVE  IInv'
<1>1. pc[c] = "notify" /\ rec[c] \in WfRecord /\ rec[c] # NoRecord /\ pc[c] \in Working
  BY DEF NotifyState, IInv, LocalInv, HasRecord, TypeOK, Working
<1>2. /\ UNCHANGED <<intents, orderIndex, expired, processing, loop, order, draft>>
      /\ after' = [after EXCEPT ![c] = "unlock"]
  BY DEF NotifyState
<1>3. after' \in [Chats -> {"advance", "notify", "unlock"}]
  BY <1>2 DEF IInv, TypeOK
<1>4. after[c] \in {"advance", "notify", "unlock"}
  BY DEF IInv, TypeOK
<1>5. CASE /\ pc' = [pc EXCEPT ![c] = after[c]]
           /\ UNCHANGED <<records, session, rec>>
  <2>1. RecordAction /\ workflow' = workflow /\ rec' = rec
    BY <1>2, <1>5 DEF RecordAction, records, IInv, TypeOK
  <2> QED
    BY <1>1, <1>2, <1>3, <1>4, <1>5, <2>1, PlaceStep DEF SavesCopy
<1>6. CASE SaveRecord(c, [rec[c] EXCEPT !.notified = rec[c].state], after[c], after[c])
  <2> DEFINE n == [rec[c] EXCEPT !.notified = rec[c].state]
  <2>1. n \in WfRecord /\ n.state = rec[c].state /\ n.detail = rec[c].detail
    BY <1>1 DEF WfRecord, OrderState, Resumable, Terminal
  <2>2. HasDetails(n)
    BY <1>1, <2>1, OwnOrder DEF HasDetails
  <2>3. /\ workflow' = workflow \/ workflow' = [workflow EXCEPT ![order[c]] = n]
        /\ rec' = [rec EXCEPT ![c] = n]
        /\ pc' = [pc EXCEPT ![c] = after[c]]
    BY <1>6 DEF SaveRecord, Put, Goto, records
  <2>o. order[c] \in Orders
    BY <1>1, OwnOrder DEF Working
  <2>p. /\ \/ chatIndex' = chatIndex
           \/ chatIndex' = [chatIndex EXCEPT ![n.chat] = @ \cup {order[c]}]
        /\ session' = session \/ session' = [session EXCEPT ![c] = "done"]
    BY <1>6 DEF SaveRecord, AddToChat, records
  <2>q. n.chat \in Chats
    BY <2>1 DEF WfRecord
  <2>s. /\ chatIndex' \in [Chats -> SUBSET Orders]
        /\ session' \in [Chats -> {"none", "running", "done"}]
    BY <2>o, <2>p, <2>q, SaveTypes
  <2>k. RecordAction
    BY <1>2, <2>s DEF RecordAction
  <2>4. \/ n.state \in HandedOff
        \/ /\ ~StateIn(order[c], {"PAYMENT_PENDING_EXTERNAL", "PAID"})
           /\ n.state \notin {"PAYMENT_PENDING_EXTERNAL", "PAID"}
           /\ IntentsExpired(order[c])
    BY <1>1, <2>1 DEF IInv, CopyInv, SavesCopy, IntentsExpired, HandedOff
  <2> HIDE DEF n
  <2> QED
    BY <1>1, <1>2, <1>3, <1>4, <2>k, <2>1, <2>2, <2>3, <2>4, SaveStep
<1> QED
  BY <1>5, <1>6 DEF NotifyState, Goto

\* Loading the order's record, or creating it, keeps the invariant.
LEMMA LoadRecordStep ==
  ASSUME IInv, NEW c \in Chats, LoadRecord(c)
  PROVE  IInv'
<1>1. pc[c] = "get" /\ pc[c] \in Working
  BY DEF LoadRecord, Working
<1>2. order[c] \in Orders
  BY <1>1, OwnOrder
<1>3. UNCHANGED <<intents, orderIndex, expired, processing, loop, order, draft>>
  BY DEF LoadRecord
<1>4. CASE /\ workflow[order[c]] # NoRecord
           /\ rec' = [rec EXCEPT ![c] = workflow[order[c]]]
           /\ pc' = [pc EXCEPT ![c] = "advance"]
           /\ UNCHANGED <<records, session, after>>
  <2>a. RecordAction /\ workflow' = workflow
    BY <1>3, <1>4 DEF RecordAction, records, IInv, TypeOK
  <2>1. workflow' \in [Orders -> MaybeRecord] /\ after' \in [Chats -> {"advance", "notify", "unlock"}]
    BY <1>4, <2>a DEF IInv, TypeOK, MaybeRecord
  <2>2. rec' \in [Chats -> MaybeRecord]
    BY <1>2, <1>4 DEF IInv, TypeOK, MaybeRecord
  <2>3. pc' \in [Chats -> Place]
    BY <1>4 DEF IInv, TypeOK, Place, Working
  <2>4. /\ pc'[c] = "advance" /\ rec'[c] = workflow[order[c]]
        /\ \A d \in Chats \ {c} : rec'[d] = rec[d] /\ pc'[d] = pc[d]
    BY <1>4 DEF IInv, TypeOK
  <2>5. HasDetails(workflow'[order[c]]) /\ HasDetails(rec'[c])
    BY <1>1, <1>4, <2>a, <2>4, OwnOrder
  <2>6. \/ IntentsExpired(order[c])
        \/ workflow'[order[c]] # NoRecord /\ workflow'[order[c]].state \in HandedOff
    BY <1>1, <1>4, <2>a, OwnOrder DEF StateIn
  <2>7. "advance" \in Working \ HasDraft
    BY DEF Working, HasDraft
  <2> QED
    BY <1>1, <1>4, <2>a, <2>1, <2>2, <2>3, <2>4, <2>5, <2>6, <2>7, RecordStep
<1>5. CASE /\ workflow[order[c]] = NoRecord
           /\ SaveRecord(c, NewOrderWorkflowRecord(c), "notify", "unlock")
           /\ after' = [after EXCEPT ![c] = "advance"]
  <2> DEFINE n == NewOrderWorkflowRecord(c)
  <2>1. n \in WfRecord /\ n.state = "DETECTED"
    BY MaxAttemptsAssumption DEF NewOrderWorkflowRecord, WfRecord, OrderState, Resumable, Terminal
  <2>2. HasDetails(n)
    BY <2>1 DEF HasDetails
  <2>3. /\ workflow' = workflow \/ workflow' = [workflow EXCEPT ![order[c]] = n]
        /\ rec' = [rec EXCEPT ![c] = n]
        /\ pc' = [pc EXCEPT ![c] = "notify"] \/ pc' = [pc EXCEPT ![c] = "unlock"]
    BY <1>5 DEF SaveRecord, Put, Goto, records
  <2>o. order[c] \in Orders
    BY <1>1, OwnOrder DEF Working
  <2>p. /\ \/ chatIndex' = chatIndex
           \/ chatIndex' = [chatIndex EXCEPT ![n.chat] = @ \cup {order[c]}]
        /\ session' = session \/ session' = [session EXCEPT ![c] = "done"]
    BY <1>5 DEF SaveRecord, AddToChat, records
  <2>q. n.chat \in Chats
    BY <2>1 DEF WfRecord
  <2>s. /\ chatIndex' \in [Chats -> SUBSET Orders]
        /\ session' \in [Chats -> {"none", "running", "done"}]
    BY <2>o, <2>p, <2>q, SaveTypes
  <2>k. RecordAction
    BY <1>3, <2>s DEF RecordAction
  <2>4. /\ ~StateIn(order[c], {"PAYMENT_PENDING_EXTERNAL", "PAID"})
        /\ n.state \notin {"PAYMENT_PENDING_EXTERNAL", "PAID"}
        /\ IntentsExpired(order[c])
    BY <1>1, <1>5, <2>1, OwnOrder DEF StateIn
  <2>5. after' \in [Chats -> {"advance", "notify", "unlock"}]
    BY <1>5 DEF IInv, TypeOK
  <2> HIDE DEF n
  <2>6. CASE pc' = [pc EXCEPT ![c] = "notify"]
    BY <1>1, <2>k, <2>1, <2>2, <2>3, <2>4, <2>5, <2>6, SaveStep
  <2>7. CASE pc' = [pc EXCEPT ![c] = "unlock"]
    BY <1>1, <2>k, <2>1, <2>2, <2>3, <2>4, <2>5, <2>7, SaveStep
  <2> QED
    BY <2>3, <2>6, <2>7
<1>6. CASE /\ pc' = [pc EXCEPT ![c] = "unlock"]
           /\ UNCHANGED <<records, session, rec, after>>
  <2>a. RecordAction /\ workflow' = workflow /\ rec' = rec
    BY <1>3, <1>6 DEF RecordAction, records, IInv, TypeOK
  <2>1. after' \in [Chats -> {"advance", "notify", "unlock"}]
    BY <1>6 DEF IInv, TypeOK
  <2> QED
    BY <1>1, <1>6, <2>a, <2>1, PlaceStep
<1> QED
  BY <1>4, <1>5, <1>6 DEF LoadRecord, Goto

\* An order found in the middle of its detail fetch.
LEMMA AdvanceFetchingStep ==
  ASSUME IInv, NEW c \in Chats, AdvanceFetching(c)
  PROVE  IInv'
<1>1. /\ pc[c] = "advance" /\ rec[c].state = "DETAIL_FETCHING" /\ rec[c] # NoRecord
      /\ pc[c] \in Working
  BY DEF AdvanceFetching, Advances, IInv, LocalInv, HasRecord, Working
<1>2. /\ RecordAction
      /\ after' \in [Chats -> {"advance", "notify", "unlock"}]
      /\ workflow' = workflow /\ rec' = rec /\ pc' = [pc EXCEPT ![c] = "fetch"]
  BY DEF AdvanceFetching, KeepsPayment, Goto, RecordAction, records, IInv, TypeOK
<1> QED
  BY <1>1, <1>2, PlaceStep

\* An order that needs nothing.
LEMMA AdvanceNothingStep ==
  ASSUME IInv, NEW c \in Chats, AdvanceNothing(c)
  PROVE  IInv'
<1>1. pc[c] \in Working
  BY DEF AdvanceNothing, Working
<1>2. /\ RecordAction
      /\ after' \in [Chats -> {"advance", "notify", "unlock"}]
      /\ workflow' = workflow /\ rec' = rec /\ pc' = [pc EXCEPT ![c] = "unlock"]
  BY DEF AdvanceNothing, KeepsPayment, Goto, RecordAction, records, IInv, TypeOK
<1> QED
  BY <1>1, <1>2, PlaceStep

\* An intent that could not be created.
LEMMA CreateIntentFailsStep ==
  ASSUME IInv, NEW c \in Chats, CreateIntentFails(c)
  PROVE  IInv'
<1>1. pc[c] \in Working
  BY DEF CreateIntentFails, Working
<1>2. /\ RecordAction
      /\ after' \in [Chats -> {"advance", "notify", "unlock"}]
      /\ workflow' = workflow /\ rec' = rec /\ pc' = [pc EXCEPT ![c] = "unlock"]
  BY DEF CreateIntentFails, KeepsPayment, Goto, RecordAction, records, IInv, TypeOK
<1> QED
  BY <1>1, <1>2, PlaceStep

-----------------------------------------------------------------------------
(* Steps on intents *)

\* A step that replaces the goroutine's copy of an intent and moves it.
LEMMA DraftStep ==
  ASSUME IInv, NEW c \in Chats, pc[c] \in Working,
         UNCHANGED <<stores, expired, session, processing, loop, order, rec>>,
         NEW i \in Intent, draft' = [draft EXCEPT ![c] = i],
         NEW k \in {"transfer", "save_intent"}, pc' = [pc EXCEPT ![c] = k],
         after' \in [Chats -> {"advance", "notify", "unlock"}],
         rec[c] # NoRecord, rec[c].state = "PAYMENT_PENDING_EXTERNAL",
         i.order = order[c], intents[i.ref] # NoIntent, intents[i.ref].order = order[c]
  PROVE  IInv'
<1>1. /\ pc'[c] = k /\ draft'[c] = i /\ i # NoIntent
      /\ \A d \in Chats \ {c} : draft'[d] = draft[d] /\ pc'[d] = pc[d]
  BY NoneAssumption, NoOrderAssumption DEF IInv, TypeOK
<1>2. /\ UNCHANGED <<workflow, chatIndex, intents, orderIndex, phase, todo, seen, list>>
      /\ UNCHANGED <<expired, session, processing, order, rec>>
  BY DEF stores, records, loop
<1>3. TypeOK'
  <2>1. draft' \in [Chats -> Intent \cup {NoIntent}]
    BY DEF IInv, TypeOK
  <2>2. pc' \in [Chats -> {"idle", "loop"} \cup Working]
    BY DEF IInv, TypeOK, Working
  <2> QED
    BY <1>2, <2>1, <2>2 DEF IInv, TypeOK
<1>4. LocalInv'
  BY <1>1, <1>2 DEF IInv, LocalInv, HasRecord
<1>5. LockInv'
  BY <1>1, <1>2 DEF IInv, LockInv, Working
<1>6. IndexInv'
  BY <1>1, <1>2 DEF IInv, IndexInv, HasDraft
<1>7. IntentInv'
  BY <1>2 DEF IInv, IntentInv, StateIn
<1>8. CopyInv'
  BY <1>1, <1>2 DEF IInv, CopyInv, StateIn, SavesCopy, HandedOff
<1>9. CreateInv'
  BY <1>1, <1>2 DEF IInv, CreateInv, StateIs, HasIntent
<1>10. DetailInv' /\ AtMostOneIntent'
  BY <1>2 DEF IInv, DetailInv, AtMostOneIntent
<1> QED
  BY <1>3, <1>4, <1>5, <1>6, <1>7, <1>8, <1>9, <1>10 DEF IInv

\* reconcilePaymentPendingExternal keeps the invariant: its copy of the intent is of
\* the order whose lock the poller holds.
LEMMA AdvancePendingStep ==
  ASSUME IInv, NEW c \in Chats, AdvancePending(c)
  PROVE  IInv'
<1>1. /\ pc[c] = "advance" /\ pc[c] \in Working
      /\ rec[c] # NoRecord /\ rec[c].state = "PAYMENT_PENDING_EXTERNAL"
  BY DEF AdvancePending, Advances, Working, IInv, LocalInv, HasRecord
<1>2. /\ UNCHANGED <<stores, expired, session, processing, loop, order, rec>>
      /\ after' \in [Chats -> {"advance", "notify", "unlock"}]
  BY DEF AdvancePending, IInv, TypeOK
<1>3. CASE pc' = [pc EXCEPT ![c] = "unlock"] /\ draft' = draft
  <2>1. RecordAction /\ workflow' = workflow /\ rec' = rec
    BY <1>2, <1>3 DEF RecordAction, stores, records, IInv, TypeOK
  <2> QED
    BY <1>1, <1>2, <1>3, <2>1, PlaceStep
<1>4. CASE /\ Reconcilable(order[c])
           /\ draft' = [draft EXCEPT ![c] = intents[orderIndex[order[c]]]]
           /\ pc' = [pc EXCEPT ![c] = "transfer"]
  <2> DEFINE i == intents[orderIndex[order[c]]]
  <2>1. order[c] \in Orders
    BY <1>1, OwnOrder
  <2>2. orderIndex[order[c]] \in Refs
    BY <1>4, <2>1 DEF Reconcilable, IInv, TypeOK
  <2>3. i # NoIntent /\ i.order = order[c] /\ i.ref = orderIndex[order[c]] /\ i \in Intent
    BY <1>4, <2>1, <2>2 DEF Reconcilable, IInv, IndexInv, TypeOK
  <2>4. intents[i.ref] = i
    BY <2>3
  <2> HIDE DEF i
  <2>5. draft' = [draft EXCEPT ![c] = i]
    BY <1>4 DEF i
  <2> QED
    BY <1>1, <1>2, <1>4, <2>3, <2>4, <2>5, DraftStep
<1> QED
  BY <1>3, <1>4 DEF AdvancePending, Goto

\* An intent stays one when its status and its retry fields change.
LEMMA IntentUpdates ==
  ASSUME NEW i \in Intent
  PROVE  /\ \A s \in IntentStatus :
              /\ [i EXCEPT !.status = s] \in Intent
              /\ [i EXCEPT !.status = s].ref = i.ref
              /\ [i EXCEPT !.status = s].order = i.order
         /\ ScheduleIntentRetry(i) \in Intent
         /\ ScheduleIntentRetry(i).ref = i.ref /\ ScheduleIntentRetry(i).order = i.order
         /\ StopIntentRetry(i) \in Intent
         /\ StopIntentRetry(i).ref = i.ref /\ StopIntentRetry(i).order = i.order
         /\ ClearIntentRetry(i) \in Intent
         /\ ClearIntentRetry(i).ref = i.ref /\ ClearIntentRetry(i).order = i.order
<1>1. ASSUME NEW s \in IntentStatus
      PROVE  /\ [i EXCEPT !.status = s] \in Intent
             /\ [i EXCEPT !.status = s].ref = i.ref
             /\ [i EXCEPT !.status = s].order = i.order
  BY DEF Intent, IntentStatus
<1> DEFINE k == Bump(i.retry)
<1>2. k \in 0..MaxAttempts /\ 0 \in 0..MaxAttempts
  BY MaxAttemptsAssumption DEF Bump, IsExhausted, Intent
<1>3. ScheduleIntentRetry(i) = [i EXCEPT !.retry = k, !.scheduled = TRUE]
  BY DEF ScheduleIntentRetry
<1> HIDE DEF k
<1>4. ASSUME NEW n \in 0..MaxAttempts, NEW b \in BOOLEAN
      PROVE  /\ [i EXCEPT !.retry = n, !.scheduled = b] \in Intent
             /\ [i EXCEPT !.retry = n, !.scheduled = b].ref = i.ref
             /\ [i EXCEPT !.retry = n, !.scheduled = b].order = i.order
  BY MaxAttemptsAssumption DEF Intent, IntentStatus
<1>5. /\ [i EXCEPT !.scheduled = FALSE] \in Intent
      /\ [i EXCEPT !.scheduled = FALSE].ref = i.ref
      /\ [i EXCEPT !.scheduled = FALSE].order = i.order
  BY DEF Intent, IntentStatus
<1>6. ClearIntentRetry(i) = [i EXCEPT !.retry = 0, !.scheduled = FALSE]
  BY DEF ClearIntentRetry
<1>7. StopIntentRetry(i) = [i EXCEPT !.scheduled = FALSE]
  BY DEF StopIntentRetry
<1> QED
  BY <1>1, <1>2, <1>3, <1>4, <1>5, <1>6, <1>7

\* What a transfer request makes of an intent is an intent of the same reference and
\* order.
LEMMA AfterTransferType ==
  ASSUME NEW i \in Intent, NEW t \in TransferOutcome
  PROVE  /\ AfterTransfer(i, t) \in Intent
         /\ AfterTransfer(i, t).ref = i.ref
         /\ AfterTransfer(i, t).order = i.order
<1>1. \E s \in IntentStatus :
        LET j == [i EXCEPT !.status = s]
        IN AfterTransfer(i, t) \in {ScheduleIntentRetry(j), StopIntentRetry(j), ClearIntentRetry(j)}
  BY DEF AfterTransfer, TransferOutcome, IntentStatus
<1>2. PICK s \in IntentStatus :
        LET j == [i EXCEPT !.status = s]
        IN AfterTransfer(i, t) \in {ScheduleIntentRetry(j), StopIntentRetry(j), ClearIntentRetry(j)}
  BY <1>1
<1> DEFINE j == [i EXCEPT !.status = s]
<1>3. j \in Intent /\ j.ref = i.ref /\ j.order = i.order
  BY IntentUpdates
<1>4. AfterTransfer(i, t) \in {ScheduleIntentRetry(j), StopIntentRetry(j), ClearIntentRetry(j)}
  BY <1>2
<1> HIDE DEF j
<1> QED
  BY <1>3, <1>4, IntentUpdates

\* The answer to a transfer request changes the poller's copy alone.
LEMMA AutoTransferStep ==
  ASSUME IInv, NEW c \in Chats, NEW t \in TransferOutcome, AutoTransfer(c, t)
  PROVE  IInv'
<1> DEFINE i == AfterTransfer(draft[c], t)
<1>1. /\ pc[c] = "transfer" /\ pc[c] \in Working
      /\ rec[c] # NoRecord /\ rec[c].state = "PAYMENT_PENDING_EXTERNAL"
  BY DEF AutoTransfer, Working, IInv, LocalInv, HasRecord
<1>2. /\ draft[c] \in Intent /\ draft[c].order = order[c]
      /\ intents[draft[c].ref] # NoIntent /\ intents[draft[c].ref].order = order[c]
  BY <1>1 DEF IInv, IndexInv, HasDraft, TypeOK
<1>3. i \in Intent /\ i.ref = draft[c].ref /\ i.order = draft[c].order
  BY <1>2, AfterTransferType
<1>4. /\ UNCHANGED <<stores, expired, session, processing, loop, order, rec>>
      /\ draft' = [draft EXCEPT ![c] = i]
      /\ pc' = [pc EXCEPT ![c] = "save_intent"]
  BY DEF AutoTransfer, Goto
<1>5. after' \in [Chats -> {"advance", "notify", "unlock"}]
  BY DEF AutoTransfer, IInv, TypeOK
<1> HIDE DEF i
<1> QED
  BY <1>1, <1>2, <1>3, <1>4, <1>5, DraftStep

\* A step that rewrites a stored intent of the same order, and lets at most the
\* goroutine that saves it go on.
LEMMA RewriteStep ==
  ASSUME IInv, NEW r \in Refs, intents[r] # NoIntent,
         NEW i \in Intent, i.ref = r, i.order = intents[r].order,
         intents' = intents \/ intents' = [intents EXCEPT ![r] = i],
         orderIndex' = orderIndex \/ orderIndex' = [orderIndex EXCEPT ![i.order] = r],
         UNCHANGED <<records, expired, session, processing, loop, order, rec, draft>>,
         after' \in [Chats -> {"advance", "notify", "unlock"}],
         \/ pc' = pc
         \/ \E c \in Chats, k \in {"advance", "notify", "unlock"} :
              pc[c] = "save_intent" /\ pc' = [pc EXCEPT ![c] = k]
  PROVE  IInv'
<1>1. \A d \in Chats :
        \/ pc'[d] = pc[d]
        \/ pc[d] = "save_intent" /\ pc'[d] \in {"advance", "notify", "unlock"}
  BY DEF IInv, TypeOK
<1>2. /\ UNCHANGED <<workflow, chatIndex, phase, todo, seen, list>>
      /\ UNCHANGED <<expired, session, processing, order, rec, draft>>
  BY DEF records, loop
<1>3. \A s \in Refs :
        /\ intents'[s] = NoIntent <=> intents[s] = NoIntent
        /\ intents[s] # NoIntent =>
             intents'[s].order = intents[s].order /\ intents'[s].ref = intents[s].ref
  BY NoneAssumption, NoOrderAssumption DEF IInv, TypeOK, IndexInv
<1>4. \A o \in Orders : orderIndex'[o] = orderIndex[o] \/ (o = i.order /\ orderIndex'[o] = r)
  BY DEF IInv, TypeOK
<1>5. TypeOK'
  <2>1. intents' \in [Refs -> Intent \cup {NoIntent}]
    BY DEF IInv, TypeOK
  <2>2. orderIndex' \in [Orders -> Refs \cup {NoRef}]
    BY DEF IInv, TypeOK
  <2>3. pc' \in [Chats -> {"idle", "loop"} \cup Working]
    <3>1. pc \in [Chats -> {"idle", "loop"} \cup Working]
      BY DEF IInv, TypeOK
    <3>2. {"advance", "notify", "unlock"} \subseteq Working
      BY DEF Working
    <3> QED
      BY <3>1, <3>2
  <2>4. TypeOK
    BY DEF IInv
  <2>5. after' \in [Chats -> {"advance", "notify", "unlock"}]
    OBVIOUS
  <2> QED
    BY <1>2, <2>1, <2>2, <2>3, <2>4, <2>5 DEF TypeOK
<1>6. LocalInv'
  BY <1>1, <1>2 DEF IInv, LocalInv, HasRecord
<1>7. LockInv'
  BY <1>1, <1>2 DEF IInv, LockInv, Working
<1>8. IndexInv'
  <2>1. \A s \in Refs : intents'[s] # NoIntent => intents'[s].ref = s
    BY <1>3 DEF IInv, IndexInv
  <2>2. \A o \in Orders : orderIndex'[o] # NoRef =>
          intents'[orderIndex'[o]] # NoIntent /\ intents'[orderIndex'[o]].order = o
    BY <1>3, <1>4 DEF IInv, IndexInv, TypeOK
  <2>3. \A d \in Chats : pc'[d] \in HasDraft =>
          /\ draft[d] # NoIntent /\ draft[d].order = order[d]
          /\ draft[d].ref \in Refs
          /\ intents[draft[d].ref] # NoIntent /\ intents[draft[d].ref].order = order[d]
    BY <1>1 DEF IInv, IndexInv, HasDraft, TypeOK, Intent
  <2> QED
    BY <1>2, <1>3, <2>1, <2>2, <2>3 DEF IndexInv
<1>9. IntentInv'
  BY <1>2, <1>3 DEF IInv, IntentInv, StateIn
<1>10. CopyInv'
  BY <1>1, <1>2, <1>3 DEF IInv, CopyInv, StateIn, SavesCopy
<1>11. CreateInv'
  BY <1>1, <1>2, <1>3 DEF IInv, CreateInv, StateIs, HasIntent
<1>12. DetailInv' /\ AtMostOneIntent'
  BY <1>2, <1>3 DEF IInv, DetailInv, AtMostOneIntent
<1> QED
  BY <1>5, <1>6, <1>7, <1>8, <1>9, <1>10, <1>11, <1>12 DEF IInv

\* The save after a transfer request puts an intent where one of its order was.
LEMMA SaveIntentStep ==
  ASSUME IInv, NEW c \in Chats, SaveIntent(c)
  PROVE  IInv'
<1> DEFINE i == draft[c]
<1>1. pc[c] = "save_intent"
  BY DEF SaveIntent
<1>2. /\ i \in Intent /\ i.ref \in Refs /\ intents[i.ref] # NoIntent
      /\ i.order = intents[i.ref].order
  BY <1>1 DEF IInv, IndexInv, HasDraft, TypeOK, Intent
<1>3. /\ intents' = intents \/ intents' = [intents EXCEPT ![i.ref] = i]
      /\ orderIndex' = orderIndex \/ orderIndex' = [orderIndex EXCEPT ![i.order] = i.ref]
      /\ UNCHANGED <<records, expired, session, processing, loop, order, rec, draft>>
      /\ pc' = [pc EXCEPT ![c] = after[c]]
  BY DEF SaveIntent, SaveIntentKeys, PutIntent, Goto
<1>4. /\ after' \in [Chats -> {"advance", "notify", "unlock"}]
      /\ after[c] \in {"advance", "notify", "unlock"}
  BY DEF SaveIntent, IInv, TypeOK
<1> HIDE DEF i
<1> QED
  BY <1>1, <1>2, <1>3, <1>4, RewriteStep

\* So does a save by the webhook handler or the worker.
LEMMA EventOwnerSavesStep ==
  ASSUME IInv, NEW r \in Refs, EventOwnerSaves(r)
  PROVE  IInv'
<1>1. intents[r] # NoIntent /\ intents[r] \in Intent /\ intents[r].ref = r
  BY DEF EventOwnerSaves, IInv, TypeOK, IndexInv
<1>2. PICK s \in EventStatus, k \in 0..MaxAttempts, b \in BOOLEAN :
        intents' = [intents EXCEPT ![r].status = s, ![r].retry = k, ![r].scheduled = b]
  BY DEF EventOwnerSaves
<1> DEFINE i == [intents[r] EXCEPT !.status = s, !.retry = k, !.scheduled = b]
<1>3. i \in Intent /\ i.ref = r /\ i.order = intents[r].order
  BY <1>1, EventStatusAssumption DEF Intent
<1>4. intents' = [intents EXCEPT ![r] = i]
  BY <1>2 DEF IInv, TypeOK
<1>5. /\ UNCHANGED <<records, expired, session, processing, loop, order, rec, draft>>
      /\ pc' = pc /\ after' = after
      /\ orderIndex' = orderIndex \/ orderIndex' = [orderIndex EXCEPT ![i.order] = r]
  BY <1>3 DEF EventOwnerSaves, local
<1>6. after' \in [Chats -> {"advance", "notify", "unlock"}]
  BY <1>5 DEF IInv, TypeOK
<1> HIDE DEF i
<1> QED
  BY <1>1, <1>3, <1>4, <1>5, <1>6, RewriteStep

\* A step of a goroutine that only draws a new reference for its order.
LEMMA CreateIntentStep ==
  ASSUME IInv, NEW c \in Chats, CreateIntent(c)
  PROVE  IInv'
<1>1. pc[c] = "create_intent" /\ pc[c] \in Working
  BY DEF CreateIntent, Working
<1>2. /\ order[c] \in Orders /\ rec[c] # NoRecord /\ rec[c].state = "PAYMENT_PENDING_EXTERNAL"
      /\ workflow[order[c]] # NoRecord
      /\ workflow[order[c]].state = "PAYMENT_PENDING_EXTERNAL"
      /\ ~HasIntent(order[c])
  BY <1>1, OwnOrder DEF IInv, LocalInv, CreateInv, StateIs, HasRecord
<1>3. PICK r \in Refs :
        LET i == NewIntent(r, order[c])
        IN /\ intents[r] = NoIntent
           /\ \/ intents' = [intents EXCEPT ![r] = i]
              \/ intents' = [intents EXCEPT ![i.ref] = i]
           /\ \/ orderIndex' = orderIndex
              \/ orderIndex' = [orderIndex EXCEPT ![order[c]] = r]
              \/ orderIndex' = [orderIndex EXCEPT ![i.order] = i.ref]
           /\ \/ draft' = [draft EXCEPT ![c] = i] /\ pc' = [pc EXCEPT ![c] = "transfer"]
              \/ draft' = draft /\ pc' = [pc EXCEPT ![c] = "unlock"]
  BY DEF CreateIntent, SaveIntentKeys, PutIntent, Goto
<1> DEFINE i == NewIntent(r, order[c])
<1>4. i \in Intent /\ i # NoIntent /\ i.ref = r /\ i.order = order[c]
  <2>1. 0 \in 0..MaxAttempts /\ "INITIATED" \in IntentStatus
    BY MaxAttemptsAssumption DEF IntentStatus
  <2>2. i \in Intent
    BY <1>2, <2>1 DEF NewIntent, Intent
  <2>3. i.ref = r /\ i.order = order[c]
    BY DEF NewIntent
  <2> QED
    BY <2>2, <2>3, NoneAssumption, NoOrderAssumption
<1> HIDE DEF i
<1>5. /\ intents[r] = NoIntent
      /\ intents' = [intents EXCEPT ![r] = i]
      /\ orderIndex' = orderIndex \/ orderIndex' = [orderIndex EXCEPT ![order[c]] = r]
  BY <1>3, <1>4 DEF i
<1>6. \/ draft' = [draft EXCEPT ![c] = i] /\ pc' = [pc EXCEPT ![c] = "transfer"]
      \/ draft' = draft /\ pc' = [pc EXCEPT ![c] = "unlock"]
  BY <1>3 DEF i
<1>7. /\ UNCHANGED <<workflow, chatIndex, expired, session, processing>>
      /\ UNCHANGED <<phase, todo, seen, list, order, rec, after>>
  BY DEF CreateIntent, records, loop
<1>8. /\ pc'[c] = "transfer" => draft'[c] = i
      /\ pc'[c] \in {"transfer", "unlock"}
      /\ \A d \in Chats \ {c} : draft'[d] = draft[d] /\ pc'[d] = pc[d]
  BY <1>6 DEF IInv, TypeOK
<1>9. \A s \in Refs : intents'[s] = IF s = r THEN i ELSE intents[s]
  BY <1>5 DEF IInv, TypeOK
<1>10. \A o \in Orders : orderIndex'[o] = orderIndex[o] \/ (o = order[c] /\ orderIndex'[o] = r)
  BY <1>5 DEF IInv, TypeOK
<1>11. \A d \in Chats \ {c} : order[d] # NoOrder => order[d] # order[c]
  BY DEF IInv, LockInv
<1>12. TypeOK'
  <2>1. intents' \in [Refs -> Intent \cup {NoIntent}]
    BY <1>4, <1>5 DEF IInv, TypeOK
  <2>2. orderIndex' \in [Orders -> Refs \cup {NoRef}]
    BY <1>5 DEF IInv, TypeOK
  <2>3. pc' \in [Chats -> {"idle", "loop"} \cup Working]
    BY <1>6 DEF IInv, TypeOK, Working
  <2>4. draft' \in [Chats -> Intent \cup {NoIntent}]
    BY <1>4, <1>6 DEF IInv, TypeOK
  <2>5. TypeOK
    BY DEF IInv
  <2> QED
    BY <1>7, <2>1, <2>2, <2>3, <2>4, <2>5 DEF TypeOK
<1>13. LocalInv'
  BY <1>2, <1>7, <1>8 DEF IInv, LocalInv, HasRecord
<1>14. LockInv'
  BY <1>1, <1>7, <1>8 DEF IInv, LockInv, Working
<1>15. IndexInv'
  <2>1. \A s \in Refs : intents'[s] # NoIntent => intents'[s].ref = s
    BY <1>4, <1>9 DEF IInv, IndexInv
  <2>2. \A o \in Orders : orderIndex'[o] # NoRef =>
          intents'[orderIndex'[o]] # NoIntent /\ intents'[orderIndex'[o]].order = o
    BY <1>4, <1>5, <1>9, <1>10 DEF IInv, IndexInv, TypeOK
  <2>3. \A d \in Chats \ {c} : pc[d] \in HasDraft =>
          /\ draft[d] # NoIntent /\ draft[d].order = order[d]
          /\ draft[d].ref \in Refs /\ draft[d].ref # r
          /\ intents[draft[d].ref] # NoIntent /\ intents[draft[d].ref].order = order[d]
    BY <1>5 DEF IInv, IndexInv, TypeOK, Intent
  <2> QED
    BY <1>4, <1>7, <1>8, <1>9, <2>1, <2>2, <2>3 DEF IndexInv, HasDraft
<1>16. IntentInv'
  BY <1>2, <1>4, <1>7, <1>9 DEF IInv, IntentInv, StateIn, HandedOff
<1>17. CopyInv'
  <2> SUFFICES ASSUME NEW d \in Chats, pc'[d] \in SavesCopy, rec[d].state \notin HandedOff
               PROVE  /\ ~StateIn(order[d], {"PAYMENT_PENDING_EXTERNAL", "PAID"})
                      /\ \A s \in Refs : intents'[s] # NoIntent /\ intents'[s].order = order[d]
                           => order[d] \in expired
    BY <1>7 DEF CopyInv, StateIn
  <2>1. d # c
    BY <1>2 DEF HandedOff
  <2>2. pc[d] \in SavesCopy /\ order[d] # order[c]
    BY <1>8, <1>11, <2>1 DEF IInv, LockInv, SavesCopy, Working
  <2> QED
    BY <1>4, <1>9, <2>2 DEF IInv, CopyInv
<1>18. CreateInv'
  <2> SUFFICES ASSUME NEW d \in Chats, pc'[d] = "create_intent"
               PROVE  StateIs(order[d], "PAYMENT_PENDING_EXTERNAL")
                      /\ \A s \in Refs : ~(intents'[s] # NoIntent /\ intents'[s].order = order[d])
    BY <1>7 DEF CreateInv, StateIs, HasIntent
  <2>1. d # c /\ pc[d] = "create_intent" /\ order[d] # order[c]
    BY <1>8, <1>11 DEF IInv, LockInv, Working
  <2> QED
    BY <1>4, <1>9, <2>1 DEF IInv, CreateInv, HasIntent
<1>19. DetailInv'
  BY <1>7 DEF IInv, DetailInv
<1>20. AtMostOneIntent'
  BY <1>2, <1>4, <1>9 DEF IInv, AtMostOneIntent, HasIntent
<1> QED
  BY <1>12, <1>13, <1>14, <1>15, <1>16, <1>17, <1>18, <1>19, <1>20 DEF IInv
-----------------------------------------------------------------------------
(* Loops and locks *)

\* A goroutine between two orders: it holds no lock and no copy, so that only
\* what it lists matters.
LEMMA LoopStep ==
  ASSUME IInv, NEW c \in Chats, pc[c] \notin Working,
         UNCHANGED <<workflow, intents, orderIndex, expired, session, processing, local>>,
         NEW k \in {"idle", "loop"}, pc' = [pc EXCEPT ![c] = k],
         chatIndex' \in [Chats -> SUBSET Orders],
         phase' \in [Chats -> {"orders", "resume"}],
         todo' \in [Chats -> SUBSET Orders], seen' \in [Chats -> SUBSET Orders],
         list' \in [Chats -> [Orders -> MaybeRecord]],
         \A d \in Chats : phase'[d] = "resume" => \A o \in todo'[d] : list'[d][o] # NoRecord,
         \A d \in Chats, o \in Orders : HasDetails(list'[d][o])
  PROVE  IInv'
<1>1. /\ pc'[c] = k /\ k \notin Working
      /\ \A d \in Chats \ {c} : pc'[d] = pc[d]
  BY DEF IInv, TypeOK, Working
<1>2. /\ UNCHANGED <<workflow, intents, orderIndex, expired>>
      /\ UNCHANGED <<session, processing, order, rec, draft, after>>
  BY DEF local
<1>3. \A d \in Chats : pc'[d] \in Working => pc'[d] = pc[d]
  BY <1>1
<1>4. TypeOK'
  <2>1. pc' \in [Chats -> {"idle", "loop"} \cup Working]
    BY DEF IInv, TypeOK
  <2>2. TypeOK
    BY DEF IInv
  <2> QED
    BY <1>2, <2>1, <2>2 DEF TypeOK, MaybeRecord
<1>5. LocalInv'
  <2>1. \A d \in Chats :
          /\ pc'[d] \in HasRecord => rec'[d] # NoRecord
          /\ pc'[d] = "fetch" => rec'[d].state = "DETAIL_FETCHING"
          /\ pc'[d] \in {"create_intent", "transfer", "save_intent"}
               => rec'[d].state = "PAYMENT_PENDING_EXTERNAL"
    BY <1>2, <1>3 DEF IInv, LocalInv, HasRecord, Working
  <2> QED
    BY <2>1 DEF LocalInv
<1>6. LockInv'
  <2>1. \A d \in Chats : pc'[d] \in Working <=> pc[d] \in Working
    BY <1>1
  <2> QED
    BY <1>2, <2>1 DEF IInv, LockInv
<1>7. IndexInv'
  BY <1>2, <1>3 DEF IInv, IndexInv, HasDraft, Working
<1>8. IntentInv'
  BY <1>2 DEF IInv, IntentInv, StateIn
<1>9. CopyInv'
  BY <1>2, <1>3 DEF IInv, CopyInv, StateIn, SavesCopy, Working
<1>10. CreateInv'
  BY <1>2, <1>3 DEF IInv, CreateInv, StateIs, HasIntent, Working
<1>11. DetailInv'
  BY <1>2 DEF IInv, DetailInv
<1>12. AtMostOneIntent'
  BY <1>2 DEF IInv, AtMostOneIntent
<1> QED
  BY <1>4, <1>5, <1>6, <1>7, <1>8, <1>9, <1>10, <1>11, <1>12 DEF IInv

\* The start of a poll keeps the invariant.
LEMMA FetchPendingOrdersStep ==
  ASSUME IInv, NEW c \in Chats, FetchPendingOrders(c)
  PROVE  IInv'
<1>1. /\ pc[c] \notin Working
      /\ pc' = [pc EXCEPT ![c] = "loop"]
      /\ phase' = [phase EXCEPT ![c] = "orders"]
      /\ UNCHANGED <<workflow, intents, orderIndex, expired, session, processing, local>>
      /\ chatIndex' = chatIndex /\ list' = list
  BY DEF FetchPendingOrders, Goto, Working, stores, records
<1>2. PICK items \in SUBSET Orders :
        seen' = [seen EXCEPT ![c] = items] /\ todo' = [todo EXCEPT ![c] = items]
  BY DEF FetchPendingOrders
<1>3. /\ todo' \in [Chats -> SUBSET Orders] /\ seen' \in [Chats -> SUBSET Orders]
      /\ chatIndex' \in [Chats -> SUBSET Orders]
      /\ list' \in [Chats -> [Orders -> MaybeRecord]]
  BY <1>1, <1>2 DEF IInv, TypeOK, MaybeRecord
<1>4. phase' \in [Chats -> {"orders", "resume"}]
  BY <1>1 DEF IInv, TypeOK
<1>5. \A d \in Chats : phase'[d] = "resume" => \A o \in todo'[d] : list'[d][o] # NoRecord
  BY <1>1, <1>2 DEF IInv, LocalInv, TypeOK
<1>6. \A d \in Chats, o \in Orders : HasDetails(list'[d][o])
  BY <1>1 DEF IInv, DetailInv
<1> QED
  BY <1>1, <1>3, <1>4, <1>5, <1>6, LoopStep

\* The end of a poll keeps the invariant.
LEMMA PollEndsStep ==
  ASSUME IInv, NEW c \in Chats, PollEnds(c)
  PROVE  IInv'
<1>1. /\ pc[c] \notin Working
      /\ pc' = [pc EXCEPT ![c] = "idle"]
      /\ UNCHANGED <<workflow, intents, orderIndex, expired, session, processing, local>>
      /\ chatIndex' = chatIndex /\ list' = list /\ phase' = phase /\ todo' = todo /\ seen' = seen
  BY DEF PollEnds, Goto, Working, stores, records, loop
<1>2. /\ todo' \in [Chats -> SUBSET Orders] /\ seen' \in [Chats -> SUBSET Orders]
      /\ chatIndex' \in [Chats -> SUBSET Orders]
      /\ list' \in [Chats -> [Orders -> MaybeRecord]]
      /\ phase' \in [Chats -> {"orders", "resume"}]
  BY <1>1 DEF IInv, TypeOK, MaybeRecord
<1>3. /\ \A d \in Chats : phase'[d] = "resume" => \A o \in todo'[d] : list'[d][o] # NoRecord
      /\ \A d \in Chats, o \in Orders : HasDetails(list'[d][o])
  BY <1>1 DEF IInv, LocalInv, DetailInv
<1> QED
  BY <1>1, <1>2, <1>3, LoopStep

\* The listing of a chat's records keeps the invariant: the copies it makes are older
\* than what is stored from then on, never newer.
LEMMA ListByChatStep ==
  ASSUME IInv, NEW c \in Chats, ListByChat(c)
  PROVE  IInv'
<1> DEFINE found   == {o \in chatIndex[c] : workflow[o] # NoRecord}
           resumed == {o \in found \ seen[c] : ~IsTerminalOrderState(workflow[o].state)}
           listed  == [o \in Orders |-> IF o \in resumed THEN workflow[o] ELSE NoRecord]
<1>1. /\ pc[c] = "loop" /\ pc[c] \notin Working
      /\ UNCHANGED <<workflow, intents, orderIndex, expired, session, processing, local>>
      /\ seen' = [seen EXCEPT ![c] = {}]
  BY DEF ListByChat, Working
<1>2. seen' \in [Chats -> SUBSET Orders]
  BY <1>1 DEF IInv, TypeOK
<1>3. CASE /\ pc' = [pc EXCEPT ![c] = "idle"]
           /\ UNCHANGED <<phase, todo, list, chatIndex>>
  <2>1. /\ todo' \in [Chats -> SUBSET Orders] /\ chatIndex' \in [Chats -> SUBSET Orders]
        /\ list' \in [Chats -> [Orders -> MaybeRecord]]
        /\ phase' \in [Chats -> {"orders", "resume"}]
    BY <1>3 DEF IInv, TypeOK, MaybeRecord
  <2>2. /\ \A d \in Chats : phase'[d] = "resume" => \A o \in todo'[d] : list'[d][o] # NoRecord
        /\ \A d \in Chats, o \in Orders : HasDetails(list'[d][o])
    BY <1>3 DEF IInv, LocalInv, DetailInv
  <2> QED
    BY <1>1, <1>2, <1>3, <2>1, <2>2, LoopStep
<1>4. CASE /\ chatIndex' = [chatIndex EXCEPT ![c] = found]
           /\ todo' = [todo EXCEPT ![c] = resumed]
           /\ list' = [list EXCEPT ![c] = listed]
           /\ phase' = [phase EXCEPT ![c] = "resume"]
           /\ pc' = pc
  <2>1. found \subseteq Orders /\ resumed \subseteq found
    BY DEF IInv, TypeOK
  <2>2. /\ listed \in [Orders -> MaybeRecord]
        /\ \A o \in resumed : listed[o] # NoRecord
        /\ \A o \in Orders : listed[o] = NoRecord \/ listed[o] = workflow[o]
    BY <2>1 DEF IInv, TypeOK, MaybeRecord
  <2> HIDE DEF found, resumed, listed
  <2>3. /\ chatIndex' \in [Chats -> SUBSET Orders] /\ todo' \in [Chats -> SUBSET Orders]
        /\ list' \in [Chats -> [Orders -> MaybeRecord]]
    BY <1>4, <2>1, <2>2 DEF IInv, TypeOK, MaybeRecord
  <2>4. phase' \in [Chats -> {"orders", "resume"}]
    BY <1>4 DEF IInv, TypeOK
  <2>5. \A d \in Chats : phase'[d] = "resume" => \A o \in todo'[d] : list'[d][o] # NoRecord
    BY <1>4, <2>2 DEF IInv, LocalInv, TypeOK
  <2>6. \A d \in Chats, o \in Orders : HasDetails(list'[d][o])
    BY <1>4, <2>2 DEF IInv, DetailInv, TypeOK, HasDetails
  <2>7. pc' = [pc EXCEPT ![c] = "loop"]
    BY <1>1, <1>4 DEF IInv, TypeOK
  <2> QED
    BY <1>1, <1>2, <2>3, <2>4, <2>5, <2>6, <2>7, LoopStep
<1> QED
  BY <1>3, <1>4 DEF ListByChat, Goto

\* A goroutine that takes the lock of an order nobody works on.
LEMMA AcquireStep ==
  ASSUME IInv, NEW c \in Chats, pc[c] = "loop",
         NEW o \in Orders, o \notin processing,
         processing' = processing \cup {o}, order' = [order EXCEPT ![c] = o],
         NEW k \in {"get", "advance"}, pc' = [pc EXCEPT ![c] = k],
         todo' = [todo EXCEPT ![c] = @ \ {o}],
         list' \in [Chats -> [Orders -> MaybeRecord]],
         \A d \in Chats, q \in Orders : <<d, q>> # <<c, o>> => list'[d][q] = list[d][q],
         HasDetails(list'[c][o]),
         NEW r \in MaybeRecord, rec' = [rec EXCEPT ![c] = r], HasDetails(r),
         k = "advance" => r # NoRecord,
         UNCHANGED <<stores, expired, session, phase, seen, draft, after>>
  PROVE  IInv'
<1>1. /\ pc'[c] = k /\ rec'[c] = r /\ order'[c] = o
      /\ \A d \in Chats \ {c} : pc'[d] = pc[d] /\ rec'[d] = rec[d] /\ order'[d] = order[d]
  BY DEF IInv, TypeOK
<1>2. /\ UNCHANGED <<workflow, chatIndex, intents, orderIndex, expired, session>>
      /\ UNCHANGED <<phase, seen, draft, after>>
  BY DEF stores, records
<1>3. order[c] = NoOrder /\ o # NoOrder /\ k \in Working /\ pc[c] \notin Working
  BY NoneAssumption, NoOrderAssumption DEF IInv, LockInv, Working
<1>4. TypeOK'
  <2>1. pc' \in [Chats -> {"idle", "loop"} \cup Working]
    BY <1>3 DEF IInv, TypeOK
  <2>2. rec' \in [Chats -> WfRecord \cup {NoRecord}]
    BY DEF IInv, TypeOK, MaybeRecord
  <2>3. /\ order' \in [Chats -> Orders \cup {NoOrder}] /\ processing' \subseteq Orders
        /\ todo' \in [Chats -> SUBSET Orders]
    BY DEF IInv, TypeOK
  <2>4. TypeOK
    BY DEF IInv
  <2> QED
    BY <1>2, <2>1, <2>2, <2>3, <2>4 DEF TypeOK, MaybeRecord
<1>5. LocalInv'
  <2>1. \A d \in Chats :
          /\ pc'[d] \in HasRecord => rec'[d] # NoRecord
          /\ pc'[d] = "fetch" => rec'[d].state = "DETAIL_FETCHING"
          /\ pc'[d] \in {"create_intent", "transfer", "save_intent"}
               => rec'[d].state = "PAYMENT_PENDING_EXTERNAL"
    BY <1>1 DEF IInv, LocalInv, HasRecord
  <2>2. \A d \in Chats : phase'[d] = "resume" => \A q \in todo'[d] : list'[d][q] # NoRecord
    BY <1>2 DEF IInv, LocalInv, TypeOK
  <2> QED
    BY <2>1, <2>2 DEF LocalInv
<1>6. LockInv'
  <2>1. \A d \in Chats : pc'[d] \in Working <=> order'[d] # NoOrder
    BY <1>1, <1>3 DEF IInv, LockInv
  <2>2. \A d \in Chats : order'[d] # NoOrder => order'[d] \in processing'
    BY <1>1 DEF IInv, LockInv
  <2>3. \A d, e \in Chats : order'[d] # NoOrder /\ order'[d] = order'[e] => d = e
    BY <1>1 DEF IInv, LockInv
  <2> QED
    BY <2>1, <2>2, <2>3 DEF LockInv
<1>7. IndexInv'
  BY <1>1, <1>2 DEF IInv, IndexInv, HasDraft
<1>8. IntentInv'
  BY <1>2 DEF IInv, IntentInv, StateIn
<1>9. CopyInv'
  BY <1>1, <1>2 DEF IInv, CopyInv, StateIn, SavesCopy
<1>10. CreateInv'
  BY <1>1, <1>2 DEF IInv, CreateInv, StateIs, HasIntent
<1>11. DetailInv'
  BY <1>1, <1>2 DEF IInv, DetailInv
<1>12. AtMostOneIntent'
  BY <1>2 DEF IInv, AtMostOneIntent
<1> QED
  BY <1>4, <1>5, <1>6, <1>7, <1>8, <1>9, <1>10, <1>11, <1>12 DEF IInv

\* A goroutine that finds the order locked goes to the next one.
LEMMA SkipStep ==
  ASSUME IInv, NEW c \in Chats, pc[c] = "loop", NEW o \in Orders,
         UNCHANGED <<stores, expired, session, processing, phase, seen, local>>,
         pc' = pc, todo' = [todo EXCEPT ![c] = @ \ {o}],
         list' \in [Chats -> [Orders -> MaybeRecord]],
         \A d \in Chats, q \in Orders : <<d, q>> # <<c, o>> => list'[d][q] = list[d][q],
         HasDetails(list'[c][o])
  PROVE  IInv'
<1>1. /\ UNCHANGED <<workflow, intents, orderIndex, expired, session, processing, local>>
      /\ UNCHANGED <<chatIndex, phase, seen>>
  BY DEF stores, records
<1>2. pc[c] \notin Working /\ pc' = [pc EXCEPT ![c] = "loop"]
  BY DEF IInv, TypeOK, Working
<1>3. /\ todo' \in [Chats -> SUBSET Orders] /\ seen' \in [Chats -> SUBSET Orders]
      /\ chatIndex' \in [Chats -> SUBSET Orders]
      /\ phase' \in [Chats -> {"orders", "resume"}]
  BY <1>1 DEF IInv, TypeOK
<1>4. \A d \in Chats : phase'[d] = "resume" => \A q \in todo'[d] : list'[d][q] # NoRecord
  BY <1>1 DEF IInv, LocalInv, TypeOK
<1>5. \A d \in Chats, q \in Orders : HasDetails(list'[d][q])
  BY DEF IInv, DetailInv
<1> QED
  BY <1>1, <1>2, <1>3, <1>4, <1>5, LoopStep

\* Taking up an order of the exchange's list, or skipping it, keeps the invariant.
LEMMA ProcessPendingOrderStep ==
  ASSUME IInv, NEW c \in Chats, NEW o \in Orders, ProcessPendingOrder(c, o)
  PROVE  IInv'
<1>1. /\ pc[c] = "loop" /\ todo' = [todo EXCEPT ![c] = @ \ {o}]
      /\ UNCHANGED <<stores, expired, session, phase, seen, list, rec, draft, after>>
  BY DEF ProcessPendingOrder, LockOrder
<1>2. /\ list' = list /\ rec' = [rec EXCEPT ![c] = rec[c]]
      /\ rec[c] \in MaybeRecord /\ list' \in [Chats -> [Orders -> MaybeRecord]]
      /\ HasDetails(list'[c][o]) /\ HasDetails(rec[c])
  BY <1>1 DEF IInv, TypeOK, MaybeRecord, DetailInv
<1>3. CASE o \in processing
  <2>1. UNCHANGED <<processing, pc, order>>
    BY <1>3 DEF ProcessPendingOrder, LockOrder
  <2>2. UNCHANGED <<stores, expired, session, processing, phase, seen, local>> /\ pc' = pc
    BY <1>1, <2>1 DEF local
  <2> QED
    BY <1>1, <1>2, <2>2, SkipStep
<1>4. CASE o \notin processing
  <2>1. /\ processing' = processing \cup {o} /\ order' = [order EXCEPT ![c] = o]
        /\ pc' = [pc EXCEPT ![c] = "get"]
    BY <1>4 DEF ProcessPendingOrder, LockOrder, Goto
  <2> QED
    BY <1>1, <1>2, <1>4, <2>1, AcquireStep
<1> QED
  BY <1>3, <1>4

\* Taking up a listed record, or skipping it, keeps the invariant.
LEMMA ResumeWorkflowRecordStep ==
  ASSUME IInv, NEW c \in Chats, NEW o \in Orders, ResumeWorkflowRecord(c, o)
  PROVE  IInv'
<1>1. /\ pc[c] = "loop" /\ todo' = [todo EXCEPT ![c] = @ \ {o}]
      /\ phase[c] = "resume" /\ o \in todo[c]
      /\ UNCHANGED <<stores, expired, session, phase, seen, draft, after>>
      /\ list' = [list EXCEPT ![c][o] = NoRecord]
  BY DEF ResumeWorkflowRecord, LockOrder
<1> DEFINE r == list[c][o]
<1>2. r \in MaybeRecord /\ r # NoRecord /\ HasDetails(r)
  BY <1>1 DEF IInv, TypeOK, MaybeRecord, LocalInv, DetailInv
<1>3. /\ list' \in [Chats -> [Orders -> MaybeRecord]]
      /\ list'[c][o] = NoRecord
      /\ \A d \in Chats, q \in Orders : <<d, q>> # <<c, o>> => list'[d][q] = list[d][q]
  BY <1>1 DEF IInv, TypeOK, MaybeRecord
<1>4. HasDetails(list'[c][o])
  BY <1>3 DEF HasDetails
<1>5. CASE o \in processing
  <2>1. UNCHANGED <<processing, pc, order, rec>>
    BY <1>5 DEF ResumeWorkflowRecord, LockOrder
  <2>2. UNCHANGED <<stores, expired, session, processing, phase, seen, local>> /\ pc' = pc
    BY <1>1, <2>1 DEF local
  <2>3. pc[c] = "loop" /\ todo' = [todo EXCEPT ![c] = @ \ {o}]
    BY <1>1
  <2>4. /\ list' \in [Chats -> [Orders -> MaybeRecord]]
        /\ \A d \in Chats, q \in Orders : <<d, q>> # <<c, o>> => list'[d][q] = list[d][q]
    BY <1>3
  <2> QED
    BY <1>4, <2>2, <2>3, <2>4, SkipStep
<1>6. CASE o \notin processing
  <2>1. /\ processing' = processing \cup {o} /\ order' = [order EXCEPT ![c] = o]
        /\ pc' = [pc EXCEPT ![c] = "advance"] /\ rec' = [rec EXCEPT ![c] = r]
    BY <1>6 DEF ResumeWorkflowRecord, LockOrder, Goto
  <2> HIDE DEF r
  <2> QED
    BY <1>1, <1>2, <1>3, <1>4, <1>6, <2>1, AcquireStep
<1> QED
  BY <1>5, <1>6

\* The deferred unlock keeps the invariant: nobody else held the lock.
LEMMA UnlockOrderStep ==
  ASSUME IInv, NEW c \in Chats, UnlockOrder(c)
  PROVE  IInv'
<1>1. /\ pc[c] = "unlock" /\ processing' = processing \ {order[c]}
      /\ order' = [order EXCEPT ![c] = NoOrder] /\ rec' = [rec EXCEPT ![c] = NoRecord]
      /\ draft' = [draft EXCEPT ![c] = NoIntent] /\ after' = [after EXCEPT ![c] = "unlock"]
      /\ pc' = [pc EXCEPT ![c] = "loop"]
  BY DEF UnlockOrder, Goto
<1>2. /\ UNCHANGED <<workflow, chatIndex, intents, orderIndex, expired, session>>
      /\ UNCHANGED <<phase, todo, seen, list>>
  BY DEF UnlockOrder, stores, records, loop
<1>3. /\ pc'[c] = "loop" /\ rec'[c] = NoRecord /\ order'[c] = NoOrder
      /\ \A d \in Chats \ {c} : /\ pc'[d] = pc[d] /\ rec'[d] = rec[d]
                                /\ order'[d] = order[d] /\ draft'[d] = draft[d]
  BY <1>1 DEF IInv, TypeOK
<1>4. TypeOK'
  <2>1. pc' \in [Chats -> {"idle", "loop"} \cup Working]
    BY <1>1 DEF IInv, TypeOK
  <2>2. /\ rec' \in [Chats -> WfRecord \cup {NoRecord}]
        /\ order' \in [Chats -> Orders \cup {NoOrder}] /\ processing' \subseteq Orders
    BY <1>1 DEF IInv, TypeOK
  <2>3. draft' \in [Chats -> Intent \cup {NoIntent}]
    BY <1>1 DEF IInv, TypeOK
  <2>5. after' \in [Chats -> {"advance", "notify", "unlock"}]
    BY <1>1 DEF IInv, TypeOK
  <2>4. TypeOK
    BY DEF IInv
  <2> QED
    BY <1>2, <2>1, <2>2, <2>3, <2>4, <2>5 DEF TypeOK
<1>5. LocalInv'
  BY <1>2, <1>3 DEF IInv, LocalInv, HasRecord
<1>6. LockInv'
  <2>1. \A d \in Chats \ {c} : order[d] # NoOrder => order[d] # order[c]
    BY DEF IInv, LockInv
  <2>2. \A d \in Chats : pc'[d] \in Working <=> order'[d] # NoOrder
    BY <1>3 DEF IInv, LockInv, Working
  <2>3. \A d \in Chats : order'[d] # NoOrder => order'[d] \in processing'
    BY <1>1, <1>3, <2>1 DEF IInv, LockInv
  <2>4. \A d, e \in Chats : order'[d] # NoOrder /\ order'[d] = order'[e] => d = e
    BY <1>3 DEF IInv, LockInv
  <2> QED
    BY <2>2, <2>3, <2>4 DEF LockInv
<1>7. IndexInv'
  BY <1>2, <1>3 DEF IInv, IndexInv, HasDraft
<1>8. IntentInv'
  BY <1>2 DEF IInv, IntentInv, StateIn
<1>9. CopyInv'
  BY <1>2, <1>3 DEF IInv, CopyInv, StateIn, SavesCopy
<1>10. CreateInv'
  BY <1>2, <1>3 DEF IInv, CreateInv, StateIs, HasIntent
<1>11. DetailInv'
  BY <1>2, <1>3 DEF IInv, DetailInv, HasDetails
<1>12. AtMostOneIntent'
  BY <1>2 DEF IInv, AtMostOneIntent
<1> QED
  BY <1>4, <1>5, <1>6, <1>7, <1>8, <1>9, <1>10, <1>11, <1>12 DEF IInv

-----------------------------------------------------------------------------
(* Sessions, time, the event-driven side and crashes *)

\* A session step, or no step at all, touches nothing else.
LEMMA SessionOnly ==
  ASSUME IInv, session' \in [Chats -> {"none", "running", "done"}],
         UNCHANGED <<stores, expired, processing, pc, loop, local>>
  PROVE  IInv'
<1>1. /\ UNCHANGED <<workflow, chatIndex, intents, orderIndex, expired, processing, pc>>
      /\ UNCHANGED <<phase, todo, seen, list, order, rec, draft, after>>
  BY DEF stores, records, loop, local
<1>2. TypeOK'
  BY <1>1 DEF IInv, TypeOK
<1>3. LocalInv' /\ LockInv' /\ IndexInv'
  BY <1>1 DEF IInv, LocalInv, LockInv, IndexInv
<1>4. IntentInv' /\ CopyInv' /\ CreateInv'
  BY <1>1 DEF IInv, IntentInv, CopyInv, CreateInv, StateIn, StateIs, HasIntent
<1>5. DetailInv' /\ AtMostOneIntent'
  BY <1>1 DEF IInv, DetailInv, AtMostOneIntent
<1> QED
  BY <1>2, <1>3, <1>4, <1>5 DEF IInv

\* The steps of a session touch its context only.
LEMMA SessionStepStep ==
  ASSUME IInv, NEW c \in Chats, SessionStep(c)
  PROVE  IInv'
<1>1. UNCHANGED <<stores, expired, processing, pc, loop, local>>
  BY DEF SessionStep, Schedule, SessionEnds, TaskRemoved
<1>2. session' \in [Chats -> {"none", "running", "done"}]
  BY DEF SessionStep, Schedule, SessionEnds, TaskRemoved, IInv, TypeOK
<1> QED
  BY <1>1, <1>2, SessionOnly

\* Time passing an order's expiry keeps the invariant.
LEMMA ExpireStep ==
  ASSUME IInv, NEW o \in Orders, Expire(o)
  PROVE  IInv'
<1>1. /\ UNCHANGED <<workflow, chatIndex, intents, orderIndex, session, processing, pc>>
      /\ UNCHANGED <<phase, todo, seen, list, order, rec, draft, after>>
      /\ expired' = expired \cup {o}
  BY DEF Expire, stores, records, loop, local
<1>2. TypeOK'
  BY <1>1 DEF IInv, TypeOK
<1>3. LocalInv' /\ LockInv' /\ IndexInv'
  BY <1>1 DEF IInv, LocalInv, LockInv, IndexInv
<1>4. IntentInv' /\ CopyInv' /\ CreateInv'
  BY <1>1 DEF IInv, IntentInv, CopyInv, CreateInv, StateIn, StateIs, HasIntent
<1>5. DetailInv' /\ AtMostOneIntent'
  BY <1>1 DEF IInv, DetailInv, AtMostOneIntent
<1> QED
  BY <1>2, <1>3, <1>4, <1>5 DEF IInv

\* A step of somebody else on the record of an order.
LEMMA WorkflowKeyExpiresStep ==
  ASSUME IInv, NEW o \in Orders, WorkflowKeyExpires(o)
  PROVE  IInv'
<1>1. /\ UNCHANGED <<chatIndex, intents, orderIndex, expired, session, processing, pc>>
      /\ UNCHANGED <<phase, todo, seen, list, order, rec, draft, after>>
      /\ workflow' = [workflow EXCEPT ![o] = NoRecord]
      /\ o \in expired /\ \A c \in Chats : order[c] # o
  BY DEF WorkflowKeyExpires, Put, loop, local
<1>2. \A q \in Orders : workflow'[q] = IF q = o THEN NoRecord ELSE workflow[q]
  BY <1>1 DEF IInv, TypeOK
<1>3. TypeOK'
  <2>1. workflow' \in [Orders -> WfRecord \cup {NoRecord}]
    BY <1>1 DEF IInv, TypeOK
  <2>2. TypeOK
    BY DEF IInv
  <2> QED
    BY <1>1, <2>1, <2>2 DEF TypeOK
<1>4. LocalInv' /\ LockInv' /\ IndexInv'
  BY <1>1 DEF IInv, LocalInv, LockInv, IndexInv
<1>5. IntentInv'
  BY <1>1, <1>2 DEF IInv, TypeOK, Intent, IntentInv, StateIn
<1>6. \A c \in Chats : pc[c] \in Working => workflow'[order[c]] = workflow[order[c]]
  BY <1>1, <1>2 DEF IInv, LockInv, TypeOK
<1>7. CopyInv' /\ CreateInv'
  BY <1>1, <1>6 DEF IInv, CopyInv, CreateInv, StateIn, StateIs, HasIntent, SavesCopy, Working
<1>8. DetailInv' /\ AtMostOneIntent'
  BY <1>1, <1>2 DEF IInv, DetailInv, HasDetails, AtMostOneIntent
<1> QED
  BY <1>3, <1>4, <1>5, <1>7, <1>8 DEF IInv

\* The worker's move of an order to PAID keeps the invariant.
LEMMA WorkerConfirmsStep ==
  ASSUME IInv, NEW o \in Orders, WorkerConfirms(o)
  PROVE  IInv'
<1> DEFINE r == [workflow[o] EXCEPT !.state = "PAID"]
<1>1. /\ workflow[o] # NoRecord /\ workflow[o].state = "PAYMENT_PENDING_EXTERNAL"
      /\ workflow[o] \in WfRecord /\ HasIntent(o)
  BY DEF WorkerConfirms, StateIs, HasIntent, IInv, TypeOK
<1>2. r \in WfRecord /\ r # NoRecord /\ r.state = "PAID" /\ r.detail = workflow[o].detail
  <2>1. r \in WfRecord /\ r.state = "PAID" /\ r.detail = workflow[o].detail
    BY <1>1 DEF WfRecord, OrderState, Terminal
  <2> QED
    BY <2>1, NoneAssumption, NoOrderAssumption
<1>3. HasDetails(r)
  BY <1>1, <1>2 DEF HasDetails, IInv, DetailInv
<1>4. /\ workflow' = [workflow EXCEPT ![o] = r]
      /\ chatIndex' = [chatIndex EXCEPT ![r.chat] = @ \cup {o}]
      /\ UNCHANGED <<intents, orderIndex, expired, session, processing, pc>>
      /\ UNCHANGED <<phase, todo, seen, list, order, rec, draft, after>>
  BY DEF WorkerConfirms, PutIndexed, Put, AddToChat, loop, local
<1> HIDE DEF r
<1>5. \A q \in Orders : workflow'[q] = IF q = o THEN r ELSE workflow[q]
  BY <1>4 DEF IInv, TypeOK
<1>6. TypeOK'
  <2>1. workflow' \in [Orders -> WfRecord \cup {NoRecord}]
    BY <1>2, <1>4 DEF IInv, TypeOK
  <2>2. chatIndex' \in [Chats -> SUBSET Orders]
    <3>1. r.chat \in Chats
      BY <1>2 DEF WfRecord
    <3>2. chatIndex \in [Chats -> SUBSET Orders]
      BY DEF IInv, TypeOK
    <3>3. chatIndex[r.chat] \cup {o} \in SUBSET Orders
      BY <3>1, <3>2
    <3> QED
      BY <1>4, <3>1, <3>2, <3>3
  <2>3. TypeOK
    BY DEF IInv
  <2> QED
    BY <1>4, <2>1, <2>2, <2>3 DEF TypeOK
<1>7. LocalInv' /\ LockInv' /\ IndexInv'
  BY <1>4 DEF IInv, LocalInv, LockInv, IndexInv
<1>8. IntentInv'
  BY <1>2, <1>4, <1>5 DEF IInv, TypeOK, Intent, IntentInv, StateIn, HandedOff
<1>9. CopyInv'
  <2> SUFFICES ASSUME NEW c \in Chats, pc[c] \in SavesCopy, rec[c].state \notin HandedOff
               PROVE  /\ ~(/\ workflow'[order[c]] # NoRecord
                           /\ workflow'[order[c]].state \in {"PAYMENT_PENDING_EXTERNAL", "PAID"})
                      /\ IntentsExpired(order[c])
    BY <1>4 DEF CopyInv, StateIn, IntentsExpired
  <2>1. ~StateIn(order[c], {"PAYMENT_PENDING_EXTERNAL", "PAID"}) /\ IntentsExpired(order[c])
    BY DEF IInv, CopyInv, IntentsExpired
  <2>2. order[c] # o
    BY <1>1, <2>1 DEF StateIn
  <2>3. order[c] \in Orders
    BY OwnOrder DEF SavesCopy, Working
  <2> QED
    BY <1>5, <2>1, <2>2, <2>3 DEF StateIn
<1>10. CreateInv'
  <2>1. \A c \in Chats : pc[c] = "create_intent" => order[c] # o /\ order[c] \in Orders
    BY <1>1, OwnOrder DEF IInv, CreateInv, Working
  <2> QED
    BY <1>4, <1>5, <2>1 DEF IInv, CreateInv, StateIs, HasIntent
<1>11. DetailInv' /\ AtMostOneIntent'
  BY <1>3, <1>4, <1>5 DEF IInv, DetailInv, AtMostOneIntent
<1> QED
  BY <1>6, <1>7, <1>8, <1>9, <1>10, <1>11 DEF IInv

\* After a crash the invariant holds with nothing in memory.
LEMMA CrashStep ==
  ASSUME IInv, Crash
  PROVE  IInv'
<1>1. /\ UNCHANGED <<workflow, chatIndex, intents, orderIndex, expired>>
      /\ \A c \in Chats : /\ pc'[c] = "idle" /\ phase'[c] = "orders"
                          /\ order'[c] = NoOrder /\ rec'[c] = NoRecord
                          /\ \A o \in Orders : list'[c][o] = NoRecord
  BY DEF Crash, EmptyList, stores, records
<1>2. TypeOK'
  BY <1>1 DEF Crash, EmptyList, IInv, TypeOK
<1>3. LocalInv' /\ LockInv' /\ IndexInv'
  BY <1>1 DEF IInv, LocalInv, LockInv, IndexInv, HasRecord, HasDraft, Working
<1>4. IntentInv' /\ CopyInv' /\ CreateInv'
  BY <1>1 DEF IInv, IntentInv, CopyInv, CreateInv, StateIn, SavesCopy
<1>5. DetailInv' /\ AtMostOneIntent'
  BY <1>1 DEF IInv, DetailInv, HasDetails, AtMostOneIntent
<1> QED
  BY <1>2, <1>3, <1>4, <1>5 DEF IInv

\* The invariant holds at the start, with empty stores.
LEMMA InitStep ==
  Init => IInv
<1> SUFFICES ASSUME Init
             PROVE  IInv
  OBVIOUS
<1>1. /\ \A c \in Chats : /\ pc[c] = "idle" /\ phase[c] = "orders"
                          /\ order[c] = NoOrder /\ rec[c] = NoRecord
                          /\ \A o \in Orders : list[c][o] = NoRecord
      /\ \A o \in Orders : workflow[o] = NoRecord /\ orderIndex[o] = NoRef
      /\ \A r \in Refs : intents[r] = NoIntent
  BY DEF Init, InitStores, EmptyList
<1>2. TypeOK
  BY DEF Init, InitStores, EmptyList, TypeOK
<1>3. LocalInv /\ LockInv /\ IndexInv
  BY <1>1 DEF LocalInv, LockInv, IndexInv, HasRecord, HasDraft, Working
<1>4. IntentInv /\ CopyInv /\ CreateInv
  BY <1>1 DEF IntentInv, CopyInv, CreateInv, SavesCopy
<1>5. DetailInv /\ AtMostOneIntent
  BY <1>1 DEF DetailInv, HasDetails, AtMostOneIntent
<1> QED
  BY <1>2, <1>3, <1>4, <1>5 DEF IInv

-----------------------------------------------------------------------------
(* The theorems *)

\* The invariant is inductive: one step for each action of Next.
LEMMA NextStep ==
  ASSUME IInv, [Next]_vars
  PROVE  IInv'
<1>1. ASSUME NEW c \in Chats, PollerLocal(c)
      PROVE  IInv'
  <2>1. CASE FetchPendingOrders(c) \/ ListByChat(c) \/ PollEnds(c) \/ UnlockOrder(c)
    BY <2>1, FetchPendingOrdersStep, ListByChatStep, PollEndsStep, UnlockOrderStep
  <2>2. CASE \E o \in Orders : ProcessPendingOrder(c, o) \/ ResumeWorkflowRecord(c, o)
    BY <2>2, ProcessPendingOrderStep, ResumeWorkflowRecordStep
  <2>3. CASE LoadRecord(c) \/ NotifyState(c) \/ AdvancePending(c)
    BY <2>3, LoadRecordStep, NotifyStateStep, AdvancePendingStep
  <2>4. CASE Advance(c)
    BY <2>4, AdvanceExpiredStep, AdvanceDetectedStep, AdvanceFetchingStep,
       AdvanceRetryingStep, AdvanceReadyStep, AdvanceNothingStep DEF Advance
  <2>5. CASE FetchDetail(c)
    BY <2>5, DetailFetchedStep, DetailFailedStep, DetailRetryStep, DetailTimedOutStep
       DEF FetchDetail
  <2>6. CASE CreateIntent(c) \/ CreateIntentFails(c) \/ SaveIntent(c)
    BY <2>6, CreateIntentStep, CreateIntentFailsStep, SaveIntentStep
  <2> QED
    BY <1>1, <2>1, <2>2, <2>3, <2>4, <2>5, <2>6 DEF PollerLocal
<1>2. ASSUME NEW c \in Chats, PollerStep(c)
      PROVE  IInv'
  BY <1>1, <1>2, AutoTransferStep DEF PollerStep
<1>3. CASE \E c \in Chats : PollerStep(c) \/ SessionStep(c)
  BY <1>2, <1>3, SessionStepStep
<1>4. CASE Time
  BY <1>4, ExpireStep, WorkflowKeyExpiresStep DEF Time
<1>5. CASE EventOwner
  BY <1>5, EventOwnerSavesStep, WorkerConfirmsStep DEF EventOwner
<1>6. CASE Crash
  BY <1>6, CrashStep
<1>7. CASE UNCHANGED vars
  <2>1. session' \in [Chats -> {"none", "running", "done"}]
    BY <1>7 DEF vars, IInv, TypeOK
  <2>2. UNCHANGED <<stores, expired, processing, pc, loop, local>>
    BY <1>7 DEF vars
  <2> QED
    BY <2>1, <2>2, SessionOnly
<1> QED
  BY <1>3, <1>4, <1>5, <1>6, <1>7 DEF Next

\* The invariant holds of every reachable state.
LEMMA Inductive ==
  Spec => []IInv
<1>1. IInv /\ [Next]_vars => IInv'
  BY NextStep
<1> QED
  BY InitStep, <1>1, PTL DEF Spec

\* Every variable keeps its type: in particular no retry count of a record passes
\* MaxAttempts and no goroutine works on an order outside Orders.
THEOREM TypeCorrect ==
  Spec => []TypeOK
<1>1. IInv => TypeOK
  BY DEF IInv
<1> QED
  BY <1>1, Inductive, PTL

\* However many chats poll an order, whatever Redis calls fail and whenever the
\* process dies, initiatePayment leaves at most one payment intent for it.
THEOREM OnlyOneIntent ==
  Spec => []AtMostOneIntent
<1>1. IInv => AtMostOneIntent
  BY DEF IInv
<1> QED
  BY <1>1, Inductive, PTL

\* A transfer is only asked for with the account details of a successful fetch
\* in hand.
THEOREM DetailsBeforeTransfer ==
  Spec => []TransferHasDetails
<1>1. IInv => TransferHasDetails
  <2> SUFFICES ASSUME IInv, NEW c \in Chats, pc[c] \in {"create_intent", "transfer"}
               PROVE  rec[c].detail
    BY DEF TransferHasDetails
  <2>1. rec[c] # NoRecord /\ rec[c].state = "PAYMENT_PENDING_EXTERNAL" /\ HasDetails(rec[c])
    BY DEF IInv, LocalInv, DetailInv, HasRecord
  <2> QED
    BY <2>1 DEF HasDetails
<1> QED
  BY <1>1, Inductive, PTL

\* What HandoffIsNotUndone says of one step.
Kept ==
  \A o \in Orders :
    (workflow[o] # NoRecord /\ workflow[o].state \in {"PAYMENT_PENDING_EXTERNAL", "PAID"})
      => (workflow'[o] = NoRecord \/ workflow'[o].state \in HandedOff)

\* A step that writes one record keeps the handoff when the record it writes is
\* handed off, or the one it overwrites is not.
LEMMA WriteKeeps ==
  ASSUME IInv, NEW o \in Orders, NEW r, workflow' = [workflow EXCEPT ![o] = r],
         r = NoRecord \/ r.state \in HandedOff
           \/ ~StateIn(o, {"PAYMENT_PENDING_EXTERNAL", "PAID"})
  PROVE  Kept
<1>1. \A q \in Orders : workflow'[q] = IF q = o THEN r ELSE workflow[q]
  BY DEF IInv, TypeOK
<1> QED
  BY <1>1 DEF Kept, StateIn, HandedOff

\* A step that writes no record undoes no handoff.
LEMMA SameKeeps ==
  ASSUME workflow' = workflow
  PROVE  Kept
  BY DEF Kept, HandedOff

\* No step of a goroutine undoes a handoff: it compares the stored state first,
\* or the copy it saves is handed off as well.
LEMMA PollerKeeps ==
  ASSUME IInv, NEW c \in Chats, PollerStep(c)
  PROVE  Kept
<1>1. CASE \/ FetchPendingOrders(c) \/ ListByChat(c) \/ PollEnds(c) \/ UnlockOrder(c)
           \/ \E o \in Orders : ProcessPendingOrder(c, o) \/ ResumeWorkflowRecord(c, o)
  BY <1>1, SameKeeps DEF FetchPendingOrders, ListByChat, PollEnds, UnlockOrder,
     ProcessPendingOrder, ResumeWorkflowRecord, stores, records
<1>2. CASE \/ AdvancePending(c) \/ AdvanceFetching(c) \/ AdvanceNothing(c)
           \/ CreateIntent(c) \/ CreateIntentFails(c) \/ SaveIntent(c)
           \/ \E t \in TransferOutcome : AutoTransfer(c, t)
  BY <1>2, SameKeeps DEF AdvancePending, AdvanceFetching, AdvanceNothing, CreateIntent,
     CreateIntentFails, SaveIntent, AutoTransfer, stores, records
<1>3. ASSUME pc[c] \in Working,
             workflow' = workflow
               \/ \E r : /\ workflow' = [workflow EXCEPT ![order[c]] = r]
                         /\ \/ r.state \in HandedOff
                            \/ ~StateIn(order[c], {"PAYMENT_PENDING_EXTERNAL", "PAID"})
      PROVE  Kept
  BY <1>3, OwnOrder, WriteKeeps, SameKeeps
<1>4. CASE LoadRecord(c)
  BY <1>3, <1>4 DEF LoadRecord, SaveRecord, Put, StateIn, records, Working
<1>5. CASE NotifyState(c)
  <2> DEFINE n == [rec[c] EXCEPT !.notified = rec[c].state]
  <2>1. /\ pc[c] = "notify"
        /\ workflow' = workflow \/ workflow' = [workflow EXCEPT ![order[c]] = n]
    BY <1>5 DEF NotifyState, SaveRecord, Put, records
  <2>2. n.state = rec[c].state
    BY <2>1 DEF IInv, TypeOK, LocalInv, HasRecord, WfRecord
  <2>3. \/ n.state \in HandedOff
        \/ ~StateIn(order[c], {"PAYMENT_PENDING_EXTERNAL", "PAID"})
    BY <2>1, <2>2 DEF IInv, CopyInv, SavesCopy
  <2> HIDE DEF n
  <2> QED
    BY <1>3, <2>1, <2>3 DEF Working
<1>6. CASE AdvanceExpired(c) \/ DetailTimedOut(c)
  <2> DEFINE n == After(rec[c], "ORDER_EXPIRED")
  <2>1. /\ pc[c] \in {"advance", "fetch"}
        /\ workflow' = workflow \/ workflow' = [workflow EXCEPT ![order[c]] = n]
    BY <1>6 DEF AdvanceExpired, DetailTimedOut, MarkTimedOut, SaveRecord, Put, records
  <2>2. rec[c] \in WfRecord /\ rec[c].state \in Resumable
    <3>1. rec[c] \in WfRecord
      BY <2>1 DEF IInv, TypeOK, LocalInv, HasRecord
    <3>2. pc[c] = "advance" => rec[c].state \notin Terminal
      BY <1>6 DEF AdvanceExpired, DetailTimedOut, IsTerminalOrderState
    <3>3. pc[c] = "fetch" => rec[c].state \in Resumable
      BY DEF IInv, LocalInv, Resumable
    <3> QED
      BY <2>1, <3>1, <3>2, <3>3 DEF WfRecord, OrderState
  <2>3. n.state \in HandedOff
    BY <2>2, AfterRecord, TransitionTable DEF OrderState, Terminal, HandedOff
  <2> HIDE DEF n
  <2> QED
    BY <1>3, <2>1, <2>3 DEF Working
<1>7. CASE AdvanceDetected(c) \/ AdvanceRetrying(c) \/ AdvanceReady(c)
  BY <1>3, <1>7 DEF AdvanceDetected, AdvanceRetrying, AdvanceReady, Advances,
     TransitionRecord, PutIndexed, Put, StateIs, StateIn, records, Working
<1>8. CASE DetailFetched(c) \/ DetailFailed(c) \/ DetailRetry(c)
  <2>1. pc[c] = "fetch" /\ rec[c].state = "DETAIL_FETCHING" /\ rec[c] \in WfRecord
    BY <1>8 DEF DetailFetched, DetailFailed, DetailRetry, IInv, LocalInv, TypeOK, HasRecord
  <2>2. /\ [rec[c] EXCEPT !.detail = TRUE, !.retry = 0].state = "DETAIL_FETCHING"
        /\ [rec[c] EXCEPT !.retry = @ + 1].state = "DETAIL_FETCHING"
    BY <2>1 DEF WfRecord
  <2>3. \/ workflow' = workflow
        \/ /\ workflow[order[c]] # NoRecord
           /\ workflow[order[c]].state = "DETAIL_FETCHING"
           /\ \E r : workflow' = [workflow EXCEPT ![order[c]] = r]
    BY <1>8, <2>1, <2>2 DEF DetailFetched, DetailFailed, DetailRetry,
       TransitionRecord, PutIndexed, Put, StateIs, records
  <2> QED
    BY <1>3, <2>1, <2>3 DEF StateIn, Working
<1> QED
  BY <1>1, <1>2, <1>4, <1>5, <1>6, <1>7, <1>8
     DEF PollerStep, PollerLocal, Advance, FetchDetail

\* No step of anybody undoes a handoff.
LEMMA HandoffStep ==
  IInv /\ [Next]_vars => [Kept]_vars
<1> SUFFICES ASSUME IInv, Next
             PROVE  Kept
  OBVIOUS
<1>1. ASSUME NEW c \in Chats, SessionStep(c)
      PROVE  Kept
  BY <1>1, SameKeeps DEF SessionStep, Schedule, SessionEnds, TaskRemoved, stores, records
<1>2. ASSUME NEW o \in Orders, Expire(o)
      PROVE  Kept
  BY <1>2, SameKeeps DEF Expire, stores, records
<1>3. ASSUME NEW o \in Orders, WorkflowKeyExpires(o)
      PROVE  Kept
  BY <1>3, WriteKeeps DEF WorkflowKeyExpires, Put
<1>4. ASSUME NEW r \in Refs, EventOwnerSaves(r)
      PROVE  Kept
  BY <1>4, SameKeeps DEF EventOwnerSaves, records
<1>5. ASSUME NEW o \in Orders, WorkerConfirms(o)
      PROVE  Kept
  <2> DEFINE n == [workflow[o] EXCEPT !.state = "PAID"]
  <2>1. workflow' = [workflow EXCEPT ![o] = n]
    BY <1>5 DEF WorkerConfirms, PutIndexed, Put
  <2>2. n.state = "PAID"
    BY <1>5 DEF WorkerConfirms, StateIs, IInv, TypeOK, WfRecord
  <2> HIDE DEF n
  <2> QED
    BY <2>1, <2>2, WriteKeeps DEF HandedOff
<1>6. CASE Crash
  BY <1>6, SameKeeps DEF Crash, stores, records
<1> QED
  BY <1>1, <1>2, <1>3, <1>4, <1>5, <1>6, PollerKeeps DEF Next, Time, EventOwner

\* HandoffIsNotUndone: no write of an older copy takes an order back before its handoff.
THEOREM HandoffStands ==
  Spec => HandoffIsNotUndone
<1>1. IInv /\ [Next]_vars => [Kept]_vars
  BY HandoffStep
<1>2. Kept <=> \A o \in Orders :
        (workflow[o] # NoRecord /\ workflow[o].state \in {"PAYMENT_PENDING_EXTERNAL", "PAID"})
          => (workflow'[o] = NoRecord \/ workflow'[o].state \in HandedOff)
  BY DEF Kept
<1> QED
  BY <1>1, <1>2, Inductive, PTL DEF Spec, HandoffIsNotUndone

-----------------------------------------------------------------------------
(* What the composition with the real handlers and the real worker needs to *)
(* know of a poller: what it writes of an intent, and that it never says of *)
(* an order that it is paid.                                                *)

\* The statuses that a transfer request ends with.
RequestStatus == {"TRANSFER_PENDING", "INSUFFICIENT_FUNDS", "TRANSFER_FAILED"}

DraftInv == \A c \in Chats : pc[c] = "save_intent" => draft[c].status \in RequestStatus

\* A goroutine leaves the intents alone, creates one, or saves its copy.
WritesIntents(c) ==
  \/ intents' = intents
  \/ /\ pc[c] \in Working
     /\ \E r \in Refs : /\ intents[r] = NoIntent
                        /\ intents' = [intents EXCEPT ![r] = NewIntent(r, order[c])]
  \/ pc[c] = "save_intent" /\ intents' = [intents EXCEPT ![draft[c].ref] = draft[c]]

LEMMA PollerWrites ==
  ASSUME IInv, NEW c \in Chats, PollerStep(c)
  PROVE  WritesIntents(c)
<1>1. CASE CreateIntent(c)
  <2>1. PICK r \in Refs :
          /\ intents[r] = NoIntent
          /\ \/ SaveIntentKeys(NewIntent(r, order[c]))
             \/ PutIntent(NewIntent(r, order[c]))
    BY <1>1 DEF CreateIntent
  <2>2. NewIntent(r, order[c]).ref = r
    BY DEF NewIntent
  <2> QED
    BY <1>1, <2>1, <2>2 DEF CreateIntent, WritesIntents, SaveIntentKeys, PutIntent, Working
<1>2. CASE SaveIntent(c)
  BY <1>2 DEF SaveIntent, WritesIntents, SaveIntentKeys, PutIntent
<1>3. CASE \/ FetchPendingOrders(c) \/ ListByChat(c) \/ PollEnds(c) \/ UnlockOrder(c)
           \/ \E o \in Orders : ProcessPendingOrder(c, o) \/ ResumeWorkflowRecord(c, o)
           \/ AdvancePending(c) \/ \E t \in TransferOutcome : AutoTransfer(c, t)
  BY <1>3 DEF FetchPendingOrders, ListByChat, PollEnds, UnlockOrder, ProcessPendingOrder,
     ResumeWorkflowRecord, AdvancePending, AutoTransfer, stores, WritesIntents
<1>4. CASE LoadRecord(c) \/ NotifyState(c) \/ Advance(c) \/ FetchDetail(c) \/ CreateIntentFails(c)
  BY <1>4 DEF LoadRecord, NotifyState, Advance, AdvanceExpired, AdvanceDetected,
     AdvanceFetching, AdvanceRetrying, AdvanceReady, AdvanceNothing, FetchDetail, DetailFetched,
     DetailFailed, DetailRetry, DetailTimedOut, CreateIntentFails, KeepsPayment, WritesIntents
<1> QED
  BY <1>1, <1>2, <1>3, <1>4 DEF PollerStep, PollerLocal

\* What a poller's step writes to the records is its own order's, and then it leaves
\* the intents alone.
LEMMA PollerWritesOne ==
  ASSUME NEW c \in Chats, PollerStep(c)
  PROVE  \/ workflow' = workflow
         \/ intents' = intents /\ \E r : workflow' = [workflow EXCEPT ![order[c]] = r]
<1>1. CASE CreateIntent(c) \/ SaveIntent(c) \/ CreateIntentFails(c)
  BY <1>1 DEF CreateIntent, SaveIntent, CreateIntentFails, records
<1>2. CASE \/ FetchPendingOrders(c) \/ ListByChat(c) \/ PollEnds(c) \/ UnlockOrder(c)
           \/ \E o \in Orders : ProcessPendingOrder(c, o) \/ ResumeWorkflowRecord(c, o)
           \/ AdvancePending(c) \/ \E t \in TransferOutcome : AutoTransfer(c, t)
  BY <1>2 DEF FetchPendingOrders, ListByChat, PollEnds, UnlockOrder, ProcessPendingOrder,
     ResumeWorkflowRecord, AdvancePending, AutoTransfer, stores, records
<1>3. CASE LoadRecord(c) \/ NotifyState(c) \/ Advance(c) \/ FetchDetail(c)
  <2>1. intents' = intents
    BY <1>3 DEF LoadRecord, NotifyState, Advance, AdvanceExpired, AdvanceDetected,
       AdvanceFetching, AdvanceRetrying, AdvanceReady, AdvanceNothing, FetchDetail,
       DetailFetched, DetailFailed, DetailRetry, DetailTimedOut, KeepsPayment
  <2>2. ASSUME NEW r, NEW ok, NEW failed, SaveRecord(c, r, ok, failed)
        PROVE  workflow' = workflow \/ \E q : workflow' = [workflow EXCEPT ![order[c]] = q]
    BY <2>2 DEF SaveRecord, Put, records
  <2>3. ASSUME NEW r, NEW e, NEW ok, TransitionRecord(c, r, e, ok)
        PROVE  workflow' = workflow \/ \E q : workflow' = [workflow EXCEPT ![order[c]] = q]
    BY <2>3 DEF TransitionRecord, PutIndexed, Put, records
  <2>4. CASE LoadRecord(c) \/ NotifyState(c)
    BY <2>1, <2>2, <2>4 DEF LoadRecord, NotifyState, records
  <2>5. CASE Advance(c)
    BY <2>1, <2>2, <2>3, <2>5 DEF Advance, AdvanceExpired, AdvanceDetected, AdvanceFetching,
       AdvanceRetrying, AdvanceReady, AdvanceNothing, MarkTimedOut, records
  <2>6. CASE FetchDetail(c)
    BY <2>1, <2>2, <2>3, <2>6 DEF FetchDetail, DetailFetched, DetailFailed, DetailRetry,
       DetailTimedOut, MarkTimedOut
  <2> QED
    BY <1>3, <2>4, <2>5, <2>6
<1> QED
  BY <1>1, <1>2, <1>3 DEF PollerStep, PollerLocal

LEMMA DraftKept ==
  ASSUME IInv, DraftInv, [Next]_vars
  PROVE  DraftInv'
<1>1. ASSUME NEW c \in Chats, NEW t \in TransferOutcome, AutoTransfer(c, t)
      PROVE  DraftInv'
  <2>1. draft[c] \in Intent
    BY <1>1 DEF AutoTransfer, IInv, TypeOK, IndexInv, HasDraft
  <2>2. AfterTransfer(draft[c], t).status \in RequestStatus
    BY <2>1, t \in TransferOutcome DEF TransferOutcome, AfterTransfer, ScheduleIntentRetry,
       StopIntentRetry, ClearIntentRetry, Intent, RequestStatus
  <2>3. draft'[c] = AfterTransfer(draft[c], t)
    BY <1>1 DEF AutoTransfer, IInv, TypeOK
  <2>4. \A d \in Chats \ {c} : draft'[d] = draft[d] /\ pc'[d] = pc[d]
    BY <1>1 DEF AutoTransfer, Goto, IInv, TypeOK
  <2> QED
    BY <2>2, <2>3, <2>4 DEF DraftInv
<1>2. ASSUME NEW c \in Chats, PollerLocal(c)
      PROVE  DraftInv'
  <2>1. \A d \in Chats : pc'[d] = "save_intent" => pc[d] = "save_intent" /\ draft'[d] = draft[d]
    <3>1. CASE FetchPendingOrders(c) \/ ListByChat(c) \/ PollEnds(c) \/ UnlockOrder(c)
      BY <3>1 DEF FetchPendingOrders, ListByChat, PollEnds, UnlockOrder, Goto, local, IInv, TypeOK
    <3>2. CASE \E o \in Orders : ProcessPendingOrder(c, o) \/ ResumeWorkflowRecord(c, o)
      BY <3>2 DEF ProcessPendingOrder, ResumeWorkflowRecord, LockOrder, Goto, IInv, TypeOK
    <3>3. CASE AdvancePending(c) \/ CreateIntent(c) \/ SaveIntent(c)
      BY <3>3 DEF AdvancePending, CreateIntent, SaveIntent, Goto, IInv, TypeOK
    <3>4. CASE LoadRecord(c) \/ NotifyState(c)
      BY <3>4 DEF LoadRecord, NotifyState, SaveRecord, Goto, IInv, TypeOK
    <3>5. CASE Advance(c)
      BY <3>5 DEF Advance, AdvanceExpired, AdvanceDetected,
         AdvanceFetching, AdvanceRetrying, AdvanceReady, AdvanceNothing, MarkTimedOut, SaveRecord,
         TransitionRecord, KeepsPayment, Goto, IInv, TypeOK
    <3>6. CASE FetchDetail(c) \/ CreateIntentFails(c)
      BY <3>6 DEF FetchDetail, DetailFetched, DetailFailed, DetailRetry, DetailTimedOut,
         CreateIntentFails, MarkTimedOut, SaveRecord, TransitionRecord, KeepsPayment, Goto,
         IInv, TypeOK
    <3> QED
      BY <1>2, <3>1, <3>2, <3>3, <3>4, <3>5, <3>6 DEF PollerLocal
  <2> QED
    BY <2>1 DEF DraftInv
<1>3. CASE Crash
  BY <1>3 DEF Crash, DraftInv
<1>4. CASE (\E c \in Chats : SessionStep(c)) \/ Time \/ EventOwner \/ UNCHANGED vars
  BY <1>4 DEF SessionStep, Schedule, SessionEnds, TaskRemoved, Time, Expire, WorkflowKeyExpires,
     EventOwner, EventOwnerSaves, WorkerConfirms, local, vars, DraftInv
<1> QED
  BY <1>1, <1>2, <1>3, <1>4 DEF Next, PollerStep

\* Wherever a record is, in the store or in a copy that may be saved, it says PAID
\* of an order of S alone.
PaidOnly(S) ==
  /\ \A o \in Orders : StateIs(o, "PAID") => o \in S
  /\ \A c \in Chats : (pc[c] \in HasRecord /\ rec[c].state = "PAID") => order[c] \in S
  /\ \A c \in Chats, o \in Orders : list[c][o] # NoRecord => list[c][o].state # "PAID"

\* A goroutine that writes, or keeps as its copy, a record that may say so.
LEMMA PaidWriteStep ==
  ASSUME IInv, NEW S, PaidOnly(S), NEW c \in Chats, pc[c] \in Working,
         UNCHANGED <<order, list>>,
         NEW r, r.state = "PAID" => order[c] \in S,
         workflow' = workflow \/ workflow' = [workflow EXCEPT ![order[c]] = r],
         rec' = rec \/ rec' = [rec EXCEPT ![c] = r],
         NEW k, pc' = [pc EXCEPT ![c] = k],
         k \in HasRecord => pc[c] \in HasRecord \/ rec' = [rec EXCEPT ![c] = r]
  PROVE  PaidOnly(S)'
<1>1. \A o \in Orders : workflow'[o] = workflow[o] \/ (o = order[c] /\ workflow'[o] = r)
  BY DEF IInv, TypeOK
<1>2. \A o \in Orders : StateIs(o, "PAID")' => o \in S
  BY <1>1 DEF PaidOnly, StateIs
<1>3. ASSUME NEW d \in Chats, pc'[d] \in HasRecord, rec'[d].state = "PAID"
      PROVE  order[d] \in S
  <2>1. CASE d = c
    BY <1>3, <2>1 DEF PaidOnly, IInv, TypeOK
  <2>2. CASE d # c
    BY <1>3, <2>2 DEF PaidOnly, IInv, TypeOK
  <2> QED
    BY <2>1, <2>2
<1> QED
  BY <1>2, <1>3 DEF PaidOnly

\* The transitions of the handlers below move the record they are applied to.
LEMMA PaidTransition ==
  ASSUME IInv, NEW S, PaidOnly(S), NEW c \in Chats, pc[c] \in Working,
         NEW r \in WfRecord, NEW e, NEW l, After(r, e).state # "PAID",
         TransitionRecord(c, r, e, l), UNCHANGED <<order, list>>
  PROVE  PaidOnly(S)'
<1> DEFINE n == After(r, e)
<1>1. /\ n.state # "PAID"
      /\ workflow' = workflow \/ workflow' = [workflow EXCEPT ![order[c]] = n]
      /\ \/ rec' = rec /\ pc' = [pc EXCEPT ![c] = "unlock"]
         \/ rec' = [rec EXCEPT ![c] = n] /\ pc' = [pc EXCEPT ![c] = l]
  BY DEF TransitionRecord, PutIndexed, Put, Goto, records
<1> HIDE DEF n
<1>2. "unlock" \notin HasRecord
  BY DEF HasRecord
<1> QED
  BY <1>1, <1>2, PaidWriteStep

\* An unconditional save of the copy, or of the record put in its place.
LEMMA PaidSave ==
  ASSUME IInv, NEW S, PaidOnly(S), NEW c \in Chats, pc[c] \in Working,
         NEW r, r.state = "PAID" => order[c] \in S, NEW k, NEW l,
         SaveRecord(c, r, k, l), UNCHANGED <<order, list>>
  PROVE  PaidOnly(S)'
<1>1. /\ workflow' = workflow \/ workflow' = [workflow EXCEPT ![order[c]] = r]
      /\ rec' = [rec EXCEPT ![c] = r]
      /\ pc' = [pc EXCEPT ![c] = k] \/ pc' = [pc EXCEPT ![c] = l]
  BY DEF SaveRecord, Put, Goto, records
<1> QED
  BY <1>1, PaidWriteStep

\* No step of a goroutine marks an order paid.
LEMMA PollerPaysNothing ==
  ASSUME IInv, NEW S, PaidOnly(S), NEW c \in Chats, PollerStep(c)
  PROVE  PaidOnly(S)'
<1>1. CASE FetchPendingOrders(c) \/ PollEnds(c) \/ UnlockOrder(c)
  <2>1. /\ workflow' = workflow /\ list' = list
        /\ \A d \in Chats : pc'[d] \in HasRecord
             => pc[d] \in HasRecord /\ rec'[d] = rec[d] /\ order'[d] = order[d]
    BY <1>1 DEF FetchPendingOrders, PollEnds, UnlockOrder, Goto, IInv, TypeOK, stores, records,
       loop, local, HasRecord
  <2> QED
    BY <2>1 DEF PaidOnly, StateIs
<1>2. CASE ListByChat(c)
  <2>1. /\ workflow' = workflow /\ order' = order /\ rec' = rec
        /\ \A d \in Chats : pc'[d] \in HasRecord => pc[d] \in HasRecord
    BY <1>2 DEF ListByChat, Goto, local, IInv, TypeOK, HasRecord
  <2>2. ASSUME NEW d \in Chats, NEW o \in Orders, list'[d][o] # NoRecord
        PROVE  list'[d][o].state # "PAID"
    <3>1. \/ list'[d][o] = list[d][o]
          \/ list'[d][o] = workflow[o] /\ ~IsTerminalOrderState(workflow[o].state)
      <4>1. CASE d # c
        BY <1>2, <4>1 DEF ListByChat, IInv, TypeOK
      <4>2. CASE list' = list
        BY <4>2
      <4>3. ASSUME NEW resumed, list' = [list EXCEPT ![c] =
                      [q \in Orders |-> IF q \in resumed THEN workflow[q] ELSE NoRecord]],
                   \A q \in resumed : ~IsTerminalOrderState(workflow[q].state),
                   d = c
            PROVE  list'[d][o] = workflow[o] /\ ~IsTerminalOrderState(workflow[o].state)
        <5>1. list'[d][o] = IF o \in resumed THEN workflow[o] ELSE NoRecord
          BY <4>3 DEF IInv, TypeOK
        <5> QED
          BY <2>2, <4>3, <5>1
      <4>4. \/ list' = list
            \/ \E resumed :
                 /\ list' = [list EXCEPT ![c] =
                      [q \in Orders |-> IF q \in resumed THEN workflow[q] ELSE NoRecord]]
                 /\ \A q \in resumed : ~IsTerminalOrderState(workflow[q].state)
        <5> DEFINE res == {q \in {q \in chatIndex[c] : workflow[q] # NoRecord} \ seen[c] :
                            ~IsTerminalOrderState(workflow[q].state)}
        <5>1. \/ list' = list
              \/ list' = [list EXCEPT ![c] =
                      [q \in Orders |-> IF q \in res THEN workflow[q] ELSE NoRecord]]
          BY <1>2 DEF ListByChat
        <5>2. \A q \in res : ~IsTerminalOrderState(workflow[q].state)
          OBVIOUS
        <5> HIDE DEF res
        <5> QED
          BY <5>1, <5>2
      <4> QED
        BY <4>1, <4>2, <4>3, <4>4
    <3> QED
      BY <2>2, <3>1 DEF PaidOnly, IsTerminalOrderState, Terminal
  <2> QED
    BY <2>1, <2>2 DEF PaidOnly, StateIs
<1>3. ASSUME NEW o \in Orders, ProcessPendingOrder(c, o)
      PROVE  PaidOnly(S)'
  <2>1. /\ workflow' = workflow /\ rec' = rec /\ list' = list
        /\ \A d \in Chats : pc'[d] \in HasRecord => pc[d] \in HasRecord /\ order'[d] = order[d]
    BY <1>3 DEF ProcessPendingOrder, LockOrder, Goto, stores, records, IInv, TypeOK, HasRecord
  <2> QED
    BY <2>1 DEF PaidOnly, StateIs
<1>4. ASSUME NEW o \in Orders, ResumeWorkflowRecord(c, o)
      PROVE  PaidOnly(S)'
  <2>1. /\ workflow' = workflow
        /\ \A d \in Chats, q \in Orders : list'[d][q] = list[d][q] \/ list'[d][q] = NoRecord
        /\ \A d \in Chats \ {c} : pc'[d] = pc[d] /\ rec'[d] = rec[d] /\ order'[d] = order[d]
    BY <1>4 DEF ResumeWorkflowRecord, LockOrder, Goto, stores, records, IInv, TypeOK
  <2>2. \/ rec'[c] = list[c][o]
        \/ pc'[c] = pc[c]
    BY <1>4 DEF ResumeWorkflowRecord, LockOrder, IInv, TypeOK
  <2>3. list[c][o] # NoRecord /\ pc[c] = "loop"
    BY <1>4 DEF ResumeWorkflowRecord, IInv, LocalInv
  <2> QED
    BY <2>1, <2>2, <2>3 DEF PaidOnly, StateIs, HasRecord
<1>5. CASE LoadRecord(c)
  <2>1. pc[c] = "get" /\ UNCHANGED <<order, list>> /\ pc[c] \in Working
    BY <1>5 DEF LoadRecord, loop, Working
  <2>2. CASE SaveRecord(c, NewOrderWorkflowRecord(c), "notify", "unlock")
    <3>1. NewOrderWorkflowRecord(c).state # "PAID"
      BY DEF NewOrderWorkflowRecord
    <3> QED
      BY <2>1, <2>2, <3>1, PaidSave
  <2>3. CASE /\ workflow[order[c]] # NoRecord /\ rec' = [rec EXCEPT ![c] = workflow[order[c]]]
             /\ workflow' = workflow /\ pc' = [pc EXCEPT ![c] = "advance"]
    <3>1. workflow[order[c]].state = "PAID" => order[c] \in S
      BY <2>1, <2>3, OwnOrder DEF PaidOnly, StateIs
    <3> QED
      BY <2>1, <2>3, <3>1, PaidWriteStep
  <2>4. CASE workflow' = workflow /\ rec' = rec /\ pc' = [pc EXCEPT ![c] = "unlock"]
    BY <2>1, <2>4 DEF PaidOnly, StateIs, HasRecord, IInv, TypeOK
  <2> QED
    BY <1>5, <2>2, <2>3, <2>4 DEF LoadRecord, Goto, records
<1>6. CASE NotifyState(c)
  <2>1. /\ pc[c] = "notify" /\ UNCHANGED <<order, list>> /\ pc[c] \in Working
        /\ rec[c] \in WfRecord
    BY <1>6 DEF NotifyState, loop, Working, IInv, LocalInv, TypeOK, HasRecord
  <2>2. rec[c].state = "PAID" => order[c] \in S
    BY <2>1 DEF PaidOnly, HasRecord
  <2>3. [rec[c] EXCEPT !.notified = rec[c].state].state = rec[c].state
    BY <2>1 DEF WfRecord
  <2>4. CASE SaveRecord(c, [rec[c] EXCEPT !.notified = rec[c].state], after[c], after[c])
    BY <2>1, <2>2, <2>3, <2>4, PaidSave
  <2>5. CASE workflow' = workflow /\ rec' = rec /\ pc' = [pc EXCEPT ![c] = after[c]]
    BY <2>1, <2>5 DEF PaidOnly, StateIs, HasRecord, IInv, TypeOK
  <2> QED
    BY <1>6, <2>4, <2>5 DEF NotifyState, Goto, records
<1>7. CASE Advance(c) \/ FetchDetail(c)
  <2>1. /\ pc[c] \in {"advance", "fetch"} /\ UNCHANGED <<order, list>> /\ pc[c] \in Working
        /\ rec[c] \in WfRecord
        /\ pc[c] = "fetch" => rec[c].state = "DETAIL_FETCHING"
    <3>1. pc[c] \in {"advance", "fetch"} /\ UNCHANGED <<order, list>>
      BY <1>7 DEF Advance, AdvanceExpired, AdvanceDetected, AdvanceFetching, AdvanceRetrying,
         AdvanceReady, AdvanceNothing, Advances, FetchDetail, DetailFetched, DetailFailed,
         DetailRetry, DetailTimedOut, KeepsPayment, loop
    <3> QED
      BY <3>1 DEF IInv, LocalInv, TypeOK, HasRecord, Working
  <2>2. CASE AdvanceExpired(c) \/ DetailTimedOut(c)
    <3>1. rec[c].state \in Resumable
      BY <2>1, <2>2 DEF AdvanceExpired, DetailTimedOut, IsTerminalOrderState, WfRecord, OrderState,
         Resumable
    <3>2. After(rec[c], "ORDER_EXPIRED").state # "PAID"
      BY <2>1, <3>1, TransitionTable, AfterRecord DEF OrderState, Terminal
    <3>3. SaveRecord(c, After(rec[c], "ORDER_EXPIRED"), "notify", "unlock")
      BY <2>2 DEF AdvanceExpired, DetailTimedOut, MarkTimedOut
    <3> QED
      BY <2>1, <3>2, <3>3, PaidSave
  <2>3. ASSUME NEW r \in WfRecord, NEW e, NEW l, TransitionRecord(c, r, e, l),
               ApplyOrderEvent(r.state, e) \in OrderState \ {"PAID"}
        PROVE  PaidOnly(S)'
    BY <2>1, <2>3, AfterRecord, PaidTransition
  <2>4. CASE AdvanceDetected(c) \/ AdvanceRetrying(c) \/ AdvanceReady(c)
    <3>1. \/ rec[c].state = "DETECTED" /\ TransitionRecord(c, rec[c], "ORDER_INGESTED", "fetch")
          \/ /\ rec[c].state = "RETRYING_DETAIL"
             /\ TransitionRecord(c, rec[c], "RETRY_TIMER_FIRED", "fetch")
          \/ /\ rec[c].state = "DETAIL_READY"
             /\ TransitionRecord(c, rec[c], "HANDOFF_TO_PAYMENT", "create_intent")
      BY <2>4 DEF AdvanceDetected, AdvanceRetrying, AdvanceReady, Advances
    <3> QED
      BY <2>1, <2>3, <3>1, TransitionTable DEF OrderState, Resumable
  <2>6. CASE DetailFetched(c) \/ DetailFailed(c) \/ DetailRetry(c)
    <3>1. pc[c] = "fetch" /\ rec[c].state = "DETAIL_FETCHING"
      BY <2>1, <2>6 DEF DetailFetched, DetailFailed, DetailRetry
    <3>2. ASSUME NEW r \in WfRecord, r.state = "DETAIL_FETCHING",
                 \/ TransitionRecord(c, r, "DETAIL_FETCH_OK", "unlock")
                 \/ TransitionRecord(c, r, "DETAIL_FETCH_FATAL_ERR", "notify")
                 \/ TransitionRecord(c, r, "DETAIL_FETCH_RETRYABLE_ERR", "notify")
          PROVE  PaidOnly(S)'
      BY <2>3, <3>2, TransitionTable DEF OrderState, Resumable, Terminal
    <3>3. /\ [rec[c] EXCEPT !.detail = TRUE, !.retry = 0] \in WfRecord
          /\ [rec[c] EXCEPT !.detail = TRUE, !.retry = 0].state = "DETAIL_FETCHING"
      <4>1. 0 \in 0..MaxAttempts
        BY MaxAttemptsAssumption
      <4>2. [rec[c] EXCEPT !.detail = TRUE] \in WfRecord
        BY <2>1, Zenon DEF WfRecord
      <4> QED
        BY <2>1, <3>1, <4>1, <4>2 DEF WfRecord
    <3>4. rec[c].retry < MaxAttempts =>
            /\ [rec[c] EXCEPT !.retry = @ + 1] \in WfRecord
            /\ [rec[c] EXCEPT !.retry = @ + 1].state = "DETAIL_FETCHING"
      BY <2>1, <3>1, MaxAttemptsAssumption DEF WfRecord
    <3>5. CASE DetailFetched(c)
      BY <3>2, <3>3, <3>5 DEF DetailFetched
    <3>6. CASE DetailFailed(c)
      BY <2>1, <3>1, <3>2, <3>6 DEF DetailFailed
    <3>7. CASE DetailRetry(c)
      BY <3>2, <3>4, <3>7 DEF DetailRetry
    <3> QED
      BY <2>6, <3>5, <3>6, <3>7
  <2>5. CASE AdvanceFetching(c) \/ AdvanceNothing(c)
    <3>1. workflow' = workflow /\ rec' = rec
      BY <2>5 DEF AdvanceFetching, AdvanceNothing, records
    <3>2. \A d \in Chats : pc'[d] \in HasRecord => pc[d] \in HasRecord
      BY <2>1, <2>5 DEF AdvanceFetching, AdvanceNothing, Advances, Goto, HasRecord, IInv, TypeOK
    <3> QED
      BY <2>1, <3>1, <3>2 DEF PaidOnly, StateIs
  <2> QED
    BY <1>7, <2>2, <2>4, <2>5, <2>6 DEF Advance, FetchDetail
<1>8. CASE \/ AdvancePending(c) \/ CreateIntent(c) \/ CreateIntentFails(c) \/ SaveIntent(c)
           \/ \E t \in TransferOutcome : AutoTransfer(c, t)
  <2>1. /\ workflow' = workflow /\ rec' = rec /\ list' = list /\ order' = order
        /\ \A d \in Chats \ {c} : pc'[d] = pc[d]
        /\ pc[c] \in HasRecord
    BY <1>8 DEF AdvancePending, Advances, CreateIntent, CreateIntentFails, SaveIntent, AutoTransfer,
       KeepsPayment, Goto, stores, records, loop, IInv, TypeOK, HasRecord
  <2> QED
    BY <2>1 DEF PaidOnly, StateIs
<1> QED
  BY <1>1, <1>2, <1>3, <1>4, <1>5, <1>6, <1>7, <1>8 DEF PollerStep, PollerLocal

\* Nor do the sessions, the time or a crash.
LEMMA PollersPayNothing ==
  ASSUME IInv, NEW S, PaidOnly(S),
         (\E c \in Chats : PollerStep(c) \/ SessionStep(c)) \/ Time \/ Crash
  PROVE  PaidOnly(S)'
<1>1. ASSUME NEW c \in Chats, PollerStep(c)
      PROVE  PaidOnly(S)'
  BY <1>1, PollerPaysNothing
<1>2. ASSUME NEW o \in Orders, WorkflowKeyExpires(o)
      PROVE  PaidOnly(S)'
  <2>1. /\ UNCHANGED <<pc, list, rec, order>>
        /\ \A q \in Orders : workflow'[q] = workflow[q] \/ workflow'[q] = NoRecord
    BY <1>2 DEF WorkflowKeyExpires, Put, loop, local, IInv, TypeOK
  <2> QED
    BY <2>1 DEF PaidOnly, StateIs
<1>3. ASSUME NEW o \in Orders, Expire(o)
      PROVE  PaidOnly(S)'
  BY <1>3 DEF Expire, stores, records, loop, local, PaidOnly, StateIs
<1>4. ASSUME NEW c \in Chats, SessionStep(c)
      PROVE  PaidOnly(S)'
  BY <1>4 DEF SessionStep, Schedule, SessionEnds, TaskRemoved, stores, records, loop, local,
     PaidOnly, StateIs
<1>5. CASE Crash
  BY <1>5 DEF Crash, EmptyList, stores, records, PaidOnly, StateIs, HasRecord
<1> QED
  BY <1>1, <1>2, <1>3, <1>4, <1>5 DEF Time

\* The worker does, for an order of S.
LEMMA WorkerPays ==
  ASSUME IInv, NEW S, PaidOnly(S), NEW o \in Orders, o \in S, WorkerConfirms(o)
  PROVE  PaidOnly(S)'
<1>1. /\ UNCHANGED <<pc, list, rec, order>>
      /\ \A q \in Orders \ {o} : workflow'[q] = workflow[q]
  BY DEF WorkerConfirms, PutIndexed, Put, loop, local, IInv, TypeOK
<1> QED
  BY <1>1 DEF PaidOnly, StateIs
=============================================================================
