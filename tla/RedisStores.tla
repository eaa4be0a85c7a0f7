---------------------------- MODULE RedisStores ----------------------------
(***************************************************************************)
(* The two Redis stores that the pollers, the webhook handler and the      *)
(* worker share: the workflow records (internal/cache/workflow_redis.go)   *)
(* and the payment intents (internal/cache/payment_intent_redis.go).  The  *)
(* module has the keys as variables and one operator per command or        *)
(* transaction on them; who calls what, and what a failed call leaves      *)
(* behind, is up to the modules that extend it.                            *)
(***************************************************************************)
EXTENDS OrderStates, FiniteSets

CONSTANTS Chats,        \* chats a polling session can be scheduled for
          Orders,       \* orders of the exchange account, visible to every chat
          Refs,         \* payment references that can be generated
          MaxAttempts,  \* retryPolicy.MaxAttempts
          NoRecord, NoIntent, NoRef

(* What the stores hold of an order and of a payment intent.  Of the retry *)
(* times only their being set is kept: whether a set time has come is a    *)
(* free choice each time it is looked at.  `detail' says that the account  *)
(* details of a successful fetch are in the record.  An intent's retry     *)
(* count is only ever compared with MaxAttempts, so it stops there.        *)
WfRecord == [chat : Chats, state : OrderState, retry : 0..MaxAttempts,
             notified : OrderState \cup {"none"}, detail : BOOLEAN]
Intent == [ref : Refs, order : Orders, status : IntentStatus,
           retry : 0..MaxAttempts, scheduled : BOOLEAN]

ASSUME MaxAttemptsAssumption == MaxAttempts \in Nat \ {0}
ASSUME NoneAssumption ==
  NoRecord \notin WfRecord /\ NoIntent \notin Intent /\ NoRef \notin Refs

VARIABLES
  workflow,    \* mtg:workflow:order:<order>: the order's record, if the key exists
  chatIndex,   \* mtg:workflow:chat:<chat>: the orders ListByChat looks at
  intents,     \* mtg:payment:intent:ref:<ref>
  orderIndex   \* mtg:payment:intent:order:<order>, the order's reference

records == <<workflow, chatIndex>>
stores  == <<records, intents, orderIndex>>

EmptyList == [o \in Orders |-> NoRecord]

InitStores ==
  /\ workflow = EmptyList
  /\ chatIndex = [c \in Chats |-> {}]
  /\ intents = [r \in Refs |-> NoIntent]
  /\ orderIndex = [o \in Orders |-> NoRef]

-----------------------------------------------------------------------------
(* Workflow records *)

NewOrderWorkflowRecord(c) ==
  [chat |-> c, state |-> "DETECTED", retry |-> 0, notified |-> "none", detail |-> FALSE]

Put(o, r) == workflow' = [workflow EXCEPT ![o] = r]
AddToChat(d, o) == chatIndex' = [chatIndex EXCEPT ![d] = @ \cup {o}]

\* SaveIfState, which writes both keys in one transaction: r is stored and indexed.
PutIndexed(o, r) == Put(o, r) /\ AddToChat(r.chat, o)

\* Mutant: SaveIfState looks whether there is a record, and not at its state.
RecordExists(o, from) == workflow[o] # NoRecord

\* The comparison of SaveIfState: the stored record is in state from.
StateIs(o, from) == workflow[o] # NoRecord /\ workflow[o].state = from

\* A record moved by an event.
After(r, event) == [r EXCEPT !.state = ApplyOrderEvent(@, event)]

-----------------------------------------------------------------------------
(* Payment intents *)

NewIntent(r, o) ==
  [ref |-> r, order |-> o, status |-> "INITIATED", retry |-> 0, scheduled |-> FALSE]

PutIntent(i) == intents' = [intents EXCEPT ![i.ref] = i]

\* PaymentIntentStore.Save: the record, then the order's index entry.
SaveIntentKeys(i) ==
  /\ PutIntent(i)
  /\ orderIndex' = [orderIndex EXCEPT ![i.order] = i.ref]

\* Mutant: one attempt too many.
IsBeyond(retryCount) == retryCount > MaxAttempts

\* RetryPolicy.IsExhausted, and a retry count that stops where it is exhausted.
IsExhausted(retryCount) == retryCount >= MaxAttempts
Bump(n) == IF IsExhausted(n) THEN n ELSE n + 1
=============================================================================
