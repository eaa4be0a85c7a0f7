------------------------- MODULE ProviderMarkQueue -------------------------
(***************************************************************************)
(* The job queue of internal/cache/provider_mark_queue_redis.go: a Redis   *)
(* stream read through one consumer group, a sorted set of jobs that wait  *)
(* for their retry time, and a dead-letter stream.  The module has the     *)
(* keys as variables and one operator per Redis command; the worker and    *)
(* the webhook handler put them together.                                  *)
(*                                                                         *)
(* A job names a payment reference: its order, chat and attempt are those  *)
(* of the intent with that reference, and nobody reads them elsewhere.     *)
(* The process has one consumer with a fixed name, so every pending        *)
(* message is its own and claiming the stale ones (reclaimStalePending)    *)
(* changes no state.                                                       *)
(***************************************************************************)
EXTENDS RedisStores, SequencesExt

VARIABLES
  stream,      \* mtg:provider_mark:stream, the jobs not yet delivered
  pending,     \* the jobs delivered and not acknowledged, oldest first
  delayed,     \* mtg:provider_mark:delayed, how many times each job is in it
  deadLetters  \* mtg:provider_mark:dlq

queue == <<stream, pending, delayed, deadLetters>>

InitQueue ==
  /\ stream = <<>>
  /\ pending = <<>>
  /\ delayed = [r \in Refs |-> 0]
  /\ deadLetters = {}

\* Enqueue: XADD.
Enqueue(r) ==
  /\ stream' = Append(stream, r)
  /\ UNCHANGED <<pending, delayed, deadLetters>>

\* promoteDue takes a due entry out of the sorted set: ZREM.  (Whether an entry
\* is due is a free choice: time is not in the model.)
RemoveDelayed(r) ==
  /\ delayed[r] > 0
  /\ delayed' = [delayed EXCEPT ![r] = @ - 1]
  /\ UNCHANGED <<stream, pending, deadLetters>>

\* XREADGROUP with ">": the oldest new entry becomes pending.
Deliver ==
  /\ pending' = Append(pending, Head(stream))
  /\ stream' = Tail(stream)
  /\ UNCHANGED <<delayed, deadLetters>>

\* Requeue with a positive delay: ZADD.
Requeue(r) ==
  /\ delayed' = [delayed EXCEPT ![r] = @ + 1]
  /\ UNCHANGED <<stream, pending, deadLetters>>

DeadLetter(r) ==
  /\ deadLetters' = deadLetters \cup {r}
  /\ UNCHANGED <<stream, pending, delayed>>

\* Mutant: the acknowledgement names another message.
AckOther == UNCHANGED queue

\* Ack of the message that was read, always the oldest: XACK.  (A failure of the
\* XDEL that follows leaves an entry in the stream that nobody reads again.)
Ack ==
  /\ pending' = Tail(pending)
  /\ UNCHANGED <<stream, delayed, deadLetters>>

\* Is there a job for reference r in the queue?
Queued(r) ==
  Contains(stream, r) \/ Contains(pending, r) \/ delayed[r] > 0

\* How many jobs there are, the copies made by redeliveries included.
JobCount == Len(stream) + Len(pending) + FoldFunction(+, 0, delayed)
=============================================================================
