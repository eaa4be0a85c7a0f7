\* One payment; the exchange may refuse every time, the others interfere, and the
\* process restarts.
SPECIFICATION FairSpec
CONSTANTS
  Chats = {c1}
  Orders = {o1}
  Refs = {r1}
  MaxAttempts = 2
  MaxJobs = 2
  OthersStatus = {"TRANSFER_FAILED"}
  Faults = {"restart"}
  NoRecord = NoRecord
  NoIntent = NoIntent
  NoRef = NoRef
INVARIANTS TypeOK OneDelivery PaidWasAsked
PROPERTIES FailedJobIsKept QueueDrains JobConcludes MarkReachesOrder
