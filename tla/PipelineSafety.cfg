\* One order and two references it could be paid under; the process crashes at any
\* step, and nothing else fails.
SPECIFICATION LongSessions
CONSTANTS
  Chats = {c1}
  Orders = {o1}
  Refs = {r1, r2}
  MaxAttempts = 1
  Handlers = {h1}
  MaxTries = 1
  MaxJobs = 1
  KeysExpire = FALSE
  Faults = {"crash"}
  NoRecord = NoRecord
  NoIntent = NoIntent
  NoRef = NoRef
  NoOrder = NoOrder
  NoEvent = NoEvent
SYMMETRY Symmetry
INVARIANTS PaidIsPaidFor OneTransferPerOrder
PROPERTIES ImplementsTaskManager ImplementsLifecycle
