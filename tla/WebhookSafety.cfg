\* Two deliveries at a time; keys expire, Redis calls fail, the process crashes.
SPECIFICATION Spec
CONSTANTS
  Chats = {c1}
  Orders = {o1}
  Refs = {r1}
  MaxAttempts = 1
  Handlers = {h1, h2}
  MaxTries = 2
  MaxJobs = 2
  KeysExpire = TRUE
  Faults = {"redis", "crash"}
  NoRecord = NoRecord
  NoIntent = NoIntent
  NoRef = NoRef
  NoEvent = NoEvent
SYMMETRY Symmetry
INVARIANTS TypeOK OnlyMovedIsSettled OneHandlerPerEvent
