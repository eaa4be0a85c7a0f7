\* The poller saves an old copy over the webhook's.
SPECIFICATION Spec
CONSTANTS
  Chats = {c1}
  Orders = {o1}
  Refs = {r1}
  MaxAttempts = 1
  Handlers = {h1}
  MaxTries = 1
  MaxJobs = 1
  KeysExpire = FALSE
  Faults = {}
  NoRecord = NoRecord
  NoIntent = NoIntent
  NoRef = NoRef
  NoOrder = NoOrder
  NoEvent = NoEvent
PROPERTIES PollersLeaveSettled
