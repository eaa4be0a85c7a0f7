\* One poller, a silent webhook, and a transfer that Paystack refuses for good.
SPECIFICATION Spec
CONSTANTS
  Chats = {c1}
  Orders = {o1}
  Refs = {r1}
  MaxAttempts = 2
  EventStatus = {}
  Faults = FALSE
  NoRecord = NoRecord
  NoIntent = NoIntent
  NoRef = NoRef
  NoOrder = NoOrder
PROPERTIES TerminalErrorHaltsRetries
