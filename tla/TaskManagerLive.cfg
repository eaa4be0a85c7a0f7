\* One chat polls an order with a fair goroutine; Redis calls of a live
\* session do not fail, sessions may end and the process may crash.
SPECIFICATION FairSpec
CONSTANTS
  Chats = {c1}
  Orders = {o1}
  Refs = {r1}
  MaxAttempts = 2
  EventStatus = {"TRANSFER_SUCCESS", "TRANSFER_FAILED"}
  Faults = FALSE
  NoRecord = NoRecord
  NoIntent = NoIntent
  NoRef = NoRef
  NoOrder = NoOrder
PROPERTIES LockIsReleased OrderSettles
