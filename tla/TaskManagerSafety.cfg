\* Two chats poll the same order; every Redis call may fail or lose its reply.
SPECIFICATION Spec
CONSTANTS
  Chats = {c1, c2}
  Orders = {o1}
  Refs = {r1, r2}
  MaxAttempts = 1
  EventStatus = {"TRANSFER_SUCCESS", "TRANSFER_FAILED"}
  Faults = TRUE
  NoRecord = NoRecord
  NoIntent = NoIntent
  NoRef = NoRef
  NoOrder = NoOrder
SYMMETRY Symmetry
INVARIANTS TypeOK AtMostOneIntent TransferHasDetails
PROPERTIES HandoffIsNotUndone
