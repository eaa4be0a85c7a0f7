\* The exchange answers a mark request with an error status.
SPECIFICATION Spec
CONSTANTS
  Chats = {c1}
  Orders = {o1}
  Refs = {r1}
  MaxAttempts = 2
  MaxJobs = 1
  OthersStatus = {"TRANSFER_FAILED"}
  Faults = {}
  NoRecord = NoRecord
  NoIntent = NoIntent
  NoRef = NoRef
INVARIANTS MarkedIsConfirmed
