\* The order's chat and another poll it; Redis calls fail, the process crashes.  With
\* these numbers the third delay is the first that the cap cuts.
SPECIFICATION Spec
CONSTANTS
  Chats = {c1, c2}
  Owner = c1
  BaseBackoff = 2
  MaxBackoff = 6
  JitterPercent = 50
  MaxAttempts = 3
  ExpiresAt = 16
  MaxLost = 2
  Nobody = Nobody
INVARIANTS TypeOK FetchesBounded BackoffIsExponential
PROPERTIES EarlyOnlyForOldCopy
