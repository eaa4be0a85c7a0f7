\* Every outcome of a request, failed writes and crashes, late failures of
\* transfers that were taken up.  The second delay is the first that is cut.
\* Amounts of up to 30 naira in steps of a tenth of a kobo, and 17 bits: the amount
\* in kobo takes 12 of them, as large orders take some 40 of the 53 in the code.
\* After the order's expiry the system really stops.
CHECK_DEADLOCK FALSE
SPECIFICATION Spec
CONSTANTS
  BaseBackoff = 3
  MaxBackoff = 4
  JitterPercent = 34
  MaxAttempts = 2
  ExpiresAt = 9
  MaxCall = 2
  MaxLost = 2
  Outcomes = {"accepted", "balance", "transient", "terminal"}
  Precision = 17
  Scale = 1000
  MaxAmount = 30000
INVARIANTS TypeOK TransientsBounded NeverMoreThanAmount ShownIsPaid
PROPERTIES RequestsAreSpaced
