\* Two calls at a time, each for an account of its own, and every fault.
SPECIFICATION FairSpec
CONSTANTS
  r1 = r1
  r2 = r2
  a1 = a1
  a2 = a2
  Refs = {r1, r2}
  Accounts = {a1, a2}
  AccountOf <- Apart
  Codes = {k1, k2, k3}
  MaxTries = 1
  Faults = {"redis", "crash", "paystack"}
  NoCode = NoCode
  NoAccount = NoAccount
INVARIANTS TypeOK PaysOwnAccount
PROPERTIES ImplementsService CallReturns
