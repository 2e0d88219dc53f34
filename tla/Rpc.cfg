SPECIFICATION FairSpec
CONSTANTS
  b1 = b1
  b2 = b2
  a1 = a1
  a2 = a2
  t1 = t1
  t2 = t2
  Binders = {b1, b2}
  Home <- MCHome
  Addresses = {a1, a2}
  BinderAt <- MCBinderAt
  Transactions = {t1, t2}
  MaxAsyncNumber = 2
  MaxPending = 2
  MaxSent = 2
  MaxUsed = 1
  Connected = {"client"}
INVARIANTS OnlyKnownFaults NothingElseLeaks
PROPERTIES OnewayInOrder OnewayRuns
CHECK_DEADLOCK FALSE
