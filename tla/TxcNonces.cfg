SPECIFICATION FairSpec
CONSTANTS
  a1 = a1
  t1 = t1
  t2 = t2
  None = None
  Txs = {t1, t2}
  MaxCopies = 2
  Networks = {n1}
  Accounts = {a1}
  From <- MCFrom
  Procs = {p1, p2}
  Internal = {t2}
  CustomNonces = {}
  MultiWindow = FALSE
  MaxSwitches = 0
  MaxCrashes = 0
  MaxNonce = 1
INVARIANTS
  OneHashPerTx
  NoncesAreConsecutive
PROPERTIES
  ImplementsLifecycle
  ConfirmedIsAnswered
CHECK_DEADLOCK FALSE
