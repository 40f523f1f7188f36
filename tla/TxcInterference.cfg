SPECIFICATION Spec
CONSTANTS
  a1 = a1
  t1 = t1
  t2 = t2
  None = None
  Txs = {t1}
  MaxCopies = 2
  Networks = {n1, n2}
  Accounts = {a1}
  From <- MCFrom
  Procs = {p1, p2}
  Internal = {}
  CustomNonces = {}
  MultiWindow = TRUE
  MaxSwitches = 2
  MaxCrashes = 0
  MaxNonce = 0
INVARIANTS
  TypeOK
  NonceLockHeld
  OneApprovalPerTx
  AnswersAreTrue
  SentOnOwnNetwork
PROPERTIES
  RemovedNeverReturns
SYMMETRY ProcSymmetry
CHECK_DEADLOCK FALSE
