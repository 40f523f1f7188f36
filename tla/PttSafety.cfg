SPECIFICATION Spec
CONSTANTS
  None = None
  Txs = {t1, t2}
  NonceOf <- MCNonceOf
  Hashless = {}
  MaxAge = 0
  MaxReorgs = 0
  MaxEvicted = 0
  MaxLags = 2
  MaxErrors = 0
  MaxSwitches = 1
  MaxCrashes = 1
INVARIANTS
  TypeOK
  DroppedIsDead
PROPERTIES
  ConfirmedIsFinal
SYMMETRY TxSymmetry
CHECK_DEADLOCK FALSE
