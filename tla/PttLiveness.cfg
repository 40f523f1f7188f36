SPECIFICATION FairSpec
CONSTANTS
  None = None
  Txs = {t1}
  NonceOf <- MCNonceOf
  Hashless = {}
  MaxAge = 7
  MaxReorgs = 1
  MaxEvicted = 1
  MaxLags = 0
  MaxErrors = 1
  MaxSwitches = 0
  MaxCrashes = 0
PROPERTIES
  EvictedIsResent
  SubmittedSettles
CHECK_DEADLOCK FALSE
