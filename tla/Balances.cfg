SPECIFICATION FairSpec
CONSTANTS
  main = main
  rpcA = rpcA
  c1029 = c1029
  cA = cA
  a1 = a1
  a2 = a2
  Endpoints = {main, rpcA}
  Chains = {c1029, cA}
  ChainOf <- MCChainOf
  Start = main
  Loading = Loading
  None = None
  Accounts = {a1, a2}
  FirstKeyring = {a1}
  MaxConns = 2
  MaxWaiting = 1
  MaxEvents = 2
INVARIANTS
  AcctTypeOK
  AccountsTracked
PROPERTY CacheConverges
CHECK_DEADLOCK FALSE
