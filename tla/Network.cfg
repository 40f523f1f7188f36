SPECIFICATION NetFairSpec
CONSTANTS
  main = main
  rpcA = rpcA
  rpcB = rpcB
  local = local
  c1029 = c1029
  cA = cA
  cB = cB
  Endpoints = {main, rpcA, local}
  TypeOf <- MCTypeOf
  Chains = {c1029, cA, cB}
  ChainOf <- MCChainOf
  FixedChain <- MCFixedChain
  Start = main
  Loading = Loading
  None = None
  MaxSwitches = 2
  MaxRestarts = 1
INVARIANTS
  NetTypeOK
  NetworkIsOfProvider
PROPERTIES
  NetworkSettles
  ImplementsView
CHECK_DEADLOCK FALSE
