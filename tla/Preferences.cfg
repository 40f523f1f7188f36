SPECIFICATION PrefSpec
CONSTANTS
  d1 = d1
  d2 = d2
  i1 = i1
  k1 = k1
  Accounts = {d1, d2, i1}
  Derived = {d1, d2}
  NoAccount = NoAccount
  Types = {"mainnet", "rpc"}
  Searchable = {"mainnet"}
  FirstType = "mainnet"
  Tokens = {k1}
  Holdings <- MCHoldings
  Limits = {0, 5}
  FirstLimit = 5
  MaxGiven = 2
INVARIANTS
  PrefTypeOK
  AutoLockArmed
  IdentitiesMatchVault
  TokensAreOwn
PROPERTY TokensAreKept
SYMMETRY DerivedSymmetry
