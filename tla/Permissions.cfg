SPECIFICATION PermSpec
CONSTANTS
  o1 = o1
  o2 = o2
  p1 = p1
  p2 = p2
  p3 = p3
  c1 = c1
  a1 = a1
  a2 = a2
  n1 = n1
  Origins = {o1}
  Accounts = {a1, a2}
  FirstAccounts = {a1, a2}
  Pages = {p1, p2}
  OriginOf <- MCOriginOf
  Calls = {c1}
  PageOf <- MCPageOf
  Networks = {n1}
  Blank = Blank
  MaxRestarts = 1
INVARIANTS
  PermTypeOK
  GrantedIsApproved
  RequestsAreDecidable
  HistoryCoversViews
SYMMETRY AccountSymmetry
CHECK_DEADLOCK FALSE
