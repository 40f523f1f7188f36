SPECIFICATION WinSpec
CONSTANTS
  l1 = l1
  l2 = l2
  t1 = t1
  Popups = {p1}
  Notifications = {n1, n2}
  Loads = {l1, l2}
  Tabs = {t1}
  TabOf <- MCTabOf
  NoWindow = NoWindow
  Requests = {r1, r2}
INVARIANTS
  WinTypeOK
  PollingIsWanted
  OneNotification
  MissedIsLeft
