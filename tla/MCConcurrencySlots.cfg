SPECIFICATION MCSpec
CONSTANTS
  A = A
  B = B
  r1 = r1
  r2 = r2
  r3 = r3
  user = user
  acct = acct
  Instances = {A, B}
  Requests = {r1, r2, r3}
  NoInstance = none
  Users = {user}
  Accounts = {acct}
  UserOf <- OfUser
  Limit <- Two
  MaxWait <- One
  MaxSwitches = 1
  MaxFaults = 1
  MaxCrashes = 1
INVARIANTS SlotLimits NothingLeaks
SYMMETRY Symmetric
CHECK_DEADLOCK FALSE
