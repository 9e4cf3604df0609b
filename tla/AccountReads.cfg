\* Two users, two requests, names one at a time.
SPECIFICATION Spec
CONSTANTS
  ann = ann  bea = bea  c1 = c1  c2 = c2
  None = None
  Users <- MCUsers
  Clients <- MCClients
  NameCap = 1
  Wanted <- MCWanted
  Counted <- MCCounted
  MaxTasks = 1
  MaxCount = 1
  MaxFaults = 1
INVARIANTS TypeOK CountsCovered NobodyMissing
