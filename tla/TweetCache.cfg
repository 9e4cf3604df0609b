SPECIFICATION Spec
CONSTANTS
  ann = ann
  ben = ben
  a = a
  b = b
  c1 = c1
  c2 = c2
  None = None
  Tweets <- MCTweet
  Users <- MCUsers
  Contents <- MCContents
  Clients <- MCClients
  Timely = TRUE
  MaxTasks = 2
  MaxFaults = 1
SYMMETRY MCSymmetry
INVARIANTS TypeOK StaleCovered GoneCovered ReadsRecent
PROPERTIES OwnerOnly
