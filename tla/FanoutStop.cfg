SPECIFICATION Spec
CONSTANTS
  u1 = u1
  u2 = u2
  r1 = r1
  Tweets <- MCOneTweet
  Users <- MCOneUser
  Removers <- MCRemovers
  PoolCap = 1
  StreamMaxLen = 2
  TimelineCap = 1
  RecallCap = 1
  FailLimit = 2
  MaxFaults = 0
  MaxStops = 1
INVARIANTS StopFinishesTasks
