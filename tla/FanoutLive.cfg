SPECIFICATION FairSpec
CONSTANTS
  u1 = u1
  u2 = u2
  r1 = r1
  Tweets <- MCTweets
  Users <- MCOneUser
  Removers <- MCNoRemovers
  PoolCap = 1
  StreamMaxLen = 2
  TimelineCap = 1
  RecallCap = 1
  FailLimit = 1
  MaxFaults = 2
  MaxStops = 1
INVARIANTS TimelineBounded
PROPERTIES QueueDrains FanoutCompletes
