\* One user with two tokens, either of which may be drawn again.
SPECIFICATION Spec
CONSTANTS
  alice = alice
  t1 = t1
  t2 = t2
  NoSession = NoSession
  Users <- MCUsers
  Tokens <- MCTokens
  SessionDuration = 3
  MaxSessionLife = 7
  IndexMargin = 3
  RefreshPart = 2
  RefreshTimeout = 1
  LastLogin = 2
  MaxTime = 6
  MaxInFlight = 2
SYMMETRY MCSymmetry
INVARIANTS TypeOK LifetimeCap IndexCovers NoResurrection
PROPERTIES SessionKept
