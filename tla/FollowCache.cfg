SPECIFICATION Spec
CONSTANTS
  ann = ann
  ben = ben
  c1 = c1
  c2 = c2
  Users <- MCUsers
  Clients <- MCOneClient
  Conns = 2
  PoolSize = 2
  ListCap = 1
  Transactors <- MCSql
  Wanted <- MCReading
  MaxCount = 1
  MaxFaults = 1
INVARIANTS NothingInvented PhantomCovered
