SPECIFICATION Spec
CONSTANTS
  ann = ann
  ben = ben
  c1 = c1
  c2 = c2
  Users <- MCUsers
  Clients <- MCClients
  Conns = 3
  PoolSize = 1
  ListCap = 1
  Transactors <- MCSql
  Wanted <- MCReading
  MaxCount = 1
  MaxFaults = 0
INVARIANTS RelationAsAsked
