SPECIFICATION FairSpec
CONSTANTS
  ann = ann
  ben = ben
  c1 = c1
  c2 = c2
  Users <- MCUsers
  Clients <- MCClients
  Conns = 3
  PoolSize = 1
  ListCap = 1
  Transactors <- MCBoth
  Wanted <- MCCrossing
  MaxCount = 1
  MaxFaults = 1
INVARIANTS TypeOK CountsExplained SharedOnlySwapped
PROPERTIES RequestsEnd RowsIsolated
