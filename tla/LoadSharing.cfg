\* Three callers, two queries, a rebuild that makes one of them, two places.
SPECIFICATION FairSpec
CONSTANTS
  c1 = c1  c2 = c2  c3 = c3  mine = mine  rebuild = rebuild  rel = rel
  NoKey = NoKey
  Clients <- MCClients
  Plain <- MCPlain
  Nested <- MCNested
  Inner <- MCInner
  Detached <- MCDetached
  Slots = 2
INVARIANTS TypeOK SlotsCounted
PROPERTIES LoadsShared CallsEnd
