SPECIFICATION FairSpec
CONSTANTS
  g1 = g1
  g2 = g2
  h1 = h1
  h2 = h2
  e1 = e1
  e2 = e2
  e3 = e3
  Hosts = {h1, h2}
  Getters = {g1, g2}
  Asks <- TogetherOrInTurn
  Entries = {e1, e2, e3}
  HostOf <- TwoAndOne
  NoEntry = NoEntry
  NoGetter = NoGetter
  IdleRefreshes = 0
  MaxVersion <- FirstChanges
  MaxClock = 2
INVARIANTS TypeOK SingleLoader
PROPERTIES SnapshotMonotone GetReturns CloseReturns
CHECK_DEADLOCK FALSE
