SPECIFICATION FairSpec
CONSTANTS
  Callers = {c1, c2}
  Fetchers = {f1, f2}
  MinRefresh = 2
  MaxKeyAge = 3
  FetchTime = 1
  MaxVersion = 3
INVARIANTS SingleFetch SettledKeyFound
PROPERTIES KeysMonotone KeyReturns RotationNoticed
