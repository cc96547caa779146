SPECIFICATION Spec
CONSTANTS
  k1 = k1
  k2 = k2
  k3 = k3
  powerbi = powerbi
  fabric = fabric
  other = other
  Tokens <- MCTokens
  TokenOf <- MCTokenOf
  Refreshes <- MCRefreshes
  NoCaller = NoCaller
  NoKey = NoKey
  Keys = {k1, k2, k3}
  Callers = {c1, c2}
  Ttls = {0, 1}
  MaxEntries = 2
  MaxTime = 1
  FirstVersion <- MCFirstVersion
  LastVersion <- MCLastVersion
SYMMETRY Symmetry
INVARIANTS
  SingleFlight
  ReadsNeverGoBack
  QuietRefreshTakesEffect
  RefusalIsNotRemembered
PROPERTIES
  LiveEntriesStay
