SPECIFICATION Spec
CONSTANTS
  Terminals = {t1}
  MaxId = 4
  MaxConfig = 1
  Faults <- AllSites
  Ambiguous <- NoSites
INVARIANT GaugeCountsOnline
