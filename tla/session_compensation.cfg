SPECIFICATION FairSpec
CONSTANTS
  Terminals = {t1}
  MaxId = 5
  MaxConfig = 1
  Faults <- AllSites
  Ambiguous <- NoSites
INVARIANTS CheckpointMatchesSession OnlineSessionIsShownOnline GaugeCoversOnline
PROPERTIES ExchangesEnd SilentTerminalGoesOffline
