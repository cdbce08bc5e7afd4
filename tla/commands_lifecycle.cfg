SPECIFICATION FairSpec
CONSTANTS
  Terminals = {t1}
  Records = {"r1"}
  Answers <- OneRecord
  PageSize = 1
  MaxTotal = 1
  ClaimLimit = 2
  MaxCommands = 3
  MaxPlain = 3
  MaxRuns = 1
PROPERTIES OldestFirst ImplementsLifecycle CommandsEnd RunsEnd
