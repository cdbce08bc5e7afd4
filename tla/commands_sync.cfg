SPECIFICATION Spec
CONSTANTS
  Terminals = {t1}
  Records = {"r1", "r2"}
  Answers <- SmallArchive
  PageSize = 2
  MaxTotal = 2
  ClaimLimit = 1
  MaxCommands = 5
  MaxPlain = 0
  MaxRuns = 2
INVARIANTS TypeOK ActiveRunWaitsForOneCommand OneActiveRunPerTerminal PagesAreAccountedFor PagePositionsAreDistinct PagesAreRetained ImportsAreRetained
