SPECIFICATION FairSpec
CONSTANTS
  Legacy = 2
  Releases <- AllReleases
  Classifies <- SomeClassified
  Tokens = {k1}
  MaxEvents = 3
  BatchSize = 2
  Deadline = 1
  MaxDeploys = 2
  MaxCrashes = 1
INVARIANTS TypeOK SchemaIsOneHistory ServesPrepared InterpretedOnce
PROPERTIES StartsServe
