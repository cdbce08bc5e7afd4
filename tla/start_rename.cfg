SPECIFICATION FairSpec
CONSTANTS
  Legacy = 1
  Releases <- TwoNames
  Classifies = {}
  Tokens = {k1}
  MaxEvents = 0
  BatchSize = 1
  Deadline = 1
  MaxDeploys = 1
  MaxCrashes = 0
PROPERTY ConfiguredAdministratorServes
