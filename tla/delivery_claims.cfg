SPECIFICATION FairSpec
CONSTANTS
  t1 = t1
  l1 = l1
  l2 = l2
  r1 = r1
  r2 = r2
  Terminals = {t1}
  Live = {l1}
  Retained = {}
  TerminalOf <- OneTerminal
  Copies <- NoCopies
  Valid = {l1}
  Windows <- Anything
  Destinations = {d1, d2}
  EventWorkers = {w1, w2}
  PictureWorkers = {v1, v2}
  BackfillLimit = 1
  PictureLimit = 1
  PictureBounds = {}
  MaxRows = 1
  MaxAttempts = 2
INVARIANTS TypeOK UnfinishedFollowsRoute DeliveredWasReceived OneSchool NewestClaimIsOpen
PROPERTIES DeliveredIsFinal ImplementsOutbox RowsEnd
