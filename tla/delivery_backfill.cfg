SPECIFICATION Spec
CONSTANTS
  t1 = t1
  l1 = l1
  l2 = l2
  r1 = r1
  r2 = r2
  Terminals = {t1}
  Live = {l1, l2}
  Retained = {r1, r2}
  TerminalOf <- OneTerminal
  Copies <- OneCopy
  Valid <- SomeValid
  Windows <- TwoRanges
  Destinations = {d1, d2}
  EventWorkers = {w1}
  PictureWorkers = {}
  BackfillLimit = 2
  PictureLimit = 1
  PictureBounds = {1}
  MaxRows = 3
  MaxAttempts = 1
SYMMETRY Renamings
INVARIANTS OneDeliveryPerSource
PROPERTIES CopiesAreNotQueued OnlyPreviewedIsQueued
