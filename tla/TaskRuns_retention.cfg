\* One task, two threads, three records: pruning while the settings change.
CONSTANTS
  t1 = t1
  t2 = t2
  r1 = r1
  r2 = r2
  NoTask = NoTask
  Tasks = {t1}
  Runners = {r1, r2}
  MaxResult = 3
  MaxClock = 1
  StampLag = 1
  MaxCrashes = 0
  Retentions = {0, 1, 2}
  KeepChoices <- AllKept
  NoteStatuses = {}
  Marked <- OwnMarker
  Ops = {"settings", "dbfault"}
CHECK_DEADLOCK FALSE
SPECIFICATION Spec
SYMMETRY Symmetry
INVARIANTS
  RetentionKept
PROPERTIES
  PruneTakesOldest
