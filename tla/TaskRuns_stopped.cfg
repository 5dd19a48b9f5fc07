\* A stop request between the record of a run and the start of its script.
CONSTANTS
  t1 = t1
  t2 = t2
  r1 = r1
  r2 = r2
  NoTask = NoTask
  Tasks = {t1}
  Runners = {r1, r2}
  MaxResult = 1
  MaxClock = 0
  StampLag = 0
  MaxCrashes = 0
  Retentions = {0}
  KeepChoices <- AllKept
  NoteStatuses = {}
  Marked <- OwnMarker
  Ops = {"stop"}
CHECK_DEADLOCK FALSE
SPECIFICATION Spec
INVARIANT
  FailedHasNoScript
