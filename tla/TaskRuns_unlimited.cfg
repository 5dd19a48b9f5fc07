\* A retention that is raised to unlimited while a run is about to prune.
CONSTANTS
  t1 = t1
  t2 = t2
  r1 = r1
  r2 = r2
  NoTask = NoTask
  Tasks = {t1}
  Runners = {r1, r2}
  MaxResult = 2
  MaxClock = 0
  StampLag = 0
  MaxCrashes = 0
  Retentions = {0, 1}
  KeepChoices <- AllKept
  NoteStatuses = {}
  Marked <- OwnMarker
  Ops = {"settings"}
CHECK_DEADLOCK FALSE
SPECIFICATION Spec
PROPERTY
  UnlimitedKeepsAll
