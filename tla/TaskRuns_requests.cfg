\* One task, two threads: runs, stops, time limits, cleared and deleted records.
CONSTANTS
  t1 = t1
  t2 = t2
  r1 = r1
  r2 = r2
  NoTask = NoTask
  Tasks = {t1}
  Runners = {r1, r2}
  MaxResult = 2
  MaxClock = 0
  StampLag = 0
  MaxCrashes = 0
  Retentions = {1}
  KeepChoices <- AllOrFailures
  NoteStatuses = {"condition_failed"}
  Marked <- OwnMarker
  Ops = {"timeout", "enforce", "stop", "clear", "delete", "edit"}
CHECK_DEADLOCK FALSE
SPECIFICATION Spec
SYMMETRY Symmetry
INVARIANTS
  TypeOK
  IndInv
  OneThreadPerRow
  NoRowsWithoutTask
PROPERTIES
  FinalIsFinal
  LedgerSpec
