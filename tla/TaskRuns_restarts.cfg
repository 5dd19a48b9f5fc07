\* One task, two threads: a server that is stopped, killed and started again.
CONSTANTS
  t1 = t1
  t2 = t2
  r1 = r1
  r2 = r2
  NoTask = NoTask
  Tasks = {t1}
  Runners = {r1, r2}
  MaxResult = 2
  MaxClock = 0
  StampLag = 0
  MaxCrashes = 1
  Retentions = {1}
  KeepChoices <- AllOrFailures
  NoteStatuses = {}
  Marked <- OwnMarker
  Ops = {"timeout", "shutdown"}
CHECK_DEADLOCK FALSE
SPECIFICATION FairSpec
INVARIANTS
  RunningIsAttended
  LatestAgrees
  RetentionKept
  LatestRunningIsLive
PROPERTIES
  RunsEnd
  ThreadsEnd
