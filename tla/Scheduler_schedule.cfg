\* Two scheduled tasks and a boot event, with edits, requests and a kill.
CONSTANTS
  t1 = t1
  t2 = t2
  t3 = t3
  r1 = r1
  r2 = r2
  every = every
  other = other
  NoTask = NoTask
  NoExpr = NoExpr
  SlotsOf <- MinuteSlots
  MinuteTicks = 2
  Lookahead = 4
  Interval = 2
  Exprs = {every, other}
  ExprsOf <- ScheduleExprs
  Tasks = {t1, t2, t3}
  Kind <- ScheduleKinds
  Deps <- ScheduleDeps
  Runners = {r1, r2}
  Handlers = {"h"}
  MaxTime = 4
  MaxRequests = 1
  MaxCrashes = 1
  Ops = {"run", "edit", "clear"}
CHECK_DEADLOCK FALSE
SPECIFICATION Spec
SYMMETRY Symmetry
INVARIANTS
  Inv
  SlotOnce
  PrereqsCameFirst
  BootEventsFire
