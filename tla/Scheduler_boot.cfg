\* A boot event and the scheduled task that it depends on.
CONSTANTS
  t1 = t1
  t2 = t2
  t3 = t3
  r1 = r1
  r2 = r2
  every = every
  other = other
  NoTask = NoTask
  NoExpr = NoExpr
  SlotsOf <- MinuteSlots
  MinuteTicks = 2
  Lookahead = 4
  Interval = 2
  Exprs = {every, other}
  ExprsOf <- BootExprs
  Tasks = {t1, t3}
  Kind <- BootKinds
  Deps <- BootDeps
  Runners = {r1, r2}
  Handlers = {"h"}
  MaxTime = 4
  MaxRequests = 0
  MaxCrashes = 0
  Ops = {}
CHECK_DEADLOCK FALSE
SPECIFICATION Spec
SYMMETRY Symmetry
INVARIANTS
  BootEventsTrigger
