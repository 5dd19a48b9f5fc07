\* A scheduled task that depends on a condition, and a shutdown event, through stops and starts.
CONSTANTS
  t1 = t1
  t2 = t2
  t3 = t3
  r1 = r1
  r2 = r2
  every = every
  other = other
  NoTask = NoTask
  NoExpr = NoExpr
  SlotsOf <- TickSlots
  MinuteTicks = 1
  Lookahead = 4
  Interval = 5
  Exprs = {every, other}
  ExprsOf <- EventExprs
  Tasks = {t1, t2, t3}
  Kind <- EventKinds
  Deps <- EventDeps
  Runners = {r1}
  Handlers = {"h"}
  MaxTime = 3
  MaxRequests = 1
  MaxCrashes = 0
  Ops = {"delete", "stop"}
CHECK_DEADLOCK FALSE
SPECIFICATION FairSpec
PROPERTIES
  DueServed
  StopEnds
