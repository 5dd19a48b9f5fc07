\* An edit of the expression between the passes of the loop.
CONSTANTS
  t1 = t1
  t2 = t2
  t3 = t3
  r1 = r1
  r2 = r2
  every = every
  other = other
  NoTask = NoTask
  NoExpr = NoExpr
  SlotsOf <- MinuteSlots
  MinuteTicks = 2
  Lookahead = 4
  Interval = 2
  Exprs = {every, other}
  ExprsOf <- OneExprs
  Tasks = {t1}
  Kind <- OneKind
  Deps <- OneDeps
  Runners = {r1, r2}
  Handlers = {"h"}
  MaxTime = 4
  MaxRequests = 1
  MaxCrashes = 0
  Ops = {"edit"}
CHECK_DEADLOCK FALSE
SPECIFICATION Spec
SYMMETRY Symmetry
INVARIANTS
  NextIsSlot
