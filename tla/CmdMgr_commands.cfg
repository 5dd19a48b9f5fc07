\* Two threads, three commands of which the list takes two, lost confirmations.
CONSTANTS
  t1 = t1
  t2 = t2
  a = a
  NoThread = NoThread
  Threads = {t1, t2}
  Slots = {1, 2, 3, 4, 5}
  Ids = {a}
  Requests = {"plain", "answer", "traffic", "deferred"}
  MaxQueued = 2
  MaxCommands = 2
  Ops = {"kill", "unplug"}
CHECK_DEADLOCK FALSE
SPECIFICATION FairSpec
INVARIANTS
  TypeOK
  QueueCounted
  AlwaysAnEntry
  OneOnTheWire
  AnswerIsItsOwn
PROPERTIES
  ConfirmedByItsOwn
  CallersReturn
  CommandsLeave
