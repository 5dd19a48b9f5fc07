\* Three processes one after another, two threads that seek.
CONSTANTS
  t1 = t1
  t2 = t2
  Threads = {t1, t2}
  MaxPlays = 3
SPECIFICATION FairSpec
INVARIANTS
  TypeOK
  OnePlayer
  HeardIsShown
  ShownIsHeard
  Watched
PROPERTIES
  EndIsNoticed
  AbandonedIsStopped
