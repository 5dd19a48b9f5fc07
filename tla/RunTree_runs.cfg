\* Files of four clusters: every tree that the operations reach, with and without memory.
CONSTANTS
  LastVcn = 3
  Lcns = {1, 130}
  Rooms = {0, 1, 9}
  MaxRuns = 2
  BufSizes = {5, 9, 20}
  MaxSize = 3
SPECIFICATION Spec
INVARIANTS
  WellFormed
  LookupFinds
  MappedFullIsMapped
  PackedIsRead
PROPERTIES
  ClustersSpec
