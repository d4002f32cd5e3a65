\* Large objects next to the 16-byte class, a module slot, a junk stack
\* word; safety, and the return of every call into the collector under
\* weak fairness of its steps, and the refinement of GcHeap.
CONSTANTS
  MaxArenas = 3
  InitArenas = 1
  ArenaAddr <- MCArenaAddr
  ArenaPages = 1
  PageSize = 32
  LowBits = 4
  HighBits = 6
  Sizes = {16, 64}
  LosIds = {11}
  RootSlots = {}
  NumModuleSlots = 1
  MaxStack = 2
  SegCap = 1
  CountThreshold = 3
  ByteThreshold = 112
  EveryN = 0
  GcDisabled = FALSE
  MaxAllocs = 3
  MaxRootEntries = 1
  JunkWords <- MCJunkWords
SPECIFICATION FairSpec
INVARIANTS
  NoDanglingReference
  CollectionExact
PROPERTIES
  CollectorReturns
  ImplementsGcHeap
