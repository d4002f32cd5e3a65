\* One arena of two pages; the runtime leaves a one-past-the-end pointer on the stack.
CONSTANTS
  ArenaAddr <- MCArenaAddr
  PageSize = 32
  LowBits = 4
  HighBits = 6
  LosIds = {11}
  SegCap = 1
  EveryN = 0
  GcDisabled = FALSE
  MaxRootEntries = 1
  MaxArenas = 2
  InitArenas = 1
  ArenaPages = 2
  Sizes = {16}
  RootSlots = {}
  NumModuleSlots = 0
  MaxStack = 2
  CountThreshold = 3
  ByteThreshold = 112
  MaxAllocs = 1
  JunkWords <- MCFaultWords
SPECIFICATION Spec
INVARIANT
  ClassifierNeverFaults
