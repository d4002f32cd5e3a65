\* One arena of two 16-byte-class pages (MAX_ARENAS-1 = 1 arena); the fifth
\* allocation triggers a collection (num_allocs at the count threshold), after
\* which num_allocs is 0 and a failed first pass throws.
CONSTANTS
  ArenaAddr <- MCArenaAddr
  PageSize = 32
  LowBits = 4
  HighBits = 6
  LosIds = {11}
  SegCap = 1
  EveryN = 0
  GcDisabled = FALSE
  MaxRootEntries = 1
  MaxArenas = 2
  InitArenas = 1
  ArenaPages = 2
  Sizes = {16}
  RootSlots = {}
  NumModuleSlots = 0
  MaxStack = 4
  CountThreshold = 5
  ByteThreshold = 1000
  MaxAllocs = 5
  JunkWords = {}
SPECIFICATION Spec
INVARIANT
  OomOnlyWhenExhausted
