\* Size classes 16 and 32 in one-page arenas and one root slot.  The byte
\* threshold (96) lets two objects fill both arenas and a third request
\* fail its page pass without a threshold collection first, so the failed
\* pass collects and goes back to retry_allocation.
\* The retry indexes heap_pages[ffs(bucket_size) - 8], below the array.
CONSTANTS
  MaxArenas = 3
  InitArenas = 1
  ArenaAddr <- MCArenaAddr
  ArenaPages = 1
  PageSize = 32
  LowBits = 4
  HighBits = 6
  Sizes = {16, 32}
  LosIds = {11}
  RootSlots = {r1}
  NumModuleSlots = 0
  MaxStack = 2
  SegCap = 1
  CountThreshold = 4
  ByteThreshold = 96
  EveryN = 0
  GcDisabled = FALSE
  MaxAllocs = 3
  MaxRootEntries = 1
  JunkWords = {}
SPECIFICATION Spec
INVARIANT RetryKeepsSizeClass
