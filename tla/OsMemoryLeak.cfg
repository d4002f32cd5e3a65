\* alloc_from_os, arena_new and the large object store over 10 OS pages.
CONSTANTS
  PageSize = 4096
  ArenaPages = 2
  LoiSize = 88
  MaxArenas = 3
  AddrPages = 10
  LosSizes = {2048, 4080, 4096}
SPECIFICATION Spec
INVARIANT NoLeakedMapping
