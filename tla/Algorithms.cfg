\* Size classes with the constants of ejs-gc.c (PAGE_SIZE 4096,
\* OBJECT_SIZE_LOW_LIMIT_BITS 4, OBJECT_SIZE_HIGH_LIMIT_BITS 11) for every
\* request in 0..2100 and around 4096; copyWithin, reverse, indexOf and
\* lastIndexOf on every array of up to 3 elements over {0,1,2}, with
\* relative indices from -4 to 4 (beyond both ends of every array);
\* alloc_from_os for an arena of 2 pages and for large objects of 2048,
\* 4080 and 4096 bytes, with every mapping of a 6-page address space;
\* find_arena on every sorted table of up to 5 arenas, for keys on,
\* between and beyond them.
CONSTANTS
  IntBits = 8
  Undef = Undef
  MaxLen = 3
  Elems = {0, 1, 2}
  Args <- MCArgs
  LowBits = 4
  HighBits = 11
  PageSize = 4096
  WordBits = 30
  Requests <- MCRequests
  ArenaPages = 2
  LoiSize = 88
  MaxArenas = 3
  AddrPages = 6
  LosSizes = {2048, 4080, 4096}
SPECIFICATION Spec
INVARIANTS
  Pow2CeilExact
  BucketIndexConsistent
  CopyWithinIsMemmove
  ReverseIsReverse
  IndexOfIsFirstMatch
  LastIndexOfIsLastMatch
  ArenaMappingExact
  LosObjectInsideMapping
  ArenaSearchExact
