------------------------------ MODULE OsMemory ------------------------------
(***************************************************************************)
(* The virtual memory source of src/runtime/ejs-gc.c (alloc_from_os,      *)
(* release_to_os) and its two callers: arena_new, which asks for an       *)
(* ARENA_SIZE region aligned to ARENA_SIZE, and the large object store    *)
(* (alloc_from_los, release_to_los), which asks for an unaligned region   *)
(* holding a LargeObjectInfo, its bitmap and the object.                  *)
(*                                                                         *)
(* Addresses are byte addresses; the OS maps and unmaps whole pages.      *)
(* mapped is the set of pages of the address space 1..AddrPages that are  *)
(* mapped (page 0 is never handed out, so 0 is NULL).  mmap returns any   *)
(* run of unmapped pages that is long enough, or fails when there is      *)
(* none; munmap(addr, len) unmaps every page that meets [addr, addr+len), *)
(* and does nothing for len = 0 (EINVAL).                                 *)
(***************************************************************************)
EXTENDS Integers, FiniteSets, Sequences

CONSTANTS
  PageSize,    \* PAGE_SIZE
  ArenaPages,  \* ARENA_PAGES (a power of two)
  LoiSize,     \* sizeof(LargeObjectInfo)
  MaxArenas,   \* MAX_ARENAS
  AddrPages,   \* bound: pages of address space the OS can map
  LosSizes     \* the sizes _ejs_gc_alloc passes to alloc_from_los

ArenaSize == PageSize * ArenaPages
Null == 0

VARIABLES
  mapped,   \* the pages the OS has mapped for this process's heap
  arenas,   \* heap_arenas[0 .. num_arenas-1], as a set of base addresses
  los       \* los_list: [base, start, alloc_size, maplen] per large object

vars == <<mapped, arenas, los>>

Pages == 1..AddrPages

MAX(a, b) == IF a > b THEN a ELSE b

(* ALIGN(v, a) for a power of two a: v rounded up to a multiple of a.     *)
ALIGN(v, a) == ((v + a - 1) \div a) * a

PagesOf(addr, len) ==
  {p \in Pages : p * PageSize < addr + len /\ addr < (p + 1) * PageSize}

PageCount(len) == (len + PageSize - 1) \div PageSize

(* The addresses mmap(NULL, len, ...) can return while m is mapped.       *)
MmapResults(m, len) ==
  {p * PageSize : p \in {q \in Pages : /\ q + PageCount(len) - 1 <= AddrPages
                                       /\ (q .. q + PageCount(len) - 1) \cap m = {}}}

Munmap(m, addr, len) == IF len = 0 THEN m ELSE m \ PagesOf(addr, len)

(* Mutant: the slack after the aligned region is unmapped with the length *)
(* res + 2*size - aligned_res, which runs past the mapping.               *)
TrimToAlignmentLongTail(res, m, size, align) ==
  IF res % align = 0
  THEN <<res, Munmap(m, res + size, size)>>
  ELSE LET aligned_res == ALIGN(res, align)
       IN  <<aligned_res,
             Munmap(Munmap(m, res, aligned_res - res),
                    aligned_res + size, res + size * 2 - aligned_res)>>

(* The aligned case of alloc_from_os, given the 2*size mapping at res:    *)
(* keep the first half if res is aligned, otherwise the aligned size bytes *)
(* inside it, unmapping the slack before and after.                       *)
TrimToAlignment(res, m, size, align) ==
  IF res % align = 0
  THEN <<res, Munmap(m, res + size, size)>>
  ELSE LET aligned_res == ALIGN(res, align)
       IN  <<aligned_res,
             Munmap(Munmap(m, res, aligned_res - res),
                    aligned_res + size, res + size * 2 - (aligned_res + size))>>

(* alloc_from_os(size, align): the <<result, mapped'>> pairs the call can  *)
(* produce; the result is NULL when mmap fails.                           *)
AllocFromOs(m, size, align) ==
  IF align = 0
  THEN LET sz == MAX(size, PageSize)
       IN  IF MmapResults(m, sz) = {} THEN {<<Null, m>>}
           ELSE {<<r, m \cup PagesOf(r, sz)>> : r \in MmapResults(m, sz)}
  ELSE IF MmapResults(m, size * 2) = {} THEN {<<Null, m>>}
       ELSE {TrimToAlignment(r, m \cup PagesOf(r, size * 2), size, align) :
               r \in MmapResults(m, size * 2)}

Init ==
  /\ mapped = {}
  /\ arenas = {}
  /\ los = {}

(* arena_new: refuse once num_arenas reaches MAX_ARENAS-1, otherwise map  *)
(* an aligned arena and insert it into heap_arenas (the sorted insertion  *)
(* is EjsGc's; here the table is a set).                                  *)
ArenaNew ==
  /\ Cardinality(arenas) # MaxArenas - 1
  /\ \E o \in AllocFromOs(mapped, ArenaSize, ArenaSize) :
       /\ mapped' = o[2]
       /\ arenas' = IF o[1] = Null THEN arenas ELSE arenas \cup {o[1]}
  /\ UNCHANGED los

(* Mutant: the mapping leaves out sizeof(LargeObjectInfo).                *)
LosMapLenNoHeader(size) == size + 16

(* The length alloc_from_los asks alloc_from_os for: the object, its      *)
(* LargeObjectInfo header and bitmap, and room to align the cell.         *)
LosMapLen(size) == size + LoiSize + 16

(* The los_list entry alloc_from_los builds in a region mapped at base:   *)
(* the bitmap right after the header, the cell at the next 8-aligned     *)
(* address 8 bytes further, alloc_size = size.  maplen is what the OS     *)
(* mapped, which the entry does not record.                               *)
LosEntry(base, size) ==
  [base |-> base, start |-> ALIGN(base + LoiSize + 8, 8), alloc_size |-> size,
   maplen |-> MAX(LosMapLen(size), PageSize)]

(* alloc_from_los(size): map the region, return NULL if that fails, else  *)
(* prepend the entry to los_list.                                         *)
AllocFromLos(size) ==
  /\ \E o \in AllocFromOs(mapped, LosMapLen(size), 0) :
       /\ mapped' = o[2]
       /\ los' = IF o[1] = Null THEN los ELSE los \cup {LosEntry(o[1], size)}
  /\ UNCHANGED arenas

(* release_to_los, called when the sweeper finalizes a white large object *)
(* (_ejs_finalize_obj): release_to_os(lobj, lobj->alloc_size).            *)
ReleaseToLos(o) ==
  /\ los' = los \ {o}
  /\ mapped' = Munmap(mapped, o.base, o.alloc_size)
  /\ UNCHANGED arenas

RECURSIVE ArenaBsearch(_, _, _, _)

(* Mutant: the comparison reversed (diff = *p - arena_ptr), so the search *)
(* moves right when the key is below the probe.                           *)
ArenaBsearchSwapped(arr, key, base, lim) ==
  IF lim = 0 THEN 0
  ELSE LET p == base + lim \div 2
       IN  IF key = arr[p] THEN p
           ELSE IF key < arr[p] THEN ArenaBsearch(arr, key, p + 1, (lim - 1) \div 2)
           ELSE ArenaBsearch(arr, key, base, lim \div 2)

(* The bsearch inlined in find_arena over the sorted array arr: base is a *)
(* 1-based index, lim the count left; a move right takes p + 1 as base   *)
(* and lim-- before the lim >>= 1 of the loop.  The index of key, or 0.   *)
ArenaBsearch(arr, key, base, lim) ==
  IF lim = 0 THEN 0
  ELSE LET p == base + lim \div 2
       IN  IF key = arr[p] THEN p
           ELSE IF key > arr[p] THEN ArenaBsearch(arr, key, p + 1, (lim - 1) \div 2)
           ELSE ArenaBsearch(arr, key, base, lim \div 2)

(* find_arena(ptr) with heap_arenas = arr: rv holds the Arena* the loop   *)
(* found, and the function dereferences rv again as an Arena**: it       *)
(* returns the first word of that arena,                                  *)
(* its end field (arena + ARENA_SIZE).                                    *)
FindArena(arr, key) ==
  LET i == ArenaBsearch(arr, key, 1, Len(arr))
  IN  IF i = 0 THEN Null ELSE arr[i] + ArenaSize

Next ==
  \/ ArenaNew
  \/ \E s \in LosSizes : AllocFromLos(s)
  \/ \E o \in los : ReleaseToLos(o)

Spec == Init /\ [][Next]_vars
-----------------------------------------------------------------------------
(* The OS maps exactly the live arenas and the mappings of the live large *)
(* objects: releasing a large object returns all of its mapping.          *)
NoLeakedMapping ==
  mapped = UNION {PagesOf(a, ArenaSize) : a \in arenas}
             \cup UNION {PagesOf(o.base, o.maplen) : o \in los}
=============================================================================
