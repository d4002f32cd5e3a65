------------------------------- MODULE EjsGc -------------------------------
(***************************************************************************)
(* The mark-and-sweep collector of src/runtime/ejs-gc.c: arenas and their  *)
(* page carving and free-page lists, the heap_pages[] size-class lists,    *)
(* the large object store, the pointer classifier, the root registry, the  *)
(* segmented worklist, the tri-color marker, the sweeper, the color flip   *)
(* and the allocation front end with its collect-and-retry-once path.      *)
(*                                                                         *)
(* A machine word is modelled as <<region, page, offset>>: region is an    *)
(* arena number or a large-object region number (0 is no heap region),     *)
(* page the page index inside the arena (-1 is the Arena header) and       *)
(* offset a byte offset inside the page.  A cell's address is the word     *)
(* <<arena, page, cell * cell_size>>; a large object's is <<region, 0, 0>>.*)
(* Each object holds one traced reference (field); the mutator (the rest   *)
(* of the runtime) allocates, stores references, keeps words on the native *)
(* stack and registers roots, and is only ever running when the collector  *)
(* is not (the collector is stop-the-world).                               *)
(***************************************************************************)
EXTENDS Integers, Sequences, FiniteSets, SequencesExt

CONSTANTS
  MaxArenas,      \* MAX_ARENAS
  InitArenas,     \* arenas _ejs_gc_init creates
  ArenaAddr,      \* ArenaAddr[i]: base address of the i-th arena mapped
  ArenaPages,     \* pages an arena can carve after its header
  PageSize,       \* PAGE_SIZE
  LowBits,        \* OBJECT_SIZE_LOW_LIMIT_BITS
  HighBits,       \* OBJECT_SIZE_HIGH_LIMIT_BITS
  Sizes,          \* request sizes the runtime passes to _ejs_gc_alloc
  LosIds,         \* regions the OS can map for large objects
  RootSlots,      \* ejsval slots that can be registered with add_root
  NumModuleSlots, \* traced slots of the _ejs_modules objects
  MaxStack,       \* native stack words modelled
  SegCap,         \* MAX_WORKLIST_SEGMENT_SIZE
  CountThreshold, \* the num_allocs == 400000 trigger
  ByteThreshold,  \* the 60MB allocated-since-last-gc trigger
  EveryN,         \* EJS_GC_EVERY_N_ALLOC (0 when unset)
  GcDisabled,     \* EJS_GC_DISABLE set
  MaxAllocs,      \* bound: _ejs_gc_alloc calls explored
  MaxRootEntries, \* bound: length of the root_set list
  JunkWords       \* non-reference words the runtime may leave on the stack

SC == INSTANCE SizeClass WITH WordBits <- 30

ArenaIds == 1..MaxArenas
Null == <<0, 0, 0>>
Poison == <<0, 0, 175>>            \* the 0xaf fill of a finalized cell
NoBump == -1
MaxCells == PageSize \div 2^LowBits
Cells == 0..(MaxCells - 1)
Pages == (ArenaIds \X (0..(ArenaPages - 1))) \cup (LosIds \X {0})
ObjWords == {<<a, p, k * 2^LowBits>> : a \in ArenaIds, p \in 0..(ArenaPages - 1),
                                       k \in Cells}
            \cup {<<l, 0, 0>> : l \in LosIds}
Buckets == 0..(SC!HeapPagelistsCount - 1)

ASSUME /\ InitArenas \in 1..(MaxArenas - 1)
       /\ \A i \in ArenaIds : ArenaAddr[i] \in Nat
       /\ IsInjective(ArenaAddr)
       /\ LosIds \cap ArenaIds = {} /\ 0 \notin LosIds

(* The bitmap byte of a cell: CELL_COLOR_MASK 0x03, CELL_GRAY_MASK 0x02,   *)
(* CELL_FREE 0x04.                                                         *)
CellFree == 4
IsFree(v) == (v \div 4) % 2 = 1
ColorOf(v) == v % 4
WithColor(v, c) == (v - (v % 4)) + c   \* SET_GRAY/SET_WHITE/SET_BLACK
SetAllocated(v) == IF IsFree(v) THEN v - 4 ELSE v

VARIABLES
  arenas,       \* heap_arenas[0..num_arenas-1]: arena ids sorted by address
  numPages,     \* arena->num_pages
  freePages,    \* arena->free_pages (head first)
  page,         \* the PageInfo of every arena page and large object
  heapPages,    \* heap_pages[bucket] (head first)
  losList,      \* los_list (head first)
  field,        \* the reference stored in each object
  whiteMask, blackMask,
  workList,     \* work_list.list: segments head first, each a stack
  freeSegs,     \* segments on work_list.free_list
  rootSet,      \* root_set (head first): registered slots
  slot,         \* value of each root slot
  module,       \* value of each module slot
  stack,        \* native stack words, bottom first
  live,         \* indices of stack words the runtime still uses
  numAllocs, allocSize, allocSizeAtLastGc, totalAllocs,
  pc,           \* "mutator" | "alloc" | "mark" | "sweep" | "flip" | "segv" | "badlist" | "exited"
  req,          \* the _ejs_gc_alloc request in progress: size, bucket_size, bucket
  ret,          \* caller of the running collection: "alloc" | "explicit" | "shutdown"
  scanQ,        \* root words the marker has still to visit
  sweepQ,       \* pages sweep_heap has still to visit
  reachAtStart, \* ghost: cells reachable when the collection started
  oom           \* ghost: the last out-of-memory exception thrown

heapVars == <<arenas, numPages, freePages, page, heapPages, losList, field,
              whiteMask, blackMask>>
markVars == <<workList, freeSegs, scanQ, sweepQ, reachAtStart, ret>>
mutVars == <<rootSet, slot, module, stack, live>>
allocVars == <<numAllocs, allocSize, allocSizeAtLastGc, totalAllocs, req, oom>>

vars == <<arenas, numPages, freePages, page, heapPages, losList, field,
          whiteMask, blackMask, workList, freeSegs, rootSet, slot, module,
          stack, live, numAllocs, allocSize, allocSizeAtLastGc, totalAllocs,
          pc, req, ret, scanQ, sweepQ, reachAtStart, oom>>

-----------------------------------------------------------------------------
(* Derived views of the heap.                                              *)

PageOf(w) == <<w[1], w[2]>>
CellOf(w) == w[3] \div page[PageOf(w)].cellSize
BitIn(pm, w) == pm[PageOf(w)].bitmap[CellOf(w)]
BitOf(w) == BitIn(page, w)

CarvedPages == UNION {{<<a, p>> : p \in 0..(numPages[a] - 1)} : a \in Range(arenas)}
PageCells(pg) == {<<pg[1], pg[2], c * page[pg].cellSize>> :
                     c \in 0..(page[pg].numCells - 1)}
HeapCells == UNION {PageCells(pg) : pg \in CarvedPages}
             \cup {<<l, 0, 0>> : l \in Range(losList)}
AllocatedCells == {w \in HeapCells : ~IsFree(BitOf(w))}

(* find_page_and_cell: find_arena_in_array, then the page index and the    *)
(* cell-alignment check, else an exact match in the large object store.    *)
(* "segv" is the read of page_infos[num_pages], which is NULL.             *)
FindPageAndCell(w) ==
  LET a == w[1]
      p == w[2]
  IN
  IF a \in Range(arenas)
  THEN IF p < 0 \/ p > numPages[a] THEN "none"
       ELSE IF p = numPages[a] THEN "segv"
       ELSE IF w[3] % page[<<a, p>>].cellSize # 0 THEN "none"
       ELSE "cell"
  ELSE IF a \in Range(losList) /\ p = 0 /\ w[3] = 0 THEN "cell"
  ELSE "none"

(* The worklist push of _ejs_gc_worklist_push: a new segment (from the free *)
(* list, else malloc) when the list is empty or its head segment is full.  *)
NeedsSegment(wl) == IF wl = <<>> THEN TRUE ELSE Len(wl[1]) = SegCap
WorklistPush(wl, w) ==
  IF NeedsSegment(wl) THEN <<<<w>>>> \o wl ELSE [wl EXCEPT ![1] = Append(@, w)]
FreeSegsAfterPush(wl, fs) == IF NeedsSegment(wl) /\ fs > 0 THEN fs - 1 ELSE fs

(* _ejs_gc_worklist_pop returns NULL on an empty list or empty head.       *)
WorklistPopNull(wl) == IF wl = <<>> THEN TRUE ELSE Len(wl[1]) = 0

(* The state of a stack after pushing a word the runtime keeps using.     *)
PushLive(w) == /\ stack' = Append(stack, w)
               /\ live' = live \cup {Len(stack) + 1}

LiveWords == {stack[i] : i \in live}

(* Reference definition: the cells reachable through fields from a set of *)
(* root words, a root word counting when it is exactly a cell's address.   *)
RECURSIVE ReachClosure(_)
ReachClosure(S) ==
  LET T == S \cup ({field[x] : x \in S} \cap AllocatedCells)
  IN  IF T = S THEN S ELSE ReachClosure(T)

RootWords == {slot[s] : s \in Range(rootSet)} \cup Range(module) \cup Range(stack)
Reachable == ReachClosure(RootWords \cap AllocatedCells)

-----------------------------------------------------------------------------
(* The locals bucket_size and bucket of _ejs_gc_alloc, computed once      *)
(* before retry_allocation; req.bucket is bucket as it is at the label.    *)
(* The page branch subtracts OBJECT_SIZE_LOW_LIMIT_BITS from it after the *)
(* label, so a goto retry_allocation subtracts it again.  NoRequest        *)
(* outside an allocation.                                                  *)
NoRequest == [size |-> 0, bucketSize |-> 0, bucket |-> 0]
LosRequest == req.bucket > HighBits
ReqBucket == req.bucket - LowBits
(* The page branch can read heap_pages[bucket].head.                       *)
BucketInRange == ReqBucket \in Buckets

(* _ejs_gc_collect_inner(FALSE), entered by _ejs_gc_collect: the root      *)
(* sources are visited in the order mark_from_roots, mark_from_modules,    *)
(* mark_thread_stack; mark_generator_stacks visits nothing.                *)
StartCollection(caller) ==
  /\ scanQ' = [i \in 1..Len(rootSet) |-> <<"root", slot[rootSet[i]]>>]
              \o [i \in 1..Len(module) |-> <<"module", module[i]>>]
              \o [i \in 1..Len(stack) |-> <<"stack", stack[i]>>]
  /\ reachAtStart' = Reachable
  /\ ret' = caller
  /\ pc' = "mark"
  /\ UNCHANGED <<workList, freeSegs, sweepQ>>

Init ==
  /\ arenas = SetToSortSeq(1..InitArenas, LAMBDA x, y : ArenaAddr[x] < ArenaAddr[y])
  /\ numPages = [a \in ArenaIds |-> 0]
  /\ freePages = [a \in ArenaIds |-> <<>>]
  /\ page = [pg \in Pages |-> [cellSize |-> 0, numCells |-> 0, numFree |-> 0,
                               bump |-> NoBump, bitmap |-> [c \in Cells |-> 0]]]
  /\ heapPages = [b \in Buckets |-> <<>>]
  /\ losList = <<>>
  /\ field = [w \in ObjWords |-> Null]
  /\ blackMask = 1 /\ whiteMask = 0
  /\ workList = <<>> /\ freeSegs = 0
  /\ rootSet = <<>>
  /\ slot = [s \in RootSlots |-> Null]
  /\ module = [i \in 1..NumModuleSlots |-> Null]
  /\ stack = <<>> /\ live = {}
  /\ numAllocs = 0 /\ allocSize = 0 /\ allocSizeAtLastGc = 0 /\ totalAllocs = 0
  /\ pc = "mutator" /\ req = NoRequest /\ ret = "explicit"
  /\ scanQ = <<>> /\ sweepQ = <<>> /\ reachAtStart = {}
  /\ oom = [kind |-> "none", bucket |-> 0, freeInBucket |-> FALSE]

-----------------------------------------------------------------------------
(* Allocation front end.                                                   *)

(* The collection triggers of _ejs_gc_alloc, after the counters are bumped. *)
AllocTriggers(n, bytes) ==
  /\ ~GcDisabled
  /\ \/ n = CountThreshold
     \/ bytes - allocSizeAtLastGc >= ByteThreshold
     \/ EveryN # 0 /\ EveryN = n

(* _ejs_gc_alloc up to retry_allocation: count the request, then collect  *)
(* first when a trigger fires.                                             *)
GcAlloc(size) ==
  /\ pc = "mutator"
  /\ totalAllocs < MaxAllocs /\ Len(stack) < MaxStack
  /\ numAllocs' = numAllocs + 1
  /\ allocSize' = allocSize + size
  /\ totalAllocs' = totalAllocs + 1
  /\ req' = [size |-> size, bucketSize |-> SC!BucketSize(size),
              bucket |-> SC!Ffs(SC!BucketSize(size))]
  /\ \/ /\ AllocTriggers(numAllocs + 1, allocSize + size)
        /\ StartCollection("alloc")
     \/ /\ ~AllocTriggers(numAllocs + 1, allocSize + size)
        /\ pc' = "alloc"
        /\ UNCHANGED <<scanQ, reachAtStart, ret, workList, freeSegs, sweepQ>>
  /\ UNCHANGED <<heapVars, mutVars, allocSizeAtLastGc, oom>>

(* A failed page or large-object allocation: throw when no allocation was *)
(* made since the last collection, else collect and goto retry_allocation.*)
AllocFailed(kind, freeInBucket, bucketAfter) ==
  /\ \/ /\ numAllocs = 0
        /\ pc' = "mutator"
        /\ req' = NoRequest
        /\ oom' = [kind |-> kind, bucket |-> ReqBucket,
                   freeInBucket |-> freeInBucket]
        /\ UNCHANGED markVars
     \/ /\ numAllocs # 0
        /\ StartCollection("alloc")
        /\ req' = [req EXCEPT !.bucket = bucketAfter]
        /\ UNCHANGED oom
  /\ UNCHANGED <<heapVars, mutVars, numAllocs, allocSize, allocSizeAtLastGc,
                 totalAllocs>>

(* alloc_from_los: map a fresh region, describe it as a one-cell white     *)
(* allocated page, prepend it to los_list.                                 *)
AllocFromLos ==
  /\ pc = "alloc" /\ LosRequest
  /\ \E l \in LosIds \ Range(losList) :
       /\ losList' = <<l>> \o losList
       /\ page' = [page EXCEPT ![<<l, 0>>] =
                    [cellSize |-> req.size, numCells |-> 1, numFree |-> 0,
                     bump |-> NoBump,
                     bitmap |-> [c \in Cells |->
                                   IF c = 0 THEN WithColor(0, whiteMask) ELSE 0]]]
       /\ field' = [field EXCEPT ![<<l, 0, 0>>] = Null]
       /\ PushLive(<<l, 0, 0>>)
  /\ pc' = "mutator" /\ req' = NoRequest
  /\ UNCHANGED <<arenas, numPages, freePages, heapPages, whiteMask, blackMask,
                 markVars, rootSet, slot, module, numAllocs, allocSize,
                 allocSizeAtLastGc, totalAllocs, oom>>

(* alloc_from_os returned NULL: no region left to map.                     *)
AllocLosFailed ==
  /\ pc = "alloc" /\ LosRequest
  /\ LosIds \subseteq Range(losList)
  /\ AllocFailed("los", FALSE, req.bucket)

(* alloc_page_from_arena can hand out a page: one on the free list, or one *)
(* left to carve below arena->end.                                         *)
ArenaHasPage(a) == freePages[a] # <<>> \/ numPages[a] < ArenaPages

(* arena_new refuses once num_arenas == MAX_ARENAS-1.                      *)
CanCreateArena == Len(arenas) # MaxArenas - 1

(* arena_new's sorted insertion into heap_arenas.                          *)
InsertArena(a) ==
  LET later == {i \in 1..Len(arenas) : ArenaAddr[a] < ArenaAddr[arenas[i]]}
      pos == IF later = {} THEN Len(arenas) + 1
             ELSE CHOOSE i \in later : \A j \in later : i <= j
  IN  InsertAt(arenas, pos, a)

(* alloc_page_from_arena: the page it takes (free-list head, else the next *)
(* carved) and the PageInfo it sets up for cell size cs.                   *)
TakenPage(a) == IF freePages[a] # <<>> THEN Head(freePages[a]) ELSE <<a, numPages[a]>>
FreshInfo(pg, cs) ==
  [cellSize |-> cs, numCells |-> SC!CellsOfSize(cs),
   numFree |-> SC!CellsOfSize(cs), bump |-> 0,
   bitmap |-> [c \in Cells |-> IF c < SC!CellsOfSize(cs) THEN CellFree
                               ELSE page[pg].bitmap[c]]]

(* _ejs_gc_alloc checks only the head of heap_pages[bucket].               *)
HeadUsable(b) == heapPages[b] # <<>> /\ page[Head(heapPages[b])].numFree > 0

(* alloc_from_page: the bump cell, else the first free cell of the bitmap; *)
(* the bump pointer is dropped once the next cell would reach page_end.    *)
FirstFreeCell(info) ==
  CHOOSE c \in 0..(info.numCells - 1) :
    IsFree(info.bitmap[c]) /\ \A d \in 0..(c - 1) : ~IsFree(info.bitmap[d])
AllocCell(info) == IF info.bump # NoBump THEN info.bump ELSE FirstFreeCell(info)
(* Mutant: the bump pointer is never dropped at the end of the page.       *)
AfterAllocNoEndCheck(info) ==
  LET c == AllocCell(info) IN
  [info EXCEPT
     !.bump = IF @ = NoBump THEN NoBump ELSE c + 1,
     !.bitmap[c] = WithColor(SetAllocated(@), whiteMask),
     !.numFree = @ - 1]
AfterAlloc(info) ==
  LET c == AllocCell(info) IN
  [info EXCEPT
     !.bump = IF @ = NoBump \/ (c + 2) * info.cellSize >= PageSize THEN NoBump
              ELSE c + 1,
     !.bitmap[c] = WithColor(SetAllocated(@), whiteMask),
     !.numFree = @ - 1]

(* The rest of the page branch of _ejs_gc_alloc once page pg (set up as    *)
(* info) heads lst, the new heap_pages[b]: alloc_from_page, the header     *)
(* store and, when the page is now full and not alone, its rotation to    *)
(* the tail.                                                               *)
AllocInPage(b, pg, info, lst) ==
  LET w == <<pg[1], pg[2], AllocCell(info) * info.cellSize>>
      after == AfterAlloc(info)
  IN /\ page' = [page EXCEPT ![pg] = after]
     /\ heapPages' = [heapPages EXCEPT ![b] =
                        IF after.numFree = 0 /\ Len(lst) > 1
                        THEN Tail(lst) \o <<pg>> ELSE lst]
     /\ field' = [field EXCEPT ![w] = Null]
     /\ PushLive(w)
     /\ pc' = "mutator" /\ req' = NoRequest

(* The head page of heap_pages[bucket] has a free cell.                    *)
AllocFromHeadPage ==
  /\ pc = "alloc" /\ ~LosRequest /\ BucketInRange
  /\ HeadUsable(ReqBucket)
  /\ LET b == ReqBucket
     IN  AllocInPage(b, Head(heapPages[b]), page[Head(heapPages[b])], heapPages[b])
  /\ UNCHANGED <<arenas, numPages, freePages, losList, whiteMask, blackMask,
                 markVars, rootSet, slot, module, numAllocs, allocSize,
                 allocSizeAtLastGc, totalAllocs, oom>>

(* alloc_page_from_arena on arena a for the request's bucket, the page     *)
(* prepended to heap_pages[b], then the allocation.                        *)
AllocInNewPage(b, a) ==
  LET pg == TakenPage(a)
  IN /\ numPages' = IF freePages[a] = <<>> THEN [numPages EXCEPT ![a] = @ + 1]
                    ELSE numPages
     /\ freePages' = IF freePages[a] # <<>> THEN [freePages EXCEPT ![a] = Tail(@)]
                     ELSE freePages
     /\ AllocInPage(b, pg, FreshInfo(pg, req.bucketSize),
                    <<pg>> \o heapPages[b])

(* The head page is missing or full: alloc_new_page takes a page from the  *)
(* first arena in heap_arenas order that has one, else from the arena      *)
(* arena_new maps (inserted in address order).                             *)
AllocFromNewPage ==
  /\ pc = "alloc" /\ ~LosRequest /\ BucketInRange
  /\ ~HeadUsable(ReqBucket)
  /\ \/ \E i \in 1..Len(arenas) :
          /\ ArenaHasPage(arenas[i])
          /\ \A j \in 1..(i - 1) : ~ArenaHasPage(arenas[j])
          /\ AllocInNewPage(ReqBucket, arenas[i])
          /\ UNCHANGED arenas
     \/ /\ \A i \in 1..Len(arenas) : ~ArenaHasPage(arenas[i])
        /\ CanCreateArena
        /\ arenas' = InsertArena(Len(arenas) + 1)
        /\ AllocInNewPage(ReqBucket, Len(arenas) + 1)
  /\ UNCHANGED <<losList, whiteMask, blackMask, markVars, rootSet, slot, module,
                 numAllocs, allocSize, allocSizeAtLastGc, totalAllocs, oom>>

(* alloc_new_page returned NULL.  The ghost records whether some page of   *)
(* the bucket still had a free cell when the exception was raised.          *)
AllocPageFailed ==
  /\ pc = "alloc" /\ ~LosRequest /\ BucketInRange
  /\ ~HeadUsable(ReqBucket)
  /\ \A i \in 1..Len(arenas) : ~ArenaHasPage(arenas[i])
  /\ ~CanCreateArena
  /\ AllocFailed("page", \E pg \in Range(heapPages[ReqBucket]) :
                           page[pg].numFree > 0, ReqBucket)

(* The page branch with bucket outside 0..HEAP_PAGELISTS_COUNT-1: the read *)
(* of heap_pages[bucket].head is outside the array, which is undefined;    *)
(* "badlist" stands for every outcome.                                     *)
AllocBadBucket ==
  /\ pc = "alloc" /\ ~LosRequest /\ ~BucketInRange
  /\ pc' = "badlist"
  /\ UNCHANGED <<heapVars, markVars, mutVars, allocVars>>

-----------------------------------------------------------------------------
(* Marking.                                                                *)

(* What the marker does with a candidate word w under page map pm: "segv"  *)
(* when find_page_and_cell faults, "gray" when it names a white cell (and, *)
(* with checkFree, one that is not free), else "skip".  mark_from_roots and *)
(* mark_ejsvals_in_range test IS_FREE; is_white (mark_from_modules and the *)
(* object scanners) does not.                                              *)
(* Mutant: grays and pushes without the is-white test.                     *)
VisitNoColorCheck(pm, w, checkFree) ==
  LET k == IF w = Null THEN "none" ELSE FindPageAndCell(w) IN
  IF k # "cell" THEN (IF k = "segv" THEN "segv" ELSE "skip")
  ELSE IF checkFree /\ IsFree(BitIn(pm, w)) THEN "skip"
  ELSE "gray"

Visit(pm, w, checkFree) ==
  LET k == IF w = Null THEN "none" ELSE FindPageAndCell(w) IN
  IF k # "cell" THEN (IF k = "segv" THEN "segv" ELSE "skip")
  ELSE IF checkFree /\ IsFree(BitIn(pm, w)) THEN "skip"
  ELSE IF ColorOf(BitIn(pm, w)) = whiteMask THEN "gray"
  ELSE "skip"

(* WORKLIST_PUSH_AND_GRAY: push w on worklist wl (fs free segments), then  *)
(* set its cell gray in page map pm.                                       *)
PushAndGray(wl, fs, pm, w) ==
  /\ workList' = WorklistPush(wl, w)
  /\ freeSegs' = FreeSegsAfterPush(wl, fs)
  /\ page' = [pm EXCEPT ![PageOf(w)].bitmap[CellOf(w)] = WithColor(@, 2)]

(* Visit the next root word of the given source.                           *)
MarkRootWord(src, checkFree) ==
  /\ pc = "mark" /\ scanQ # <<>> /\ Head(scanQ)[1] = src
  /\ LET w == Head(scanQ)[2]
         v == Visit(page, w, checkFree)
     IN \/ /\ v = "segv"
           /\ pc' = "segv"
           /\ UNCHANGED <<scanQ, workList, freeSegs, page>>
        \/ /\ v = "skip"
           /\ scanQ' = Tail(scanQ)
           /\ UNCHANGED <<pc, workList, freeSegs, page>>
        \/ /\ v = "gray"
           /\ scanQ' = Tail(scanQ)
           /\ PushAndGray(workList, freeSegs, page, w)
           /\ UNCHANGED pc
  /\ UNCHANGED <<arenas, numPages, freePages, heapPages, losList, field,
                 whiteMask, blackMask, sweepQ, reachAtStart, ret, mutVars,
                 allocVars>>

(* Mutant: the module table is walked but no slot is scanned (as          *)
(* mark_generator_stacks does for generator stacks).                      *)
MarkFromModulesStub ==
  /\ pc = "mark" /\ scanQ # <<>> /\ Head(scanQ)[1] = "module"
  /\ scanQ' = Tail(scanQ)
  /\ UNCHANGED <<heapVars, workList, freeSegs, sweepQ, reachAtStart, ret, pc,
                 mutVars, allocVars>>

(* One iteration of mark_from_roots: the value of a registered slot.       *)
MarkFromRoots == MarkRootWord("root", TRUE)

(* One _scan_ejsvalue of mark_from_modules on a module object's slot.      *)
MarkFromModules == MarkRootWord("module", FALSE)

(* One word of mark_ejsvals_in_range over the thread stack.                *)
MarkThreadStack == MarkRootWord("stack", TRUE)

(* The reference the scan callback of a popped object hands to            *)
(* _scan_ejsvalue.  Mutant: no callback is dispatched.                      *)
ScanChildNotDispatched(p) == Null
ScanChild(p) == field[p]

(* One iteration of process_worklist: pop, set_black, scan the object's    *)
(* reference with _scan_ejsvalue.                                          *)
ProcessWorklist ==
  /\ pc = "mark" /\ scanQ = <<>> /\ ~WorklistPopNull(workList)
  /\ LET seg == Head(workList)
         p == Last(seg)
         wl1 == IF Len(seg) = 1 THEN Tail(workList)
                ELSE [workList EXCEPT ![1] = Front(seg)]
         fs1 == IF Len(seg) = 1 THEN freeSegs + 1 ELSE freeSegs
         pm1 == [page EXCEPT ![PageOf(p)].bitmap[CellOf(p)] =
                                WithColor(@, blackMask)]
         child == ScanChild(p)
         v == Visit(pm1, child, FALSE)
     IN \/ /\ v = "segv"
           /\ pc' = "segv"
           /\ UNCHANGED <<workList, freeSegs, page>>
        \/ /\ v = "skip"
           /\ workList' = wl1 /\ freeSegs' = fs1 /\ page' = pm1
           /\ UNCHANGED pc
        \/ /\ v = "gray"
           /\ PushAndGray(wl1, fs1, pm1, child)
           /\ UNCHANGED pc
  /\ UNCHANGED <<arenas, numPages, freePages, heapPages, losList, field,
                 whiteMask, blackMask, scanQ, sweepQ, reachAtStart, ret,
                 mutVars, allocVars>>

(* _ejs_gc_worklist_pop returned NULL: marking is over; sweep_heap visits  *)
(* the arenas in heap_arenas order and their pages in index order.         *)
SweepOrder ==
  FlattenSeq([i \in 1..Len(arenas) |->
                [k \in 1..numPages[arenas[i]] |-> <<arenas[i], k - 1>>]])

MarkDone ==
  /\ pc = "mark" /\ scanQ = <<>> /\ WorklistPopNull(workList)
  /\ pc' = "sweep"
  /\ sweepQ' = SweepOrder
  /\ UNCHANGED <<heapVars, workList, freeSegs, scanQ, reachAtStart, ret,
                 mutVars, allocVars>>

-----------------------------------------------------------------------------
(* Sweeping and the color flip.                                            *)

(* The cells of a page sweep_heap finalizes: allocated and white.  Mutant: *)
(* without the IS_FREE skip.                                               *)
DeadCellsNoFreeCheck(info) ==
  {c \in 0..(info.numCells - 1) : ColorOf(info.bitmap[c]) = whiteMask}
DeadCells(info) ==
  {c \in 0..(info.numCells - 1) :
     ~IsFree(info.bitmap[c]) /\ ColorOf(info.bitmap[c]) = whiteMask}

(* sweep_heap skips a page whose cells are all free.  Mutant: it skips     *)
(* every page that has a free cell.                                        *)
SkipsPageWithFreeCell(info) == info.numFree > 0
SkipsPage(info) == info.numFree = info.numCells

(* One page of sweep_heap: a skipped page is left alone; otherwise         *)
(* _ejs_finalize_obj frees every dead cell (its words are overwritten with *)
(* 0xaf) and, if that empties the page, detaches it from                   *)
(* heap_pages[ffs(cell_size) - 4] and prepends it to the arena's free page *)
(* list.                                                                   *)
SweepPage ==
  /\ pc = "sweep" /\ sweepQ # <<>>
  /\ LET pg == Head(sweepQ)
         info == page[pg]
         dead == DeadCells(info)
         info1 == [info EXCEPT
                     !.bitmap = [c \in Cells |-> IF c \in dead THEN CellFree ELSE @[c]],
                     !.numFree = @ + Cardinality(dead)]
         emptied == dead # {} /\ info1.numFree = info1.numCells
         b == SC!SweepBucket(info.cellSize)
     IN
     \/ /\ SkipsPage(info)
        /\ UNCHANGED <<page, field, heapPages, freePages>>
     \/ /\ ~SkipsPage(info)
        /\ page' = [page EXCEPT ![pg] = info1]
        /\ field' = [w \in ObjWords |->
                       IF PageOf(w) = pg /\ w[3] \div info.cellSize \in dead
                       THEN Poison ELSE field[w]]
        /\ heapPages' = IF emptied THEN [heapPages EXCEPT ![b] = Remove(@, pg)]
                        ELSE heapPages
        /\ freePages' = IF emptied THEN [freePages EXCEPT ![pg[1]] = <<pg>> \o @]
                        ELSE freePages
  /\ sweepQ' = Tail(sweepQ)
  /\ UNCHANGED <<arenas, numPages, losList, whiteMask, blackMask, workList,
                 freeSegs, scanQ, reachAtStart, ret, pc, mutVars, allocVars>>

(* The IS_WHITE test of the large-object loop.  Mutant: it tests the black *)
(* mask.                                                                   *)
LosEntryBlack(l) == ColorOf(page[<<l, 0>>].bitmap[0]) = blackMask
LosEntryWhite(l) == ColorOf(page[<<l, 0>>].bitmap[0]) = whiteMask

(* The large-object loop of sweep_heap: every white entry is detached from *)
(* los_list, finalized and its region released (release_to_los).           *)
SweepLos ==
  /\ pc = "sweep" /\ sweepQ = <<>>
  /\ LET dead == {l \in Range(losList) : LosEntryWhite(l)}
     IN /\ losList' = SelectSeq(losList, LAMBDA l : l \notin dead)
        /\ page' = [pg \in Pages |->
                      IF pg[1] \in dead
                      THEN [page[pg] EXCEPT !.bitmap[0] = CellFree, !.numFree = 1]
                      ELSE page[pg]]
        /\ field' = [w \in ObjWords |-> IF w[1] \in dead THEN Poison ELSE field[w]]
  /\ pc' = "flip"
  /\ UNCHANGED <<arenas, numPages, freePages, heapPages, whiteMask, blackMask,
                 markVars, mutVars, allocVars>>

(* The shutting_down branch at the end of _ejs_gc_collect_inner: every     *)
(* root_set entry's slot is set to null and the entry freed.               *)
NullRoots ==
  /\ slot' = [s \in RootSlots |-> IF s \in Range(rootSet) THEN Null ELSE slot[s]]
  /\ rootSet' = <<>>

(* The mask swap at the end of _ejs_gc_collect_inner.  Mutant: no swap.    *)
FlipMasksNoSwap == UNCHANGED <<whiteMask, blackMask>>
FlipMasks == whiteMask' = blackMask /\ blackMask' = whiteMask

(* What _ejs_gc_alloc does after its own _ejs_gc_collect returns.  Mutant: *)
(* num_allocs is not reset.                                                *)
ResetAfterCollectKeepCount ==
  allocSizeAtLastGc' = allocSize /\ UNCHANGED numAllocs
ResetAfterCollect ==
  allocSizeAtLastGc' = allocSize /\ numAllocs' = 0

(* The end of _ejs_gc_collect_inner swaps white_mask and black_mask; back  *)
(* in _ejs_gc_alloc the caller resets alloc_size_at_last_gc and num_allocs *)
(* and retries, an explicit _ejs_gc_collect just returns.                  *)
FlipColors ==
  /\ pc = "flip"
  /\ FlipMasks
  /\ \/ /\ ret = "alloc"
        /\ ResetAfterCollect
        /\ pc' = "alloc"
        /\ UNCHANGED <<rootSet, slot>>
     \/ /\ ret = "explicit"
        /\ pc' = "mutator"
        /\ UNCHANGED <<allocSizeAtLastGc, numAllocs, rootSet, slot>>
     \/ /\ ret = "shutdown"
        /\ NullRoots
        /\ pc' = "exited"
        /\ UNCHANGED <<allocSizeAtLastGc, numAllocs>>
  /\ UNCHANGED <<arenas, numPages, freePages, page, heapPages, losList, field,
                 markVars, module, stack, live, allocSize, totalAllocs, req, oom>>

-----------------------------------------------------------------------------
(* The root registry and explicit collection.                              *)

(* _ejs_gc_add_root prepends an entry.  The runtime registers a slot that  *)
(* holds no reference yet.                                                 *)
AddRoot(s) ==
  /\ pc = "mutator" /\ Len(rootSet) < MaxRootEntries /\ slot[s] = Null
  /\ rootSet' = <<s>> \o rootSet
  /\ UNCHANGED <<heapVars, markVars, slot, module, stack, live, allocVars, pc>>

(* _ejs_gc_remove_root detaches the first entry for the slot, if any.      *)
RemoveRoot(s) ==
  /\ pc = "mutator" /\ s \in Range(rootSet)
  /\ rootSet' = RemoveFirst(rootSet, s)
  /\ UNCHANGED <<heapVars, markVars, slot, module, stack, live, allocVars, pc>>

(* _ejs_gc_collect outside shutdown.                                       *)
Collect ==
  /\ pc = "mutator"
  /\ StartCollection("explicit")
  /\ UNCHANGED <<heapVars, mutVars, allocVars>>

(* Mutant: the shutdown collection marks from the roots like any other.   *)
ShutdownMarksRoots ==
  /\ pc = "mutator"
  /\ StartCollection("shutdown")
  /\ UNCHANGED <<heapVars, mutVars, allocVars>>

(* _ejs_gc_shutdown, which main calls when the run loop is done:           *)
(* _ejs_gc_collect_inner(TRUE) skips mark_from_roots, mark_from_modules,   *)
(* mark_thread_stack and mark_generator_stacks, so the sweep finds every   *)
(* object white.                                                           *)
Shutdown ==
  /\ pc = "mutator"
  /\ scanQ' = <<>>
  /\ reachAtStart' = {}
  /\ ret' = "shutdown"
  /\ pc' = "mark"
  /\ UNCHANGED <<workList, freeSegs, sweepQ, heapVars, mutVars, allocVars>>

(* main returns after _ejs_gc_shutdown: the process has exited.           *)
Exited == pc = "exited" /\ UNCHANGED vars

(* After a fault (the NULL PageInfo dereference at 494, or the read        *)
(* outside heap_pages[]) the process has crashed or its state is           *)
(* undefined, and nothing further is modelled.                              *)
Faulted == pc \in {"segv", "badlist"} /\ UNCHANGED vars

-----------------------------------------------------------------------------
(* The rest of the runtime, between calls into the collector: it keeps     *)
(* references in stack words, object fields, registered slots and module   *)
(* slots, and only ever uses references it holds.                          *)

MutatorStep(A) ==
  /\ pc = "mutator"
  /\ A
  /\ UNCHANGED <<arenas, numPages, freePages, page, heapPages, losList,
                 whiteMask, blackMask, markVars, allocVars, pc>>

(* A frame returns and its top word leaves the stack.                      *)
PopWord == MutatorStep(/\ stack # <<>>
                       /\ stack' = Front(stack) /\ live' = live \ {Len(stack)}
                       /\ UNCHANGED <<field, rootSet, slot, module>>)

(* A stack word that is not a reference (an integer, a return address).   *)
PushJunk == MutatorStep(/\ Len(stack) < MaxStack
                        /\ \E w \in JunkWords : stack' = Append(stack, w)
                        /\ UNCHANGED <<field, rootSet, slot, module, live>>)

(* obj.f = v for a held object obj and a held reference or null v.         *)
StoreField == MutatorStep(\E i \in live, v \in LiveWords \cup {Null} :
                            /\ field' = [field EXCEPT ![stack[i]] = v]
                            /\ UNCHANGED <<rootSet, slot, module, stack, live>>)

(* x = obj.f: the reference in a held object's field goes on the stack.   *)
LoadField == MutatorStep(/\ Len(stack) < MaxStack
                         /\ \E i \in live : /\ field[stack[i]] # Null
                                            /\ PushLive(field[stack[i]])
                         /\ UNCHANGED <<field, rootSet, slot, module>>)

(* A registered slot is assigned a held reference, or cleared.            *)
StoreSlot == MutatorStep(\E s \in Range(rootSet), v \in LiveWords \cup {Null} :
                           /\ slot' = [slot EXCEPT ![s] = v]
                           /\ UNCHANGED <<field, rootSet, module, stack, live>>)

(* The value of a registered slot goes on the stack.                      *)
LoadSlot == MutatorStep(/\ Len(stack) < MaxStack
                        /\ \E s \in Range(rootSet) : /\ slot[s] # Null
                                                     /\ PushLive(slot[s])
                        /\ UNCHANGED <<field, rootSet, slot, module>>)

(* A slot that is no longer registered is cleared before it is reused.    *)
ClearSlot == MutatorStep(\E s \in RootSlots \ Range(rootSet) :
                           /\ slot[s] # Null
                           /\ slot' = [slot EXCEPT ![s] = Null]
                           /\ UNCHANGED <<field, rootSet, module, stack, live>>)

(* A module object's slot is assigned a held reference or null.           *)
StoreModule == MutatorStep(\E m \in DOMAIN module, v \in LiveWords \cup {Null} :
                             /\ module' = [module EXCEPT ![m] = v]
                             /\ UNCHANGED <<field, rootSet, slot, stack, live>>)

Mutator == PopWord \/ PushJunk \/ StoreField \/ LoadField
           \/ StoreSlot \/ LoadSlot \/ ClearSlot \/ StoreModule

(* Steps of a collector or allocator call already under way.               *)
GcStep ==
  \/ AllocFromLos \/ AllocLosFailed \/ AllocFromHeadPage \/ AllocFromNewPage
  \/ AllocPageFailed \/ AllocBadBucket
  \/ MarkFromRoots \/ MarkFromModules \/ MarkThreadStack
  \/ ProcessWorklist \/ MarkDone
  \/ SweepPage \/ SweepLos \/ FlipColors

Next ==
  \/ \E size \in Sizes : GcAlloc(size)
  \/ \E s \in RootSlots : AddRoot(s) \/ RemoveRoot(s)
  \/ Collect
  \/ Shutdown
  \/ Exited
  \/ Faulted
  \/ Mutator
  \/ GcStep

Spec == Init /\ [][Next]_vars

(* The collector runs to completion on the mutator's thread: once a call  *)
(* into it has started, its next step is always the one taken.            *)
FairSpec == Spec /\ WF_vars(GcStep)

-----------------------------------------------------------------------------
(* Properties.                                                             *)

PageRec == [cellSize : 0..64, numCells : 0..MaxCells, numFree : 0..MaxCells,
            bump : {NoBump} \cup Cells, bitmap : [Cells -> 0..7]]

TypeOK ==
  /\ arenas \in Seq(ArenaIds) /\ IsInjective(arenas)
  /\ numPages \in [ArenaIds -> 0..ArenaPages]
  /\ page \in [Pages -> PageRec]
  /\ heapPages \in [Buckets -> Seq(Pages)]
  /\ freePages \in [ArenaIds -> Seq(Pages)]
  /\ losList \in Seq(LosIds)
  /\ {whiteMask, blackMask} = {0, 1}
  /\ workList \in Seq(Seq(ObjWords)) /\ freeSegs \in Nat
  /\ rootSet \in Seq(RootSlots)
  /\ pc \in {"mutator", "alloc", "mark", "sweep", "flip", "segv", "badlist", "exited"}
  /\ ret \in {"alloc", "explicit", "shutdown"}

(* The references the runtime can still use: the live stack words, the     *)
(* registered slots, the module slots, and every field reachable from them *)
(* (fields followed whether or not their target is allocated).             *)
RECURSIVE HeldFrom(_)
HeldFrom(S) ==
  LET T == S \cup ({field[x] : x \in S \cap DOMAIN field} \ {Null})
  IN  IF T = S THEN S ELSE HeldFrom(T)

Held == HeldFrom(({slot[s] : s \in Range(rootSet)} \cup Range(module)
                   \cup LiveWords) \ {Null})

(* Spec section 8 "Liveness": no reference the runtime holds through a     *)
(* root, a stack word or a reachable field is ever to a cell that          *)
(* sweep_heap has freed (or a region release_to_los has unmapped): the     *)
(* root scans, the worklist closure and the sweep agree on what is live.   *)
(* The shutdown collection, after which the runtime uses nothing, is       *)
(* exempt.                                                                 *)
NoDanglingReference == ret # "shutdown" => \A w \in Held : w \in AllocatedCells

(* Spec section 8 "Reclamation" (with "Liveness"): when sweep_heap is done *)
(* the allocated cells are exactly those reachable when the collection     *)
(* started from the registered slots, the module slots and every word of   *)
(* the stack (stale words included: the scan is conservative).             *)
CollectionExact == pc = "flip" => AllocatedCells = reachAtStart

(* Spec section 5, shutdown(): the final collection leaves the process     *)
(* with no allocated cell, no large object on los_list and no registered   *)
(* root, whatever the roots, modules and stack still held: the sweep of a  *)
(* collection that marks nothing finds every object white.                 *)
ShutdownReleasesEverything ==
  pc = "exited" => AllocatedCells = {} /\ losList = <<>> /\ rootSet = <<>>

(* Spec section 8 "Color-flip correctness": whenever the collector is not  *)
(* running, every allocated cell is white under the current white_mask:   *)
(* marking leaves no gray cell, the flip turns every survivor white, and  *)
(* alloc_from_page and alloc_from_los stamp new cells white.                *)
AllWhiteBetweenCollections ==
  pc \in {"mutator", "alloc"} =>
    \A w \in AllocatedCells : ColorOf(BitOf(w)) = whiteMask

(* The tri-color invariant of process_worklist, and its worklist: while    *)
(* marking, no black cell references a white allocated cell, and the words *)
(* on the worklist segments are exactly the gray cells, each once.         *)
MarkInvariant ==
  pc = "mark" =>
    LET onList == FlattenSeq(workList)
        gray == {w \in AllocatedCells : ColorOf(BitOf(w)) = 2}
    IN /\ Range(onList) = gray
       /\ Len(onList) = Cardinality(gray)
       /\ \A w \in AllocatedCells :
             ColorOf(BitOf(w)) = blackMask /\ field[w] \in AllocatedCells
               => ColorOf(BitOf(field[w])) # whiteMask

(* Page accounting that alloc_from_page relies on without checking: each   *)
(* carved page's num_free_cells counts its free cells; a page is on        *)
(* exactly one list, its arena's free list when all its cells are free and *)
(* heap_pages[ffs(cell_size)-4] otherwise; a bump pointer only ever names   *)
(* free cells up to the end of the page.                                   *)
PageAccounting ==
  \A pg \in CarvedPages :
    LET info == page[pg]
        freeCells == {c \in 0..(info.numCells - 1) : IsFree(info.bitmap[c])}
        onFree == Len(SelectSeq(freePages[pg[1]], LAMBDA x : x = pg))
        onHeap == Cardinality({bi \in UNION {{<<b, i>> : i \in DOMAIN heapPages[b]} :
                                             b \in Buckets} :
                                 heapPages[bi[1]][bi[2]] = pg})
    IN /\ info.numFree = Cardinality(freeCells)
       /\ IF info.numFree = info.numCells
          THEN onFree = 1 /\ onHeap = 0
          ELSE /\ onFree = 0 /\ onHeap = 1
               /\ pg \in Range(heapPages[SC!SweepBucket(info.cellSize)])
       /\ info.bump # NoBump =>
            /\ info.bump < info.numCells
            /\ \A c \in info.bump..(info.numCells - 1) : c \in freeCells

(* Spec section 4.3: the pointer classifier is safe on arbitrary words; a  *)
(* conservative scan never faults in find_page_and_cell.                   *)
ClassifierNeverFaults == pc # "segv"

(* Spec section 7: a failed allocation collects and retries once, and the *)
(* retry looks in the same size class: every pass of the page branch of    *)
(* _ejs_gc_alloc indexes heap_pages[] inside the array, at the list of the *)
(* request's bucket_size.                                                  *)
RetryKeepsSizeClass ==
  pc = "alloc" /\ ~LosRequest => ReqBucket = SC!AllocBucket(req.size)

(* Spec section 7: an allocation throws page_allocation_failed only on true *)
(* exhaustion, never while its size class still has a free cell.           *)
OomOnlyWhenExhausted == oom.kind = "page" => ~oom.freeInBucket

(* Spec section 5: every allocation and collection runs to completion: the *)
(* collect-and-retry-once loop of _ejs_gc_alloc returns to the runtime.    *)
CollectorReturns == (pc # "mutator") ~> (pc \in {"mutator", "exited"})

(* The collector as the runtime sees it: the allocated cells and large    *)
(* objects, their fields and the root words (registered slots, module      *)
(* slots, every stack word) behave as GcHeap allows.  Each _ejs_gc_alloc  *)
(* returns a cell or region that was free, each step of sweep_heap frees   *)
(* only objects no root reaches, and nothing else changes the set of       *)
(* allocated objects.                                                      *)
Heap == INSTANCE GcHeap WITH Addrs <- ObjWords, objects <- AllocatedCells,
                             ref <- field, roots <- RootWords,
                             down <- (ret = "shutdown")
ImplementsGcHeap == Heap!Spec

=============================================================================
