# TLA+ models of the echo-js memory manager, typed arrays and regexps

This directory models three parts of the echo-js runtime, checked with TLC:

* the garbage collector, `src/runtime/ejs-gc.c`, a non-moving,
  stop-the-world mark-and-sweep collector with a conservative stack scan;
* the binary data objects, `src/runtime/ejs-typedarrays.c`: `ArrayBuffer`,
  the typed arrays and `DataView`, which are the runtime's main heap client
  with memory of its own (a `calloc`'d block per buffer);
* the RegExp objects, `src/runtime/ejs-regexp.c`: the constructor,
  `lastIndex`, `exec` and the `@@match` and `@@replace` loops over pcre.

The collector part comes first below, then the typed arrays, then regexps.

## The system

The parts of `ejs-gc.c` and how they interact:

| part | code | role |
|---|---|---|
| OS memory | `alloc_from_os`, `release_to_os` (192-232) | mmap-backed arenas and large-object regions |
| arenas | `Arena`, `heap_arenas`, `arena_new` (238-249, 345-379) | arenas kept sorted by address; creation refused at `MAX_ARENAS-1` |
| pages | `alloc_page_info_from_arena`, `alloc_page_from_arena`, `alloc_new_page` (388-433, 561-584) | a page comes from the arena's free list or is carved below `arena->end`; arenas are searched first-fit |
| size classes | `pow2_ceil`, `_ejs_gc_alloc` (1192-1206, 1318-1344) | round the request up to a power of two; `ffs` picks the `heap_pages[]` list or the LOS |
| page allocator | `alloc_from_page` (1209-1253) | bump pointer first, then a first-fit bitmap scan |
| large object store | `alloc_from_los`, `release_to_los`, `los_list` (1256-1286) | one region per object, described as a one-cell page |
| bitmap | `SET_*`/`IS_*`, `set_gray`, `set_black`, `is_white` (251-300, 528-558) | a color and a free bit per cell; white and black are swapped by flipping two masks |
| classifier | `find_arena_in_array`, `find_page_and_cell_from_arena` (473-525) | maps an arbitrary word to a page and cell, or to nothing |
| worklist | `_ejs_gc_worklist_push`/`_pop` (104-182) | a stack of fixed-size segments, with a free list of segments |
| marker | `mark_from_roots`, `mark_from_modules`, `mark_thread_stack`, `process_worklist` (691-1018) | grays roots, then blackens and scans until the worklist is empty |
| sweeper | `sweep_heap`, `_ejs_finalize_obj` (618-661, 834-895) | frees white allocated cells; an emptied page returns to its arena's free list; white large objects are unmapped |
| collection | `_ejs_gc_collect_inner`, `_ejs_gc_collect` (1021-1173) | mark, sweep, flip the masks |
| allocation front end | `_ejs_gc_alloc` (1293-1381) | thresholds trigger a collection; a failed allocation collects and retries once, then throws |
| root registry | `_ejs_gc_add_root`, `_ejs_gc_remove_root` (1384-1404) | a list of registered `ejsval*` slots |

The rest of the runtime calls into the collector from a single thread. It
allocates, stores references in objects, registered slots, module objects and
native stack words, and registers and unregisters roots. The `LOCK_*` macros
are empty, so every call into the collector runs to completion before the
runtime continues.

## Modules

* **`SizeClass`**: the size-class arithmetic as pure operators over
  `WordBits`-bit integers. It covers `pow2_ceil` (`Smear`, `Pow2Ceil`, with
  modular wrap-around), `ffs` (`Ffs`, RECURSIVE), `bucket_size`/`bucket`
  (`BucketSize`, `GoesToLos`, `AllocBucket`), the bucket `_ejs_finalize_obj`
  recomputes (`SweepBucket`), and `CELLS_OF_SIZE`.
* **`MC_Algorithms`**: the harness for the pure operators of `SizeClass`
  and `TypedArrayAlgo`. Its state is one call: a request size from
  `Requests`, or a typed-array call (an element sequence and three
  arguments). A variable `call` says which, so the two input spaces are
  added, not multiplied. It checks `Pow2Ceil` against the reference
  `LeastPowAtLeast` (RECURSIVE) and the bucket arithmetic against itself at
  allocation and at finalization; the typed-array properties are described
  with the typed arrays. It also holds `alloc_from_os` calls of
  `OsMemory`: an arena request or a large-object request, made while a set
  of pages `mapping` is already mapped.
* **`EjsGc`**: the collector and allocator as one state machine. It instances
  `SizeClass`.
* **`GcHeap`**: the abstract collector, which is what spec section 8
  promises the runtime. Its state is a set of allocated objects, the
  reference each object holds, the root words, and a flag `down` for
  shutdown. Before shutdown it has three actions. `Allocate` hands out an
  object that was not allocated, holding null, as a new root. `Free`
  removes objects that no root reaches (the reference closure `Reach`).
  `Mutate` changes roots and references without making anything reachable
  that was not reachable before. `Shutdown` sets `down`. After that only
  `Teardown` happens: it frees any objects and drops any roots. This is
  spec section 5's `shutdown()`, "a final collection that nulls every
  registered root". `EjsGc` instances it with the refinement mapping
  objects <- `AllocatedCells`, ref <- `field`, roots <- `RootWords`,
  down <- `ret = "shutdown"`. Its `Spec` is the property `ImplementsGcHeap`.
* **`OsMemory`**: `alloc_from_os` and `release_to_os` at the level of the
  OS pages they map, with their callers `arena_new` (`ArenaNew`),
  `alloc_from_los` (`AllocFromLos`) and `release_to_los` (`ReleaseToLos`).
  * **State:** `mapped`, the set of mapped pages of an address space
    `1..AddrPages` (0 is NULL); `arenas`, the arena bases; `los`, one record
    per large object with its base, the cell's `page_start`, its
    `alloc_size`, and a ghost `maplen`, the length the OS mapped.
  * **Environment:** `mmap` returns any run of unmapped pages that is long
    enough, or fails if there is none. `munmap(addr, len)` unmaps every page
    that meets `[addr, addr + len)`, and does nothing for `len = 0`.
  * **Code:** `AllocFromOs` is `alloc_from_os` with its two cases.
    `TrimToAlignment` is the aligned case's choice between keeping the first
    half and trimming both sides. `LosMapLen` and `LosEntry` are
    `alloc_from_los`'s length and its layout (bitmap after the header, cell
    at `ALIGN(lobj + sizeof(LargeObjectInfo) + 8, 8)`).
  * **Arena search:** `ArenaBsearch` is the bsearch loop inlined in
    `find_arena`, step by step (`base`, `lim`, the `lim--` on a move
    right), written as a RECURSIVE operator. `FindArena` is the whole
    function, including its return value.
  * `MC_Algorithms` instances it to check `alloc_from_os` as a pure
    operator, for every prior mapping and every address `mmap` may return,
    and `ArenaBsearch` against membership in every sorted table.
* **`MC_EjsGc`**: the model values for `EjsGc`. These are the arena base
  addresses (the second arena is mapped below the first), a non-reference
  stack word, and a word just past the last carved page.

### EjsGc: state

A machine word is `<<region, page, offset>>`. The region is an arena number or
a large-object region. A cell's address is `<<arena, page, cell*cell_size>>`,
and a large object's address is `<<region, 0, 0>>`.

| variable | code |
|---|---|
| `arenas` | `heap_arenas[0..num_arenas-1]`, sorted by `ArenaAddr` |
| `numPages`, `freePages` | `arena->num_pages`, `arena->free_pages` |
| `page` | each `PageInfo`: `cell_size`, `num_cells`, `num_free_cells`, `bump_ptr` (as a cell index or `NoBump`), `page_bitmap` |
| `heapPages`, `losList` | `heap_pages[]`, `los_list` |
| `field` | the one traced reference each object holds; the per-type scanners are abstracted to this one field |
| `whiteMask`, `blackMask` | `white_mask`, `black_mask` |
| `workList`, `freeSegs` | `work_list.list` (segments, head first), the number of segments on `work_list.free_list` |
| `rootSet`, `slot`, `module`, `stack`, `live` | `root_set`, the registered slots' values, `_ejs_modules` slots, the native stack words, and the stack words the runtime still uses |
| `numAllocs`, `allocSize`, `allocSizeAtLastGc`, `totalAllocs` | the counters of `_ejs_gc_alloc`; `totalAllocs` is bounded by `MaxAllocs` |
| `pc`, `req`, `ret` | where the running call is (`alloc`, `mark`, `sweep`, `flip`, `segv` after a classifier fault, `badlist` after a read of `heap_pages[]` outside the array, or `exited` after shutdown), the request's `size`/`bucket_size`/`bucket`, and who called the collection (`alloc`, `explicit` or `shutdown`) |
| `scanQ`, `sweepQ` | the root words and pages the running loops have still to visit |
| `reachAtStart`, `oom` | ghosts: the cells reachable when the collection began, and the last OOM exception thrown |

### EjsGc: actions

* **`GcAlloc(size)`**: the start of `_ejs_gc_alloc`. It bumps the counters
  and computes `bucket_size` and `bucket = ffs(bucket_size)` once, before
  the `retry_allocation` label. If a trigger fires it starts a collection,
  else it goes to the label. `req.bucket` is `bucket` as it is at the label,
  and `ReqBucket` is `bucket - OBJECT_SIZE_LOW_LIMIT_BITS`, the subtraction
  the page branch does after the label (line 1344).
* **`AllocFromLos`, `AllocLosFailed`**: the LOS branch.
* **`AllocFromHeadPage`, `AllocFromNewPage`, `AllocPageFailed`**: the page
  branch.
  * The head page is checked first.
  * Otherwise `alloc_new_page` searches the arenas first-fit, then
    `arena_new` inserts a new arena in address order.
  * The new page is prepended to `heap_pages[bucket]`.
  * `alloc_from_page` (`AfterAlloc`) follows.
  * A page that is now full is rotated to the tail.
  * On failure (`AllocFailed`), the code throws if `num_allocs == 0`, or else
    collects and goes back to the label. The page branch's retry keeps the
    subtracted `bucket`, so it subtracts a second time (finding 7).
* **`AllocBadBucket`**: the page branch with `ReqBucket` outside
  `heap_pages[]`. Reading `heap_pages[bucket].head` there is undefined, and
  `pc = "badlist"` stands for every outcome.
* **`Faulted`**: the process after a fault (`segv` or `badlist`): nothing
  more happens, a stuttering step.
* **`MarkFromRoots`, `MarkFromModules`, `MarkThreadStack`**: one root word
  each, in the order `_ejs_gc_collect_inner` calls them.
  * Each action classifies the word with `FindPageAndCell` and grays it with
    `PushAndGray`.
  * The root scan and the stack scan test `IS_FREE`. `is_white` does not.
  * A fault in the classifier moves to `pc = "segv"`.
* **`ProcessWorklist`**: one pop. It sets the object black, then scans its
  field.
* **`MarkDone`**: the pop returns NULL, and the sweep starts.
* **`SweepPage`, `SweepLos`**: one page of `sweep_heap`, and its
  large-object loop.
  * Freed cells get the 0xaf fill (`Poison`).
  * An emptied page moves to its arena's free list.
* **`FlipColors`**: the mask swap. `_ejs_gc_alloc`'s reset and retry follow
  it, or an explicit collection returns. After the shutdown collection,
  `NullRoots` sets every registered slot to null and empties `root_set`
  (1099-1111), and `pc` becomes `exited`.
* **`Shutdown`, `Exited`**: `_ejs_gc_shutdown`, which `main` calls when the
  run loop ends. `_ejs_gc_collect_inner(TRUE)` skips every mark phase
  (line 1039), so the collection goes straight to the sweep. Then `main`
  returns, and `Exited` is the stop of the process (a stuttering step, so
  the end of the program is not reported as a deadlock).
* **`AddRoot`, `RemoveRoot`, `Collect`**: the root registry and
  `_ejs_gc_collect`.
* **The `Mutator` actions**: the rest of the runtime. They pop and push
  stack words, store and load fields, and fill and clear root and module
  slots. They only use references the runtime holds.

## Runs

| run | cfg | expect | what it shows |
|---|---|---|---|
| `algorithms` | `Algorithms.cfg` | pass | `Pow2CeilExact`: `pow2_ceil` is exact for every request of at least 1. `BucketIndexConsistent`: for every in-page request, the first pass's bucket lies inside `heap_pages[]`, gives a cell at least as large as the request, and is the bucket recomputed at finalization. `ArenaSearchExact`: the bsearch inlined in `find_arena` finds the slot of every arena in every sorted table of up to 5 arenas, and no slot for a key between or beyond them. `ArenaMappingExact`: for every mapping of a 6-page address space and every address `mmap` may return, `alloc_from_os(ARENA_SIZE, ARENA_SIZE)` returns an aligned arena and leaves exactly its pages newly mapped. `LosObjectInsideMapping`: the header, bitmap byte and cell of a large object lie in the pages its own mapping added. The same run checks the typed-array algorithms (below). |
| `gc_pages` | `EjsGc.cfg` | pass | `TypeOK`, `NoDanglingReference`, `CollectionExact`, `AllWhiteBetweenCollections`, `MarkInvariant` and `PageAccounting` hold over every interleaving of runtime steps with allocations, triggered, failure-driven and explicit collections, across two size classes and three arenas. Failed page passes reach the retry, which ends in `badlist` (finding 7); these properties hold up to that point. `ShutdownReleasesEverything`: after `_ejs_gc_shutdown` no cell, large object or registered root is left. |
| `gc_los_modules` | `EjsGcLos.cfg` | pass | `NoDanglingReference` and `CollectionExact` hold with large objects, module slots and a non-reference stack word. `CollectorReturns`: under weak fairness of collector steps, every call returns to the runtime, and the collect-and-retry path is taken at most once per request. `ImplementsGcHeap`: every step of `EjsGc` is a `GcHeap` step or leaves the abstract state unchanged. |
| `gc_classifier_fault` | `EjsGcFault.cfg` | violation | A stack word into the first uncarved page makes the classifier dereference a NULL `PageInfo` (finding 1). |
| `gc_head_only_oom` | `EjsGcOom.cfg` | violation | `page_allocation_failed` is thrown while the size class still has a free cell (finding 2). |
| `gc_retry_bucket` | `EjsGcRetry.cfg` | violation | `RetryKeepsSizeClass`: every pass of the page branch indexes `heap_pages[]` inside the array, at the list of the request's size class. The retry after a failed page pass does not (finding 7). |
| `los_unmap_leak` | `OsMemoryLeak.cfg` | violation | `NoLeakedMapping` (module `OsMemory`): after a large object is released, a page of its mapping is still mapped (finding 6). |

The properties:

* **`NoDanglingReference`**: no reference the runtime holds leads to a freed
  cell or region. This covers roots, live stack words and the fields
  reachable from them.
* **`CollectionExact`**: when the sweep ends, the allocated cells are exactly
  those reachable when the collection began. The reachable set is computed by
  the reference closure `ReachClosure`, from every root word, stale stack
  words included.
* **`AllWhiteBetweenCollections`**: between calls, every allocated cell is
  white under the current mask.
* **`MarkInvariant`**: while marking, the worklist holds exactly the gray
  cells, each once, and no black cell points to a white allocated cell.
* **`ImplementsGcHeap`**: `EjsGc` refines `GcHeap`. Each allocation returns
  a cell or region that was free. Each step of the sweep frees only objects
  that no root reaches in the heap as it then is. Marking, the triggers and
  the flip leave the abstract state unchanged. The runtime's own steps never
  make an unreachable object reachable again.
* **`PageAccounting`**: `num_free_cells` counts the free bits. Every carved
  page is on exactly one list: its arena's free list when empty, otherwise
  `heap_pages[ffs(cell_size)-4]`. The bump pointer only covers free cells
  inside the page.
* **`ShutdownReleasesEverything`**: when the process exits, no cell is
  allocated, `los_list` is empty and `root_set` is empty. This holds
  whatever the stack, modules and slots still held. It depends on every
  object being white when the shutdown collection starts. That in turn
  depends on the flips and the allocation stamps of all earlier
  collections. `NoDanglingReference` exempts the shutdown collection,
  because it frees objects the stack still names, and nothing runs after
  it. `CollectorReturns` counts the exit as the end of the call.

Each property of a passing run has a mutant in `PROJECT.json`. The mutant is
a plausible bug in the mapped code, and the property catches it. The mutants
are:

* a dropped `IS_FREE` test;
* a scanner that is never dispatched;
* a wrong page-skip test;
* a missing mask swap;
* a missing is-white test;
* a missing end-of-page check;
* the module scan stubbed out;
* the shutdown collection marking from the roots like any other;
* a LOS test of the wrong mask;
* a scanner that is never dispatched, again, for `ImplementsGcHeap`;
* `num_allocs` not reset;
* `pow2_ceil` without its decrement;
* a trailing-zero count in place of `ffs`;
* `alloc_from_os` unmapping `res + 2*size - aligned_res` bytes after the
  arena, past its own mapping;
* `find_arena`'s bsearch with the comparison reversed;
* `alloc_from_los` mapping `size + 16` bytes without the header.

## Findings

1. **Classifier off-by-one** (`ejs-gc.c:488`). The check is
   `page_index > arena->num_pages`, where `>=` is needed. A conservative word
   into the first uncarved page of an arena reads the NULL
   `page_infos[num_pages]`, which is dereferenced at line 494.
2. **Out-of-memory with free cells** (`ejs-gc.c:1349`). Only the head page
   of `heap_pages[bucket]` is tested. With the arenas full, a cell freed
   behind a full head page is never found. When the failing request is the
   one whose threshold collection has just reset `num_allocs` to 0, the
   first pass throws `page_allocation_failed` without collecting. TLC's
   trace: five 16-byte allocations fill the arena's two pages, the fifth
   triggers a collection that frees a cell behind the full head page, and
   the next request throws with that cell free.

6. **Large objects leak a page** (`ejs-gc.c:1285`). `alloc_from_los`
   maps `size + sizeof(LargeObjectInfo) + 16` bytes (1259). `release_to_los`
   unmaps `lobj->alloc_size`, which is `size` (1275, 1285). `munmap` unmaps
   only the pages that meet `[lobj, lobj + size)`. So whenever the header
   and the slack reach one more page, that page stays mapped for ever. This
   happens for every size that is a multiple of `PAGE_SIZE`, and for every
   size less than `sizeof(LargeObjectInfo) + 16` below one. TLC's trace:
   `alloc_from_los(4080)` maps two pages, the object is released, and one
   page stays mapped with nothing on it. Spec section 3 says the sweeper
   destroys a large object by releasing its OS mapping. The leak grows with
   every such large object, and no test that frees a few of them notices.
   (Findings are numbered across the project: 3 and 4 are the typed
   arrays', 5 the regexps'.)
7. **The retry indexes the wrong list** (`ejs-gc.c:1344`). `bucket =
   ffs(bucket_size)` is computed before the `retry_allocation` label, and
   `bucket -= OBJECT_SIZE_LOW_LIMIT_BITS` comes after it. When
   `alloc_new_page` fails and `num_allocs != 0`, the code collects and
   jumps back to the label, so the subtraction runs twice. With the real
   constants, a 16-64 byte request retries at `heap_pages[-3..-1]`,
   outside the array. A 128-byte request retries at the unused
   `heap_pages[0]`: it files a fresh 128-byte page there, and
   `_ejs_finalize_obj` later detaches that page from list 4, where it
   never was. A 256-1024 byte request retries at the list of the 16-64
   byte class, whose head page can hand out a cell too small for it. Spec
   section 7 says a failed allocation collects and retries once. TLC's
   trace (`EjsGcRetry.cfg`): two objects fill both one-page arenas, a
   32-byte request fails its page pass, and the retry reads
   `heap_pages[-2]`. `gc_pages` reaches the same state, `badlist`, and its
   invariants hold up to it.

`find_arena` (ejs-gc.c:470) has a latent bug. Its loop stores the `Arena*`
it finds in `rv`, and the function then returns `*(Arena**)rv`. That is the
first word of the arena, its `end` field, not the arena. `FindArena`
models this. Nothing in the repository calls `find_arena`, so no run
states its result. `ArenaSearchExact` checks the loop itself.

One divergence is kept as a hazard with no run. `ffs(2048) = 12 > 11`
(`ejs-gc.c:1320`), so the largest in-page class is 1024, while the comment
at line 321 and spec section 8 say 2048. The smallest class, 16 bytes, is
list `ffs(16) - 4 = 1` and 1024 bytes is list 7, so `heap_pages[0]` is never
used by a first pass.
It changes where an object is placed, not whether the heap is safe
(`BucketIndexConsistent` holds for every in-page request).

## Bounds and why they are enough

Pages are 32 bytes, with `LowBits = 4` and `HighBits = 6`. The classes are
therefore 16 bytes (two cells) and 32 bytes (one cell), and a 64-byte request
goes to the LOS, as 2048 does in the code. This keeps the model small while
keeping these cases:

* pages with one and with several cells;
* the bump pointer dropped before the last cell;
* the bitmap scan;
* full pages rotated;
* emptied pages returned to the free list.

Other settings:

* **Arenas:** arenas have one page and `MaxArenas = 3`, so `arena_new`
  refuses at two. The second arena is mapped at a lower address than the
  first. As a result, the insertion into `heap_arenas`, the first-fit search
  and the sweep order all see a re-ordered array.
* **Worklist:** `SegCap = 1` makes every push open a segment and every pop
  close one, which exercises the segment free list.
* **Allocations and stack:** `MaxAllocs = 3` and `MaxStack = 2`.
* **Thresholds:** a count of 4 and 96 bytes. Two objects fill both arenas
  without a trigger firing, so a third request fails its page pass with
  `num_allocs != 0`, collects and retries.
* **What this reaches:** the count trigger, the byte trigger, failures that
  collect and retry, and explicit collections, all interleaved with root and
  field updates.
* **OOM run:** this run allows more allocations (`MaxAllocs = 5`) and two-page
  arenas, so that a page can be freed behind a full head page. Its count
  threshold of 5 makes the fifth allocation collect, so the next failing
  request has `num_allocs == 0`.
* **Retry run:** the `gc_pages` constants; the first failed page pass
  already shows the retry.
* **SizeClass:** covers every request size up to 2100, and sizes around one
  page, at the code's real constants (4, 11, 4096).
* **OsMemory:** real byte sizes: `PAGE_SIZE = 4096`, and
  `sizeof(LargeObjectInfo) = 88`, which is the LP64 layout of the struct
  with a two-pointer list header. Arenas are 2 pages, not 2048; the
  alignment arithmetic is the same for every power of two. Large-object
  sizes are 2048 (one page, nothing leaks), 4096 (a page multiple) and
  4080 (between `4096 - 104` and `4096 - 16`: the header is what makes it
  two pages). `MC_Algorithms` enumerates every mapping of 6 pages, which
  holds an arena's 4-page `mmap` at every offset, aligned and not. The
  leak run has 10 pages and `MaxArenas = 3`.

## Fairness

`FairSpec` adds `WF_vars(GcStep)`. The collector runs on the runtime's
thread with no locks and no yields. Once `_ejs_gc_alloc` or `_ejs_gc_collect`
has been entered, its next step is always the one taken. The runtime is not
assumed fair: it may stop calling the collector.

## Not modelled

* **Addresses in `EjsGc`:** an arena is a number with an ordered base
  address there, and a large-object region is a unit. Their byte layout is
  `OsMemory`'s, which in turn does not model pages or cells inside an
  arena. `arena_destroy` is never called.
* **Generators:** `mark_generator_stacks` marks nothing. Generator stacks are
  simply not a root source in the model.
* **Per-type scanners and finalizers:** these are abstracted to one traced
  field and no finalizer effect.
* **Other code:** statistics and the heap dump.
* **LLVM bindings:** `src/ejs-llvm` and `src/node-llvm` pass their arguments
  to the LLVM C++ API and wrap the result in a JS object. They keep no state
  of their own, and what they call (LLVM, `_ejs_init_object`) is not in this
  repository, so there is nothing for a model to check.
* **Register scan:** `mark_pointers_in_range` over the registers is folded
  into the stack words. Its loop stops at `p < high - 1` (line 754), and
  `MARK_REGISTERS` passes `&__rax` as `high`. So two register slots at the
  top of the range are never scanned. Which registers those are depends on
  how the compiler lays out the locals of `mark_thread_stack`. That layout
  is not in this repository, so this is a hazard with no property. The same
  holds for the stack word just below `stack_bottom` (line 794).

## Further work

The generator root source (hazards at lines 981 and 996) cannot be modelled
from this repository: the code that pushes and pops generators is not here.
The explicit-collection trigger was checked against the code and is not a
hazard. `num_allocs` and `num_allocs_since_last` count up by one, are compared
with `==`, and are reset after a triggered collection, so an explicit
collection can only bring the next trigger forward. The project keeps to 12
runs, and every one of them is in use.

1. **Typed arrays:** the 4- and 8-byte element types. The DataView
   `has_property` off-by-one at line 2619 (index 0 is reported absent)
   changes no state, and `0 in dv` shows it, so it is not listed as a hazard.
2. **Other string-building methods:** `toString` and the constructor's
   conversions may keep strings in unscanned memory in the same way that
   `join` does (finding 4). They would be modelled on `TypedArrayJoin`.

# Typed arrays (`ejs-typedarrays.c`)

## The system

| part | code | role |
|---|---|---|
| ArrayBuffer | `_ejs_ArrayBuffer_impl`, `_ejs_arraybuffer_new`, `_ejs_arraybuffer_new_slice`, `slice` (108-217) | a buffer owns a `calloc`'d block of `size` bytes, or is a dependent slice: a parent buffer and an offset |
| storage access | `_ejs_arraybuffer_get_data`, `_ejs_typedarray_get_data`, `_ejs_dataview_get_data` (2196-2223) | follow the slice parents to the owning block, then add the view's byte offset |
| typed array constructors | `TypedArray(...)`, `T.of`, `_ejs_typedarray_new` (351-466, 1004-1045, 2107-2124) | from a length, a dense array or a buffer with byte offset and length |
| element access | `specop_get`, `specop_set`, the Uint8Clamped `specop_set` (468-501, 1048-1106) | index checks, then a read or a store of `data[idx]` |
| prototype methods | `copyWithin`, `set`, `subarray`, `fill`, `indexOf`, `lastIndexOf`, `reverse` (532-977, 1195-1933) | index clamping and element loops; `subarray` calls the constructor on the same buffer |
| DataView | `_ejs_DataView_impl`, `getT`/`setT`, the byte specops (219-340, 2537-2607) | an offset and a length over a buffer; reads and writes of 1- to 8-byte values |
| collector hooks | the `finalize` and `scan` specops (2475-2493, 2529-2534, 2661-2666) | finalize frees an owned block; scan reports a view's buffer and a slice's parent |

A view reads its buffer's storage at every access: nothing is copied or
cached. So a view is correct only as long as the collector keeps its buffer,
and the buffer's parent chain, alive.

## Modules

* **`TypedArrayAlgo`**: the index arithmetic and element loops of the
  prototype methods, as pure operators over a sequence of elements.
  * C's `int` and `uint32_t` are `IntBits` wide. `U32` wraps; `I32` is the
    two's-complement reading of a `uint32_t` passed to `max(int, int)` or
    `min(int, int)`.
  * It has `ClampIndex`, `CopyWithinBounds`, the copy loop `CopyLoop`
    (RECURSIVE) with its direction choice, `ReverseLoop`, `FillRange`, the
    start and loop of `indexOf`/`lastIndexOf`, and `SubarrayRange`.
* **`MC_Algorithms`** (see the collector part) checks `copyWithin` against
  a memmove reference (`CopyWithinRef`), `reverse` against `Reverse` of
  SequencesExt, and `indexOf`/`lastIndexOf` against `IndexOfRef` and
  `LastIndexOfRef`.
* **`TypedArrays`**: buffers, views and memory as one state machine, one
  action per API call.
* **`MC_TypedArrays`**: model values for two buffers and two views, and the
  symmetry between them.
* **`TypedArrayJoin`**, with **`MC_TypedArrayJoin`**: `join` composed with
  the collector through `GcHeap` (see "TypedArrayJoin" below).

### TypedArrays: state

| variable | code |
|---|---|
| `buf` | each `EJSArrayBuffer`: `dependent`, `size` (an `int`), `data.dependent.buf` (`parent`) and `.offset`; `live` while the cell is allocated |
| `mem` | the bytes of each owned block (`<<>>` for NULL) |
| `view` | each `EJSTypedArray` or `EJSDataView`: `buffer`, `byteOffset`, `length`, `byteLength`, element type |
| `held` | the objects the program still holds |
| `oob` | ghost: some access fell outside the owning block |
| `last` | ghost: the last call, its exception and the arguments the properties read |

An access outside the block is undefined in C. The model takes one of its
outcomes: a read returns `Garbage`, a write is lost, and `oob` records the
access.

### TypedArrays: actions

* **`ArrayBufferNew`, `ArrayBufferSlice`**: the constructor, and `slice` with
  0, 1 or 2 arguments through `NewSlice`.
* **The constructors**: `TypedArrayFromLength` (`new T()` and
  `new T(length)`, gated by `"TypedArrayLength"`), `TypedArrayFromArray`,
  `TypedArrayFromBuffer` (its checks are in `FromBuffer`), and `ArrayOf`.
* **`DataViewNew`**, and the DataView accessors `DataViewGetValue` and
  `DataViewSetValue` (with `SwapBytes`), `DataViewGetByte` and
  `DataViewSetByte`.
* **`TypedArrayGet`, `TypedArraySet`**: the element specops.
* **The prototype methods**: `CopyWithin`, `SetArray`, `SetTypedArray`,
  `Subarray`, `Fill`, `TypedArrayReverse`, `IndexOf` and `LastIndexOf`.
  * Each one calls its `TypedArrayAlgo` operator and writes the result back
    through the view.
  * Each raises the exceptions in the code's order (`ValidateTypedArray`,
    `SetArrayExc`, `SetTypedArrayExc`).
* **`Drop`, `Collect`**: the program lets go of an object, and a collection
  runs.
  * `Collect` keeps the closure of the held objects under `ScanRefs`, the
    scan specops.
  * It finalizes the rest, freeing their blocks.
  * The collector's own mechanics are the subject of `EjsGc`.

`Ops` selects the calls a run makes. The calls that reach
`EJS_NOT_IMPLEMENTED` are never made, because they abort the process:
* `new T(typedArray)`;
* sparse arrays;
* `set(typedArray)` on the same buffer, across element types, or from a
  Uint8Clamped source.

## Runs

| run | cfg | expect | what it shows |
|---|---|---|---|
| `algorithms` | `Algorithms.cfg` | pass | (shared with the size classes) `CopyWithinIsMemmove` and `ReverseIsReverse`: for every array of up to 3 elements and every target, start and end in -4..4 or undefined, `copyWithin` equals memmove of the clamped range and `reverse` reverses. `IndexOfIsFirstMatch` and `LastIndexOfIsLastMatch`: `indexOf` and `lastIndexOf` (searching for the target argument from the end argument) return the ES result, so their int32 start computations and loops agree with the specification for negative, omitted and out-of-range `fromIndex`. |
| `ta_collect` | `TypedArraysCollect.cfg` | pass | `NoUseAfterFree`: a collection never frees a buffer that a held view or slice reads through, across slices of slices, views over slices, drops and collections in any order. |
| `ta_methods` | `TypedArraysMethods.cfg` | pass | `SubarraySharesElements`: `subarray` of an array inside its buffer, and of its subarrays, views the very storage of the selected elements. `SetCopiesSource`: `set(typedArray, offset)` leaves source element k at offset + k. |
| `ta_ctor_overflow` | `TypedArraysCtorOverflow.cfg` | violation | `TypedArrayWithinBuffer`: the constructor's range check wraps, and the array is longer than its buffer (finding 3). |
| `ta_join_gc` | `TypedArrayJoin.cfg` | violation | `JoinReadsLiveStrings` (module `MC_TypedArrayJoin`): the copy loop of `join` reads a string that a collection, run by a later `ToString`, has freed (finding 4). |

The mutants of the passing runs are:
* `copyWithin` always copying forwards;
* `reverse` reading the upper element back after the first Put;
* `indexOf` computing `len - n` in place of `len - abs(n)`;
* `lastIndexOf` stopping its loop before index 0;
* the arraybuffer scan not reporting a slice's parent;
* `subarray` without the source's byte offset;
* the `set` copy loop without the target offset in its limit.

## Findings

3. **Constructor range check wraps** (`ejs-typedarrays.c:425`).
   `byteOffset + byteLength > buffer->size` is computed in `uint32_t`, and so
   is `ToUint32(length) * elementSize`.
   `new Int16Array(new ArrayBuffer(4), 2, 2147483647)` gets past the check
   and has 2^31-1 elements over 4 bytes.
4. **join's strings are not roots** (`ejs-typedarrays.c:1554`). `join`
   keeps `strings[i] = ToString(Get(O, i))` in memory it got from `malloc`
   (1550), and reads the strings only in the copy loop (1564-1589). The
   collector scans the root set, the modules and the native stack, never
   `malloc`'d memory. So a string whose word the frame no longer holds is
   freed by the collection that the next `ToString`'s allocation runs, and
   its cell can be handed to the next string. TLC's trace on a two-element
   array: `ToString(O[0])` makes a string in cell `a1`; the frame drops the
   word; `ToString(O[1])` collects `a1` and reuses it; the copy loop reads
   `strings[0]` from the reused cell. The separator is held only through
   the interior pointer `sep_str`, which the classifier rejects, so it is
   exposed in the same way. This assumes that `ToString` of a number
   allocates a fresh string, as it must for most values; `ToString` is not
   in this repository.

`specop_get` tests `idx > EJS_TYPED_ARRAY_LEN(obj)` (487), where
`specop_set` tests `>=`, so `a[a.length]` reads `data[length]`, through
NULL for an empty array. DataView's `getT`/`setT` check no index at all
(315, 338). `NoOutOfBoundsAccess` in `TypedArrays` states the bound, and
TLC finds it violated with `Ops` holding `get`, but a unit test that reads
`a[a.length]` or `dv.getInt8(dv.byteLength)` shows the same, so no run is
spent on it.

`IsDetachedBuffer` returns `Obj->dependent` (75), so `reverse`,
`copyWithin` and `set` throw the detached-buffer TypeError on any view over
a slice, though no buffer is ever detached. The first unit test of
`reverse` on a view over a slice shows this, so no run is spent on it.

TLC also finds the following with other `Ops`. They are listed as hazards
in `PROJECT.json`, and each is a one-property violation of the model:
* `new T(length)` stores a `uint32_t` byte count in an `int` size (452):
  `new Uint8Array(-1)` has a buffer of size -1.
* `slice` cuts the size back with the unclamped offset (136), so slices of
  negative size exist: with `Ops = {"ArrayBuffer", "slice"}` and two
  arguments, `TypedArrayWithinBuffer` (whose second conjunct says a slice
  lies inside its parent) fails after `new ArrayBuffer(0).slice(2, 2)`, a
  slice of size -2.
* The Uint8Clamped store wraps negative values instead of clamping them
  (1103). A unit test that stores -1 shows this, so it is not listed as a
  hazard.

## Bounds

* **`IntBits = 6`**: TLC cannot enumerate 2^32. At 6 bits, -1 is 63, and a
  31-element Int16 array at offset 2 wraps to 0 exactly as 2^31-1 elements
  do at 32 bits. Every uint32 and int formula is the code's, taken modulo
  2^6.
* **Blocks:** `MaxBytes = 2`, with lengths, offsets and indices in {0, 1}
  or {0, 1, 2}. This reaches a one-byte and a two-byte buffer, a view at
  offset 1, an index one past the end, and a nested subarray with a non-zero
  offset.
* **Objects:** two buffers and two views give a slice of a slice, or a view
  over a slice, and two views on one buffer for `set` and `subarray`.
  Buffers are symmetric, and so are views.
* **Element types:**
  * `Uint8` and `Int16` give a 1- and a 2-byte type, signed and unsigned.
    `Uint8Clamped` has its own store.
  * The 4- and 8-byte integer types only repeat `Int16`'s layout.
  * Float types are not modelled. Their conversions are the C compiler's.
* **`algorithms`:** covers every array of length 0..3 over {0, 1, 2} and every
  argument in -4..4 at 8 bits, so every clamp case (negative, inside, past
  the end, undefined) is met.

No liveness is stated for typed arrays. Every call is a bounded loop that
runs to completion on the mutator's thread.

## Not modelled (typed arrays)

* **Dense-array specops:** the ArrayBuffer `get`/`set`/`has_property`/
  `delete` specops (2349-2466) treat the buffer as a dense array. This type
  confusion is listed as a hazard with no property.
* **Callback and string methods:** the methods that call back into JS or
  build strings, and change no typed-array state (`every`, `find`,
  `findIndex`, `forEach`, `keys`, `map`, `reduce`, `reduceRight`,
  `some`, `values`, `toString`). `join` is modelled, with the collector,
  by `TypedArrayJoin` (below).

## TypedArrayJoin: join under collection

`TypedArrayJoin` models `_ejs_TypedArray_prototype_join` (1509-1603)
together with the collector. It instantiates `GcHeap` with no references
between cells, and with the words of join's frame as the only roots that
can hold a string; `Garbage` is any set of allocated cells that the frame
does not reach, that is, what one collection may free.

* **State:** `arr` (the elements), `pc` (idle, convert, copy, result),
  `strings` (the `malloc`'d array: addresses or `Atom`), `sep` (the
  separator), `text` (which value the string in a cell spells), `frame`,
  `objects`, and the ghosts `lost` (which of join's strings were freed),
  `res` and `uaf`.
* **Actions:**
  * `JoinCall`: the separator (the static `","`, a string the caller
    keeps, or a fresh `ToString` result) and the length test.
  * `ConvertStep`: one `ToString` of the first loop.
  * `Copy`: the copy loop.
  * `Result`: `_ejs_string_new_ucs2` and the `free`s.
  Every allocation (`NewString`) may first run a collection, as the trigger
  in `_ejs_gc_alloc` does. Afterwards the frame keeps any subset of its
  words, because which words survive is up to the compiler.
* **Bounds:** four cells, arrays of up to two elements over {1, 2}. Two
  elements are the least that give a collection between a `ToString` and
  the copy loop. Four cells hold the separator, two strings and the
  result. Cells are symmetric.
* **Run:** `ta_join_gc` finds `JoinReadsLiveStrings` violated in 5 states
  (finding 4).

# Regular expressions (`ejs-regexp.c`)

## The system

| part | code | role |
|---|---|---|
| constructor | `_ejs_regexp_new`, `_ejs_RegExp_impl`, `RegExpAlloc`, `RegExpInitialize` (47-324) | a pattern string, or a regexp whose source and original flags are reused; the flag loop throws a SyntaxError on an unknown or repeated unit; `pcre16_compile`'s result is stored unchecked; `lastIndex` = 0 |
| builtin exec | `RegExpBuiltinExec`, `RegExpExec`, `exec` (329-551) | `i` = ToLength(`lastIndex`), or 0 unless global or sticky; one `pcre16_exec` from `i`; only `PCRE_ERROR_NOMATCH` gives null; the match is read from `ovec`; `lastIndex` = end when global or sticky |
| `@@match` | `_ejs_RegExp_prototype_match` (681-765) | non-global: one exec; global: `lastIndex` = 0, then exec until null, moving `lastIndex` one further when it did not move |
| `@@replace` | `_ejs_RegExp_prototype_replace` (769-961) | collect the results (one, or all with the empty-match step), then copy the text between them with each match replaced |
| `test`, `flags` | `_ejs_RegExp_prototype_test`, `_ejs_RegExp_prototype_get_flags` (552-673) | `test`: one `pcre16_exec` from 0, true unless NOMATCH; `flags`: the letters g, i, m, y, u of the flags set, in that order |
| `@@split` | `_ejs_RegExp_prototype_split` (965-1144) | build a splitter `new RegExp(rx, flags)`; `lim` = 0 returns []; an empty subject is settled by one exec; otherwise exec from every `q`, pushing `S[p, q)` after each match whose end `e` differs from `p`, then `S[p, size)` |

A regexp's only mutable state is its `lastIndex`, an own data property that
the program can assign at any time. Every exec of a global or sticky regexp
starts from it, and `@@match` and `@@replace` drive it in a loop. The
library's own state is per call.

## Modules

* **`RegExp`**: one regexp the program holds, and the loops of `@@match`,
  `@@replace` and `@@split` one exec at a time.
  * A subject is a sequence of code units. A pattern is one unit, alone or
    starred, or `BadPat`, which `pcre16_compile` rejects (code `NullCode`).
  * `PcreExec` is `pcre16_exec` as PCRE documents it: `PCRE_ERROR_NULL` for a
    NULL code, `PCRE_ERROR_BADOFFSET` for an offset past the subject,
    `PCRE_ERROR_NOMATCH`, or the leftmost greedy match at or after the offset.
  * `ExecOutcomes(r, S)` is `RegExpBuiltinExec`. When `pcre16_exec` fails
    with anything but NOMATCH, `ovec` was never written, and the match is
    read from it: the outcome is every pair of values in `Garbage`, and the
    ghost `callUb` records the read. With the `u` flag, any match ends in
    `EJS_NOT_IMPLEMENTED` (state `abort`).
  * The actions are `NewRegExp`, `SetLastIndex` (the program's assignment),
    `Exec` (exec, and `@@match` of a non-global regexp), `MatchCall` and
    `MatchStep`, `ReplaceCall` and `ReplaceStep`, `Test`, and `SplitCall`
    and `SplitStep`. The accumulation of `@@replace` is the RECURSIVE
    operator `Accumulate`, with the code's position clamp (`Clamp`).
  * `@@split` keeps its splitter, `p`, `q` and `lim` in the variable
    `split`. The splitter is `Initialize(rx.source, FlagsString(rx.flags))`,
    as `Construct(C, rx, flags)` builds it. The loop test and steps 25-28
    run in the same step as the iteration that ends the loop (`SplitGoOn`).
  * A call's locals (`subj`, `acc`, `split`, `prev`, `callUb`) are reset when
    it returns (`Return`), as C locals do not outlive the call.
* **`MC_RegExp`**: subjects of up to three units over a and b, the patterns
  a, a* and `BadPat`, the flags strings "", g, y, gu, gg (a SyntaxError) and
  x (a SyntaxError), `lastIndex` assignments of -1, 1 and 4, and `@@split`
  limits undefined, 0 and 1.

## Runs

| run | cfg | expect | what it shows |
|---|---|---|---|
| `regexp` | `RegExp.cfg` | pass | `MatchIsEs` and `ReplaceIsEs`: over any sequence of constructions, `lastIndex` assignments and calls, `exec`, `@@match` and `@@replace` return the ES2015 result (`FirstAt`, `AllMatches`, `ReplaceRef`) whenever the call reads no uninitialised `ovec` and the regexp is not sticky. `RegExpCallsReturn`: every `@@match`, `@@replace` and `@@split` returns, or aborts, unless it has read garbage. For `@@split`, `q` is reset to `p = e` after every piece, so the loop ends only because `e` is never behind `p` without `q` moving on. With `q` not advanced after a null exec, TLC finds a split that never returns. |

The mutants of the passing run are:
* the flag loop accepting any unit once;
* exec starting from `lastIndex` for a regexp that is neither global nor
  sticky;
* `nextSourcePosition` not advanced by the match length;
* `@@match` not moving `lastIndex` past an empty match (the loop never
  returns).

## Findings

5. **BADOFFSET taken as a match** (`ejs-regexp.c:420`). `RegExpBuiltinExec`
   passes `i` to `pcre16_exec` even when `i > length`, and treats every
   return except NOMATCH as a match. `PCRE_ERROR_BADOFFSET` does not write
   `ovec`, so `i = ovec[0]`, `e = ovec[1]` and `lastIndex` come from
   uninitialised stack. ES2015 step 16.a, which the code keeps in an
   `#if false` branch, returns null and sets `lastIndex` to 0. TLC's trace
   is `/a/y`, `lastIndex = 1`, and `exec("")`: the result is a match built
   from garbage, not null. The same read ends
   every global `@@match` or `@@replace` of a pattern that can match the
   empty string. The last empty match at the end of the subject moves
   `lastIndex` to length + 1. This is why `MatchIsEs` only ever checks
   global calls of patterns that cannot match empty. `ExecPastEndIsNull`
   states step 16.a. No run checks it: a unit test reaches this case too,
   and the run budget went to the collector. To see the trace, check
   `MC_RegExp` with `RegExp.cfg`, `Pats <- MCValidPats` and
   `INVARIANT ExecPastEndIsNull`.

Two more divergences are in `PROJECT.json` as hazards with no run:
* An invalid pattern is not rejected. `pcre16_exec` on the NULL code
  returns `PCRE_ERROR_NULL`, which is again read as a match.
* A sticky regexp is searched unanchored from `lastIndex`.

Two disagreements with ES2015 need no model checker: a unit test shows
them at once. So they have no run, and they are stated here:
* **`test`** always searches from 0 and never touches `lastIndex`. For a
  global regexp it disagrees with `exec`, and in ES2015 `test` is
  `RegExpExec(R, S) !== null`. On the NULL code of an invalid pattern it
  returns true (`PCRE_ERROR_NULL` is not NOMATCH).
* **`@@split`** builds its splitter without adding "y" (steps 11-12 are
  marked XXX). Every exec in the loop then searches from `q` instead of
  testing a match at `q`, and `e` is where the next match ends, not the
  end of a match at `q`. For a non-global regexp, exec always searches from
  0 and leaves `lastIndex = q`, so `"aab"` split by `/a/` gives
  `["a", "a", "b"]`. For a global one, `"ba"` split by `/a/g` gives
  `["", ""]`. ES2015 gives `["", "", "b"]` and `["b", ""]`. TLC reaches
  both results in `MC_RegExp`. The model
  runs `@@split` as the code does. The loop's termination is what
  `RegExpCallsReturn` checks of it.

## Bounds

* **Subjects:** three units are enough for a match in the middle, at the
  end and twice in a row, for a starred run, and for a subject shorter than
  a stale `lastIndex`.
* **`lastIndex` values:** -1 (clamped by ToLength), 1 (inside every
  non-empty subject) and 4 (past every subject).
* **`MaxResults = 4`:** this is more than any loop without garbage
  collects: a subject of length 3 has at most 4 empty matches. So the
  bound only stops a loop that would never end.
* **`Garbage = {0, 2}`:** an uninitialised index inside and at the start
  of the subjects.
* **`Limits = {undefined, 0, 1}`:** no limit, the early return of step 21,
  and a limit the loop reaches at its first piece.

## Fairness

`Spec` has `WF_vars(MatchStep \/ ReplaceStep \/ SplitStep)`. The loop of a native call
runs to its end on the calling thread, with no callback: exec is the
builtin. The program's own calls are not assumed fair. `EJS_NOT_IMPLEMENTED`
ends the program, so `abort` has no successor, and the run does not check
deadlock.

## Not modelled (regexps)

* **Calls that change no state:** `toString` and the getters other than
  `flags` (each returns a field).
* **`@@split` with a unicode regexp:** `unicodeMatching` is always false
  (XXX), so the surrogate-pair steps are dead code. A "u" splitter ends in
  `EJS_NOT_IMPLEMENTED` at its first match, as `exec` does.
* **Other code:** `search` is `EJS_NOT_IMPLEMENTED`, and nothing under
  `src/` calls `_ejs_regexp_replace`.
* **Captures, `$` substitutions and a function as `replaceValue`:** the
  modelled patterns have no groups, and the replacement is one unit.
* **`RegExp(rx)` without `new`:** it returns `rx` itself.
* **pcre:** the library's matching is its documented semantics on the
  modelled patterns; `ignoreCase` and `multiline` are parsed but never
  passed to `pcre16_compile`.
