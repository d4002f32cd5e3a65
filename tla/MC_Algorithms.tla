--------------------------- MODULE MC_Algorithms ---------------------------
(***************************************************************************)
(* Checks the pure arithmetic of the runtime against reference            *)
(* definitions over bounded inputs.  Each state is one call: either the   *)
(* size-class computation of _ejs_gc_alloc (SizeClass) for a request size  *)
(* in Requests, or a copyWithin, reverse, indexOf or lastIndexOf of       *)
(* ejs-typedarrays.c (TypedArrayAlgo) on an element sequence over Elems of *)
(* length at most MaxLen with arguments in Args.  indexOf and lastIndexOf  *)
(* search for target from fromIndex end.  Or it is an alloc_from_os call  *)
(* of OsMemory, made while the pages in mapping are mapped: arena_new's   *)
(* alloc_from_os(ARENA_SIZE, ARENA_SIZE), or alloc_from_los(size).  Or   *)
(* it is a search of find_arena for the arena at target in a sorted       *)
(* heap_arenas table a.                                                    *)
(***************************************************************************)
EXTENDS TypedArrayAlgo, SequencesExt

CONSTANTS
  Elems, MaxLen, Args,                  \* typed-array calls
  LowBits, HighBits, PageSize, WordBits, \* the SizeClass constants
  Requests,                             \* request sizes handed to _ejs_gc_alloc
  ArenaPages, LoiSize, MaxArenas,       \* the OsMemory constants
  AddrPages, LosSizes

SC == INSTANCE SizeClass

OS == INSTANCE OsMemory WITH mapped <- {}, arenas <- {}, los <- {}

(* Relative indices from -4 to 4: beyond both ends of every array.       *)
MCArgs == -4..4

(* 0..2100 covers every in-page class and the 2048/2049 boundary; the   *)
(* values around 4096 are large-object requests one page long.          *)
MCRequests == (0..2100) \cup (4090..4100)

(* heap_arenas tables: every sorted array of up to TableSize arenas out *)
(* of TableSize slots, and search keys on, between and beyond them.      *)
TableSize == 5
ArenaSlots == {k * OS!ArenaSize : k \in 1..TableSize}
ArenaTables == {SetToSortSeq(S, <) : S \in SUBSET ArenaSlots}
ArenaKeys == {k * OS!ArenaSize : k \in 0..(TableSize + 1)}

ASSUME \A s \in Requests : s \in 0..(2^(WordBits - 1))

VARIABLES call, size, a, target, start, end, mapping

vars == <<call, size, a, target, start, end, mapping>>

Seqs == UNION {[1..n -> Elems] : n \in 0..MaxLen}

(* A size-class call leaves the array arguments at fixed values, and an   *)
(* array call the request size.                                            *)
AllocCall(s) ==
  /\ call = "alloc" /\ size = s /\ a = <<>> /\ target = 0 /\ start = 0 /\ end = Undef
  /\ mapping = {}
ArrayCall(x, t, st, e) ==
  call = "array" /\ size = 0 /\ a = x /\ target = t /\ start = st /\ end = e /\ mapping = {}
OsCall(c, s, m) ==
  call = c /\ size = s /\ a = <<>> /\ target = 0 /\ start = 0 /\ end = Undef /\ mapping = m

FindCall(x, k) ==
  call = "find" /\ size = 0 /\ a = x /\ target = k /\ start = 0 /\ end = Undef /\ mapping = {}

Init == \/ \E s \in Requests : AllocCall(s)
        \/ \E x \in Seqs, t, st \in Args, e \in Args \cup {Undef} : ArrayCall(x, t, st, e)
        \/ \E m \in SUBSET OS!Pages : OsCall("arena", 0, m)
        \/ \E s \in LosSizes, m \in SUBSET OS!Pages : OsCall("los", s, m)
        \/ \E x \in ArenaTables, k \in ArenaKeys : FindCall(x, k)

(* One _ejs_gc_alloc(size, ...) call after another.                        *)
Request == /\ call = "alloc"
           /\ \E s \in Requests : size' = s
           /\ UNCHANGED <<call, a, target, start, end, mapping>>

(* The next typed-array call differs from the last in the array or in one *)
(* argument.                                                               *)
NewArray  == call = "array" /\ a' \in Seqs /\ UNCHANGED <<call, size, target, start, end, mapping>>
NewTarget == call = "array" /\ target' \in Args /\ UNCHANGED <<call, size, a, start, end, mapping>>
NewStart  == call = "array" /\ start' \in Args /\ UNCHANGED <<call, size, a, target, end, mapping>>
NewEnd    == call = "array" /\ end' \in Args \cup {Undef}
             /\ UNCHANGED <<call, size, a, target, start, mapping>>

(* The next alloc_from_os call is made with other pages mapped.           *)
NewMapping == call \in {"arena", "los"} /\ mapping' \in SUBSET OS!Pages
              /\ UNCHANGED <<call, size, a, target, start, end>>

(* The next find_arena call looks for another arena.                     *)
NewKey == call = "find" /\ target' \in ArenaKeys
          /\ UNCHANGED <<call, size, a, start, end, mapping>>

Next == Request \/ NewArray \/ NewTarget \/ NewStart \/ NewEnd \/ NewMapping \/ NewKey

Spec == Init /\ [][Next]_vars

-----------------------------------------------------------------------------
(* Reference: the least power of two that is >= x.                         *)
RECURSIVE LeastPowAtLeast(_, _)
LeastPowAtLeast(x, p) == IF p >= x THEN p ELSE LeastPowAtLeast(x, 2 * p)

(* pow2_ceil's bit smearing returns the least power of two not below the   *)
(* request (for every request >= 1; pow2_ceil(0) wraps to 0).              *)
Pow2CeilExact ==
  call = "alloc" /\ size >= 1 => SC!Pow2Ceil(size) = LeastPowAtLeast(size, 1)

(* The first pass of _ejs_gc_alloc for a page request: the cell it gets  *)
(* is at least as large as the request and holds at least one cell per   *)
(* page; the index it takes into heap_pages[] lies inside the array; and  *)
(* the index _ejs_finalize_obj later recomputes from the page's cell size *)
(* names that same list.  (The retry after a failed page pass indexes the *)
(* array differently; RetryKeepsSizeClass of EjsGc is about it.)          *)
BucketIndexConsistent ==
  call = "alloc" /\ ~SC!GoesToLos(size) =>
     /\ SC!BucketSize(size) >= size
     /\ SC!CellsOfSize(SC!BucketSize(size)) >= 1
     /\ SC!AllocBucket(size) \in 0..(SC!HeapPagelistsCount - 1)
     /\ SC!SweepBucket(SC!BucketSize(size)) = SC!AllocBucket(size)

(* ES2015 22.2.3.5 over mathematical integers: relative indices count from *)
(* the end when negative and are clamped to [0, len].                      *)
RefClamp(len, rel) ==
  IF rel < 0 THEN IF len + rel > 0 THEN len + rel ELSE 0
  ELSE IF rel < len THEN rel ELSE len

(* The result copyWithin must leave: the elements [from, from + count) of  *)
(* the array as it was before the call, placed at [to, to + count), as a  *)
(* memmove would.                                                          *)
CopyWithinRef(x, t, st, e) ==
  LET len   == Len(x)
      to    == RefClamp(len, ToInteger(t))
      from  == RefClamp(len, ToInteger(st))
      final == RefClamp(len, IF e = Undef THEN len ELSE ToInteger(e))
      count == IF final - from < len - to THEN final - from ELSE len - to
  IN  [i \in 1..len |-> IF i - 1 \in to..(to + count - 1) THEN x[i - to + from] ELSE x[i]]

(* copyWithin's element loop, with its choice of copy direction, leaves    *)
(* the array as the ES definition does: an overlapping source range is    *)
(* never overwritten before it is read.                                    *)
CopyWithinIsMemmove ==
  call = "array" =>
  CopyWithinElems(a, target, start, end) = CopyWithinRef(a, target, start, end)

(* reverse's swap loop leaves the elements in reverse order, for even and  *)
(* odd lengths alike.                                                      *)
ReverseIsReverse == call = "array" => ReverseElems(a) = Reverse(a)

(* ES2015 22.2.3.13 and 22.2.3.16 (as Array.prototype.indexOf and         *)
(* lastIndexOf): the first index at or after the start, and the last at    *)
(* or before it, whose element is e; -1 when there is none.               *)
IndexOfRef(x, e, from) ==
  LET len == Len(x)
      n == IF from = Undef THEN 0 ELSE from
      k == IF n >= 0 THEN n ELSE IF len + n > 0 THEN len + n ELSE 0
      hits == {i \in k..(len - 1) : x[i + 1] = e}
  IN  IF hits = {} THEN -1 ELSE Min(hits)
LastIndexOfRef(x, e, from) ==
  LET len == Len(x)
      n == IF from = Undef THEN len - 1 ELSE from
      k == IF n >= 0 THEN IF n < len - 1 THEN n ELSE len - 1 ELSE len + n
      hits == {i \in 0..k : x[i + 1] = e}
  IN  IF hits = {} THEN -1 ELSE Max(hits)

(* indexOf's int32 start computation (len - abs(n) for a negative n,       *)
(* clamped to 0) and its upward loop find the first match, for fromIndex   *)
(* before, inside and past the array, and omitted.                         *)
IndexOfIsFirstMatch ==
  call = "array" => IndexOfElems(a, target, end) = IndexOfRef(a, target, end)

(* lastIndexOf's start (min(n, len - 1), or len - abs(n)) and its         *)
(* downward loop find the last match, index 0 included.                    *)
LastIndexOfIsLastMatch ==
  call = "array" => LastIndexOfElems(a, target, end) = LastIndexOfRef(a, target, end)

(* Whatever else is mapped and wherever mmap puts the 2*ARENA_SIZE        *)
(* mapping, alloc_from_os(ARENA_SIZE, ARENA_SIZE) returns an address      *)
(* aligned to ARENA_SIZE, as PTR_TO_ARENA's mask and the classifier need, *)
(* and leaves exactly the arena's pages newly mapped: neither slack piece  *)
(* stays mapped and no arena page is unmapped; a failure maps nothing.   *)
ArenaMappingExact ==
  call = "arena" =>
  \A o \in OS!AllocFromOs(mapping, OS!ArenaSize, OS!ArenaSize) :
     IF o[1] = OS!Null THEN o[2] = mapping
     ELSE /\ o[1] % OS!ArenaSize = 0
          /\ o[2] = mapping \cup OS!PagesOf(o[1], OS!ArenaSize)
          /\ OS!PagesOf(o[1], OS!ArenaSize) \cap mapping = {}

(* The LargeObjectInfo header, the bitmap byte after it and the object's  *)
(* cell from page_start to page_start + size all lie in pages that        *)
(* alloc_from_los's own mapping added, for every size it serves.          *)
LosObjectInsideMapping ==
  call = "los" =>
  \A o \in OS!AllocFromOs(mapping, OS!LosMapLen(size), 0) :
     o[1] # OS!Null =>
       LET e == OS!LosEntry(o[1], size)
       IN  OS!PagesOf(e.base, e.start + e.alloc_size - e.base) \subseteq o[2] \ mapping

(* The bsearch inlined in find_arena, with its lim-- on a move right,     *)
(* finds the slot of every arena in a sorted heap_arenas table and no    *)
(* slot for an address that is not an arena, for every table length.     *)
ArenaSearchExact ==
  call = "find" =>
    LET i == OS!ArenaBsearch(a, target, 1, Len(a))
    IN  IF target \in Range(a) THEN i \in 1..Len(a) /\ a[i] = target ELSE i = 0

=============================================================================
