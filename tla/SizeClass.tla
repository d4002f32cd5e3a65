----------------------------- MODULE SizeClass -----------------------------
(***************************************************************************)
(* Size-class arithmetic of the allocation front end (ejs-gc.c):           *)
(* pow2_ceil, the ffs-based bucket selection of _ejs_gc_alloc, and the     *)
(* cells-per-page computation.  Pure operators over machine integers of    *)
(* WordBits bits (size_t arithmetic wraps modulo 2^WordBits).              *)
(***************************************************************************)
EXTENDS Integers, Bitwise

CONSTANTS
  LowBits,    \* OBJECT_SIZE_LOW_LIMIT_BITS (smallest cell is 2^LowBits)
  HighBits,   \* OBJECT_SIZE_HIGH_LIMIT_BITS
  PageSize,   \* PAGE_SIZE (= USABLE_PAGE_SIZE)
  WordBits    \* width of size_t as modelled

ASSUME /\ LowBits \in Nat /\ HighBits \in Nat /\ LowBits <= HighBits
       /\ PageSize \in Nat \ {0} /\ WordBits \in 1..30

WordMod == 2^WordBits

(* HEAP_PAGELISTS_COUNT: number of heap_pages[] size-class lists.          *)
HeapPagelistsCount == (HighBits - LowBits) + 1

(* The or-shift cascade of pow2_ceil, which copies the highest set bit    *)
(* into every lower bit.  The shifts are those of a build where SIZEOF_PTR *)
(* is not 8 (the x >> 32 step is a no-op for every width TLC represents).  *)
Smear(x0) ==
  LET x1 == x0 | shiftR(x0, 1)
      x2 == x1 | shiftR(x1, 2)
      x3 == x2 | shiftR(x2, 4)
      x4 == x3 | shiftR(x3, 8)
  IN  x4 | shiftR(x4, 16)

(* pow2_ceil: decrement, smear, increment.  Mutant: without the decrement. *)
Pow2CeilNoDecrement(x) == (Smear(x % WordMod) + 1) % WordMod
Pow2Ceil(x) == (Smear((x - 1) % WordMod) + 1) % WordMod

(* ffs(3): 1-based index of the least significant set bit, 0 for 0.        *)
RECURSIVE Ffs(_)
Ffs(x) == IF x = 0 THEN 0
          ELSE IF x % 2 = 1 THEN 1
          ELSE 1 + Ffs(x \div 2)

(* bucket_size = MAX(pow2_ceil(size), 1<<OBJECT_SIZE_LOW_LIMIT_BITS)       *)
BucketSize(size) ==
  LET p == Pow2Ceil(size) IN IF p > 2^LowBits THEN p ELSE 2^LowBits

(* bucket = ffs(bucket_size); the request goes to the large object store   *)
(* when bucket > OBJECT_SIZE_HIGH_LIMIT_BITS.                              *)
GoesToLos(size) == Ffs(BucketSize(size)) > HighBits

(* bucket -= OBJECT_SIZE_LOW_LIMIT_BITS: the heap_pages[] index of the     *)
(* first pass of _ejs_gc_alloc (a retry subtracts again; EjsGc models it). *)
AllocBucket(size) == Ffs(BucketSize(size)) - LowBits

(* The index _ejs_finalize_obj recomputes from a page's cell size to       *)
(* detach an emptied page from heap_pages[].  Mutant: a count of trailing  *)
(* zeros in place of ffs.                                                  *)
SweepBucketCtz(cellSize) == (Ffs(cellSize) - 1) - LowBits
SweepBucket(cellSize) == Ffs(cellSize) - LowBits

(* CELLS_OF_SIZE(size) = USABLE_PAGE_SIZE / size                           *)
CellsOfSize(size) == PageSize \div size

=============================================================================
