--------------------------- MODULE TypedArrayAlgo ---------------------------
(***************************************************************************)
(* The index arithmetic and element loops of the %TypedArray%.prototype   *)
(* methods of ejs-typedarrays.c, as pure operators over the sequence of a *)
(* typed array's elements.  C's int and uint32_t are IntBits wide in the  *)
(* model (TLC integers cannot hold 2^32): uint32 arithmetic wraps modulo  *)
(* 2^IntBits and a uint32 passed to an int parameter is reinterpreted as  *)
(* a two's-complement value of that width.                                *)
(***************************************************************************)
EXTENDS Integers, Sequences

CONSTANTS
  IntBits,    \* width of C int and uint32_t as modelled
  Undef       \* the JS value undefined, passed for an omitted argument

ASSUME IntBits \in 4..16
IntMod == 2^IntBits

(* (uint32_t)x and (int)(uint32_t)x                                        *)
U32(x) == x % IntMod
I32(x) == IF (x % IntMod) >= IntMod \div 2 THEN (x % IntMod) - IntMod ELSE x % IntMod

(* ToInteger(argument): undefined is NaN, which ToInteger maps to +0.      *)
ToInteger(a) == IF a = Undef THEN 0 ELSE a

(* static int max(int, int) / min(int, int) at the top of the file.        *)
IMax(a, b) == IF a > b THEN a ELSE b
IMin(a, b) == IF a > b THEN b ELSE a

(* "If relative < 0, let r be max((len + relative),0); else let r be      *)
(* min(relative, len)": len + relative is computed in uint32_t and passed *)
(* to max(int,int).                                                        *)
ClampIndex(len, rel) ==
  IF rel < 0 THEN IMax(I32(len + rel), 0) ELSE IMin(rel, I32(len))

(* copyWithin steps 5-14: the indices to, from and the count.              *)
CopyWithinBounds(len, target, start, end) ==
  LET to    == ClampIndex(len, ToInteger(target))
      from  == ClampIndex(len, ToInteger(start))
      final == ClampIndex(len, IF end = Undef THEN len ELSE ToInteger(end))
  IN  [to |-> to, from |-> from, count |-> IMin(final - from, I32(len - to))]

(* copyWithin step 17: data[to] = data[from], count times, moving from and *)
(* to by direction.  s is 1-indexed, the C indices 0-based.                *)
RECURSIVE CopyLoop(_, _, _, _, _)
CopyLoop(s, from, to, dir, count) ==
  IF count <= 0 THEN s
  ELSE CopyLoop([s EXCEPT ![to + 1] = s[from + 1]], from + dir, to + dir, dir, count - 1)

(* copyWithin steps 15-17: copy backwards when the source range starts    *)
(* below the target and overlaps it.  Mutant: always copy forwards.       *)
CopyWithinForwardOnly(s, target, start, end) ==
  LET b == CopyWithinBounds(Len(s), target, start, end)
  IN  CopyLoop(s, b.from, b.to, 1, b.count)
CopyWithinElems(s, target, start, end) ==
  LET b == CopyWithinBounds(Len(s), target, start, end)
  IN  IF b.from < b.to /\ b.to < b.from + b.count
      THEN CopyLoop(s, b.from + b.count - 1, b.to + b.count - 1, -1, b.count)
      ELSE CopyLoop(s, b.from, b.to, 1, b.count)

(* reverse steps 5-7: Get both elements, then Put each into the other's  *)
(* place, for lower from 0 up to middle = floor(len/2).  Mutant: the      *)
(* upper element is read back after the lower Put.                         *)
RECURSIVE ReverseLoopNoTemp(_, _, _)
ReverseLoopNoTemp(s, lower, middle) ==
  IF lower = middle THEN s
  ELSE LET upper == Len(s) - lower - 1
           t == [s EXCEPT ![lower + 1] = s[upper + 1]]
       IN  ReverseLoopNoTemp([t EXCEPT ![upper + 1] = t[lower + 1]], lower + 1, middle)
RECURSIVE ReverseLoop(_, _, _)
ReverseLoop(s, lower, middle) ==
  IF lower = middle THEN s
  ELSE LET upper == Len(s) - lower - 1
       IN  ReverseLoop([s EXCEPT ![lower + 1] = s[upper + 1], ![upper + 1] = s[lower + 1]],
                       lower + 1, middle)
ReverseElems(s) == ReverseLoop(s, 0, Len(s) \div 2)

(* fill steps 6-11: the range [k, final) that Put writes.                  *)
FillRange(len, start, end) ==
  [k |-> ClampIndex(len, ToInteger(start)),
   final |-> ClampIndex(len, IF end = Undef THEN len ELSE ToInteger(end))]

(* indexOf steps 6-11: the first index k searched, or -1 when it returns *)
(* -1 at once (len is int32_t).  Mutant: len - n in place of len - abs(n). *)
IndexOfStartNoAbs(len, fromIndex) ==
  LET n == IF fromIndex = Undef THEN 0 ELSE fromIndex
  IN  IF len = 0 \/ n >= len THEN -1 ELSE IF n >= 0 THEN n ELSE IMax(len - n, 0)
IndexOfStart(len, fromIndex) ==
  LET n == IF fromIndex = Undef THEN 0 ELSE fromIndex
  IN  IF len = 0 \/ n >= len THEN -1 ELSE IF n >= 0 THEN n ELSE IMax(len - (-n), 0)

(* indexOf step 12: the first k from the start whose Get equals x.         *)
RECURSIVE IndexOfLoop(_, _, _)
IndexOfLoop(s, x, k) ==
  IF k >= I32(Len(s)) THEN -1 ELSE IF s[k + 1] = x THEN k ELSE IndexOfLoop(s, x, k + 1)
IndexOfElems(s, x, fromIndex) ==
  LET k == IndexOfStart(I32(Len(s)), fromIndex)
  IN  IF k = -1 THEN -1 ELSE IndexOfLoop(s, x, k)

(* lastIndexOf steps 6-10: downwards from min(n, len - 1), or len - abs(n) *)
(* for a negative n; -1 (no search) for an empty array.                    *)
LastIndexOfStart(len, fromIndex) ==
  LET n == IF fromIndex = Undef THEN len - 1 ELSE fromIndex
  IN  IF len = 0 THEN -1 ELSE IF n >= 0 THEN IMin(n, len - 1) ELSE len - (-n)

(* lastIndexOf step 11: downwards while k >= 0.  Mutant: while k > 0.     *)
RECURSIVE LastIndexOfLoopStopsAtOne(_, _, _)
LastIndexOfLoopStopsAtOne(s, x, k) ==
  IF k <= 0 THEN -1 ELSE IF s[k + 1] = x THEN k ELSE LastIndexOfLoopStopsAtOne(s, x, k - 1)
RECURSIVE LastIndexOfLoop(_, _, _)
LastIndexOfLoop(s, x, k) ==
  IF k < 0 THEN -1 ELSE IF s[k + 1] = x THEN k ELSE LastIndexOfLoop(s, x, k - 1)
LastIndexOfElems(s, x, fromIndex) ==
  LastIndexOfLoop(s, x, LastIndexOfStart(I32(Len(s)), fromIndex))

(* subarray steps 7-18: beginIndex and the new length.  beginIndex and   *)
(* endIndex are uint32_t results of min/max on ints.                       *)
SubarrayRange(srcLength, begin, end) ==
  LET b0 == ToInteger(begin)
      b1 == IF b0 < 0 THEN I32(srcLength + b0) ELSE b0
      beginIndex == U32(IMin(I32(srcLength), IMax(0, b1)))
      e0 == IF end = Undef THEN srcLength ELSE ToInteger(end)
      e1 == IF e0 < 0 THEN I32(srcLength + e0) ELSE e0
      endIndex == U32(IMax(0, IMin(I32(srcLength), e1)))
  IN  [begin |-> beginIndex,
       length |-> U32(IMax(endIndex, beginIndex) - beginIndex)]
=============================================================================
