\* new Int16Array(buffer, byteOffset, length) with a length of 31, whose
\* byte length 62 plus the offset wraps around 2^6 (at 32 bits:
\* 2147483647 elements after an offset of 2).
CONSTANTS
  IntBits = 6
  Undef = Undef
  NoId = NoId
  Garbage = Garbage
  b1 = b1
  b2 = b2
  v1 = v1
  v2 = v2
  BufIds <- MCBufIds
  ViewIds <- OneView
  Types = {"Int16"}
  Nums = {0, 2, 31}
  Vals = {1}
  MaxBytes = 2
  MaxArgs = 0
  Ops = {"ArrayBuffer", "TypedArray"}
SPECIFICATION Spec
SYMMETRY Symmetry
INVARIANT TypedArrayWithinBuffer
