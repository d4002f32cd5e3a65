\* The prototype methods and element accesses on Uint8Arrays of up to two
\* elements (from new T(array)), over buffers, subarrays of them and
\* subarrays of those: two buffers, two views.
CONSTANTS
  IntBits = 6
  Undef = Undef
  NoId = NoId
  Garbage = Garbage
  b1 = b1
  b2 = b2
  v1 = v1
  v2 = v2
  BufIds <- MCBufIds
  ViewIds <- MCViewIds
  Types = {"Uint8"}
  Nums = {0, 1}
  Vals = {1}
  MaxBytes = 2
  MaxArgs = 2
  Ops = {"ArrayBuffer", "TypedArray", "TypedArrayLength", "subarray", "get", "set", "setTypedArray", "setArray", "fill", "copyWithin", "reverse", "indexOf"}
SPECIFICATION Spec
SYMMETRY Symmetry
INVARIANT SubarraySharesElements
INVARIANT SetCopiesSource
