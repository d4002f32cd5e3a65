\* Buffers, slices, typed arrays and DataViews created, written through
\* DataView accessors, dropped and collected: two buffers, one view.
CONSTANTS
  IntBits = 6
  Undef = Undef
  NoId = NoId
  Garbage = Garbage
  b1 = b1
  b2 = b2
  v1 = v1
  v2 = v2
  BufIds <- MCBufIds
  ViewIds <- OneView
  Types = {"Uint8", "Int16"}
  Nums = {0, 1}
  Vals <- MCVals
  MaxBytes = 2
  MaxArgs = 1
  Ops = {"ArrayBuffer", "slice", "TypedArray", "TypedArrayLength", "of", "DataView"}
SPECIFICATION Spec
SYMMETRY Symmetry
INVARIANT NoUseAfterFree
