----------------------------- MODULE TypedArrays -----------------------------
(***************************************************************************)
(* ArrayBuffer, typed arrays and DataView of ejs-typedarrays.c over the   *)
(* bytes of their calloc'd storage.                                       *)
(*                                                                         *)
(* An ArrayBuffer either owns a block (dependent = FALSE, data in mem[b]) *)
(* or is a slice of a parent buffer at an offset (dependent = TRUE).      *)
(* _ejs_arraybuffer_get_data follows the parents to the owning block.     *)
(* A typed array or DataView is a view: a buffer, a byte offset and a     *)
(* length.  Every access goes through that chain; an access outside the   *)
(* owning block (or into a block already freed) sets the ghost oob.  Its *)
(* outcome is undefined in C: a read returns Garbage, a write is lost.    *)
(*                                                                         *)
(* The program holds a set of objects; Drop lets one go and Collect runs  *)
(* the collector, which keeps what the objects' scan functions reach from *)
(* the held ones and finalizes the rest.                                   *)
(***************************************************************************)
EXTENDS TypedArrayAlgo, FiniteSets, SequencesExt

CONSTANTS
  BufIds,     \* ArrayBuffer objects
  ViewIds,    \* typed array and DataView objects
  Types,      \* element types of the typed arrays created
  Nums,       \* numbers passed as lengths, offsets and indices
  Vals,       \* numbers stored into elements
  MaxBytes,   \* bound on the size of a calloc'd block
  MaxArgs,    \* bound on the length of an argument list (Array.of, set)
  Ops,        \* the API calls the program makes ("TypedArrayLength" is
              \* new T(length), "TypedArray" the other constructors)
  NoId,       \* no object
  Garbage     \* the value of a read outside the storage

ASSUME /\ Types \subseteq {"Int8", "Uint8", "Uint8Clamped", "Int16"}
       /\ Nums \subseteq Int /\ Vals \subseteq Int
       /\ MaxBytes \in Nat /\ MaxArgs \in Nat

VARIABLES
  buf,    \* buf[b]: the EJSArrayBuffer fields of b
  mem,    \* mem[b]: the bytes of b's alloced_buf (<<>> for NULL)
  view,   \* view[v]: the EJSTypedArray / EJSDataView fields of v
  held,   \* the objects the program holds
  oob,    \* ghost: some access fell outside its block
  last    \* ghost: the last call, its exception and its operands

vars == <<buf, mem, view, held, oob, last>>

Objects == BufIds \cup ViewIds
NoBuf  == [live |-> FALSE, dependent |-> FALSE, size |-> 0, parent |-> NoId, offset |-> 0]
NoView == [kind |-> "none", type |-> "Uint8", buffer |-> NoId,
           byteOffset |-> 0, length |-> 0, byteLength |-> 0]
NoCall == [op |-> "none", exc |-> "none", this |-> NoId, other |-> NoId, idx |-> 0, val |-> 0]

(* Table 49: the element size of each type.                                *)
ElemSize(t) == IF t = "Int16" THEN 2 ELSE 1

(* (elementtype)number: two's-complement truncation to the element width, *)
(* little-endian.  Garbage is stored as zero bytes (one of its outcomes).  *)
Encode(t, x) ==
  IF x = Garbage THEN [k \in 1..ElemSize(t) |-> 0]
  ELSE IF ElemSize(t) = 2 THEN <<x % 256, (x \div 256) % 256>> ELSE <<x % 256>>

(* Reading an element: int8_t and int16_t are signed.                      *)
Decode(t, bs) ==
  CASE t = "Int8"  -> IF bs[1] >= 128 THEN bs[1] - 256 ELSE bs[1]
    [] t = "Int16" -> LET u == bs[1] + 256 * bs[2] IN IF u >= 32768 THEN u - 65536 ELSE u
    [] OTHER       -> bs[1]

(* _ejs_Uint8Clampedarray_specop_set: v > 0xFF ? 0xFF : (uint8_t)v.        *)
ClampStore(x) == IF x = Garbage THEN 0 ELSE IF x > 255 THEN 255 ELSE x % 256

(* Put(O, k, x) on a typed array stores through its specop_set.            *)
PutBytes(t, x) == IF t = "Uint8Clamped" THEN <<ClampStore(x)>> ELSE Encode(t, x)

(* _ejs_arraybuffer_get_data: the owning block of b and b's offset in it. *)
RECURSIVE Base(_)
Base(b) == IF buf[b].dependent
           THEN <<Base(buf[b].parent)[1], Base(buf[b].parent)[2] + buf[b].offset>>
           ELSE <<b, 0>>

(* _ejs_typedarray_get_data / _ejs_dataview_get_data, plus byte j.         *)
Addr(v, j) == <<Base(view[v].buffer)[1], Base(view[v].buffer)[2] + view[v].byteOffset + j>>

(* The n bytes from byte j of v lie inside a live block.                   *)
SpanOk(v, j, n) ==
  LET a == Addr(v, j)
  IN  buf[a[1]].live /\ a[2] >= 0 /\ a[2] + n <= Len(mem[a[1]])

Load(v, j, n) ==
  LET a == Addr(v, j) IN [k \in 1..n |-> mem[a[1]][a[2] + k]]

(* Element i of typed array v: data[idx] read as its element type.       *)
ElemOk(v, i) == SpanOk(v, i * ElemSize(view[v].type), ElemSize(view[v].type))
ElemAt(v, i) ==
  IF ElemOk(v, i)
  THEN Decode(view[v].type, Load(v, i * ElemSize(view[v].type), ElemSize(view[v].type)))
  ELSE Garbage
Elements(v) == [k \in 1..view[v].length |-> ElemAt(v, k - 1)]

(* The memory after storing byte f[j] at byte j of v, for every j in     *)
(* DOMAIN f; a byte outside the block is lost.                             *)
WriteBytes(v, f) ==
  LET a == Addr(v, 0)
  IN  [mem EXCEPT ![a[1]] = [p \in DOMAIN @ |->
                               IF p - 1 - a[2] \in DOMAIN f THEN f[p - 1 - a[2]] ELSE @[p]]]
WriteOob(v, f) == \E j \in DOMAIN f : ~SpanOk(v, j, 1)

(* The bytes of element values g[i] of typed array v, converted by conv   *)
(* (Put's specop_set, or a plain (elementtype) cast).                      *)
ElemWrites(v, g, conv(_, _)) ==
  LET es == ElemSize(view[v].type)
  IN  [j \in {i * es + k : i \in DOMAIN g, k \in 0..(es - 1)} |->
         conv(view[v].type, g[j \div es])[(j % es) + 1]]

(* One call stores the bytes f through v, after reads of which rdOob says *)
(* whether one fell outside the block.                                     *)
Store(v, f, rdOob) == /\ mem' = WriteBytes(v, f)
                      /\ oob' = (oob \/ rdOob \/ WriteOob(v, f))

FreeBufs  == {b \in BufIds : ~buf[b].live}
FreeViews == {v \in ViewIds : view[v].kind = "none"}
Typed     == {v \in ViewIds \cap held : view[v].kind = "typed"}
DataViews == {v \in ViewIds \cap held : view[v].kind = "dataview"}
Buffers   == {b \in BufIds \cap held : buf[b].live}

(* ToUint32 of a number argument; an absent one is undefined, i.e. 0.      *)
ToUint32(a) == U32(ToInteger(a))

Call(op, exc, this, other, idx, val) ==
  [op |-> op, exc |-> exc, this |-> this, other |-> other, idx |-> idx, val |-> val]

-----------------------------------------------------------------------------
Init == /\ buf = [b \in BufIds |-> NoBuf]
        /\ mem = [b \in BufIds |-> <<>>]
        /\ view = [v \in ViewIds |-> NoView]
        /\ held = {}
        /\ oob = FALSE
        /\ last = NoCall

(* _ejs_arraybuffer_new(size) as used by the typed array constructors:    *)
(* a calloc(1, size) block, NULL for size 0 (and for a negative size,     *)
(* which calloc cannot satisfy).                                           *)
NewBlock(b, size) ==
  /\ buf' = [buf EXCEPT ![b] = [NoBuf EXCEPT !.live = TRUE, !.size = size]]
  /\ mem' = [mem EXCEPT ![b] = [k \in 1..size |-> 0]]

(* new ArrayBuffer(length): byteLength = ToLength(length).                 *)
ArrayBufferNew(b, n) ==
  /\ "ArrayBuffer" \in Ops
  /\ IMax(n, 0) <= MaxBytes
  /\ NewBlock(b, IMax(n, 0))
  /\ held' = held \cup {b}
  /\ last' = Call("ArrayBuffer", "none", b, NoId, 0, 0)
  /\ UNCHANGED <<view, oob>>

(* _ejs_arraybuffer_new_slice(b, offset, size) with its int parameters:  *)
(* the offset is clamped to the parent's size, but the size is cut back   *)
(* with the unclamped offset.                                              *)
NewSlice(b, offset, size) ==
  LET off == IMin(buf[b].size, offset)
  IN  [live |-> TRUE, dependent |-> TRUE, parent |-> b, offset |-> off,
       size |-> IF I32(size + off) > buf[b].size THEN buf[b].size - offset ELSE size]

(* ArrayBuffer.prototype.slice with argc arguments: (len [, offset]).      *)
ArrayBufferSlice(b, nb, argc, a0, a1) ==
  LET len    == IF argc = 0 THEN buf[b].size ELSE ToUint32(a0)
      offset == IF argc < 2 THEN 0 ELSE ToUint32(a1)
  IN  /\ "slice" \in Ops
      /\ buf' = [buf EXCEPT ![nb] = NewSlice(b, I32(offset), I32(len))]
      /\ held' = held \cup {nb}
      /\ last' = Call("slice", "none", nb, b, 0, 0)
      /\ UNCHANGED <<mem, view, oob>>

(* The view fields the constructor sets for TypedArray(buffer, byteOffset, *)
(* length) with argc arguments, or the RangeError it throws.  Comparisons  *)
(* with the int buffer->size convert it to uint32_t.                       *)
FromBuffer(t, b, argc, a1, a2) ==
  LET es    == ElemSize(t)
      size  == U32(buf[b].size)
      off0  == IF argc > 1 THEN ToUint32(a1) ELSE 0
      len0  == IF argc > 2 THEN U32(ToUint32(a2) * es) ELSE size
      off   == IF off0 > size THEN size ELSE off0
      over  == U32(off + len0) > size
      len   == IF over THEN U32(size - off) ELSE len0
  IN  IF over /\ argc > 2 THEN [exc |-> "RangeError"]
      ELSE IF off % es # 0 \/ len % es # 0 THEN [exc |-> "RangeError"]
      ELSE [exc |-> "none", byteOffset |-> off, length |-> len \div es,
            byteLength |-> U32((len \div es) * es)]

TypedView(t, b, off, length, byteLength) ==
  [kind |-> "typed", type |-> t, buffer |-> b, byteOffset |-> off,
   length |-> length, byteLength |-> byteLength]

(* The constructor of type t: new T(), new T(length), and a non-array,    *)
(* non-buffer object argument, all at construct_from_array_len: a fresh   *)
(* buffer of array_len * elementSize bytes.                                *)
TypedArrayFromLength(v, b, t, n) ==
  LET len == IF n = Undef THEN 0 ELSE ToUint32(n)
      byteLength == U32(len * ElemSize(t))
  IN  /\ "TypedArrayLength" \in Ops
      /\ I32(byteLength) <= MaxBytes
      /\ NewBlock(b, I32(byteLength))
      /\ view' = [view EXCEPT ![v] = TypedView(t, b, 0, len, byteLength)]
      /\ held' = held \cup {v}
      /\ last' = Call("TypedArray", "none", v, b, 0, 0)
      /\ UNCHANGED oob

(* new T(array) for a dense array: each element is stored with a plain    *)
(* (elementtype) cast, for Uint8Clamped too.                               *)
TypedArrayFromArray(v, b, t, items) ==
  LET byteLength == Len(items) * ElemSize(t)
  IN  /\ "TypedArray" \in Ops
      /\ buf' = [buf EXCEPT ![b] = [NoBuf EXCEPT !.live = TRUE, !.size = byteLength]]
      /\ mem' = [mem EXCEPT ![b] = FlattenSeq([k \in 1..Len(items) |-> Encode(t, items[k])])]
      /\ view' = [view EXCEPT ![v] = TypedView(t, b, 0, Len(items), byteLength)]
      /\ held' = held \cup {v}
      /\ last' = Call("TypedArray", "none", v, b, 0, 0)
      /\ UNCHANGED oob

(* new T(buffer [, byteOffset [, length]]) with argc arguments.            *)
TypedArrayFromBuffer(v, t, b, argc, a1, a2) ==
  LET r == FromBuffer(t, b, argc, a1, a2)
  IN  /\ "TypedArray" \in Ops
      /\ IF r.exc = "none"
         THEN /\ view' = [view EXCEPT ![v] = TypedView(t, b, r.byteOffset, r.length, r.byteLength)]
              /\ held' = held \cup {v}
         ELSE UNCHANGED <<view, held>>
      /\ last' = Call("TypedArray", r.exc, v, b, 0, 0)
      /\ UNCHANGED <<buf, mem, oob>>

(* T.of(items...): _ejs_typedarray_new(type, argc), then Put of each item, *)
(* which for Uint8Clamped clamps.                                          *)
ArrayOf(v, b, t, items) ==
  LET size == I32(Len(items) * ElemSize(t))
  IN  /\ "of" \in Ops
      /\ buf' = [buf EXCEPT ![b] = [NoBuf EXCEPT !.live = TRUE, !.size = size]]
      /\ mem' = [mem EXCEPT ![b] = FlattenSeq([k \in 1..Len(items) |-> PutBytes(t, items[k])])]
      /\ view' = [view EXCEPT ![v] = TypedView(t, b, 0, Len(items), size)]
      /\ held' = held \cup {v}
      /\ last' = Call("of", "none", v, b, 0, 0)
      /\ UNCHANGED oob

(* new DataView(buffer [, byteOffset [, byteLength]]): no checks at all;   *)
(* with two arguments the length is buffer->size - offset in uint32_t.     *)
DataViewNew(v, b, argc, a1, a2) ==
  LET offset == IF argc = 1 THEN 0 ELSE U32(a1)
      len == CASE argc = 1 -> U32(buf[b].size)
               [] argc = 2 -> U32(buf[b].size - offset)
               [] OTHER    -> U32(a2)
  IN  /\ "DataView" \in Ops
      /\ view' = [view EXCEPT ![v] = [kind |-> "dataview", type |-> "Uint8", buffer |-> b,
                                      byteOffset |-> offset, length |-> len, byteLength |-> len]]
      /\ held' = held \cup {v}
      /\ last' = Call("DataView", "none", v, b, 0, 0)
      /\ UNCHANGED <<buf, mem, oob>>

-----------------------------------------------------------------------------
(* The typed array's specop_get for an integral index: undefined when     *)
(* idx < 0 || idx > length, else data[idx].                                *)
TypedArrayGet(v, i) ==
  /\ "get" \in Ops
  /\ oob' = (oob \/ (~(i < 0 \/ i > view[v].length) /\ ~ElemOk(v, i)))
  /\ last' = Call("get", "none", v, NoId, 0, 0)
  /\ UNCHANGED <<buf, mem, view, held>>

(* specop_set for an integral index: nothing for idx < 0 || idx >= length, *)
(* else the element is stored (Uint8Clamped through its own specop_set).   *)
TypedArraySet(v, i, x) ==
  /\ "set" \in Ops
  /\ IF i < 0 \/ i >= view[v].length
     THEN UNCHANGED <<mem, oob>>
     ELSE Store(v, ElemWrites(v, i :> x, PutBytes), FALSE)
  /\ last' = Call("set", "none", v, NoId, i, x)
  /\ UNCHANGED <<buf, view, held>>

(* DataView getT(idx [, littleEndian]): memcpy of the element's bytes from *)
(* data + idx with no bounds check (the byte swap of the value read is    *)
(* left out: no property looks at it).                                     *)
DataViewGetValue(v, t, i) ==
  /\ "DataView" \in Ops
  /\ oob' = (oob \/ ~SpanOk(v, U32(i), ElemSize(t)))
  /\ last' = Call("getValue", "none", v, NoId, 0, 0)
  /\ UNCHANGED <<buf, mem, view, held>>

(* needToSwap(littleEndian) on a little-endian host, then swapBytes.      *)
SwapBytes(bytes, little) == IF little THEN bytes ELSE Reverse(bytes)

(* DataView setT(idx, value [, littleEndian]): the value's bytes, swapped *)
(* when littleEndian is false, memcpy'd to data + idx with no bounds      *)
(* check.                                                                  *)
DataViewSetValue(v, t, i, x, little) ==
  LET bytes == SwapBytes(Encode(t, x), little)
  IN  /\ "DataView" \in Ops
      /\ Store(v, [j \in U32(i)..(U32(i) + ElemSize(t) - 1) |-> bytes[j - U32(i) + 1]], FALSE)
      /\ last' = Call("setValue", "none", v, NoId, 0, 0)
      /\ UNCHANGED <<buf, view, held>>

(* The DataView's byte-indexed specop_get: undefined for idx < 0 ||       *)
(* idx > byteLength.                                                       *)
DataViewGetByte(v, i) ==
  /\ "DataView" \in Ops
  /\ oob' = (oob \/ (~(i < 0 \/ i > view[v].byteLength) /\ ~SpanOk(v, i, 1)))
  /\ last' = Call("getByte", "none", v, NoId, 0, 0)
  /\ UNCHANGED <<buf, mem, view, held>>

(* The DataView's specop_set: nothing for idx < 0 || idx >= byteLength,   *)
(* else data[idx] = (unsigned char)value.                                  *)
DataViewSetByte(v, i, x) ==
  /\ "DataView" \in Ops
  /\ IF i < 0 \/ i >= view[v].byteLength
     THEN UNCHANGED <<mem, oob>>
     ELSE Store(v, i :> (x % 256), FALSE)
  /\ last' = Call("setByte", "none", v, NoId, 0, 0)
  /\ UNCHANGED <<buf, view, held>>
-----------------------------------------------------------------------------
(* ValidateTypedArray and the set() checks: IsDetachedBuffer is true for  *)
(* every dependent (slice) buffer.                                         *)
IsDetachedBuffer(b) == buf[b].dependent

(* ValidateTypedArray(O) for a typed array O: FALSE where it throws the   *)
(* TypeError of a detached buffer.                                         *)
ValidateTypedArray(v) == ~IsDetachedBuffer(view[v].buffer)

(* %TypedArray%.prototype.copyWithin(target, start, end).                  *)
CopyWithin(v, target, start, end) ==
  LET b   == CopyWithinBounds(view[v].length, target, start, end)
      new == CopyWithinElems(Elements(v), target, start, end)
  IN  /\ "copyWithin" \in Ops
      /\ IF ~ValidateTypedArray(v)
         THEN UNCHANGED <<mem, oob>>
         ELSE Store(v, ElemWrites(v, [i \in b.to..(b.to + b.count - 1) |-> new[i + 1]], Encode),
                    \E i \in b.from..(b.from + b.count - 1) : ~ElemOk(v, i))
      /\ last' = Call("copyWithin", IF ValidateTypedArray(v) THEN "none" ELSE "TypeError",
                      v, NoId, 0, 0)
      /\ UNCHANGED <<buf, view, held>>

(* The outcome of set(array, offset) on v: a RangeError, the TypeError of *)
(* a detached buffer, or "none".                                           *)
SetArrayExc(v, n, off) ==
  CASE off < 0                          -> "RangeError"
    [] IsDetachedBuffer(view[v].buffer)  -> "TypeError"
    [] n + off > I32(view[v].length)     -> "RangeError"
    [] OTHER                             -> "none"

(* set(array, offset) for a dense array: each item stored by a plain cast. *)
SetArray(v, items, offArg) ==
  LET off == ToInteger(offArg)
      exc == SetArrayExc(v, Len(items), off)
  IN  /\ "setArray" \in Ops
      /\ IF exc = "none"
         THEN Store(v, ElemWrites(v, [i \in off..(off + Len(items) - 1) |-> items[i - off + 1]], Encode),
                    FALSE)
         ELSE UNCHANGED <<mem, oob>>
      /\ last' = Call("setArray", exc, v, NoId, 0, 0)
      /\ UNCHANGED <<buf, view, held>>

(* The outcome of set(typedArray, offset): the checks in the code's order, *)
(* then "abort" for the cases that reach EJS_NOT_IMPLEMENTED (the same     *)
(* buffer, different element types, or a Uint8Clamped source read through *)
(* _ejs_typedarray_get_at).                                                *)
SetTypedArrayExc(v, src, off) ==
  CASE off < 0                                            -> "RangeError"
    [] IsDetachedBuffer(view[v].buffer)                    -> "TypeError"
    [] IsDetachedBuffer(view[src].buffer)                  -> "TypeError"
    [] I32(view[src].length) + off > I32(view[v].length)   -> "RangeError"
    [] view[src].buffer = view[v].buffer                   -> "abort"
    [] view[src].type # view[v].type                       -> "abort"
    [] view[src].type = "Uint8Clamped" /\ view[src].length > 0 -> "abort"
    [] OTHER                                               -> "none"

(* The copy loop: target index off + k gets source element k, for        *)
(* targetIndex < limit = targetOffset + srcLength.  Mutant: the limit     *)
(* without the target offset.                                              *)
SetTypedArrayCopyShortLimit(v, src, off) ==
  [i \in off..(I32(view[src].length) - 1) |-> ElemAt(src, i - off)]
SetTypedArrayCopy(v, src, off) ==
  [i \in off..(off + I32(view[src].length) - 1) |-> ElemAt(src, i - off)]

(* set(typedArray, offset); the calls that abort the process are not made. *)
SetTypedArray(v, src, offArg) ==
  LET off == ToInteger(offArg)
      exc == SetTypedArrayExc(v, src, off)
  IN  /\ "setTypedArray" \in Ops
      /\ exc # "abort"
      /\ IF exc = "none"
         THEN Store(v, ElemWrites(v, SetTypedArrayCopy(v, src, off), Encode),
                    \E k \in 0..(I32(view[src].length) - 1) : ~ElemOk(src, k))
         ELSE UNCHANGED <<mem, oob>>
      /\ last' = Call("setTypedArray", exc, v, src, off, 0)
      /\ UNCHANGED <<buf, view, held>>

(* subarray step 23: beginByteOffset = srcByteOffset + beginIndex *        *)
(* elementSize.  Mutant: without the source's byte offset.                 *)
BeginByteOffsetNoSrc(v, beginIndex) == U32(beginIndex * ElemSize(view[v].type))
BeginByteOffset(v, beginIndex) ==
  U32(view[v].byteOffset + beginIndex * ElemSize(view[v].type))

(* subarray(begin, end): the constructor of the same type called with     *)
(* (buffer, beginByteOffset, newLength).                                   *)
Subarray(v, w, begin, end) ==
  LET r == SubarrayRange(view[v].length, begin, end)
      c == FromBuffer(view[v].type, view[v].buffer, 3, BeginByteOffset(v, r.begin), r.length)
  IN  /\ "subarray" \in Ops
      /\ IF c.exc = "none"
         THEN /\ view' = [view EXCEPT ![w] = TypedView(view[v].type, view[v].buffer,
                                                      c.byteOffset, c.length, c.byteLength)]
              /\ held' = held \cup {w}
         ELSE UNCHANGED <<view, held>>
      /\ last' = Call("subarray", c.exc, v, w, r.begin, r.length)
      /\ UNCHANGED <<buf, mem, oob>>

(* fill(value, start, end): Put of value at every k in [k, final).         *)
Fill(v, x, start, end) ==
  LET r == FillRange(view[v].length, start, end)
  IN  /\ "fill" \in Ops
      /\ Store(v, ElemWrites(v, [i \in r.k..(r.final - 1) |-> x], PutBytes), FALSE)
      /\ last' = Call("fill", "none", v, NoId, 0, 0)
      /\ UNCHANGED <<buf, view, held>>

(* reverse(): ValidateTypedArray, then Get and Put of each pair.           *)
TypedArrayReverse(v) ==
  LET len    == view[v].length
      middle == len \div 2
      new    == ReverseElems(Elements(v))
      swapped == (0..(middle - 1)) \cup ((len - middle)..(len - 1))
  IN  /\ "reverse" \in Ops
      /\ IF ~ValidateTypedArray(v)
         THEN UNCHANGED <<mem, oob>>
         ELSE Store(v, ElemWrites(v, [i \in swapped |-> new[i + 1]], PutBytes),
                    \E i \in swapped : ~ElemOk(v, i))
      /\ last' = Call("reverse", IF ValidateTypedArray(v) THEN "none" ELSE "TypeError",
                      v, NoId, 0, 0)
      /\ UNCHANGED <<buf, view, held>>

(* indexOf(x, fromIndex): reads through Get from the start index up to the *)
(* match (or the end).                                                     *)
IndexOf(v, x, from) ==
  LET len == I32(view[v].length)
      k0  == IndexOfStart(len, from)
      r   == IndexOfElems(Elements(v), x, from)
  IN  /\ "indexOf" \in Ops
      /\ oob' = (oob \/ \E i \in (IF k0 = -1 THEN {} ELSE k0..(IF r = -1 THEN len - 1 ELSE r)) :
                             ~ElemOk(v, i))
      /\ last' = Call("indexOf", "none", v, NoId, 0, 0)
      /\ UNCHANGED <<buf, mem, view, held>>

(* lastIndexOf(x, fromIndex): reads downwards from the start index.        *)
LastIndexOf(v, x, from) ==
  LET k0 == LastIndexOfStart(I32(view[v].length), from)
      r  == LastIndexOfElems(Elements(v), x, from)
  IN  /\ "indexOf" \in Ops
      /\ oob' = (oob \/ \E i \in (IF r = -1 THEN 0 ELSE r)..k0 : ~ElemOk(v, i))
      /\ last' = Call("lastIndexOf", "none", v, NoId, 0, 0)
      /\ UNCHANGED <<buf, mem, view, held>>

-----------------------------------------------------------------------------
(* The references a view or a buffer dereferences: a view's buffer and a  *)
(* slice's parent (_ejs_arraybuffer_get_data).                             *)
PointsTo(o) ==
  IF o \in ViewIds THEN {view[o].buffer} \ {NoId}
  ELSE IF buf[o].dependent THEN {buf[o].parent} ELSE {}

(* What the scan functions hand to the collector: typedarray and dataview *)
(* scan their buffer, arraybuffer scan a dependent buffer's parent.        *)
(* Mutant: the arraybuffer scan does not scan the parent.                  *)
ScanRefsNoParent(o) == IF o \in ViewIds THEN {view[o].buffer} \ {NoId} ELSE {}
ScanRefs(o) ==
  IF o \in ViewIds THEN {view[o].buffer} \ {NoId}
  ELSE IF buf[o].dependent THEN {buf[o].parent} ELSE {}

RECURSIVE Closure(_, _, _)
Closure(S, Refs(_), n) ==
  IF n = 0 THEN S ELSE Closure(S \cup UNION {Refs(o) : o \in S}, Refs, n - 1)

Live(o) == IF o \in ViewIds THEN view[o].kind # "none" ELSE buf[o].live

(* The program lets go of an object.                                       *)
Drop(o) ==
  /\ held' = held \ {o}
  /\ last' = NoCall
  /\ UNCHANGED <<buf, mem, view, oob>>

(* A collection: every object the scans do not reach from the held ones  *)
(* is finalized (arraybuffer finalize frees an owned block) and its cell  *)
(* can be reused.                                                          *)
Collect ==
  LET kept == Closure(held, ScanRefs, Cardinality(Objects))
      dead == {o \in Objects : Live(o)} \ kept
  IN  /\ dead # {}
      /\ buf' = [b \in BufIds |-> IF b \in dead THEN NoBuf ELSE buf[b]]
      /\ mem' = [b \in BufIds |-> IF b \in dead THEN <<>> ELSE mem[b]]
      /\ view' = [v \in ViewIds |-> IF v \in dead THEN NoView ELSE view[v]]
      /\ last' = NoCall
      /\ UNCHANGED <<held, oob>>

-----------------------------------------------------------------------------
Args  == Nums \cup {Undef}
Items == UNION {[1..n -> Vals] : n \in 0..MaxArgs}

Next ==
  \/ \E b \in FreeBufs, n \in Nums : ArrayBufferNew(b, n)
  \/ \E b \in Buffers, nb \in FreeBufs, argc \in 0..2, a0, a1 \in Nums :
        ArrayBufferSlice(b, nb, argc, a0, a1)
  \/ \E v \in FreeViews, b \in FreeBufs, t \in Types :
        \/ \E n \in Args : TypedArrayFromLength(v, b, t, n)
        \/ \E items \in Items : TypedArrayFromArray(v, b, t, items)
        \/ \E items \in Items : ArrayOf(v, b, t, items)
  \/ \E v \in FreeViews, t \in Types, b \in Buffers, argc \in 1..3, a1, a2 \in Nums :
        TypedArrayFromBuffer(v, t, b, argc, a1, a2)
  \/ \E v \in FreeViews, b \in Buffers, argc \in 1..3, a1, a2 \in Nums :
        DataViewNew(v, b, argc, a1, a2)
  \/ \E v \in Typed, i \in Nums :
        \/ TypedArrayGet(v, i)
        \/ \E x \in Vals : TypedArraySet(v, i, x)
  \/ \E v \in DataViews, i \in Nums :
        \/ \E t \in {"Uint8", "Int16"} : DataViewGetValue(v, t, i)
        \/ \E t \in {"Uint8", "Int16"}, x \in Vals, little \in BOOLEAN :
              DataViewSetValue(v, t, i, x, little)
        \/ DataViewGetByte(v, i)
        \/ \E x \in Vals : DataViewSetByte(v, i, x)
  \/ \E v \in Typed :
        \/ \E target, start, end \in Args : CopyWithin(v, target, start, end)
        \/ \E items \in Items, off \in Args : SetArray(v, items, off)
        \/ \E src \in Typed, off \in Args : SetTypedArray(v, src, off)
        \/ \E w \in FreeViews, begin, end \in Args : Subarray(v, w, begin, end)
        \/ \E x \in Vals, start, end \in Args : Fill(v, x, start, end)
        \/ TypedArrayReverse(v)
        \/ \E x \in Vals, from \in Args : IndexOf(v, x, from) \/ LastIndexOf(v, x, from)
  \/ \E o \in held : Drop(o)
  \/ Collect

Spec == Init /\ [][Next]_vars

-----------------------------------------------------------------------------
TypeOK ==
  /\ buf \in [BufIds -> [live : BOOLEAN, dependent : BOOLEAN, size : -IntMod..IntMod,
                         parent : BufIds \cup {NoId}, offset : -IntMod..IntMod]]
  /\ \A b \in BufIds : mem[b] \in Seq(0..255)
  /\ view \in [ViewIds -> [kind : {"none", "typed", "dataview"}, type : Types \cup {"Uint8"},
                          buffer : BufIds \cup {NoId}, byteOffset : 0..(IntMod - 1),
                          length : 0..(IntMod - 1), byteLength : 0..(IntMod - 1)]]
  /\ held \subseteq Objects
  /\ oob \in BOOLEAN

(* The collector never finalizes an object that something the program     *)
(* holds still dereferences: the arraybuffer, typedarray and dataview     *)
(* scan functions report every buffer a view or a slice reads through.    *)
NoUseAfterFree ==
  \A o \in Closure(held, PointsTo, Cardinality(Objects)) : Live(o)

(* subarray(begin, end) on a typed array that lies inside its buffer      *)
(* returns a view of newLength elements whose element i is the very       *)
(* storage of element begin + i of the source, through the constructor's  *)
(* byteOffset and length checks.                                           *)
InsideBuffer(v) == view[v].byteOffset + view[v].byteLength <= buf[view[v].buffer].size
SubarraySharesElements ==
  last.op = "subarray" /\ last.exc = "none" /\ InsideBuffer(last.this) =>
    LET v == last.this
        w == last.other
        es == ElemSize(view[v].type)
    IN  /\ view[w].length = last.val
        /\ \A i \in 0..(view[w].length - 1) : Addr(w, i * es) = Addr(v, (last.idx + i) * es)

(* set(typedArray, offset) leaves element offset + k of the target equal  *)
(* to element k of the source, for every element of the source.           *)
SetCopiesSource ==
  last.op = "setTypedArray" /\ last.exc = "none" =>
    \A k \in 0..(I32(view[last.other].length) - 1) :
       ElemOk(last.other, k) /\ ElemOk(last.this, last.idx + k) =>
          ElemAt(last.this, last.idx + k) = ElemAt(last.other, k)

(* Every element and byte a typed array or DataView operation touches    *)
(* lies in the live block its buffer chain ends in.                        *)
NoOutOfBoundsAccess == ~oob

(* ES2015 22.2.4.5: the constructor throws a RangeError unless byteOffset *)
(* + newByteLength <= bufferByteLength; so every typed array lies inside  *)
(* its buffer.  And ES2015 24.1.4.3: the bytes of a slice are a range of  *)
(* its parent's, of length max(final - first, 0); so every buffer that     *)
(* _ejs_arraybuffer_new_slice made lies inside the buffer it was cut from. *)
TypedArrayWithinBuffer ==
  /\ \A v \in ViewIds : view[v].kind = "typed" => InsideBuffer(v)
  /\ \A b \in BufIds : buf[b].live /\ buf[b].dependent =>
        /\ buf[b].size >= 0
        /\ buf[b].offset + buf[b].size <= buf[buf[b].parent].size

=============================================================================
