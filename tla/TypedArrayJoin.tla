--------------------------- MODULE TypedArrayJoin ---------------------------
(***************************************************************************)
(* %TypedArray%.prototype.join of src/runtime/ejs-typedarrays.c on top of *)
(* the collector as GcHeap specifies it.  join converts every element     *)
(* with ToString first, keeping the strings in a malloc'd array, and only *)
(* then copies them into the result.  Each ToString is an allocation, and *)
(* any allocation may first run a collection (_ejs_gc_alloc's trigger).  *)
(* The collector scans the root set, the modules and the native stack and *)
(* registers, never malloc'd memory: a string is kept alive only by a    *)
(* word of join's frame that still holds it, and which words a build      *)
(* leaves there is a choice of the compiler, so every subset is possible. *)
(*                                                                         *)
(* ToString is not in this repository.  It returns a fresh string on the *)
(* heap or one the runtime keeps alive (an atom); both are modelled.  A  *)
(* string is an address in Addrs; text[a] is the element value it spells. *)
(***************************************************************************)
EXTENDS Integers, Sequences, FiniteSets

CONSTANTS
  Addrs,    \* the cells a string can be allocated in
  Null,     \* the null reference
  Atom,     \* a string ToString returns that is not collectable
  Comma,    \* the static "," of an undefined separator
  Vals,     \* element values
  MaxLen    \* bound: length of the typed array

VARIABLES
  arr,      \* the elements of O, the typed array join runs on
  pc,       \* "idle" | "convert" | "copy" | "result"
  strings,  \* the malloc'd strings array: addresses, or Atom
  sep,      \* the separator string: Comma, Atom or an address
  text,     \* text[a]: the element value the string at a spells
  frame,    \* the addresses some word of join's frame or registers still holds
  lost,     \* indices of strings[] (0: the separator) whose cell was freed
  objects,  \* the allocated cells
  res,      \* ghost: the element values the last join copied
  uaf       \* ghost: a join has read a string whose cell was freed

vars == <<arr, pc, strings, sep, text, frame, lost, objects, res, uaf>>

(* The collector's view: the cells are objects holding no reference, and  *)
(* the only roots that can hold a string are the words of join's frame.   *)
(* join runs before shutdown.                                              *)
Heap == INSTANCE GcHeap WITH ref <- [a \in Addrs |-> Null], roots <- frame,
                             down <- FALSE

Arrays == UNION {[1..n -> Vals] : n \in 0..MaxLen}

Init ==
  /\ arr = <<>>
  /\ pc = "idle"
  /\ strings = <<>>
  /\ sep = Comma
  /\ text = [a \in Addrs |-> Null]
  /\ frame = {}
  /\ lost = {}
  /\ objects = {}
  /\ res = <<>>
  /\ uaf = FALSE

(* An allocation of a string spelling v in cell a, after a collection   *)
(* that freed the cells dead (a may be one of them); afterwards the frame *)
(* keeps the words in keep.                                               *)
NewString(v, a, keep, dead) ==
  /\ a \in Addrs \ (objects \ dead)
  /\ objects' = (objects \ dead) \cup {a}
  /\ text' = [text EXCEPT ![a] = v]
  /\ frame' = keep

(* What a collection may free: cells no word of the frame reaches.       *)
Garbage == SUBSET (objects \ Heap!Reachable)

(* The strings of join's (index 0: the separator) lost once dead is freed. *)
LostAfter(dead) ==
  lost \cup {j \in DOMAIN strings : strings[j] \in dead} \cup (IF sep \in dead THEN {0} ELSE {})

(* join(separator) on a typed array: an undefined separator is the static *)
(* ","; a string separator is the caller's and stays alive; any other     *)
(* value is converted by ToString, before the length test.  A length of 0 *)
(* returns "" at once; otherwise the strings array is allocated and the   *)
(* first loop starts with the separator's word in the frame.              *)
JoinCall ==
  /\ pc = "idle"
  /\ \E a \in Arrays :
       /\ arr' = a
       /\ \/ /\ a = <<>>
             /\ res' = <<>>
             /\ \/ UNCHANGED <<text, objects>>
                \/ \E c \in Addrs, dead \in Garbage : NewString(Null, c, {}, dead)
             /\ UNCHANGED <<pc, strings, sep, frame, lost>>
          \/ /\ a # <<>>
             /\ pc' = "convert"
             /\ strings' = <<>>
             /\ \/ sep' \in {Comma, Atom} /\ UNCHANGED <<text, frame, objects>>
                \/ \E c \in Addrs, dead \in Garbage : sep' = c /\ NewString(Null, c, {c}, dead)
             /\ lost' = {}
             /\ UNCHANGED res
  /\ UNCHANGED uaf

(* One iteration of the first loop: strings[i] = ToString(Get(O, i)).     *)
(* The frame may keep the words of the new string and of the separator,   *)
(* or lose any of them; strings[] itself is not scanned.                  *)
ConvertStep ==
  /\ pc = "convert"
  /\ LET v == arr[Len(strings) + 1]
         done == Len(strings) + 1 = Len(arr)
     IN  /\ \/ /\ strings' = Append(strings, Atom)
                /\ \E keep \in SUBSET frame : frame' = keep
                /\ UNCHANGED <<text, objects, lost>>
             \/ \E a \in Addrs :
                  /\ strings' = Append(strings, a)
                  /\ \E keep \in SUBSET (frame \cup {a}), dead \in Garbage :
                       NewString(v, a, keep, dead) /\ lost' = LostAfter(dead)
         /\ pc' = IF done THEN "copy" ELSE "convert"
  /\ UNCHANGED <<arr, sep, res, uaf>>

(* The copy loop: R = strings[0], then sep and strings[k] for k < len,    *)
(* each memmove'd from the string's flat data; no allocation happens in   *)
(* between.  A freed cell is read for whatever now occupies it.          *)
Copy ==
  /\ pc = "copy"
  /\ res' = [j \in DOMAIN strings |-> IF strings[j] = Atom THEN arr[j] ELSE text[strings[j]]]
  /\ uaf' = (uaf \/ lost # {})
  /\ pc' = "result"
  /\ UNCHANGED <<arr, strings, sep, text, frame, objects, lost>>

(* _ejs_string_new_ucs2(result) allocates the result string; the strings  *)
(* array and the buffer are freed and join's frame is gone.               *)
Result ==
  /\ pc = "result"
  /\ \E a \in Addrs, dead \in Garbage : NewString(Null, a, {}, dead)
  /\ lost' = {}
  /\ pc' = "idle"
  /\ strings' = <<>>
  /\ sep' = Comma
  /\ UNCHANGED <<arr, res, uaf>>

Next == JoinCall \/ ConvertStep \/ Copy \/ Result

Spec == Init /\ [][Next]_vars
-----------------------------------------------------------------------------
(* join reads only strings whose cells are still allocated: every string   *)
(* it made in the first loop, and the separator, survive the collections   *)
(* that later ToString allocations run.                                    *)
JoinReadsLiveStrings == ~uaf
=============================================================================
