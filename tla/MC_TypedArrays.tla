--------------------------- MODULE MC_TypedArrays ---------------------------
(***************************************************************************)
(* Instances of TypedArrays for TLC: two buffers and two views, blocks of *)
(* at most two bytes, C integers 6 bits wide.                              *)
(***************************************************************************)
EXTENDS TypedArrays

CONSTANTS b1, b2, v1, v2

MCBufIds  == {b1, b2}
MCViewIds == {v1, v2}
OneView   == {v1}

(* Buffers are interchangeable, and so are views: the program may be given *)
(* any free cell, and no property names one.                               *)
Symmetry == Permutations(MCBufIds) \cup Permutations(MCViewIds)

(* 1 fits every element type; -1 needs the sign.                          *)
MCVals == {1, -1}

=============================================================================
