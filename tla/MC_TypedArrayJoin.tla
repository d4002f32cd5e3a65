------------------------- MODULE MC_TypedArrayJoin -------------------------
(***************************************************************************)
(* Instantiates TypedArrayJoin for TLC: typed arrays of up to two elements *)
(* over two values, and four cells, enough for two element strings, a     *)
(* separator and the result to be live at once.                            *)
(***************************************************************************)
EXTENDS TypedArrayJoin, TLC

CONSTANTS a1, a2, a3, a4

MCAddrs == {a1, a2, a3, a4}

Symmetry == Permutations(MCAddrs)
=============================================================================
