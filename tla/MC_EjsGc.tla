------------------------------ MODULE MC_EjsGc ------------------------------
(***************************************************************************)
(* Model values for checking EjsGc.  The heap is scaled down: 32-byte      *)
(* pages with size classes 16 (two cells) and 32 (one cell), so that the   *)
(* class 2^OBJECT_SIZE_HIGH_LIMIT_BITS and above goes to the large object  *)
(* store as in the code; arenas of one page, at most MAX_ARENAS-1 = 2 of   *)
(* them, the second mapped below the first so heap_arenas insertion and    *)
(* the arena search order both matter.                                     *)
(***************************************************************************)
EXTENDS EjsGc

(* Base addresses: the arena arena_new maps second lies below the first.   *)
MCArenaAddr == <<20, 10, 30>>

(* A stack word that never classifies: a word inside an arena header     *)
(* (page index -1).                                                       *)
MCJunkWords == {<<1, -1, 0>>}

(* The end pointer of the last cell of arena 1's first page: the start of  *)
(* its second page, not carved yet.                                        *)
MCFaultWords == {<<1, 1, 0>>}

=============================================================================
