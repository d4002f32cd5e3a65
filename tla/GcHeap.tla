------------------------------ MODULE GcHeap -------------------------------
(***************************************************************************)
(* What the collector of ejs-gc.c promises the rest of the runtime (spec  *)
(* section 8), with no pages, colors or worklists: a set of allocated      *)
(* objects, the one traced reference each object holds, and the words the *)
(* runtime treats as roots.  An allocation hands out an object that is not *)
(* allocated, holds null and is now a root.  A collection frees only       *)
(* objects no root reaches, and leaves the rest as they were.  Between     *)
(* calls, the runtime can drop references and copy the ones it has, but it *)
(* cannot reach an object it could not reach before.  Once the runtime     *)
(* shuts down (spec section 5, shutdown()), the final collection may free  *)
(* any object and discard roots, and nothing is allocated again.           *)
(***************************************************************************)
EXTENDS FiniteSets

CONSTANTS
  Addrs,   \* the words that are object addresses
  Null     \* the null reference

VARIABLES
  objects, \* the allocated objects
  ref,     \* ref[o]: the reference object o holds
  roots,   \* the words the collector scans as roots
  down     \* the runtime has begun shutting down

absVars == <<objects, ref, roots, down>>

(* The objects reachable from the words in R through the references of     *)
(* allocated objects; a root word counts when it is an object's address.   *)
RECURSIVE Reach(_, _, _)
Reach(R, f, A) ==
  LET S == R \cap A
      T == S \cup ({f[x] : x \in S} \cap A)
  IN  IF T = S THEN S ELSE Reach(T, f, A)

Reachable == Reach(roots, ref, objects)

Init == objects = {} /\ down = FALSE

(* An object that is not allocated is handed out: it holds null and the    *)
(* caller keeps its address.                                               *)
Allocate ==
  /\ ~down /\ UNCHANGED down
  /\ \E o \in Addrs \ objects :
    /\ objects' = objects \cup {o}
    /\ ref' = [ref EXCEPT ![o] = Null]
    /\ roots' = roots \cup {o}

(* Some objects that no root reaches are freed; the roots and the          *)
(* references of the objects left are as they were.                        *)
Free ==
  LET dead == objects \ objects'
  IN  /\ ~down /\ UNCHANGED down
      /\ objects' \subseteq objects
      /\ dead # {}
      /\ dead \cap Reachable = {}
      /\ roots' = roots
      /\ \A o \in objects' : ref'[o] = ref[o]

(* The runtime changes roots and references without allocating; every     *)
(* object it can reach afterwards it could reach before.                   *)
Mutate ==
  /\ ~down /\ UNCHANGED down
  /\ objects' = objects
  /\ Reach(roots', ref', objects) \subseteq Reachable

(* The runtime starts shutting down.                                       *)
Shutdown == ~down /\ down' /\ UNCHANGED <<objects, ref, roots>>

(* After shutdown began: any objects are freed and any roots dropped; the  *)
(* objects left keep their references.                                      *)
Teardown ==
  /\ down /\ down'
  /\ objects' \subseteq objects
  /\ roots' \subseteq roots
  /\ \A o \in objects' : ref'[o] = ref[o]

Next == Allocate \/ Free \/ Mutate \/ Shutdown \/ Teardown

Spec == Init /\ [][Next]_absVars

=============================================================================
