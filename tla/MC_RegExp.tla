----------------------------- MODULE MC_RegExp -----------------------------
(***************************************************************************)
(* Instantiates RegExp for TLC: subjects of up to three code units over    *)
(* "a" and "b"; the patterns a, a* and one pcre16_compile rejects; flags   *)
(* strings that are empty, global, sticky, unicode, or invalid; lastIndex  *)
(* assignments before, inside and past every subject; @@split limits.      *)
(***************************************************************************)
EXTENDS RegExp

MCStrs == {<<>>, <<"a">>, <<"b", "a">>, <<"a", "a", "b">>}

MCPats == {[ch |-> "a", star |-> FALSE], [ch |-> "a", star |-> TRUE], BadPat}

(* The patterns pcre16_compile accepts.                                    *)
MCValidPats == MCPats \ {BadPat}

MCFlagStrs == {<<>>, <<"g">>, <<"y">>, <<"g", "u">>, <<"g", "g">>, <<"x">>}

(* -1 is clamped by ToLength; 4 is past every subject.                     *)
MCLastIndexVals == {-1, 1, 4}

(* No limit, a limit of 0 (step 21) and one the loop can reach.           *)
MCLimits == {Undef, 0, 1}

(* Values an uninitialised ovec[0], ovec[1] can hold in these runs.        *)
MCGarbage == {0, 2}

Results == UNION {[1..n -> [index : -1..5, end : -1..5]] : n \in 0..MaxResults}

(* The regexp, the loop variables and the ghosts keep their types.        *)
TypeOK ==
  /\ rx.flags \subseteq FlagChars
  /\ rx.lastIndex \in Int
  /\ pc \in {"idle", "match", "replace", "split", "abort"}
  /\ subj \in MCStrs
  /\ Len(acc) <= MaxResults
  /\ split.p \in Nat /\ split.q \in Nat /\ split.lim \in MCLimits
  /\ prev \in Int
  /\ callUb \in BOOLEAN
  /\ ret.op \in {"none", "new", "exec", "test", "match", "replace", "split"}
=============================================================================
