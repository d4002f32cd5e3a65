------------------------------- MODULE RegExp -------------------------------
(***************************************************************************)
(* The RegExp objects of src/runtime/ejs-regexp.c as the program sees      *)
(* them across calls: the constructor with its flag parsing and pattern    *)
(* compilation, the lastIndex property, RegExp.prototype.exec              *)
(* (RegExpBuiltinExec) and the loops of @@match and @@replace, each        *)
(* iteration of which is one RegExpExec, RegExp.prototype.test, the flags  *)
(* getter, and the loop of @@split over the splitter regexp it builds.     *)
(*                                                                         *)
(* A subject string is a sequence of code units.  A pattern is one code    *)
(* unit, alone or starred ([ch, star]), or BadPat, which pcre16_compile    *)
(* rejects.  pcre16_exec is modelled by its documented results:            *)
(* PCRE_ERROR_NULL (-2) for a NULL code, PCRE_ERROR_BADOFFSET (-24) for a  *)
(* start offset past the subject, PCRE_ERROR_NOMATCH (-1), or the leftmost *)
(* match at or after the offset, greedy for a starred unit.  ovec is not   *)
(* written on an error; reading it then yields values from Garbage.        *)
(***************************************************************************)
EXTENDS Integers, Sequences, FiniteSetsExt

CONSTANTS
  Strs,           \* subject strings the program passes
  Pats,           \* pattern sources the program passes
  BadPat,         \* a source pcre16_compile returns NULL for
  NullCode,       \* the NULL compiled pattern
  FlagStrs,       \* flags arguments (sequences of code units)
  LastIndexVals,  \* values the program assigns to lastIndex
  Garbage,        \* values an uninitialised ovec entry can hold
  Null, Undef,    \* the JS values null and undefined
  Repl,           \* the code unit of the replacement string
  Limits,         \* limit arguments of @@split (Undef or a ToLength result)
  MaxResults      \* bound: results one @@match, @@replace or @@split call collects

FlagChars == {"g", "i", "m", "y", "u"}

VARIABLES
  rx,       \* the RegExp object the program holds
  pc,       \* "idle" | "match" | "replace" | "split" | "abort"
  subj,     \* S of the running @@match, @@replace or @@split
  acc,      \* A (match, split) or results (replace) collected so far
  split,    \* the splitter, p, q and lim of the running @@split
  prev,     \* previousLastIndex of @@match
  callUb,   \* ghost: the running call has read an uninitialised ovec
  lastExec, \* ghost: the last RegExpBuiltinExec: start past S, null result, lastIndex left
  ret       \* ghost: the last call that returned

vars == <<rx, pc, subj, acc, split, prev, callUb, lastExec, ret>>

-----------------------------------------------------------------------------
(* ToLength on the integers lastIndex can hold.                            *)
ToLength(x) == IF x < 0 THEN 0 ELSE x

(* The end of pat's match starting at s, or -1 when it does not match.     *)
RECURSIVE RunLen(_, _, _)
RunLen(S, s, c) == IF s < Len(S) /\ S[s + 1] = c THEN 1 + RunLen(S, s + 1, c) ELSE 0
MatchEnd(pat, S, s) ==
  IF pat.star THEN s + RunLen(S, s, pat.ch)
  ELSE IF s < Len(S) /\ S[s + 1] = pat.ch THEN s + 1 ELSE -1

PcreExec(code, S, start) ==
  IF code = NullCode THEN [rc |-> -2, s |-> 0, e |-> 0]
  ELSE IF start < 0 \/ start > Len(S) THEN [rc |-> -24, s |-> 0, e |-> 0]
  ELSE LET hits == {s \in start..Len(S) : MatchEnd(code, S, s) >= 0}
       IN  IF hits = {} THEN [rc |-> -1, s |-> 0, e |-> 0]
           ELSE [rc |-> 1, s |-> Min(hits), e |-> MatchEnd(code, S, Min(hits))]

(* RegExpInitialize steps 7-8: each code unit sets its flag once; any     *)
(* other unit, or a repeated one, throws a SyntaxError (err).  Mutant:    *)
(* any unit not yet seen is taken as a flag.                               *)
RECURSIVE ParseFlagsAnyUnit(_, _)
ParseFlagsAnyUnit(F, set) ==
  IF F = <<>> THEN [err |-> FALSE, set |-> set]
  ELSE IF Head(F) \notin set THEN ParseFlagsAnyUnit(Tail(F), set \cup {Head(F)})
  ELSE [err |-> TRUE, set |-> set]
RECURSIVE ParseFlags(_, _)
ParseFlags(F, set) ==
  IF F = <<>> THEN [err |-> FALSE, set |-> set]
  ELSE IF Head(F) \in FlagChars \ set THEN ParseFlags(Tail(F), set \cup {Head(F)})
  ELSE [err |-> TRUE, set |-> set]

(* RegExpAlloc and RegExpInitialize on source P and flags F: the flags    *)
(* record, the compiled pattern (NULL is not reported), lastIndex = 0.     *)
Initialize(P, F) ==
  [source |-> P, flagStr |-> F, flags |-> ParseFlags(F, {}).set, err |-> ParseFlags(F, {}).err,
   code |-> IF P = BadPat THEN NullCode ELSE P, lastIndex |-> 0]

GlobalOrSticky(r) == "g" \in r.flags \/ "y" \in r.flags

(* RegExpBuiltinExec steps 4-11: i is ToLength(lastIndex), or 0 when the  *)
(* regexp is neither global nor sticky.  Mutant: lastIndex is always used. *)
ExecStartAlwaysLastIndex(r) == ToLength(r.lastIndex)
ExecStart(r) == IF GlobalOrSticky(r) THEN ToLength(r.lastIndex) ELSE 0

(* The outcomes of RegExpBuiltinExec(r, S): the result (Null or the match *)
(* [index, end]), the lastIndex it leaves, whether it read ovec after a    *)
(* failed pcre16_exec, and whether it stopped in EJS_NOT_IMPLEMENTED (the  *)
(* fullUnicode branch, reached by every non-NOMATCH return).               *)
ExecOutcomes(r, S) ==
  LET i == ExecStart(r)
      m == PcreExec(r.code, S, i)
      out(res, li, ub) == [res |-> res, li |-> li, ub |-> ub, abort |-> FALSE, start |-> i]
  IN  IF m.rc = -1 THEN {out(Null, 0, FALSE)}
      ELSE IF "u" \in r.flags
      THEN {[out(Null, r.lastIndex, m.rc < 0) EXCEPT !.abort = TRUE]}
      ELSE IF m.rc < 0
      THEN {out([index |-> g0, end |-> g1], IF GlobalOrSticky(r) THEN g1 ELSE r.lastIndex, TRUE) :
              g0, g1 \in Garbage}
      ELSE {out([index |-> m.s, end |-> m.e],
                IF GlobalOrSticky(r) THEN m.e ELSE r.lastIndex, FALSE)}

(* get RegExp.prototype.flags: "g", "i", "m", "y", "u" in that order, for  *)
(* the flags the regexp has (result_buf holds all five and the NUL).       *)
FlagsString(flags) == SelectSeq(<<"g", "i", "m", "y", "u">>, LAMBDA c : c \in flags)

(* The split state between @@split calls.                                  *)
SplitIdle == [re |-> Null, p |-> 0, q |-> 0, lim |-> Undef]

(* @@split step 24.f.iv.5: lengthA = lim; an undefined limit is 2^53-1,    *)
(* which no array of these runs reaches.                                   *)
LimitReached(n, lim) == lim # Undef /\ n = lim

(* ES2015 21.2.5.8 steps 15-19 over the results of @@replace: each match  *)
(* at or after nextSourcePosition is replaced by Repl, its position        *)
(* clamped to [0, lengthS]; the rest of S is appended.                     *)
Clamp(x, len) == IF x > len THEN len ELSE IF x < 0 THEN 0 ELSE x
RECURSIVE AccumulateSkipNoAdvance(_, _, _, _)
AccumulateSkipNoAdvance(S, rs, out, nsp) ==
  IF rs = <<>> THEN IF nsp >= Len(S) THEN out ELSE out \o SubSeq(S, nsp + 1, Len(S))
  ELSE LET pos == Clamp(Head(rs).index, Len(S))
       IN  IF pos >= nsp
           THEN AccumulateSkipNoAdvance(S, Tail(rs), out \o SubSeq(S, nsp + 1, pos) \o <<Repl>>, pos)
           ELSE AccumulateSkipNoAdvance(S, Tail(rs), out, nsp)
RECURSIVE Accumulate(_, _, _, _)
Accumulate(S, rs, out, nsp) ==
  IF rs = <<>> THEN IF nsp >= Len(S) THEN out ELSE out \o SubSeq(S, nsp + 1, Len(S))
  ELSE LET pos == Clamp(Head(rs).index, Len(S))
       IN  IF pos >= nsp
           THEN Accumulate(S, Tail(rs), out \o SubSeq(S, nsp + 1, pos) \o <<Repl>>,
                           pos + (Head(rs).end - Head(rs).index))
           ELSE Accumulate(S, Tail(rs), out, nsp)

-----------------------------------------------------------------------------
Init ==
  /\ rx \in {Initialize(P, F) : P \in Pats, F \in {F \in FlagStrs : ~ParseFlags(F, {}).err}}
  /\ pc = "idle"
  /\ subj = <<>>
  /\ acc = <<>>
  /\ split = SplitIdle
  /\ prev = 0
  /\ callUb = FALSE
  /\ lastExec = [pastEnd |-> FALSE, null |-> TRUE, li |-> 0]
  /\ ret = [op |-> "none", subj |-> <<>>, flags |-> rx.flags, code |-> rx.code, res |-> Null, ub |-> FALSE]

Idle == pc = "idle"

(* new RegExp(pattern, F) (_ejs_RegExp_impl, RegExpAlloc,                  *)
(* RegExpInitialize).  The pattern is a source P (step 7), or the regexp   *)
(* rx itself (step 5: its source, and its original flags string when F is  *)
(* undefined); an undefined F is otherwise the empty string.  A           *)
(* SyntaxError leaves the program's regexp as it was.                      *)
NewRegExp ==
  /\ Idle
  /\ \E fromRx \in BOOLEAN, P \in Pats, F \in FlagStrs \cup {Undef} :
       LET o == Initialize(IF fromRx THEN rx.source ELSE P,
                           IF F # Undef THEN F ELSE IF fromRx THEN rx.flagStr ELSE <<>>)
       IN  /\ rx' = IF o.err THEN rx ELSE o
           /\ ret' = [op |-> "new", subj |-> <<>>, flags |-> o.flags, code |-> o.code, res |-> Null, ub |-> FALSE]
  /\ UNCHANGED <<pc, subj, acc, split, prev, callUb, lastExec>>

(* The program assigns rx.lastIndex (an own writable data property).       *)
SetLastIndex ==
  /\ Idle
  /\ \E v \in LastIndexVals : rx' = [rx EXCEPT !.lastIndex = v]
  /\ UNCHANGED <<pc, subj, acc, split, prev, callUb, lastExec, ret>>

(* The ghost record of a RegExpBuiltinExec(rx, S) with outcome o.          *)
RecordExec(S, o) ==
  lastExec' = [pastEnd |-> o.start > Len(S), null |-> o.res = Null, li |-> o.li]

(* EJS_NOT_IMPLEMENTED in the fullUnicode branch ends the program before   *)
(* lastIndex is written.                                                   *)
Aborted == pc' = "abort" /\ UNCHANGED <<rx, subj, acc, split, prev, ret>>

(* A native call returns r: its locals (S, A, p, q, the splitter) are     *)
(* gone.                                                                   *)
Return(r) ==
  /\ pc' = "idle"
  /\ subj' = <<>> /\ acc' = <<>> /\ split' = SplitIdle /\ prev' = 0 /\ callUb' = FALSE
  /\ ret' = r

(* The substring of S a match [index, end] covers.                        *)
Matched(S, m) == SubSeq(S, m.index + 1, m.end)

(* RegExp.prototype.exec(S), and @@match(S) of a regexp that is not        *)
(* global (step 7: RegExpExec through the builtin exec).                  *)
Exec ==
  /\ Idle
  /\ \E S \in Strs, op \in {"exec", "match"} : \E o \in ExecOutcomes(rx, S) :
       /\ op = "match" => "g" \notin rx.flags
       /\ RecordExec(S, o)
       /\ \/ o.abort /\ Aborted /\ UNCHANGED callUb
          \/ /\ ~o.abort
             /\ rx' = [rx EXCEPT !.lastIndex = o.li]
             /\ Return([op |-> op, subj |-> S, flags |-> rx.flags, code |-> rx.code,
                        res |-> o.res, ub |-> o.ub])

(* @@match(S) of a global regexp, steps 8.a-e: lastIndex = 0; A is empty  *)
(* and previousLastIndex 0, as every local between calls.                 *)
MatchCall ==
  /\ Idle
  /\ "g" \in rx.flags
  /\ \E S \in Strs : subj' = S
  /\ rx' = [rx EXCEPT !.lastIndex = 0]
  /\ pc' = "match"
  /\ UNCHANGED <<acc, split, prev, callUb, lastExec, ret>>

(* @@match step 8.f.iv.3-4: after a match ending at thisIndex, lastIndex   *)
(* moves one further when it did not move.  Mutant: no move.               *)
AdvanceNoBump(thisIndex, p) == [li |-> thisIndex, prev |-> thisIndex]
Advance(thisIndex, p) ==
  IF thisIndex = p THEN [li |-> thisIndex + 1, prev |-> thisIndex + 1]
  ELSE [li |-> thisIndex, prev |-> thisIndex]

(* One iteration of the @@match loop (step 8.f).  A collects matchStr; a  *)
(* value read from an uninitialised ovec is not collected.                 *)
MatchStep ==
  /\ pc = "match"
  /\ Len(acc) < MaxResults
  /\ \E o \in ExecOutcomes(rx, subj) :
       LET ub == callUb \/ o.ub
       IN
       /\ RecordExec(subj, o)
       /\ \/ o.abort /\ Aborted /\ callUb' = ub
          \/ /\ ~o.abort /\ o.res = Null
             /\ rx' = [rx EXCEPT !.lastIndex = o.li]
             /\ Return([op |-> "match", subj |-> subj, flags |-> rx.flags, code |-> rx.code,
                        res |-> IF acc = <<>> THEN Null ELSE acc, ub |-> callUb])
          \/ /\ ~o.abort /\ o.res # Null
             /\ LET adv == Advance(o.li, prev)
                IN  /\ rx' = [rx EXCEPT !.lastIndex = adv.li]
                    /\ prev' = adv.prev
             /\ callUb' = ub
             /\ acc' = IF ub THEN acc ELSE Append(acc, Matched(subj, o.res))
             /\ UNCHANGED <<pc, subj, split, ret>>

(* @@replace(S, Repl) steps 1-13: lastIndex = 0 when global; no results.  *)
ReplaceCall ==
  /\ Idle
  /\ \E S \in Strs : subj' = S
  /\ rx' = IF "g" \in rx.flags THEN [rx EXCEPT !.lastIndex = 0] ELSE rx
  /\ pc' = "replace"
  /\ UNCHANGED <<acc, split, prev, callUb, lastExec, ret>>

(* @@replace returns the accumulation over the results rs.                 *)
ReplaceReturns(rs, ub) ==
  Return([op |-> "replace", subj |-> subj, flags |-> rx.flags, code |-> rx.code,
          res |-> Accumulate(subj, rs, <<>>, 0), ub |-> ub])

(* One iteration of the @@replace loop (step 14): a null result, or the    *)
(* first result of a non-global regexp, ends it; after an empty match of a *)
(* global one lastIndex moves one further.                                 *)
ReplaceStep ==
  /\ pc = "replace"
  /\ Len(acc) < MaxResults
  /\ \E o \in ExecOutcomes(rx, subj) :
       LET ub == callUb \/ o.ub
           rs == IF ub THEN acc ELSE Append(acc, o.res)
       IN
       /\ RecordExec(subj, o)
       /\ \/ o.abort /\ Aborted /\ callUb' = ub
          \/ /\ ~o.abort /\ o.res = Null
             /\ rx' = [rx EXCEPT !.lastIndex = o.li]
             /\ ReplaceReturns(acc, ub)
          \/ /\ ~o.abort /\ o.res # Null /\ "g" \notin rx.flags
             /\ rx' = [rx EXCEPT !.lastIndex = o.li]
             /\ ReplaceReturns(rs, ub)
          \/ /\ ~o.abort /\ o.res # Null /\ "g" \in rx.flags
             /\ rx' = [rx EXCEPT !.lastIndex =
                          IF o.res.index = o.res.end THEN ToLength(o.li) + 1 ELSE o.li]
             /\ acc' = rs
             /\ callUb' = ub
             /\ UNCHANGED <<pc, subj, split, prev, ret>>

(* RegExp.prototype.test(S): pcre16_exec from offset 0, whatever lastIndex *)
(* and the flags are; every return but PCRE_ERROR_NOMATCH is true.  ovec  *)
(* is not read and lastIndex is not written.                               *)
Test ==
  /\ Idle
  /\ \E S \in Strs :
       ret' = [op |-> "test", subj |-> S, flags |-> rx.flags, code |-> rx.code,
               res |-> PcreExec(rx.code, S, 0).rc # -1, ub |-> FALSE]
  /\ UNCHANGED <<rx, pc, subj, acc, split, prev, callUb, lastExec>>

(* @@split(S) returns A.  Creating the substring S[p, size) with p > size *)
(* passes a negative length to _ejs_string_new_substring (ub).             *)
SplitReturns(S, A, ub) ==
  Return([op |-> "split", subj |-> S, flags |-> rx.flags, code |-> rx.code, res |-> A, ub |-> ub])

(* @@split(S, limit) steps 1-23: the splitter is new RegExp(rx, flags),   *)
(* with flags from the getter and no "y" added (steps 11-12 are left     *)
(* out); lim = 0 returns A empty; an empty S is settled by one exec of     *)
(* the splitter (its lastIndex 0); otherwise the loop starts at p = q = 0. *)
SplitCall ==
  /\ Idle
  /\ \E S \in Strs, lim \in Limits :
       LET z == Initialize(rx.source, FlagsString(rx.flags))
       IN  \/ /\ lim = 0
              /\ SplitReturns(S, <<>>, FALSE)
              /\ UNCHANGED lastExec
           \/ /\ lim # 0 /\ S = <<>>
              /\ \E o \in ExecOutcomes(z, S) :
                   /\ RecordExec(S, o)
                   /\ \/ o.abort /\ Aborted /\ UNCHANGED callUb
                      \/ ~o.abort /\ SplitReturns(S, IF o.res # Null THEN <<>> ELSE <<S>>, o.ub)
           \/ /\ lim # 0 /\ S # <<>>
              /\ pc' = "split"
              /\ subj' = S
              /\ split' = [re |-> z, p |-> 0, q |-> 0, lim |-> lim]
              /\ UNCHANGED <<acc, callUb, lastExec, ret>>
  /\ UNCHANGED <<rx, prev>>

(* The test of step 24 after an iteration left A, p, q and the splitter:   *)
(* another iteration while q < size, else steps 25-28 push S[p, size).     *)
SplitGoOn(z, A, p, q, ub) ==
  IF q < Len(subj)
  THEN /\ split' = [split EXCEPT !.re = z, !.p = p, !.q = q]
       /\ acc' = A
       /\ callUb' = ub
       /\ UNCHANGED <<pc, subj, ret>>
  ELSE SplitReturns(subj, Append(A, SubSeq(subj, p + 1, Len(subj))), ub \/ p > Len(subj))

(* One iteration of the @@split loop (step 24): Put lastIndex = q, exec   *)
(* the splitter; on null, or a match leaving e = ToLength(lastIndex) = p, *)
(* q moves one on; otherwise S[p, q) is pushed, lim may end the call, and  *)
(* p = q = e.  The patterns have no captures, so the capture loop (step    *)
(* 24.f.iv.11, EJS_NOT_IMPLEMENTED) is never entered.                      *)
SplitStep ==
  /\ pc = "split"
  /\ Len(acc) < MaxResults
  /\ LET z == [split.re EXCEPT !.lastIndex = split.q]
     IN  \E o \in ExecOutcomes(z, subj) :
           LET zz == [z EXCEPT !.lastIndex = o.li]
               e  == ToLength(o.li)
               A  == Append(acc, SubSeq(subj, split.p + 1, split.q))
               ub == callUb \/ o.ub
           IN  /\ RecordExec(subj, o)
               /\ \/ o.abort /\ Aborted /\ callUb' = ub
                  \/ /\ ~o.abort /\ (o.res = Null \/ e = split.p)
                     /\ SplitGoOn(zz, acc, split.p, split.q + 1, ub)
                  \/ /\ ~o.abort /\ o.res # Null /\ e # split.p
                     /\ LimitReached(Len(A), split.lim)
                     /\ SplitReturns(subj, A, ub)
                  \/ /\ ~o.abort /\ o.res # Null /\ e # split.p
                     /\ ~LimitReached(Len(A), split.lim)
                     /\ SplitGoOn(zz, A, e, e, ub)
  /\ UNCHANGED <<rx, prev>>

Next ==
  \/ NewRegExp \/ SetLastIndex \/ Exec \/ Test
  \/ MatchCall \/ MatchStep \/ ReplaceCall \/ ReplaceStep
  \/ SplitCall \/ SplitStep

(* A native call runs its loop to the end on the calling thread.           *)
Spec == Init /\ [][Next]_vars /\ WF_vars(MatchStep \/ ReplaceStep \/ SplitStep)

-----------------------------------------------------------------------------
(* ES2015 reference for a regexp r that is neither sticky nor unicode: the *)
(* leftmost match at or after i, and the matches @@match and @@replace see  *)
(* (after an empty match the search resumes one code unit later; with     *)
(* these patterns an empty match is found only at the search start).       *)
FirstAt(pat, S, i) ==
  LET hits == {s \in i..Len(S) : MatchEnd(pat, S, s) >= 0}
  IN  IF hits = {} THEN Null ELSE [index |-> Min(hits), end |-> MatchEnd(pat, S, Min(hits))]

RECURSIVE AllMatches(_, _, _)
AllMatches(pat, S, i) ==
  LET m == FirstAt(pat, S, i)
  IN  IF i > Len(S) \/ m = Null THEN <<>>
      ELSE <<m>> \o AllMatches(pat, S, IF m.end = m.index THEN m.end + 1 ELSE m.end)

EsMatches(r, S) ==
  IF "g" \in r.flags THEN AllMatches(r.code, S, 0)
  ELSE IF FirstAt(r.code, S, 0) = Null THEN <<>> ELSE <<FirstAt(r.code, S, 0)>>

RECURSIVE ReplaceRef(_, _, _)
ReplaceRef(S, ms, from) ==
  IF ms = <<>> THEN SubSeq(S, from + 1, Len(S))
  ELSE SubSeq(S, from + 1, Head(ms).index) \o <<Repl>> \o ReplaceRef(S, Tail(ms), Head(ms).end)

(* A call that reads no uninitialised ovec, on a regexp without "y".      *)
Defined(r) == ~r.ub /\ "y" \notin r.flags

(* exec and @@match return what ES2015 says for every lastIndex the        *)
(* program left behind: the first match from 0 when the regexp is not     *)
(* global (RegExpBuiltinExec step 11), and every match in order when it is  *)
(* (the @@match loop with its lastIndex bookkeeping).                      *)
MatchIsEs ==
  /\ ret.op = "exec" /\ Defined(ret) /\ "g" \notin ret.flags
       => ret.res = FirstAt(ret.code, ret.subj, 0)
  /\ ret.op = "match" /\ Defined(ret)
       => IF "g" \in ret.flags
          THEN ret.res = IF EsMatches(ret, ret.subj) = <<>> THEN Null
                         ELSE [k \in DOMAIN EsMatches(ret, ret.subj) |->
                                 Matched(ret.subj, EsMatches(ret, ret.subj)[k])]
          ELSE ret.res = FirstAt(ret.code, ret.subj, 0)

(* @@replace replaces exactly the matches ES2015 finds, and keeps every    *)
(* code unit between them: the collect loop and the accumulation with its  *)
(* nextSourcePosition together.                                            *)
ReplaceIsEs ==
  ret.op = "replace" /\ Defined(ret)
    => ret.res = ReplaceRef(ret.subj, EsMatches(ret, ret.subj), 0)

(* Every @@match, @@replace and @@split call returns (or ends the program  *)
(* in EJS_NOT_IMPLEMENTED) unless it has read an uninitialised ovec: the   *)
(* lastIndex bookkeeping of @@match and @@replace always makes progress    *)
(* past an empty match, and @@split's q, reset to e after each piece,      *)
(* still grows.                                                            *)
RegExpCallsReturn ==
  pc \in {"match", "replace", "split"} ~> (pc \in {"idle", "abort"} \/ callUb)

(* ES2015 21.2.5.2.2 step 16.a (the code's own disabled loop): an exec     *)
(* whose start index is past the end of S returns null and sets lastIndex  *)
(* to 0.                                                                   *)
ExecPastEndIsNull ==
  lastExec.pastEnd => lastExec.null /\ lastExec.li = 0
=============================================================================
