\* exec, @@match and @@replace of ejs-regexp.c against ES2015, and the
\* termination of the @@match and @@replace loops under weak fairness of
\* their steps.  EJS_NOT_IMPLEMENTED ends the program, so the "abort" state
\* has no successor: deadlock is not checked.
SPECIFICATION Spec
CONSTANTS
  Strs <- MCStrs
  Pats <- MCPats
  FlagStrs <- MCFlagStrs
  LastIndexVals <- MCLastIndexVals
  Garbage <- MCGarbage
  BadPat = BadPat
  NullCode = NullCode
  Null = Null
  Undef = Undef
  Repl = Repl
  Limits <- MCLimits
  MaxResults = 4
INVARIANTS
  TypeOK
  MatchIsEs
  ReplaceIsEs
PROPERTIES
  RegExpCallsReturn
CHECK_DEADLOCK FALSE
