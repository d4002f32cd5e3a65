\* join's strings array against collections run by its own ToString calls.
SPECIFICATION Spec
CONSTANTS
  a1 = a1
  a2 = a2
  a3 = a3
  a4 = a4
  Addrs <- MCAddrs
  Null = Null
  Atom = Atom
  Comma = Comma
  Vals = {1, 2}
  MaxLen = 2
SYMMETRY Symmetry
INVARIANT JoinReadsLiveStrings
