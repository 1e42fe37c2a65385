\* Static initialization of an NDEBUG build: the genesis blocks the constructor chains build.
CONSTANTS
  AssertsEnabled = FALSE
  ArgValues <- SelectionArgs
  Numeral <- MCNumeral
  MaxBindArgs = 0
  FdSetSize = 8
  MinCoreFds = 2
  DefaultMaxConn = 200
  RLimits <- MCRLimits
SPECIFICATION Spec
INVARIANT GenesisConsistent
