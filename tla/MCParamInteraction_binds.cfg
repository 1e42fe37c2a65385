\* Whether the budget of line 641 leaves room for every -bind socket, with up to two -bind addresses.
CONSTANTS
  AssertsEnabled = FALSE
  ArgValues <- SelectionArgs
  Numeral <- MCNumeral
  MaxBindArgs = 2
  FdSetSize = 8
  MinCoreFds = 2
  DefaultMaxConn = 200
  RLimits <- MCRLimits
SPECIFICATION Spec
INVARIANT SelectBudgetCountsBinds
