\* Static initialization of an NDEBUG build, then step 2 over command lines
\* combining the options of the soft-set rules, network selection and the budget.
CONSTANTS
  AssertsEnabled = FALSE
  ArgValues <- AllArgs
  Numeral <- MCNumeral
  MaxBindArgs = 1
  FdSetSize = 8
  MinCoreFds = 2
  DefaultMaxConn = 200
  RLimits <- MCRLimits
SPECIFICATION Spec

INVARIANT TypeOK DocumentedDefaults NetworksSeparated ConnectionBudget
