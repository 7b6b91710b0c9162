\* A function call after another summand.
CONSTANTS
  Keys <- MCKeysReuse
  Atoms <- MCAtoms
  References <- MCReferences
  Functions <- MCFunctions
  MaxTokens = 5
  global_nesting_limit = 4
SPECIFICATION Spec
PROPERTY CallsStayApart
CHECK_DEADLOCK FALSE
