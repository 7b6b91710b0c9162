\* A parser object that is used again after an exception.
CONSTANTS
  Keys <- MCKeysReuse
  Atoms <- MCAtoms
  References <- MCReferences
  Functions <- MCFunctions
  MaxTokens = 4
  global_nesting_limit = 4
SPECIFICATION Spec
INVARIANT MemberIsEmpty
CHECK_DEADLOCK FALSE
