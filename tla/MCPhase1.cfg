CONSTANTS
  Keys <- MCKeys
  Atoms <- MCAtoms
  References <- MCReferences
  Functions <- MCFunctions
  MaxTokens = 6
  global_nesting_limit = 4
SPECIFICATION Spec
INVARIANTS
  TypeOK
  GuardRestores
  KeyAssertionsHold
  ContinuedElementExists
  ImplicitHoldsNoValue
  NestingBounded
PROPERTIES
  ElementPerValue
  OnlyAssignRemoves
  NewGenerations
CHECK_DEADLOCK FALSE
