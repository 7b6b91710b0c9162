\* Keys of up to three parts and two writes.
CONSTANTS
  NameOrder <- MCNames
  Identifiers <- MCIdentifiers
  MaxIndexDigits = 2
  Roots <- MCRoots
  Texts <- MCTexts
  Parts <- MCParts
  Values <- MCNewValues
  MaxParts = 3
  MaxLevels = 5
  MaxWrites = 2
SPECIFICATION ValuesSpec
INVARIANTS
  ValuesTypeOK
  KnownValuesStay
  KeysLead
  KeyTextsReadBack
PROPERTIES
  FailedAssignMakesObjects
  FailedReadKeepsBeginning
CHECK_DEADLOCK FALSE
