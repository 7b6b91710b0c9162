\* An asterisk beside a reference.
CONSTANTS
  Keys = {}
  Atoms = {}
  References = {}
  Functions = {}
  MaxTokens = 100
  global_nesting_limit = 8
  Environment <- MCEnvironment
  Files <- MCFiles
  Commands <- MCCommands
  JaxnTexts <- MCJaxnTexts
  ConfigTexts <- MCConfigTexts
  Words <- MCWords
  Printed <- MCPrinted
  NotUtf8 <- MCNotUtf8
  Extensions <- MCExtensions
  ArgumentOrder <- MCArgumentOrder
  NameOrder <- MCNameOrder
  AddDouble <- MCAddDouble
  Bits = 8
  Suites <- MCAsteriskSuites
SPECIFICATION ParserSpec
PROPERTIES
  KeepsPromise
CHECK_DEADLOCK FALSE
