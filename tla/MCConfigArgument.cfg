\* A reference as an argument.
CONSTANTS
  Keys = {}
  Atoms = {}
  References = {}
  Functions = {}
  MaxTokens = 100
  global_nesting_limit = 8
  Environment <- MCEnvironment
  Files <- MCFiles
  Commands <- MCCommands
  JaxnTexts <- MCJaxnTexts
  ConfigTexts <- MCConfigTexts
  Words <- MCWords
  Printed <- MCPrinted
  NotUtf8 <- MCNotUtf8
  Extensions <- MCExtensions
  ArgumentOrder <- MCArgumentOrder
  NameOrder <- MCNameOrder
  AddDouble <- MCAddDouble
  Bits = 8
  Suites <- MCArgumentSuites
SPECIFICATION ParserSpec
PROPERTIES
  CallsAwaitArguments
CHECK_DEADLOCK FALSE
