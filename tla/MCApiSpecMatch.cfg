CONSTANTS
  Patterns <- TemplatePatterns
  MaxPatterns = 3
  Chunks <- TemplateChunks
  MaxTemplate = 8
  Methods <- RequestMethods
  Paths <- RequestPaths
  Query <- QueryString
  System <- SystemParameters
SPECIFICATION Spec
INVARIANTS ParserImplementsGrammar LookupIsBestMatch VariablesBindTheirSegments
CHECK_DEADLOCK FALSE
