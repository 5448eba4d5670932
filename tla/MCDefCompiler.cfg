SPECIFICATION FairSpec
CONSTANTS
  Part <- MCPart
  Inputs <- MCInputs
  BaseDef <- MCBaseDef
  StackLimit = 9
INVARIANTS NestingExact DefinedBeforeUse NamesResolve
PROPERTIES CompilationEnds
CHECK_DEADLOCK FALSE
