\* A status line with no s-expression after it.
CONSTANTS
  a = a
  b = b
  c = c
  Bases <- MCBases
  Uncertains <- MCUncertains
  TraceTypes = {"float", "int"}
  Outputs <- BareOutputs
SPECIFICATION Spec
CHECK_DEADLOCK FALSE
PROPERTY
  SolveTerminates
