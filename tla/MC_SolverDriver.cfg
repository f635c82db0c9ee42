\* Well-formed solver output; Float and Int traces.
CONSTANTS
  a = a
  b = b
  c = c
  Bases <- MCBases
  Uncertains <- MCUncertains
  TraceTypes = {"float", "int"}
  Outputs <- Z3Outputs
SPECIFICATION Spec
CHECK_DEADLOCK FALSE
PROPERTY
  SolveTerminates
