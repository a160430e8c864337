CONSTANTS
  Inputs <- MCInputs
  OverflowChecks = FALSE

SPECIFICATION SafeFairSpec

PROPERTY SafeTerminates

\* The walk is a function call that returns.
CHECK_DEADLOCK FALSE
