CONSTANTS
  Inputs <- MCInputs
  OverflowChecks = TRUE

SPECIFICATION SafeSpec

INVARIANT SafeNeverPanics

\* The walk is a function call that returns.
CHECK_DEADLOCK FALSE
