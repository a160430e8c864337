CONSTANTS
  Inputs <- MCInputs
  OverflowChecks = TRUE

SPECIFICATION Spec

INVARIANT SafeSizeWellFormed
INVARIANT SizesAgree
INVARIANT SafeExtentHoldsTerminator

\* Both walks are function calls that return; once both have, nothing is left.
CHECK_DEADLOCK FALSE

PROPERTY TryFromRefinement
