CONSTANTS
  Inputs <- MCInputs
  OverflowChecks = FALSE

SPECIFICATION Spec

INVARIANT TypeOK
INVARIANT SizesAgree

\* Both walks are function calls that return; once both have, nothing is left.
CHECK_DEADLOCK FALSE

PROPERTY TryFromRefinement
