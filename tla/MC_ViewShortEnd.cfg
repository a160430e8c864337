CONSTANTS
  Inputs <- MCShortEndInputs
  OverflowChecks = FALSE

SPECIFICATION Spec

INVARIANT PathNodeIterSound

\* A caller stops once every iterator it took has returned None.
CHECK_DEADLOCK FALSE
