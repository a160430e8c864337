CONSTANTS
  Inputs <- MCViewInputs
  OverflowChecks = TRUE

SPECIFICATION Spec

INVARIANT PathNodesExcludeTerminators






\* A caller stops once every iterator it took has returned None, and a path
\* with a panicking header never yields iterators: the system may stop.
CHECK_DEADLOCK FALSE
