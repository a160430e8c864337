\* Four xtask runs: every run after the first creates the disk over an image
\* that an earlier run's test runner left in one of the states a runner can
\* stop in.
CONSTANT MaxRuns = 4

SPECIFICATION Spec

INVARIANT TestDiskVerdict

\* xtask exits after its last run's check.
CHECK_DEADLOCK FALSE
