\* A debug build, as `cargo test` runs the unit tests, over the iterator
\* inputs and the unit tests' fixture.
CONSTANTS
  Inputs <- MCViewTestInputs
  OverflowChecks = TRUE

SPECIFICATION Spec

INVARIANT PathNodeIterSound
INVARIANT InstancesPartitionPath
INVARIANT InstanceNodeIterSound
INVARIANT TestDevicePathNodes
INVARIANT TestDevicePathInstances
INVARIANT TestNodeFromBytes

\* A caller stops once every iterator it took has returned None, and a path
\* with a panicking header never yields iterators: the system may stop.
CHECK_DEADLOCK FALSE
