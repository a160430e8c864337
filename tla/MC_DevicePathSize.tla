-------------------------- MODULE MC_DevicePathSize --------------------------
(* Model-checking instance of DevicePathSize: both size walks over the     *)
(* inputs of MC_DevicePathInputs.                                          *)
EXTENDS DevicePathSize, DevicePathTryFromRefinement, MC_DevicePathInputs

=============================================================================
