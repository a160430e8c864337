------------------------ MODULE MC_DevicePathSafeSize ------------------------
(* Model-checking instance of DevicePathSafeSize: the bounds-checked walk  *)
(* alone over the inputs of MC_DevicePathInputs.                           *)
EXTENDS DevicePathSafeSize, MC_DevicePathInputs

=============================================================================
