---------------------- MODULE DevicePathTryFromRefinement ----------------------
(***************************************************************************)
(* The loop of size_in_bytes_from_slice implements the one-step promise of *)
(* DevicePathTryFrom: while it runs the result is pending, and when it     *)
(* returns it returns the Outcome.                                         *)
(***************************************************************************)
EXTENDS DevicePathSafeSize

\* The Result of <&DevicePath>::try_from, once the loop has returned.
SafeResult ==
  IF safe.st = "ok" THEN [st |-> "ok", total |-> safe.total]
  ELSE [st |-> safe.st, total |-> 0]

TryFrom == INSTANCE DevicePathTryFrom WITH res <- SafeResult

(***************************************************************************)
(* <&DevicePath>::try_from returns exactly what the reference reading of   *)
(* the slice decides: the extent of the first end-entire node when all     *)
(* nodes before it fit, Err(InvalidLength) at the first misfit, and the    *)
(* trap of from_ffi_ptr where a length underflows.                         *)
(***************************************************************************)
TryFromRefinement == TryFrom!TryFromSpec

=============================================================================
