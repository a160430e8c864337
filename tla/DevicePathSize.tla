---------------------------- MODULE DevicePathSize ----------------------------
(***************************************************************************)
(* The Path View's two ways of finding the extent of a device path, run   *)
(* over the same memory: the bounds-checked walk behind                    *)
(* <&DevicePath>::try_from and the trusted walk behind                     *)
(* DevicePath::from_ffi_ptr.  The two are separate calls on immutable      *)
(* memory, so their steps interleave freely.                               *)
(***************************************************************************)
EXTENDS DevicePathSafeSize, DevicePathTrustedSize

vars == <<buf, safe, trusted>>

Init == buf \in Inputs /\ SafeInit /\ TrustedInit

Next ==
  \/ SafeStep /\ UNCHANGED <<buf, trusted>>
  \/ TrustedStep /\ UNCHANGED <<buf, safe>>

Spec == Init /\ [][Next]_vars

-----------------------------------------------------------------------------
(* Type invariant. *)
TypeOK == SafeTypeOK /\ TrustedTypeOK

(***************************************************************************)
(* The two constructors agree on every memory both have finished on: the   *)
(* safe walk accepts the bytes exactly when the trusted walk returns a     *)
(* size that fits in them, and then both return the same size.  So a path *)
(* that passes try_from may also be handed out through from_ffi_ptr        *)
(* without the trusted walk reading out of bounds or panicking, and a      *)
(* path the safe walk refuses is one on which the trusted walk reads past  *)
(* its memory, panics, or claims more bytes than there are.                *)
(***************************************************************************)
SizesAgree ==
  safe.st # "run" /\ trusted.st # "run" =>
    /\ safe.st = "ok" <=> (trusted.st = "ok" /\ trusted.total <= Len(buf))
    /\ safe.st = "ok" => trusted.total = safe.total

=============================================================================
